------------------------------- MODULE Shadow -------------------------------
(***************************************************************************)
(* Shadow Mode: runs that observe a live session and journal what the      *)
(* rules decide (backend/app/application/shadow/service.py, workspace.py,  *)
(* adapters/persistence/shadow_store.py).                                  *)
(*                                                                         *)
(* The session's callback fills a bounded queue; one task per run turns it *)
(* into journal entries and outcomes.  Every await is a store call, so an  *)
(* action is the code from one store call to the next, and a store call    *)
(* may fail, or commit without its acknowledgement.  The session is        *)
(* LiveState's market, seen through the records it hands to its readers.   *)
(***************************************************************************)
EXTENDS ShadowRules, SequencesExt

CONSTANTS
    Runs,              \* run ids that may be issued
    Keys,              \* attempt keys
    Creators, Enders,  \* handlers of create and of cancel
    MaxRuns,           \* ShadowLimits.max_runs
    MaxObservations,   \* max_observations
    MaxPending,        \* max_pending_records
    MaxWatches,        \* max_open_watches
    Scenarios          \* bounds: the session's records, and how often the rest may happen

ASSUME ShadowConstants ==
    /\ {MaxRuns, MaxObservations, MaxPending, MaxWatches} \subseteq Nat \ {0}
    /\ None \notin Creators /\ None # "INTERRUPTED"     \* None is nobody and no reason

\* A StreamRecord, or the _Capture taken at a boundary.
Item(kind, k) == [kind |-> kind, k |-> k, prefix |-> {}, available |-> TRUE, c |-> None]

\* What a session hands to its readers: records of confirmed candles, late fills and the
\* rest, in an order of its own; a boundary is confirmed once, and time has an end.
ASSUME ShadowSessions == \A sc \in Scenarios :
    /\ sc.script \in Seq(ToSet(sc.script)) /\ sc.touch \in Seq(ToSet(sc.touch))
    /\ None \notin DOMAIN sc.touch
    /\ \A i \in DOMAIN sc.script : \E item \in {sc.script[i]} :
        /\ item = [Item(item.kind, item.k) EXCEPT !.c = item.c] /\ item.kind # "CAPTURE"
        /\ item.kind \in {"CANDLE", "LATE"} => item.k \in DOMAIN sc.touch
        /\ \A j \in DOMAIN sc.script :
            item.kind = "CANDLE" /\ sc.script[j].kind = "CANDLE" /\ sc.script[j].k = item.k => i = j

VARIABLES
    session,    \* the LiveSession: its confirmed driver candles, corrections and life
    slots,      \* ShadowRunner._runs
    held,       \* ShadowWorkspace._runs
    readers,    \* runs attached to the session
    run,        \* _RunState of each run and where its task is
    lock, closed, creators, enders,     \* _create_lock, _closed, handlers
    rows, journal, outcomes, attempts,  \* the database
    recovery,   \* recover_interrupted_runs, run at start before anything else
    budget
database == <<rows, journal, outcomes, attempts>>
handlers == <<lock, closed, creators, enders, recovery>>
vars == <<session, slots, held, readers, run, handlers, database, budget>>

Spend(what) == budget[what] > 0 /\ budget' = [budget EXCEPT ![what] = @ - 1]

NewRun ==
    [pc |-> "NONE", pending |-> <<>>, overflowed |-> FALSE, finished |-> FALSE,
     cancelled |-> FALSE, ended |-> None, seq |-> 0, observations |-> 0, decisions |-> 0,
     entries |-> 0, evaluated |-> {}, watches |-> {}, published |-> {}, item |-> None,
     entry |-> None, then |-> None, records |-> {}, failed |-> FALSE, dropped |-> {}]

-----------------------------------------------------------------------------
(***************************************************************************)
(* The stream callback.                                                    *)
(***************************************************************************)
\* availability of the driver: no missing interval and no contested candle
Available(book, contested) == contested = {} /\ (book = {} \/ Cardinality(book) = Max(book))

\* _confirmed_at: the confirmed candles whose coverage ended at or before a boundary
ConfirmedAt(book, boundary) == {j \in book : j <= boundary}

\* _capture: the evidence of a new confirmed boundary is frozen at that boundary
Captured(item, book, contested) ==
    [item EXCEPT !.kind = "CAPTURE", !.prefix = ConfirmedAt(book, item.k),
                 !.available = Available(book, contested)]

\* observer.record: a full queue drops the record and says so
Observed(s, item) ==
    IF s.finished THEN s
    ELSE IF Len(s.pending) >= MaxPending
    THEN [s EXCEPT !.overflowed = TRUE,
                   !.dropped = @ \cup (IF item.kind = "CAPTURE" THEN {item.k} ELSE {})]
    ELSE [s EXCEPT !.pending = Append(@, item)]

\* The session applies its next event and tells its readers.
Emit ==
    /\ session.life = "RUNNING" /\ session.script # <<>>
    /\ LET item == Head(session.script)
           book == session.book \cup (IF item.kind \in {"CANDLE", "LATE"} THEN {item.k} ELSE {})
           contested == session.contested \cup
                          (IF item.kind = "CONFLICT" /\ item.c.tf = "DRIVER" THEN {item.k} ELSE {})
           told == IF item.kind = "CANDLE" THEN Captured(item, book, contested) ELSE item
       IN  /\ session' = [session EXCEPT !.script = Tail(@), !.book = book,
                                         !.contested = contested,
                                         !.seen = IF item.kind = "CANDLE"
                                                  THEN [@ EXCEPT ![item.k] = told.prefix] ELSE @]
           /\ run' = [r \in Runs |-> IF r \in readers THEN Observed(run[r], told) ELSE run[r]]
    /\ UNCHANGED <<slots, held, readers, handlers, database, budget>>

\* The session ends by itself, or its user ends or removes it.
SessionEnds ==
    /\ \/ session.life = "RUNNING" /\ session.script = <<>> /\ UNCHANGED budget
          /\ session' = [session EXCEPT !.life = "ENDED", !.reason = "STREAM_ENDED"]
       \/ session.life = "RUNNING" /\ Spend("ends")
          /\ session' = [session EXCEPT !.life = "ENDED", !.reason = "CANCELLED"]
       \/ session.life = "ENDED" /\ Spend("ends")
          /\ session' = [session EXCEPT !.life = "GONE"]
    /\ UNCHANGED <<slots, held, readers, run, handlers, database>>

-----------------------------------------------------------------------------
(***************************************************************************)
(* The run's task: follow, _consume and _finish.                           *)
(***************************************************************************)
Entry(what, marker, at) == [seq |-> 0, what |-> what, marker |-> marker, at |-> at, bars |-> {}]

\* Mutant: the evidence is read when the boundary is evaluated, not when it closed.
DecisionAsOfNow(outcome, item) ==
    [seq |-> 0, what |-> "DECISION", marker |-> outcome, at |-> item.k,
     bars |-> {j \in session.book : j <= item.k}]

\* ShadowDecision of kind DECISION, on the captured evidence
Decision(outcome, item) ==
    [seq |-> 0, what |-> "DECISION", marker |-> outcome, at |-> item.k, bars |-> item.prefix]

\* the task appends an entry next, numbered by _next
Writing(s, entry, then) ==
    [s EXCEPT !.pc = "WRITE", !.seq = @ + 1, !.entry = [entry EXCEPT !.seq = s.seq + 1],
              !.then = then]

\* _finish, once what was open is settled: RUN_ENDED, then the row
Closing(s) == Writing(s, Entry("RUN_ENDED", s.ended, None), "ENDED")

\* ShadowOutcomeRecord of each settled watch, and _publish if there are any
Publishing(s, settled, development) ==
    [s EXCEPT !.pc = "PUBLISH",
              !.records = {[at |-> b, development |-> development[b]] : b \in settled}]

\* _advance_watches; what follows it depends on where it was called
Advanced(s, prefix, exhausted) ==
    LET development == [b \in s.watches |->
                          ObserveDevelopment(b, prefix, session.touch, exhausted)]
        settled == {b \in s.watches : development[b].state # "PENDING"}
        next == [s EXCEPT !.watches = @ \ settled,
                          !.published = @ \cup {[at |-> b, to |-> development[b].to] :
                                  b \in {b \in settled : development[b].to # None}}]
    IN IF settled # {} THEN Publishing(next, settled, development)
       ELSE IF s.finished THEN Closing(s) ELSE [s EXCEPT !.pc = "LOOP"]

EndReasonFor == IF session.reason = None THEN "CANCELLED" ELSE session.reason

\* _final_series: the session's book as it stands when the run ends
FinalSeries == session.book

\* _finish begins: every question still open is settled from the session's book
Finishing(s) ==
    Advanced([s EXCEPT !.finished = TRUE, !.ended = IF @ = None THEN EndReasonFor ELSE @],
             FinalSeries, TRUE)

\* _consume after an item: stop if an end was asked for or found
AfterItem(s) == IF s.ended # None THEN Finishing(s) ELSE [s EXCEPT !.pc = "LOOP"]

\* Mutant: a correction is held against open follow-ups only.
PublishedContestedNever(s, c) == {}

\* the settled developments whose evidence a correction contests
PublishedContested(s, c) == {p \in s.published : Contests(c, p.at, p.to)}

\* _invalidate: an INVALIDATED development for every follow-up that read the candle
Invalidating(s, c) ==
    LET open == {b \in s.watches : Contests(c, b, None)}
        stood == PublishedContested(s, c)
        all == open \cup {p.at : p \in stood}
        next == [s EXCEPT !.watches = @ \ open, !.published = @ \ stood]
    IN IF all = {} THEN AfterItem(next)
       ELSE Publishing(next, all, [b \in all |-> Invalidated])

\* _supersede: one entry naming the first affected boundary, if there is one
Superseding(s, c) ==
    LET affected == {b \in s.evaluated : b >= c.at}
    IN IF affected = {} THEN Invalidating(s, c)
       ELSE Writing(s, Entry("DECISION_SUPERSEDED", c, Min(affected)), "INVALIDATE")

\* _watch: only a proposed entry is followed, while there is room
Watched(s) ==
    IF s.entry.marker = "ENTRY_INTENT" /\ Cardinality(s.watches) < MaxWatches
    THEN [s EXCEPT !.watches = @ \cup {s.entry.at}] ELSE s

\* where the task goes once its entry is in the journal
Written(s) ==
    CASE s.then = "NEXT" -> AfterItem(s)
      [] s.then = "EVALUATED" ->
            LET decided == IF s.entry.marker = "UNAVAILABLE" THEN 0 ELSE 1
                next == Advanced(Watched([s EXCEPT !.decisions = @ + decided]),
                                 s.item.prefix, FALSE)
            IN IF next.pc = "LOOP" THEN AfterItem(next) ELSE next
      [] s.then = "CONTESTED" -> Superseding(s, s.item.c)
      [] s.then = "INVALIDATE" -> Invalidating(s, s.item.c)
      [] s.then = "ENDED" -> [s EXCEPT !.pc = "CLOSE"]

OnlyRun(r, s) == run' = [run EXCEPT ![r] = s]

\* The task is over: _observe detaches the reader and forgets the run.
Leaves(r) == readers' = readers \ {r} /\ held' = held \ {r}

InTask == UNCHANGED <<session, slots, held, readers, handlers>>

\* _on_record: what a record that is not a new boundary leaves in the journal
Recorded(s, item) ==
    CASE item.kind = "LATE" -> Writing(s, Entry("LATE_FILL", None, item.k), "NEXT")
      [] item.kind = "SIGNAL" -> Writing(s, Entry("PROVIDER", item.k, None), "NEXT")
      [] item.kind = "REJECTED" -> Writing(s, Entry("OBSERVATION_REFUSED", None, None), "NEXT")
      [] item.kind = "CONFLICT" /\ item.c.tf \in {"DRIVER", "HIGHER"} ->
            Writing([s EXCEPT !.item = item],
                    Entry("CONFLICTING_CORRECTION", item.c, item.k), "CONTESTED")
      [] OTHER -> AfterItem(s)

TakeRecord(r) ==
    /\ run[r].pc = "LOOP" /\ run[r].pending # <<>> /\ Head(run[r].pending).kind # "CAPTURE"
    /\ OnlyRun(r, Recorded([run[r] EXCEPT !.pending = Tail(@)], Head(run[r].pending)))
    /\ UNCHANGED <<database, budget>> /\ InTask

\* what the strategy may say of a boundary, and whatever the risk engine makes of an entry
PossibleOutcomes ==
    {OutcomeFor(kind, financial) : kind \in {"NO_SIGNAL", "WAIT", "ENTRY_INTENT", "EXIT_INTENT"},
        financial \in {Financial(configured, verified, sizing) :
            configured \in BOOLEAN, verified \in BOOLEAN,
            sizing \in {"ALLOWED", "NOT_PERMITTED", "INVALID", "UNDETERMINED"}}}

\* _evaluate: the limit, eligibility, then the strategy and the risk engine decide, or
\* the strategy fails
Evaluate(r) ==
    /\ run[r].pc = "LOOP" /\ run[r].pending # <<>> /\ Head(run[r].pending).kind = "CAPTURE"
    /\ LET item == Head(run[r].pending)
           s == [run[r] EXCEPT !.pending = Tail(@), !.item = item]
           t == [s EXCEPT !.evaluated = @ \cup {item.k}, !.observations = @ + 1]
           eligible == Eligibility(item.available, item.prefix) = "ELIGIBLE"
       IN \/ /\ s.observations >= MaxObservations
             /\ OnlyRun(r, Writing([s EXCEPT !.ended = "OBSERVATION_LIMIT"],
                                   Entry("RUN_ENDED", "limit", item.k), "NEXT"))
             /\ UNCHANGED budget
          \/ /\ s.observations < MaxObservations /\ ~eligible
             /\ OnlyRun(r, Writing(t, Decision("UNAVAILABLE", item), "EVALUATED"))
             /\ UNCHANGED budget
          \/ /\ s.observations < MaxObservations /\ eligible
             /\ \E outcome \in PossibleOutcomes :
                   OnlyRun(r, Writing(t, Decision(outcome, item), "EVALUATED"))
             /\ UNCHANGED budget
          \/ /\ s.observations < MaxObservations /\ eligible /\ Spend("faults")
             /\ OnlyRun(r, Writing([t EXCEPT !.ended = "EVALUATION_ERROR"],
                                   Entry("EVALUATION_FAILED", "strategy", item.k), "NEXT"))
    /\ UNCHANGED database /\ InTask

\* Mutant: a run waiting for records does not notice that it was cancelled.
OverWithItsSession(r) == session.life # "RUNNING"

\* The task's first step looks its session up.  Removed by now, it raises: the task is over
\* before it followed anything, and the row and the slot stay as creation left them.
TaskStarts(r) ==
    /\ run[r].pc = "START"
    /\ IF session.life = "GONE"
       THEN OnlyRun(r, [run[r] EXCEPT !.pc = "DONE"]) /\ Leaves(r)
       ELSE OnlyRun(r, [run[r] EXCEPT !.pc = "LOOP"]) /\ UNCHANGED <<readers, held>>
    /\ UNCHANGED <<session, slots, handlers, database, budget>>

\* finished: the session is over or the run was cancelled
Over(r) == session.life # "RUNNING" \/ run[r].cancelled

\* the queue is empty: overflowed, or nothing more will come
RunsOut(r) ==
    /\ run[r].pc = "LOOP" /\ run[r].pending = <<>>
    /\ \/ /\ run[r].overflowed
          /\ OnlyRun(r, Writing([run[r] EXCEPT !.ended = "PROVIDER_ERROR"],
                                Entry("EVALUATION_FAILED", "overflow", None), "NEXT"))
       \/ /\ ~run[r].overflowed /\ Over(r)
          /\ OnlyRun(r, Finishing(run[r]))
    /\ UNCHANGED <<database, budget>> /\ InTask

-----------------------------------------------------------------------------
(***************************************************************************)
(* Store calls of the task.                                                *)
(***************************************************************************)
KeyOf(e) == [e EXCEPT !.seq = 0]

\* append: ON CONFLICT (run, decision_key) DO NOTHING
Appended(log, e) ==
    IF \E i \in DOMAIN log : KeyOf(log[i]) = KeyOf(e) THEN log ELSE Append(log, e)

\* append_outcomes: ON CONFLICT (run, outcome_key) DO NOTHING
AppendedAll(log, new) == log \o SetToSeq(new \ ToSet(log))

\* A store call raised: from _consume it leads to _finish, from _finish out of the task,
\* which leaves the runner's slot behind.
Raised(r) ==
    LET s == [run[r] EXCEPT !.failed = TRUE]
    IN  /\ Spend("faults")
        /\ IF s.finished
           THEN OnlyRun(r, [s EXCEPT !.pc = "DONE"]) /\ Leaves(r)
           ELSE OnlyRun(r, Finishing(s)) /\ UNCHANGED <<readers, held>>
        /\ UNCHANGED <<session, slots, handlers, rows, attempts>>

WriteEntry(r) ==
    /\ run[r].pc = "WRITE"
    /\ journal' = [journal EXCEPT ![r] = Appended(@, run[r].entry)]
    /\ OnlyRun(r, Written([run[r] EXCEPT !.entries = @ + Len(journal'[r]) - Len(journal[r])]))
    /\ UNCHANGED <<rows, outcomes, attempts, budget>> /\ InTask

PublishOutcomes(r) ==
    /\ run[r].pc = "PUBLISH"
    /\ outcomes' = [outcomes EXCEPT ![r] = AppendedAll(@, run[r].records)]
    /\ OnlyRun(r, IF run[r].finished THEN Closing(run[r]) ELSE AfterItem(run[r]))
    /\ UNCHANGED <<rows, journal, attempts, budget>> /\ InTask

\* the call fails, before or after its commit
StoreFails(r) ==
    \/ run[r].pc = "WRITE" /\ Raised(r) /\ UNCHANGED outcomes
       /\ \/ UNCHANGED journal
          \/ journal' = [journal EXCEPT ![r] = Appended(@, run[r].entry)]
    \/ run[r].pc = "PUBLISH" /\ Raised(r) /\ UNCHANGED journal
       /\ \/ UNCHANGED outcomes
          \/ outcomes' = [outcomes EXCEPT ![r] = AppendedAll(@, run[r].records)]

\* finish_run
RowClosed(r) ==
    rows' = [rows EXCEPT ![r] = [@ EXCEPT !.status = "ENDED", !.reason = run[r].ended,
               !.observations = run[r].observations, !.decisions = run[r].decisions,
               !.entries = run[r].entries]]

FinishRun(r) ==
    /\ run[r].pc = "CLOSE"
    /\ RowClosed(r)
    /\ OnlyRun(r, [run[r] EXCEPT !.pc = "DONE"])
    /\ slots' = slots \ {r} /\ Leaves(r)
    /\ UNCHANGED <<session, handlers, journal, outcomes, attempts, budget>>

FinishFails(r) ==
    /\ run[r].pc = "CLOSE" /\ Spend("faults")
    /\ UNCHANGED rows \/ RowClosed(r)
    /\ OnlyRun(r, [run[r] EXCEPT !.pc = "DONE", !.failed = TRUE])
    /\ Leaves(r)
    /\ UNCHANGED <<session, slots, handlers, journal, outcomes, attempts>>

Task(r) == TaskStarts(r) \/ TakeRecord(r) \/ Evaluate(r) \/ RunsOut(r) \/ WriteEntry(r) \/ PublishOutcomes(r)
             \/ FinishRun(r)

-----------------------------------------------------------------------------
(***************************************************************************)
(* Creation, under the lock.                                               *)
(***************************************************************************)
NoCreator == [phase |-> "IDLE", key |-> None, run |-> None]

CreateAsk(h, key) ==
    /\ creators[h].phase = "IDLE" /\ ~closed /\ session.life # "GONE" /\ recovery = {}
    /\ Spend("creates")
    /\ creators' = [creators EXCEPT ![h] = [phase |-> "LOCK", key |-> key, run |-> None]]
    /\ UNCHANGED <<session, slots, held, readers, run, lock, closed, enders, recovery, database>>

\* a key already used
Claimed(key) == key \in DOMAIN attempts

\* find_attempt answers: a retry is answered (or conflicts), a refusal raised, or the run
\* is opened and attached.  A session removed meanwhile raises after the slot was taken.
CreateOpen(h) ==
    /\ creators[h].phase = "LOCK" /\ lock = None
    /\ LET refused == closed \/ Claimed(creators[h].key) \/ Cardinality(slots) >= MaxRuns
           r == CHOOSE i \in Runs : rows[i] = None /\ run[i].pc = "NONE" /\ i \notin slots
           free == \E i \in Runs : rows[i] = None /\ run[i].pc = "NONE" /\ i \notin slots
       IN \/ /\ refused \/ (session.life = "ENDED")     \* nothing is kept
             /\ creators' = [creators EXCEPT ![h] = NoCreator]
             /\ UNCHANGED <<slots, held, readers, run, lock>>
          \/ /\ ~refused /\ session.life = "GONE" /\ free
             /\ slots' = slots \cup {r}
             /\ creators' = [creators EXCEPT ![h] = NoCreator]
             /\ UNCHANGED <<held, readers, run, lock>>
          \/ /\ ~refused /\ session.life = "RUNNING" /\ free
             /\ slots' = slots \cup {r} /\ held' = held \cup {r} /\ readers' = readers \cup {r}
             /\ lock' = h
             /\ run' = [run EXCEPT ![r] = [NewRun EXCEPT !.pc = "CREATING"]]
             /\ creators' = [creators EXCEPT ![h].phase = "ROW", ![h].run = r]
    /\ UNCHANGED <<session, closed, enders, recovery, database, budget>>

\* begin failed: the slot, the reader and the run are given back
GivenBack(h) ==
    /\ slots' = slots \ {creators[h].run}
    /\ Leaves(creators[h].run)
    /\ run' = [run EXCEPT ![creators[h].run].pc = "DONE"]
    /\ creators' = [creators EXCEPT ![h] = NoCreator]
    /\ lock' = None

NewRow ==
    [status |-> "OBSERVING", reason |-> None, observations |-> 0, decisions |-> 0, entries |-> 0]

\* the row and its attempt key
RowInserted(h) ==
    /\ rows' = [rows EXCEPT ![creators[h].run] = NewRow]
    /\ attempts' = [k \in DOMAIN attempts \cup {creators[h].key} |->
                      IF k = creators[h].key THEN creators[h].run ELSE attempts[k]]

\* create_run commits, or fails before or after its commit
CreateRow(h) ==
    /\ creators[h].phase = "ROW"
    /\ \/ /\ RowInserted(h) /\ UNCHANGED budget
          /\ creators' = [creators EXCEPT ![h].phase = "OPENED"]
          /\ UNCHANGED <<slots, held, readers, lock>>
          /\ run' = [run EXCEPT ![creators[h].run].seq = 1]
       \/ GivenBack(h) /\ Spend("faults") /\ UNCHANGED <<rows, attempts>>
       \/ GivenBack(h) /\ Spend("faults") /\ RowInserted(h)
    /\ UNCHANGED <<session, closed, enders, recovery, journal, outcomes>>

\* RUN_OPENED is written and the task created, unless the run was cancelled meanwhile:
\* then its entry is gone and creation raises
CreateOpened(h) ==
    /\ creators[h].phase = "OPENED"
    /\ LET r == creators[h].run
           opened == [Entry("RUN_OPENED", None, None) EXCEPT !.seq = 1]
           written == journal' = [journal EXCEPT ![r] = Appended(@, opened)]
       IN \/ /\ written
             /\ run' = [run EXCEPT ![r].entries = 1,
                                   ![r].pc = IF r \in held THEN "START" ELSE "DONE"]
             /\ creators' = [creators EXCEPT ![h] = NoCreator]
             /\ lock' = None
             /\ UNCHANGED <<slots, held, readers, budget>>
          \/ GivenBack(h) /\ Spend("faults") /\ (UNCHANGED journal \/ written)
    /\ UNCHANGED <<session, closed, enders, recovery, rows, outcomes, attempts>>

\* observing_runs
Observing == {r \in Runs : rows[r] # None /\ rows[r].status = "OBSERVING"}
Ended == {r \in Runs : rows[r] # None /\ rows[r].status = "ENDED"}

-----------------------------------------------------------------------------
(***************************************************************************)
(* Cancel and shutdown.                                                    *)
(***************************************************************************)
NoEnder == [phase |-> "IDLE", todo |-> <<>>, reason |-> None]

CancelAsk(e, r) ==
    /\ enders[e].phase = "IDLE" /\ recovery = {} /\ r \in held /\ Spend("cancels")
    /\ enders' = [enders EXCEPT ![e] = [phase |-> "END", todo |-> <<r>>, reason |-> "CANCELLED"]]
    /\ UNCHANGED <<session, slots, held, readers, run, lock, closed, creators, recovery, database>>

\* shutdown closes, then waits for a creation in flight
ShutdownAsk(e) ==
    /\ enders[e].phase = "IDLE" /\ recovery = {} /\ ~closed /\ Spend("shutdowns")
    /\ closed' = TRUE
    /\ enders' = [enders EXCEPT ![e] = [phase |-> "LOCK", todo |-> <<>>, reason |-> "SHUTDOWN"]]
    /\ UNCHANGED <<session, slots, held, readers, run, lock, creators, recovery, database>>

ShutdownCollect(e) ==
    /\ enders[e].phase = "LOCK" /\ lock = None
    /\ enders' = [enders EXCEPT ![e].phase = "END", ![e].todo = SetToSeq(held)]
    /\ UNCHANGED <<session, slots, held, readers, run, lock, closed, creators, recovery, database,
                   budget>>

\* _end of the next run: already over, or its end is requested; a run that has no task yet
\* is forgotten at once
EndAsk(e) ==
    /\ enders[e].phase = "END"
    /\ IF enders[e].todo = <<>>
       THEN enders' = [enders EXCEPT ![e] = NoEnder] /\ UNCHANGED <<run, held, readers>>
       ELSE LET r == Head(enders[e].todo)
            IN IF r \notin held \/ r \notin Observing
               THEN /\ enders' = [enders EXCEPT ![e].todo = Tail(@)]
                    /\ UNCHANGED <<run, held, readers>>
               ELSE /\ run' = [run EXCEPT ![r].cancelled = TRUE,
                                 ![r].ended = IF r \in slots /\ @ = None THEN enders[e].reason
                                              ELSE @]
                    /\ IF run[r].pc = "CREATING"
                       THEN enders' = [enders EXCEPT ![e].todo = Tail(@)] /\ Leaves(r)
                       ELSE /\ enders' = [enders EXCEPT ![e].phase = "WAIT"]
                            /\ UNCHANGED <<held, readers>>
    /\ UNCHANGED <<session, slots, lock, closed, creators, recovery, database, budget>>

\* the task is done, or the wait of five seconds is over: a task that was about to start has
\* started by then
EndReturn(e) ==
    /\ enders[e].phase = "WAIT"
    /\ LET r == Head(enders[e].todo)
       IN  /\ \/ run[r].pc = "DONE" /\ UNCHANGED budget
              \/ run[r].pc \notin {"DONE", "START"} /\ Spend("timeouts")
           /\ Leaves(r)
    /\ enders' = [enders EXCEPT ![e].phase = "END", ![e].todo = Tail(@)]
    /\ UNCHANGED <<session, slots, run, lock, closed, creators, recovery, database>>

-----------------------------------------------------------------------------
(***************************************************************************)
(* A crash, and the next start.                                            *)
(***************************************************************************)
\* The process stops: memory is lost, the session with it, and the next start finds the
\* runs that were observing.
Crash ==
    /\ Spend("crashes")
    /\ session' = [session EXCEPT !.life = "GONE"]
    /\ slots' = {} /\ held' = {} /\ readers' = {} /\ lock' = None /\ closed' = FALSE
    /\ run' = [r \in Runs |-> IF run[r].pc = "NONE" THEN NewRun
                              ELSE [NewRun EXCEPT !.pc = "DONE", !.failed = run[r].failed]]
    /\ creators' = [h \in Creators |-> NoCreator]
    /\ enders' = [e \in Enders |-> NoEnder]
    /\ recovery' = {[run |-> r, phase |-> "APPEND"] : r \in Observing}
    /\ UNCHANGED database

LastSequence(r) == Max({0} \cup {journal[r][i].seq : i \in DOMAIN journal[r]})

\* the final entry, one past the last
RecoverAppend ==
    \E todo \in recovery :
        /\ todo.phase = "APPEND"
        /\ journal' = [journal EXCEPT ![todo.run] =
              Appended(@, [Entry("RUN_ENDED", "interrupted", None)
                             EXCEPT !.seq = LastSequence(todo.run) + 1])]
        /\ recovery' = (recovery \ {todo}) \cup {[todo EXCEPT !.phase = "CLOSE"]}
        /\ UNCHANGED <<session, slots, held, readers, run, lock, closed, creators, enders, rows,
                       outcomes, attempts, budget>>

\* the journal's decisions that are not UNAVAILABLE
Decided(log) == {i \in DOMAIN log : log[i].what = "DECISION" /\ log[i].marker # "UNAVAILABLE"}

\* Mutant: the row is closed with the counts it was opened with.
InterruptedUncounted(r) == [rows[r] EXCEPT !.status = "ENDED", !.reason = "INTERRUPTED"]

\* interrupt: the counts come from the journal, and only an observing run is closed
Interrupted(r) ==
    [rows[r] EXCEPT !.status = "ENDED", !.reason = "INTERRUPTED",
        !.entries = Len(journal[r]), !.decisions = Cardinality(Decided(journal[r])),
        !.observations = Cardinality({i \in DOMAIN journal[r] : journal[r][i].what = "DECISION"})]

RecoverClose ==
    \E todo \in recovery :
        /\ todo.phase = "CLOSE"
        /\ rows' = [rows EXCEPT ![todo.run] = Interrupted(todo.run)]
        /\ recovery' = recovery \ {todo}
        /\ UNCHANGED <<session, slots, held, readers, run, lock, closed, creators, enders,
                       journal, outcomes, attempts, budget>>

Recover == RecoverAppend \/ RecoverClose

-----------------------------------------------------------------------------
Init ==
    /\ budget \in Scenarios
    /\ session = [script |-> budget.script, touch |-> budget.touch, book |-> {},
                  contested |-> {}, life |-> "RUNNING", reason |-> None,
                  seen |-> [k \in DOMAIN budget.touch |-> {}]]
    /\ slots = {} /\ held = {} /\ readers = {} /\ lock = None /\ closed = FALSE
    /\ run = [r \in Runs |-> NewRun]
    /\ creators = [h \in Creators |-> NoCreator]
    /\ enders = [e \in Enders |-> NoEnder]
    /\ rows = [r \in Runs |-> None]
    /\ journal = [r \in Runs |-> <<>>]
    /\ outcomes = [r \in Runs |-> <<>>]
    /\ attempts = [k \in {} |-> None]
    /\ recovery = {}

Handlers ==
    \/ \E h \in Creators : CreateOpen(h) \/ CreateRow(h) \/ CreateOpened(h)
    \/ \E e \in Enders : ShutdownCollect(e) \/ EndAsk(e) \/ EndReturn(e)

Next ==
    \/ Emit \/ SessionEnds
    \/ \E r \in Runs : Task(r) \/ StoreFails(r) \/ FinishFails(r)
    \/ Handlers
    \/ \E h \in Creators, key \in Keys : CreateAsk(h, key)
    \/ \E e \in Enders, r \in Runs : CancelAsk(e, r)
    \/ \E e \in Enders : ShutdownAsk(e)
    \/ Crash \/ Recover

Spec == Init /\ [][Next]_vars

\* The event loop resumes what can run, and a start finishes its recovery.
FairSpec == Spec /\ WF_vars((\E r \in Runs : Task(r)) \/ Handlers \/ Recover)

-----------------------------------------------------------------------------
(***************************************************************************)
(* Properties.                                                             *)
(***************************************************************************)
\* What a decision read is exactly what the session had confirmed up to its boundary when
\* that boundary closed, however far behind the consumer was: lag changes when a decision
\* is written, never what it says (_capture).
LagNeverChangesADecision ==
    \A r \in Runs : \A i \in DOMAIN journal[r] :
        journal[r][i].what = "DECISION" => journal[r][i].bars = session.seen[journal[r][i].at]

\* the newest published development of each followed decision
Latest(log) == {i \in DOMAIN log : \A j \in DOMAIN log : log[j].at = log[i].at => j <= i}

\* Once a correction of a driver candle is journalled and worked through, no development
\* it contests stands as OBSERVED, published before or open at the time (_on_conflict).
ContestedNeverStands ==
    \A r \in Runs : \A i \in DOMAIN journal[r] :
        (/\ journal[r][i].what = "CONFLICTING_CORRECTION" /\ journal[r][i].marker.tf = "DRIVER"
         /\ run[r].pc \in {"LOOP", "CLOSE"} /\ ~run[r].failed) =>
            \A j \in Latest(outcomes[r]) :
                LET o == outcomes[r][j]
                IN o.development.state = "OBSERVED" =>
                       ~Contests(journal[r][i].marker, o.at, o.development.to)

\* The row of an ended run counts what its journal holds, whether the run closed itself
\* without the store failing it or the next start closed it, and its journal ends with an
\* entry saying so (_finish, recover_interrupted_runs).
RowCountsItsJournal ==
    \A r \in Ended : (~run[r].failed \/ rows[r].reason = "INTERRUPTED") =>
        /\ rows[r].entries = Len(journal[r])
        /\ rows[r].decisions = Cardinality(Decided(journal[r]))
        /\ journal[r] # <<>> /\ Last(journal[r]).what = "RUN_ENDED"
        /\ \A i, j \in DOMAIN journal[r] : i < j => journal[r][i].seq < journal[r][j].seq

\* the session was removed before the run's task looked it up, so nothing ever ends the run
NeverFollowed(r) == run[r].pc = "DONE" /\ ~run[r].finished /\ session.life = "GONE"

\* A run whose task was created ends, with its row, once its session is over or it is
\* cancelled, unless the store failed it; only a run whose session was removed before its
\* task began is left observing, and a row left observing, whatever left it, is closed by
\* the next start (_observe, follow, recover_interrupted_runs).
EveryRunEnds ==
    \A r \in Runs :
        /\ (/\ run[r].pc \in {"START", "LOOP"}
            /\ session.life # "RUNNING" \/ run[r].cancelled) ~>
               (r \in Ended \/ run[r].failed \/ NeverFollowed(r))
        /\ (r \in Observing /\ recovery # {}) ~> r \in Ended

=============================================================================
