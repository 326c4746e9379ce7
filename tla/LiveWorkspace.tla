--------------------------- MODULE LiveWorkspace ---------------------------
(***************************************************************************)
(* Live sessions and what runs around them                                 *)
(* (backend/app/application/live/workspace.py, session.py, buffer.py,      *)
(* registry.py): one task per session reading a bounded buffer, creation   *)
(* under a lock, cancellation, removal, eviction, shutdown, analyses, a    *)
(* bounded timeline and bounded readers.                                   *)
(*                                                                         *)
(* asyncio runs the code between two awaits without interruption, so an    *)
(* action is the code from one await to the next.  A market is abstracted  *)
(* to the integrity, freshness and version of its one book: LiveBook and   *)
(* LiveState model those in full.                                          *)
(***************************************************************************)
EXTENDS Optional, Integers, Sequences, FiniteSets, SequencesExt

CONSTANTS
    Sessions,          \* session ids that may be issued
    Clients,           \* readers of the event stream
    Creators,          \* handlers of create
    Stoppers,          \* handlers of cancel and remove
    Analysers,         \* handlers of analyse
    MaxSessions,       \* WorkspaceLimits.max_sessions
    MaxCreations,      \* creations_per_minute
    MaxSubscribers,    \* max_subscribers_per_session (and in total)
    QueueSize,         \* subscriber_queue
    Retention,         \* timeline_retention
    PageMax,           \* timeline_page_max
    MaxAnalyses,       \* max_concurrent_analyses
    BufferSize,        \* capacity of the provider's BoundedEventBuffer
    MaxReconnects,     \* LiveLimits.max_reconnects
    Scenarios          \* bounds: how often each thing may happen, what a provider pushes

\* Notification, and Subscriber: a notice names the newest entry as it was pushed
Notices == [kind : {"TIMELINE", "STATE", "RESYNC_REQUIRED", "END", "HEARTBEAT"}, cursor : Nat]
Subscribers == [session : Sessions, items : Seq(Notices), closed : BOOLEAN]

ASSUME WorkspaceConstants ==
    /\ {MaxSessions, MaxCreations, MaxSubscribers, QueueSize, Retention, PageMax,
        MaxAnalyses, BufferSize} \subseteq Nat \ {0}
    /\ \A b \in Scenarios :
        /\ b.script \in Seq({"CANDLE", "GAP", "DUPLICATE", "CONNECTED", "DISCONNECTED", "END"})
        /\ \A what \in DOMAIN b \ {"script"} : b[what] \in Nat
    /\ None \notin Subscribers

VARIABLES
    closed,       \* _closed
    lock,         \* _create_lock: its holder
    creations,    \* creations within the last minute
    held,         \* _entries, and the registry: the ids present
    entries,      \* the _Entry of every id issued so far
    creators, stoppers, analysers,   \* local state of the handlers
    shutdown,     \* local state of the shutdown handler
    subs,         \* the Subscriber of each client, or None
    budget        \* what is left of the bounds
vars == <<closed, lock, creations, held, entries, creators, stoppers, analysers,
          shutdown, subs, budget>>

\* Integrity, freshness and availability as _status_of records them.
Available(e) ==
    /\ e.conn \in {"CONNECTED", "RECOVERING"}
    /\ e.fresh = "FRESH"
    /\ e.integrity = "COMPLETE"
Status(e) == <<e.integrity, e.fresh, Available(e)>>

\* LiveSession, LiveMarketState, BoundedEventBuffer and _Entry of a new session,
\* with SESSION_STARTED on its timeline and its task scheduled.
NewEntry ==
    [task |-> "NEW", cancelled |-> FALSE,
     script |-> budget.script, buffer |-> <<>>, overflowed |-> FALSE,
     conn |-> "INITIALIZING", reason |-> None, reconnects |-> 0,
     integrity |-> "EMPTY", fresh |-> "NO_DATA", version |-> 0,
     seenConn |-> "INITIALIZING", seenStatus |-> <<"EMPTY", "NO_DATA", FALSE>>,
     seq |-> 1, oldest |-> 1, requested |-> None, origin |-> None,
     analysing |-> FALSE, cached |-> None]

Lifecycle(e) == IF e.origin # None THEN "ENDED" ELSE "RUNNING"

\* one of the bounded events happens
Spend(what) == budget[what] > 0 /\ budget' = [budget EXCEPT ![what] = @ - 1]

-----------------------------------------------------------------------------
(***************************************************************************)
(* Timeline and readers.                                                   *)
(***************************************************************************)
\* _append, n times: strictly increasing numbers, a bounded window
Appended(e, n) ==
    [e EXCEPT !.seq = @ + n, !.oldest = Max({@, e.seq + n - Retention + 1})]

\* _evaluate: a status change since the last look is an entry
Evaluated(e) ==
    IF Status(e) = e.seenStatus THEN e
    ELSE Appended([e EXCEPT !.seenStatus = Status(e)], 1)

\* _append n records, then _after_change: an entry for a changed connection and
\* one for a changed status
Recorded(e, n) ==
    LET changes == (IF e.conn = e.seenConn THEN 0 ELSE 1)
                     + (IF Status(e) = e.seenStatus THEN 0 ELSE 1)
    IN [e EXCEPT !.seenConn = e.conn, !.seenStatus = Status(e), !.seq = @ + n + changes,
                 !.oldest = Max({@, e.seq + n + changes - Retention + 1})]

Notice(kind, cursor) == [kind |-> kind, cursor |-> cursor]

\* Mutant: an overflowing queue drops its oldest notices and goes on.
PushDroppingOldest(q, notices) ==
    IF q.closed THEN q
    ELSE LET all == q.items \o notices
         IN [q EXCEPT !.items = SubSeq(all, Max({1, Len(all) - QueueSize + 1}), Len(all))]

\* Subscriber.push of each notice: the first that finds a full queue replaces it by a
\* demand to resynchronise and closes it
Push(q, notices) ==
    IF q.closed THEN q
    ELSE IF Len(q.items) + Len(notices) <= QueueSize THEN [q EXCEPT !.items = @ \o notices]
    ELSE LET refused == notices[QueueSize - Len(q.items) + 1]
         IN [q EXCEPT !.items = <<Notice("RESYNC_REQUIRED", refused.cursor)>>, !.closed = TRUE]

\* one TIMELINE notice per entry after the first number, up to the last
Entries(after, last) == [i \in 1..(last - after) |-> Notice("TIMELINE", after + i)]

Reads(c, s) == subs[c] # None /\ subs[c].session = s /\ ~subs[c].closed
Readers(s) == {c \in Clients : Reads(c, s)}

\* The queues once the entry of s has become e: every new entry, then END if it ended.
Told(s, e) ==
    LET news == Entries(entries[s].seq, e.seq)
        end == IF entries[s].origin = None /\ e.origin # None
               THEN <<Notice("END", e.seq)>> ELSE <<>>
    IN [c \in Clients |-> IF Reads(c, s) THEN Push(subs[c], news \o end) ELSE subs[c]]

\* The entry of s becomes e and its readers are told.
Update(s, e) ==
    \E new \in {e} : entries' = [entries EXCEPT ![s] = new] /\ subs' = Told(s, new)

-----------------------------------------------------------------------------
(***************************************************************************)
(* How a session ends.                                                     *)
(***************************************************************************)
\* LiveMarketState.terminate
Terminated(e, reason) ==
    IF e.conn = "TERMINATED" THEN e
    ELSE [e EXCEPT !.conn = "TERMINATED", !.reason = reason]

\* the origin _finish records
EndOrigin(e) == IF e.requested # None THEN e.requested ELSE "STREAM"

\* _finish, once: terminate, name the origin, SESSION_ENDED, END to the readers
Finished(e) ==
    IF e.origin # None THEN e
    ELSE LET reason == IF e.requested # None THEN "CANCELLED" ELSE "PROVIDER_ERROR"
         IN Recorded([Terminated(e, reason) EXCEPT !.origin = EndOrigin(e)], 1)

\* _request_end: the first reason counts; cancelling a finished task does nothing
RequestEnd(e, origin) ==
    [e EXCEPT !.requested = IF e.origin = None /\ @ = None THEN origin ELSE @,
              !.cancelled = @ \/ e.task # "DONE"]

-----------------------------------------------------------------------------
(***************************************************************************)
(* The session's task: LiveSession.run inside _drive.                      *)
(***************************************************************************)
Running(s) == s \in DOMAIN entries /\ ~entries[s].cancelled

OtherThanEntries == <<closed, lock, creations, held, creators, stoppers, analysers, shutdown>>

\* BoundedEventBuffer.offer of the provider's next item: refused and latched when full,
\* refused once latched or closed
Offer(s) ==
    /\ s \in DOMAIN entries
    /\ entries[s].script # <<>> /\ entries[s].task # "DONE" /\ ~entries[s].overflowed
    /\ LET e == entries[s]
       IN entries' = [entries EXCEPT ![s] =
            IF Len(e.buffer) >= BufferSize THEN [e EXCEPT !.script = <<>>, !.overflowed = TRUE]
            ELSE [e EXCEPT !.script = Tail(@), !.buffer = Append(@, Head(e.script))]]
    /\ UNCHANGED <<subs, budget, OtherThanEntries>>

\* the task's first step: the subscription opens, or the provider fails
Start(s) ==
    /\ Running(s) /\ entries[s].task = "NEW"
    /\ \/ Update(s, [entries[s] EXCEPT !.task = "READING"]) /\ UNCHANGED budget
       \/ /\ Update(s, Finished([Terminated(entries[s], "PROVIDER_ERROR") EXCEPT !.task = "DONE"]))
          /\ Spend("breaks")
    /\ UNCHANGED OtherThanEntries

\* apply_event on the abstracted book; an event while not connected is rejected
Observed(e, item) ==
    IF e.conn \notin {"CONNECTED", "RECOVERING"} \/ item = "DUPLICATE" THEN e
    ELSE [e EXCEPT !.integrity = IF item = "GAP" \/ @ = "GAPPED" THEN "GAPPED" ELSE "COMPLETE",
                   !.fresh = "FRESH", !.version = @ + 1, !.conn = "CONNECTED"]

\* apply_signal
Signalled(e, item) ==
    CASE item = "CONNECTED" /\ e.conn = "INITIALIZING" -> [e EXCEPT !.conn = "CONNECTED"]
      [] item = "CONNECTED" /\ e.conn = "DISCONNECTED" ->
            IF e.reconnects + 1 > MaxReconnects
            THEN Terminated([e EXCEPT !.reconnects = @ + 1], "RECONNECT_LIMIT")
            ELSE [e EXCEPT !.conn = "RECOVERING", !.reconnects = @ + 1]
      [] item = "DISCONNECTED" /\ e.conn # "DISCONNECTED" ->
            [e EXCEPT !.conn = "DISCONNECTED",
                      !.integrity = IF @ = "COMPLETE" THEN "UNVERIFIED" ELSE @]
      [] item = "END" -> Terminated(e, "END_OF_STREAM")
      [] item = "OVERFLOW" -> Terminated(e, "OVERLOADED")
      [] OTHER -> e

Applied(e, item) ==
    IF item \in {"CANDLE", "GAP", "DUPLICATE"} THEN Observed(e, item) ELSE Signalled(e, item)

\* Where run goes after an item: out of the loop, into a backfill, or on reading.
NextTask(before, after) ==
    IF after.conn = "TERMINATED" THEN "CLOSING"
    ELSE IF before.conn = "DISCONNECTED" /\ after.conn = "RECOVERING" THEN "BACKFILL"
    ELSE "READING"

\* drain: everything accepted, in order, then OVERFLOW if anything was lost
NextItem(e) ==
    IF e.buffer # <<>> THEN Head(e.buffer) ELSE IF e.overflowed THEN "OVERFLOW" ELSE None

\* one item of the stream: state first, record after, then what follows
Read(s) ==
    /\ Running(s) /\ entries[s].task = "READING"
    /\ LET e == entries[s]
           item == NextItem(e)
           popped == [e EXCEPT !.buffer = IF item = "OVERFLOW" \/ @ = <<>> THEN @ ELSE Tail(@)]
           after == Applied(popped, item)
       IN  /\ item # None
           /\ Update(s, Recorded([after EXCEPT !.task = NextTask(e, after)], 1))
    /\ UNCHANGED <<budget, OtherThanEntries>>

\* The stream stops without saying so, or its provider raises.
Breaks(s) ==
    /\ Running(s) /\ entries[s].task \in {"READING", "BACKFILL"}
    /\ \/ entries[s].task = "READING" /\ entries[s].buffer = <<>>
          /\ Update(s, [entries[s] EXCEPT !.task = "CLOSING"])
       \/ Update(s, [Terminated(entries[s], "PROVIDER_ERROR") EXCEPT !.task = "CLOSING"])
    /\ Spend("breaks") /\ UNCHANGED OtherThanEntries

\* _backfill returns: nothing, or a candle applied and recorded like a live one
Backfill(s) ==
    /\ Running(s) /\ entries[s].task = "BACKFILL"
    /\ LET back == [entries[s] EXCEPT !.task = "READING"]
       IN \/ Update(s, back)
          \/ Update(s, Recorded(Observed(back, "CANDLE"), 1))
    /\ UNCHANGED <<budget, OtherThanEntries>>

\* the subscription is closed; _drive finishes the session
Close(s) ==
    /\ Running(s) /\ entries[s].task = "CLOSING"
    /\ Update(s, Finished([entries[s] EXCEPT !.task = "DONE"]))
    /\ UNCHANGED <<budget, OtherThanEntries>>

\* wait_for gives up: run is cancelled, and DEADLINE is the reason unless there was one
Deadline(s) ==
    /\ Running(s) /\ entries[s].task \in {"READING", "BACKFILL", "CLOSING"}
    /\ LET e == entries[s]
           stopped == IF e.task = "CLOSING" THEN e ELSE Terminated(e, "CANCELLED")
       IN Update(s, Finished([stopped EXCEPT !.task = "DONE",
                               !.requested = IF @ = None THEN "DEADLINE" ELSE @]))
    /\ Spend("breaks") /\ UNCHANGED OtherThanEntries

\* CancelledError reaches the task; one that never ran ends without finishing its session
Cancelled(s) ==
    /\ s \in DOMAIN entries /\ entries[s].cancelled /\ entries[s].task # "DONE"
    /\ LET e == [entries[s] EXCEPT !.task = "DONE"]
       IN CASE entries[s].task = "NEW" -> Update(s, e)
            [] entries[s].task = "CLOSING" -> Update(s, Finished(e))
            [] OTHER -> Update(s, Finished(Terminated(e, "CANCELLED")))
    /\ UNCHANGED <<budget, OtherThanEntries>>

\* The receive clock passes the freshness threshold; nobody looks yet.
GoesStale(s) ==
    /\ s \in DOMAIN entries /\ entries[s].fresh = "FRESH" /\ Spend("stale")
    /\ entries' = [entries EXCEPT ![s].fresh = "STALE"]
    /\ UNCHANGED <<subs, OtherThanEntries>>

Task(s) == Start(s) \/ Read(s) \/ Backfill(s) \/ Close(s) \/ Cancelled(s)

-----------------------------------------------------------------------------
(***************************************************************************)
(* Creation.                                                               *)
(***************************************************************************)
\* create is called; a request while the workspace is closed is refused at once
CreateAsk(k) ==
    /\ creators[k] = "IDLE" /\ ~closed /\ Spend("creates")
    /\ creators' = [creators EXCEPT ![k] = "LOCK"]
    /\ UNCHANGED <<closed, lock, creations, held, entries, stoppers, analysers, shutdown,
                   subs>>

Idle == {s \in held : Lifecycle(entries[s]) = "ENDED" /\ Readers(s) = {}}

\* _admit: what makes room (an ended session nobody reads), when there is none
Evictable == IF Cardinality(held) < MaxSessions THEN {} ELSE Idle

\* under the lock: closed again?  rate, capacity and eviction, then the source is opened
CreateAdmit(k) ==
    /\ creators[k] = "LOCK" /\ lock = None
    /\ LET full == Cardinality(held) >= MaxSessions
           refused == closed \/ creations >= MaxCreations \/ (full /\ Evictable = {})
       IN \/ /\ refused
             /\ creators' = [creators EXCEPT ![k] = "IDLE"]
             /\ UNCHANGED <<lock, creations, held>>
          \/ /\ ~refused
             /\ held' \in IF full THEN {held \ {s} : s \in Evictable} ELSE {held}
             /\ lock' = k
             /\ creations' = creations + 1
             /\ creators' = [creators EXCEPT ![k] = "OPENING"]
    /\ UNCHANGED <<closed, entries, stoppers, analysers, shutdown, subs, budget>>

\* the source is read (or fails): the session starts unless shutdown began meanwhile
CreateOpened(k) ==
    /\ creators[k] = "OPENING"
    /\ creators' = [creators EXCEPT ![k] = "IDLE"]
    /\ lock' = None
    /\ \/ UNCHANGED <<held, entries>>   \* SourceError, or shutting down
       \/ /\ ~closed
          /\ Cardinality(held) < MaxSessions
          /\ Sessions # DOMAIN entries
          /\ LET s == CHOOSE i \in Sessions : i \notin DOMAIN entries   \* a fresh token
             IN  /\ held' = held \cup {s}
                 /\ entries' = [i \in DOMAIN entries \cup {s} |->
                                  IF i = s THEN NewEntry ELSE entries[i]]
    /\ UNCHANGED <<closed, creations, stoppers, analysers, shutdown, subs, budget>>

\* a creation leaves the one-minute window
MinutePasses ==
    /\ creations > 0
    /\ creations' = creations - 1
    /\ UNCHANGED <<closed, lock, held, entries, creators, stoppers, analysers, shutdown, subs,
                   budget>>

-----------------------------------------------------------------------------
(***************************************************************************)
(* Cancel, remove and shutdown.                                            *)
(***************************************************************************)
\* _forget and shutdown close the readers; what is queued can still be read
ReadersClosed(ended, queues) ==
    [c \in Clients |-> IF queues[c] # None /\ queues[c].session \in ended
                       THEN [queues[c] EXCEPT !.closed = TRUE] ELSE queues[c]]

\* cancel or remove: the end is requested and the task cancelled
StopAsk(h, s, op) ==
    /\ stoppers[h].op = "IDLE" /\ s \in held /\ Spend("stops")
    /\ stoppers' = [stoppers EXCEPT ![h] = [op |-> op, session |-> s]]
    /\ entries' = [entries EXCEPT ![s] = RequestEnd(@, "USER_CANCELLED")]
    /\ UNCHANGED <<closed, lock, creations, held, creators, analysers, shutdown, subs>>

\* asyncio.wait({task})
Stopped(s) == entries[s].task = "DONE"

\* Mutant: the task's own finally is trusted to have finished the session.
AfterStopTrusting(e) == e

\* _finish again in cancel, remove and shutdown: a task cancelled before its first
\* step never reached its own
AfterStop(e) == Finished(e)

\* the task is done: the session is finished; remove releases its slot
StopReturn(h) ==
    /\ stoppers[h].op # "IDLE" /\ Stopped(stoppers[h].session)
    /\ LET s == stoppers[h].session
       IN \E f \in {AfterStop(entries[s])} :
           /\ entries' = [entries EXCEPT ![s] = f]
           /\ \/ stoppers[h].op = "CANCEL" /\ subs' = Told(s, f) /\ UNCHANGED held
              \/ stoppers[h].op = "REMOVE" /\ subs' = ReadersClosed({s}, Told(s, f))
                 /\ held' = held \ {s}
    /\ stoppers' = [stoppers EXCEPT ![h] = [op |-> "IDLE", session |-> None]]
    /\ UNCHANGED <<closed, lock, creations, creators, analysers, shutdown, budget>>

\* shutdown: closed first, then the creation lock
ShutdownAsk ==
    /\ shutdown.phase = "IDLE" /\ Spend("shutdowns")
    /\ closed' = TRUE
    /\ shutdown' = [shutdown EXCEPT !.phase = "LOCK"]
    /\ UNCHANGED <<lock, creations, held, entries, creators, stoppers, analysers, subs>>

\* the sessions are collected and each task cancelled
ShutdownCollect ==
    /\ shutdown.phase = "LOCK" /\ lock = None
    /\ shutdown' = [phase |-> "WAIT", sessions |-> held]
    /\ entries' = [s \in DOMAIN entries |->
                     IF s \in held THEN RequestEnd(entries[s], "SHUTDOWN") ELSE entries[s]]
    /\ UNCHANGED <<closed, lock, creations, held, creators, stoppers, analysers, subs, budget>>

\* every task is done: every session is finished here as well, and its readers closed
ShutdownReturn ==
    /\ shutdown.phase = "WAIT"
    /\ \A s \in shutdown.sessions : Stopped(s)
    /\ shutdown' = [shutdown EXCEPT !.phase = "DONE"]
    /\ entries' = [s \in DOMAIN entries |->
                     IF s \in shutdown.sessions THEN AfterStop(entries[s]) ELSE entries[s]]
    /\ subs' = ReadersClosed(shutdown.sessions,
                  [c \in Clients |-> IF subs[c] = None THEN None
                                     ELSE Told(subs[c].session, entries'[subs[c].session])[c]])
    /\ UNCHANGED <<closed, lock, creations, held, creators, stoppers, analysers, budget>>

-----------------------------------------------------------------------------
(***************************************************************************)
(* Analyses.                                                               *)
(***************************************************************************)
AnalyseAsk(a, s) ==
    /\ analysers[a].phase = "IDLE" /\ s \in held /\ Spend("analyses")
    /\ analysers' = [analysers EXCEPT ![a] = [phase |-> "LOCK", session |-> s, version |-> None]]
    /\ UNCHANGED <<closed, lock, creations, held, entries, creators, stoppers, shutdown, subs>>

\* Mutant: analyses of one session do not wait for each other.
MayAnalyseUnlocked(s) == TRUE

\* entry.analysis_lock
MayAnalyse(s) == ~entries[s].analysing

AnalyseLock(a) ==
    /\ analysers[a].phase = "LOCK"
    /\ MayAnalyse(analysers[a].session)
    /\ analysers' = [analysers EXCEPT ![a].phase = "SLOT"]
    /\ entries' = [entries EXCEPT ![analysers[a].session].analysing = TRUE]
    /\ UNCHANGED <<closed, lock, creations, held, creators, stoppers, shutdown, subs, budget>>

\* the handler returns: one timeline entry, the lock released
AnalysisDone(a, e) ==
    /\ Update(analysers[a].session, Appended([e EXCEPT !.analysing = FALSE], 1))
    /\ analysers' = [analysers EXCEPT ![a] = [phase |-> "IDLE", session |-> None,
                                              version |-> None]]
    /\ UNCHANGED <<closed, lock, creations, held, creators, stoppers, shutdown, budget>>

\* _analyses semaphore; then unavailable, served from the cache, or the run starts
AnalyseStart(a) ==
    /\ analysers[a].phase = "SLOT"
    /\ Cardinality({b \in Analysers : analysers[b].phase = "RUN"}) < MaxAnalyses
    /\ LET e == entries[analysers[a].session]
       IN \/ (~Available(e) \/ e.cached = e.version) /\ AnalysisDone(a, e)
          \/ /\ Available(e) /\ e.cached # e.version
             /\ analysers' = [analysers EXCEPT ![a].phase = "RUN", ![a].version = e.version]
             /\ UNCHANGED <<closed, lock, creations, held, entries, creators, stoppers, shutdown,
                            subs, budget>>

\* run_analysis answers or fails
AnalyseEnd(a) ==
    /\ analysers[a].phase = "RUN"
    /\ LET e == entries[analysers[a].session]
       IN \/ AnalysisDone(a, [e EXCEPT !.cached = analysers[a].version])
          \/ AnalysisDone(a, e)

Analyse(a) == AnalyseLock(a) \/ AnalyseStart(a) \/ AnalyseEnd(a)
=============================================================================
