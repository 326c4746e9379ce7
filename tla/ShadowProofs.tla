---------------------------- MODULE ShadowProofs ----------------------------
(***************************************************************************)
(* Proofs about Shadow Mode, for any runs, handlers, limits and sessions,  *)
(* and for any number of store failures, crashes and restarts.             *)
(***************************************************************************)
EXTENDS Shadow, FiniteSetTheorems, FunctionTheorems, WellFoundedInduction, TLAPS

-----------------------------------------------------------------------------
(***************************************************************************)
(* Shapes.                                                                 *)
(***************************************************************************)
RunFields ==
    {"pc", "pending", "overflowed", "finished", "cancelled", "ended", "seq", "observations",
     "decisions", "entries", "evaluated", "watches", "published", "item", "entry", "then",
     "records", "failed", "dropped"}
EntryFields == {"seq", "what", "marker", "at", "bars"}
ItemFields == {"kind", "k", "prefix", "available", "c"}
RowFields == {"status", "reason", "observations", "decisions", "entries"}
SessionFields == {"script", "touch", "book", "contested", "life", "reason", "seen"}
Tasks == {"START", "LOOP", "WRITE", "PUBLISH", "CLOSE"}

\* a journal: numbered upwards
Journal(log) ==
    /\ log \in Seq(ToSet(log))
    /\ \A i \in DOMAIN log : DOMAIN log[i] = EntryFields /\ log[i].seq \in Nat
    /\ \A i, j \in DOMAIN log : i < j => log[i].seq < log[j].seq

-----------------------------------------------------------------------------
(***************************************************************************)
(* The session, and what it told.                                          *)
(***************************************************************************)
\* the boundary k was confirmed, and will not be again
Past(ses, k) ==
    /\ k \in DOMAIN ses.seen
    /\ \A i \in DOMAIN ses.script : ses.script[i].kind = "CANDLE" => ses.script[i].k # k
Known(ses, k, bars) == Past(ses, k) /\ ses.seen[k] = bars

SessionOk(ses) ==
    /\ DOMAIN ses = SessionFields /\ ses.reason # "INTERRUPTED"
    /\ ses.script \in Seq(ToSet(ses.script)) /\ ses.touch \in Seq(ToSet(ses.touch))
    /\ DOMAIN ses.seen = DOMAIN ses.touch /\ None \notin DOMAIN ses.touch
    /\ ses.book \subseteq DOMAIN ses.touch
    /\ \A i \in DOMAIN ses.script :
        /\ DOMAIN ses.script[i] = ItemFields /\ ses.script[i].kind # "CAPTURE"
        /\ ses.script[i].kind \in {"CANDLE", "LATE"} => ses.script[i].k \in DOMAIN ses.touch
        /\ \A j \in DOMAIN ses.script :
            ses.script[i].kind = "CANDLE" /\ ses.script[j].kind = "CANDLE"
              /\ ses.script[j].k = ses.script[i].k => i = j

\* what waits in a run's queue
Queue(pending, evaluated, ses) ==
    /\ pending \in Seq(ToSet(pending))
    /\ \A i \in DOMAIN pending : DOMAIN pending[i] = ItemFields
    /\ \A i \in DOMAIN pending : pending[i].kind = "CAPTURE" =>
        /\ Known(ses, pending[i].k, pending[i].prefix) /\ pending[i].k \notin evaluated
        /\ \A j \in DOMAIN pending :
            pending[j].kind = "CAPTURE" /\ pending[j].k = pending[i].k => i = j

\* what holds of a run wherever its task is
Base(s, ses) ==
    /\ DOMAIN s = RunFields /\ s.ended # "INTERRUPTED"
    /\ Queue(s.pending, s.evaluated, ses)
    /\ \A k \in s.evaluated : Past(ses, k)

-----------------------------------------------------------------------------
(***************************************************************************)
(* The task and its journal.                                               *)
(***************************************************************************)
Final(e) == e.what = "RUN_ENDED" /\ e.at = None

Counts(s, log) ==
    /\ s.seq \in Nat /\ \A i \in DOMAIN log : log[i].seq <= s.seq
    /\ ~s.failed => s.entries = Len(log) /\ s.decisions = Cardinality(Decided(log))

\* decisions are about boundaries the run took up, on what was known of them
Sound(s, log, ses) ==
    \A i \in DOMAIN log : log[i].what = "DECISION" => log[i].at \in s.evaluated

Open(s, log, ses) ==
    /\ Counts(s, log) /\ Sound(s, log, ses)
    /\ \A i \in DOMAIN log : ~Final(log[i])

\* the entry e may be written next
Fits(s, log, ses, e, then) ==
    /\ DOMAIN e = EntryFields
    /\ then \in {"NEXT", "EVALUATED", "CONTESTED", "INVALIDATE", "ENDED"}
    /\ e.what = "DECISION" <=> then = "EVALUATED"
    /\ then = "EVALUATED" =>
        /\ e.at \in s.evaluated /\ Known(ses, e.at, e.bars)
        /\ \A i \in DOMAIN log : log[i].what = "DECISION" => log[i].at # e.at
    /\ Final(e) <=> then = "ENDED"
    /\ then = "ENDED" => s.finished

TaskOk(s, log, ses) ==
    /\ s.pc \in Tasks \ {"CLOSE"} => Open(s, log, ses)
    /\ s.pc = "WRITE" =>
        /\ Fits(s, log, ses, s.entry, s.then)
        /\ s.entry.seq = s.seq /\ \A i \in DOMAIN log : log[i].seq < s.seq
    /\ s.pc = "CLOSE" => Counts(s, log) /\ log # <<>> /\ Last(log).what = "RUN_ENDED"

RowOk(pc, row) ==
    /\ pc \in Tasks \cup {"NONE", "CREATING", "DONE"}
    /\ row = None \/ DOMAIN row = RowFields
    /\ pc = "NONE" => row = None
    /\ pc \in Tasks => DOMAIN row = RowFields /\ row.status = "OBSERVING"
    /\ pc = "CREATING" => row = None \/ row.status = "OBSERVING"

Decisions(log, ses) ==
    \A i \in DOMAIN log : log[i].what = "DECISION" => Known(ses, log[i].at, log[i].bars)

RunOk(s, log, row, ses) ==
    /\ Base(s, ses) /\ TaskOk(s, log, ses) /\ RowOk(s.pc, row)
    /\ Journal(log) /\ Decisions(log, ses)
    /\ s.pc \in {"NONE", "CREATING"} =>
        log = <<>> /\ s.decisions = 0 /\ s.evaluated = {} /\ s.entries = 0

\* a recovered journal says so at its end: only RUN_ENDED follows a final entry
Closed(log) ==
    \A i, j \in DOMAIN log : Final(log[i]) /\ i < j => log[j].what = "RUN_ENDED"

CreatorOk(h) ==
    /\ DOMAIN creators[h] = {"phase", "key", "run"}
    /\ creators[h].phase \in {"ROW", "OPENED"} =>
        /\ lock = h /\ creators[h].run \in Runs /\ run[creators[h].run].pc = "CREATING"
    /\ creators[h].phase = "OPENED" =>
        /\ run[creators[h].run].seq = 1
        /\ DOMAIN rows[creators[h].run] = RowFields
        /\ rows[creators[h].run].status = "OBSERVING"

RecoveryOk ==
    recovery # {} =>
        /\ \A h \in Creators : creators[h].phase = "IDLE"
        /\ \A r \in Runs : run[r].pc \in {"NONE", "DONE"}
        /\ \A t \in recovery :
            /\ DOMAIN t = {"run", "phase"} /\ t.run \in Observing
            /\ t.phase = "CLOSE" =>
                 journal[t.run] # <<>> /\ Last(journal[t.run]).what = "RUN_ENDED"
            /\ \A u \in recovery : u.run = t.run => u = t

Shapes ==
    /\ DOMAIN run = Runs /\ DOMAIN journal = Runs /\ DOMAIN rows = Runs
    /\ DOMAIN creators = Creators /\ DOMAIN enders = Enders
    /\ \A e \in Enders : DOMAIN enders[e] = {"phase", "todo", "reason"}
                           /\ enders[e].reason # "INTERRUPTED"

IInv ==
    /\ Shapes /\ SessionOk(session)
    /\ \A r \in Runs : RunOk(run[r], journal[r], rows[r], session) /\ Closed(journal[r])
    /\ \A h \in Creators : CreatorOk(h)
    /\ RecoveryOk
    /\ RowCountsItsJournal

-----------------------------------------------------------------------------
(***************************************************************************)
(* Sequences.                                                              *)
(***************************************************************************)

\* A sequence of anything is one of its own elements, numbered from one.
LEMMA SeqFacts ==
    ASSUME NEW S, NEW q \in Seq(S)
    PROVE  q \in Seq(ToSet(q)) /\ Len(q) \in Nat /\ DOMAIN q = 1 .. Len(q)
<1>1. Len(q) \in Nat /\ DOMAIN q = 1 .. Len(q)
  OBVIOUS
<1>2. \A i \in 1 .. Len(q) : q[i] \in ToSet(q)
  BY <1>1 DEF ToSet
<1> QED BY <1>1, <1>2

\* What appending does.
LEMMA AppendFacts ==
    ASSUME NEW q, q \in Seq(ToSet(q)), NEW e
    PROVE  /\ Append(q, e) \in Seq(ToSet(Append(q, e)))
           /\ Len(Append(q, e)) = Len(q) + 1
           /\ DOMAIN Append(q, e) = 1 .. (Len(q) + 1)
           /\ \A i \in 1 .. Len(q) : Append(q, e)[i] = q[i]
           /\ Append(q, e)[Len(q) + 1] = e
<1> DEFINE T == ToSet(q) \cup {e}
           a == Append(q, e)
<1>1. q \in Seq(T) /\ e \in T
  <2>1. \A i \in 1 .. Len(q) : q[i] \in ToSet(q)
    BY SeqFacts
  <2> QED BY <2>1
<1>2. /\ a \in Seq(T) /\ Len(a) = Len(q) + 1
      /\ \A i \in 1 .. Len(q) : a[i] = q[i]
      /\ a[Len(q) + 1] = e
  BY <1>1
<1>3. DOMAIN a = 1 .. (Len(q) + 1) /\ Len(q) \in Nat
  BY <1>2, SeqFacts
<1>5. a \in Seq(ToSet(a))
  BY <1>2, SeqFacts
<1> QED BY <1>2, <1>3, <1>5

\* What taking the first leaves.
LEMMA TailFacts ==
    ASSUME NEW q, q \in Seq(ToSet(q)), q # <<>>
    PROVE  /\ Tail(q) \in Seq(ToSet(Tail(q)))
           /\ Len(Tail(q)) = Len(q) - 1 /\ Len(q) \in Nat \ {0}
           /\ DOMAIN Tail(q) = 1 .. (Len(q) - 1)
           /\ \A i \in 1 .. (Len(q) - 1) : Tail(q)[i] = q[i + 1]
           /\ Head(q) = q[1] /\ 1 \in DOMAIN q
           /\ \A i \in DOMAIN Tail(q) : i + 1 \in DOMAIN q
<1> DEFINE a == Tail(q)
<1>1. /\ a \in Seq(ToSet(q)) /\ Len(a) = Len(q) - 1 /\ Len(q) \in Nat \ {0}
      /\ \A i \in 1 .. (Len(q) - 1) : a[i] = q[i + 1]
      /\ Head(q) = q[1]
  OBVIOUS
<1>2. DOMAIN a = 1 .. (Len(q) - 1) /\ DOMAIN q = 1 .. Len(q)
  BY <1>1
<1>5. a \in Seq(ToSet(a))
  BY <1>1, SeqFacts
<1> QED BY <1>1, <1>2, <1>5

\* The last entry of a journal.
LEMMA LastFacts ==
    ASSUME NEW q, q \in Seq(ToSet(q)), q # <<>>
    PROVE  Len(q) \in DOMAIN q /\ Last(q) = q[Len(q)] /\ \A i \in DOMAIN q : i <= Len(q)
BY SeqFacts DEF Last

-----------------------------------------------------------------------------
(***************************************************************************)
(* The journal.                                                            *)
(***************************************************************************)

\* An entry numbered past the journal is added at its end, unless it is there already.
LEMMA AppendedFacts ==
    ASSUME NEW log, NEW e, Journal(log), DOMAIN e = EntryFields, e.seq \in Nat,
           \A i \in DOMAIN log : log[i].seq < e.seq
    PROVE  /\ Journal(Appended(log, e))
           /\ \/ /\ Appended(log, e) = log
                 /\ \E i \in DOMAIN log : log[i].what = e.what /\ log[i].marker = e.marker
                                             /\ log[i].at = e.at
              \/ Appended(log, e) = Append(log, e)
           /\ \A i \in DOMAIN Appended(log, e) :
                \/ i \in DOMAIN log /\ Appended(log, e)[i] = log[i]
                \/ i = Len(log) + 1 /\ Appended(log, e)[i] = e
           /\ \A i \in DOMAIN log : i \in DOMAIN Appended(log, e) /\ Appended(log, e)[i] = log[i]
<1> DEFINE new == Appended(log, e)
           a == Append(log, e)
<1>1. log \in Seq(ToSet(log))
  BY DEF Journal
<1>2. /\ a \in Seq(ToSet(a)) /\ DOMAIN a = 1 .. (Len(log) + 1)
      /\ \A i \in 1 .. Len(log) : a[i] = log[i]
      /\ a[Len(log) + 1] = e
  BY <1>1, AppendFacts
<1>3. Len(log) \in Nat /\ DOMAIN log = 1 .. Len(log)
  BY <1>1, SeqFacts
<1>4. CASE \E i \in DOMAIN log : KeyOf(log[i]) = KeyOf(e)
  <2>1. new = log
    BY <1>4 DEF Appended
  <2>2. PICK i \in DOMAIN log : KeyOf(log[i]) = KeyOf(e)
    BY <1>4
  <2>3. DOMAIN log[i] = EntryFields
    BY DEF Journal
  <2>4. /\ KeyOf(log[i]).what = log[i].what /\ KeyOf(log[i]).marker = log[i].marker
        /\ KeyOf(log[i]).at = log[i].at
    BY <2>3 DEF KeyOf, EntryFields
  <2>5. KeyOf(e).what = e.what /\ KeyOf(e).marker = e.marker /\ KeyOf(e).at = e.at
    BY DEF KeyOf, EntryFields
  <2> HIDE DEF new
  <2>6. log[i].what = e.what /\ log[i].marker = e.marker /\ log[i].at = e.at
    BY <2>2, <2>4, <2>5
  <2> QED BY <2>1, <2>6 DEF new
<1>5. CASE ~\E i \in DOMAIN log : KeyOf(log[i]) = KeyOf(e)
  <2>1. new = a
    BY <1>5 DEF Appended
  <2>2. \A i \in DOMAIN a : \/ i \in DOMAIN log /\ a[i] = log[i]
                            \/ i = Len(log) + 1 /\ a[i] = e
    BY <1>2, <1>3
  <2>3. \A i \in DOMAIN log : i \in DOMAIN a /\ a[i] = log[i]
    BY <1>2, <1>3
  <2>4. \A i \in DOMAIN a : DOMAIN a[i] = EntryFields /\ a[i].seq \in Nat
    BY <2>2 DEF Journal
  <2>5. ASSUME NEW i \in DOMAIN a, NEW j \in DOMAIN a, i < j
        PROVE  a[i].seq < a[j].seq
    <3>1. i \in DOMAIN log /\ a[i] = log[i]
      BY <1>2, <1>3, <2>5
    <3> QED BY <3>1, <2>2, <2>5 DEF Journal
  <2>6. Journal(a)
    BY <1>2, <2>4, <2>5 DEF Journal
  <2> QED BY <2>1, <2>2, <2>3, <2>6
<1> QED BY <1>4, <1>5

\* Decisions are counted one by one.
LEMMA DecidedFinite ==
    ASSUME NEW log, log \in Seq(ToSet(log))
    PROVE  IsFiniteSet(Decided(log)) /\ Cardinality(Decided(log)) \in Nat
<1>1. Len(log) \in Nat /\ DOMAIN log = 1 .. Len(log)
  BY SeqFacts
<1>2. IsFiniteSet(1 .. Len(log))
  BY <1>1, FS_Interval
<1>3. Decided(log) \subseteq 1 .. Len(log)
  BY <1>1 DEF Decided
<1> QED BY <1>2, <1>3, FS_Subset, FS_CardinalityType

\* A decision adds one to the count of those decided, unless it was unavailable.
LEMMA DecidedAppend ==
    ASSUME NEW log, log \in Seq(ToSet(log)), NEW e
    PROVE  Cardinality(Decided(Append(log, e))) =
             Cardinality(Decided(log)) +
               (IF e.what = "DECISION" /\ e.marker # "UNAVAILABLE" THEN 1 ELSE 0)
<1> DEFINE a == Append(log, e)
<1>1. Len(log) \in Nat /\ DOMAIN log = 1 .. Len(log)
  BY SeqFacts
<1>2. /\ DOMAIN a = 1 .. (Len(log) + 1)
      /\ \A i \in 1 .. Len(log) : a[i] = log[i]
      /\ a[Len(log) + 1] = e
  BY AppendFacts
<1>3. IsFiniteSet(Decided(log)) /\ Cardinality(Decided(log)) \in Nat
  BY DecidedFinite
<1> HIDE DEF a
<1>4. CASE e.what = "DECISION" /\ e.marker # "UNAVAILABLE"
  <2>1. Decided(a) = Decided(log) \cup {Len(log) + 1} /\ Len(log) + 1 \notin Decided(log)
    BY <1>1, <1>2, <1>4 DEF Decided
  <2>2. Cardinality(Decided(log) \cup {Len(log) + 1}) = Cardinality(Decided(log)) + 1
    BY <1>3, <2>1, FS_AddElement
  <2> QED BY <2>1, <2>2, <1>4 DEF a
<1>5. CASE ~(e.what = "DECISION" /\ e.marker # "UNAVAILABLE")
  <2>1. Decided(a) = Decided(log)
    BY <1>1, <1>2, <1>5 DEF Decided
  <2> QED BY <2>1, <1>3, <1>5 DEF a
<1> QED BY <1>4, <1>5

-----------------------------------------------------------------------------
(***************************************************************************)
(* The functions that say where a task goes next.                          *)
(***************************************************************************)
\* between two store calls, and at the next one
Ready(s, log) == Base(s, session) /\ Open(s, log, session)
Goes(s, log) == Base(s, session) /\ TaskOk(s, log, session) /\ s.pc \in Tasks

\* t is s but for what neither the counts nor the evidence depend on
Alike(s, t) ==
    /\ DOMAIN t = RunFields /\ t.ended # "INTERRUPTED"
    /\ t.pending = s.pending /\ t.evaluated = s.evaluated /\ t.failed = s.failed
    /\ t.seq = s.seq /\ t.decisions = s.decisions /\ t.entries = s.entries

\* What the invariant says of a task does not depend on the rest of the run.
LEMMA AlikeReady ==
    ASSUME NEW s, NEW t, NEW log, Ready(s, log), Alike(s, t)
    PROVE  Ready(t, log)
BY DEF Ready, Alike, Base, Open, Counts, Sound

\* A task may go back to its queue.
LEMMA LoopGoes ==
    ASSUME NEW s, NEW log, Ready(s, log)
    PROVE  Goes([s EXCEPT !.pc = "LOOP"], log)
<1> DEFINE t == [s EXCEPT !.pc = "LOOP"]
<1>1. Alike(s, t) /\ t.pc = "LOOP"
  BY DEF Ready, Base, Alike, RunFields
<1>2. Ready(t, log)
  BY <1>1, AlikeReady
<1> HIDE DEF t
<1>3. Goes(t, log)
  BY <1>1, <1>2 DEF Goes, Ready, TaskOk, Tasks
<1> QED BY <1>3 DEF t

\* A task may write any entry that fits.
LEMMA WritingGoes ==
    ASSUME NEW s, NEW log, NEW e, NEW then, Ready(s, log), Journal(log),
           Fits(s, log, session, e, then)
    PROVE  Goes(Writing(s, e, then), log) /\ Writing(s, e, then).pc = "WRITE"
<1> DEFINE t == Writing(s, e, then)
           f == [e EXCEPT !.seq = s.seq + 1]
<1>1. /\ DOMAIN t = RunFields /\ t.pc = "WRITE" /\ t.seq = s.seq + 1 /\ t.entry = f
      /\ t.then = then /\ t.ended = s.ended /\ t.pending = s.pending
      /\ t.evaluated = s.evaluated /\ t.failed = s.failed /\ t.decisions = s.decisions
      /\ t.entries = s.entries /\ t.finished = s.finished
  BY DEF Ready, Base, Writing, RunFields
<1>2. /\ DOMAIN f = EntryFields /\ f.seq = s.seq + 1 /\ f.what = e.what /\ f.at = e.at
      /\ f.bars = e.bars /\ f.marker = e.marker
  BY DEF Fits, EntryFields
<1> HIDE DEF t, f
<1>3. Base(t, session)
  BY <1>1 DEF Ready, Base
<1>4. \A i \in DOMAIN log : log[i].seq < t.seq /\ log[i].seq \in Nat
  BY <1>1 DEF Ready, Open, Counts, Journal
<1>5. Open(t, log, session)
  BY <1>1, <1>4 DEF Ready, Open, Counts, Sound
<1>6. Fits(t, log, session, f, then)
  BY <1>1, <1>2 DEF Fits, Final
<1> QED BY <1>1, <1>2, <1>3, <1>4, <1>5, <1>6 DEF t, Goes, TaskOk, Tasks

\* an entry that is neither a decision nor final
LEMMA PlainGoes ==
    ASSUME NEW s, NEW log, NEW what, NEW marker, NEW at, NEW then,
           Ready(s, log), Journal(log), what \notin {"DECISION", "RUN_ENDED"},
           then \in {"NEXT", "CONTESTED", "INVALIDATE"}
    PROVE  Goes(Writing(s, Entry(what, marker, at), then), log)
<1>1. Fits(s, log, session, Entry(what, marker, at), then)
  BY DEF Fits, Entry, EntryFields, Final
<1> QED BY <1>1, WritingGoes

\* A task may write its final entry.
LEMMA ClosingGoes ==
    ASSUME NEW s, NEW log, Ready(s, log), Journal(log), s.finished
    PROVE  Goes(Closing(s), log) /\ Closing(s).pc # "LOOP"
<1>1. Fits(s, log, session, Entry("RUN_ENDED", s.ended, None), "ENDED")
  BY DEF Fits, Entry, EntryFields, Final
<1> QED BY <1>1, WritingGoes DEF Closing

\* A task may publish outcomes.
LEMMA PublishingGoes ==
    ASSUME NEW s, NEW log, NEW settled, NEW development, Ready(s, log)
    PROVE  Goes(Publishing(s, settled, development), log)
<1> DEFINE t == Publishing(s, settled, development)
<1>1. Alike(s, t) /\ t.pc = "PUBLISH"
  BY DEF Ready, Base, Alike, RunFields, Publishing
<1>2. Ready(t, log)
  BY <1>1, AlikeReady
<1> HIDE DEF t
<1>3. Goes(t, log)
  BY <1>1, <1>2 DEF Goes, Ready, TaskOk, Tasks
<1> QED BY <1>3 DEF t

\* _advance_watches leaves the task at its next store call, or at its queue.
LEMMA AdvancedGoes ==
    ASSUME NEW s, NEW log, NEW prefix, NEW exhausted, Ready(s, log), Journal(log)
    PROVE  Goes(Advanced(s, prefix, exhausted), log)
<1> DEFINE development == [b \in s.watches |->
                            ObserveDevelopment(b, prefix, session.touch, exhausted)]
           settled == {b \in s.watches : development[b].state # "PENDING"}
           next == [s EXCEPT !.watches = @ \ settled,
                             !.published = @ \cup {[at |-> b, to |-> development[b].to] :
                                    b \in {b \in settled : development[b].to # None}}]
<1>1. Alike(s, next)
  BY DEF Ready, Base, Alike, RunFields
<1>2. Ready(next, log)
  BY <1>1, AlikeReady
<1>3. Goes(Publishing(next, settled, development), log)
  BY <1>2, PublishingGoes
<1>4. Goes([s EXCEPT !.pc = "LOOP"], log)
  BY LoopGoes
<1>5. s.finished => Goes(Closing(s), log)
  BY ClosingGoes
<1>6. Advanced(s, prefix, exhausted) =
        IF settled # {} THEN Publishing(next, settled, development)
        ELSE IF s.finished THEN Closing(s) ELSE [s EXCEPT !.pc = "LOOP"]
  BY DEF Advanced
<1> HIDE DEF next, settled, development
<1> QED BY <1>3, <1>4, <1>5, <1>6

\* _finish leaves the task at its next store call.
LEMMA FinishingGoes ==
    ASSUME NEW s, NEW log, Ready(s, log), Journal(log), SessionOk(session)
    PROVE  Goes(Finishing(s), log)
<1> DEFINE t == [s EXCEPT !.finished = TRUE, !.ended = IF @ = None THEN EndReasonFor ELSE @]
<1>1. Alike(s, t)
  BY DEF Ready, Base, Alike, RunFields, EndReasonFor, SessionOk
<1>2. Ready(t, log)
  BY <1>1, AlikeReady
<1> HIDE DEF t
<1>3. Goes(Advanced(t, FinalSeries, TRUE), log)
  BY <1>2, AdvancedGoes
<1> QED BY <1>3 DEF Finishing, t

\* After an item the task takes the next one or finishes.
LEMMA AfterItemGoes ==
    ASSUME NEW s, NEW log, Ready(s, log), Journal(log), SessionOk(session)
    PROVE  Goes(AfterItem(s), log)
BY FinishingGoes, LoopGoes DEF AfterItem

\* _invalidate leaves the task at its next store call, or at its queue.
LEMMA InvalidatingGoes ==
    ASSUME NEW s, NEW log, NEW c, Ready(s, log), Journal(log), SessionOk(session)
    PROVE  Goes(Invalidating(s, c), log)
<1> DEFINE open == {b \in s.watches : Contests(c, b, None)}
           stood == PublishedContested(s, c)
           all == open \cup {p.at : p \in stood}
           next == [s EXCEPT !.watches = @ \ open, !.published = @ \ stood]
<1>1. Alike(s, next)
  BY DEF Ready, Base, Alike, RunFields
<1>2. Ready(next, log)
  BY <1>1, AlikeReady
<1>3. Goes(Publishing(next, all, [b \in all |-> Invalidated]), log)
  BY <1>2, PublishingGoes
<1>4. Goes(AfterItem(next), log)
  BY <1>2, AfterItemGoes
<1>5. Invalidating(s, c) = IF all = {} THEN AfterItem(next)
                           ELSE Publishing(next, all, [b \in all |-> Invalidated])
  BY DEF Invalidating
<1> HIDE DEF next, all
<1> QED BY <1>3, <1>4, <1>5

\* _supersede leaves the task at its next store call, or at its queue.
LEMMA SupersedingGoes ==
    ASSUME NEW s, NEW log, NEW c, Ready(s, log), Journal(log), SessionOk(session)
    PROVE  Goes(Superseding(s, c), log)
<1> DEFINE affected == {b \in s.evaluated : b >= c.at}
<1>1. Goes(Writing(s, Entry("DECISION_SUPERSEDED", c, Min(affected)), "INVALIDATE"), log)
  BY PlainGoes
<1>2. Goes(Invalidating(s, c), log)
  BY InvalidatingGoes
<1> QED BY <1>1, <1>2 DEF Superseding

\* A record that is not a boundary leaves the task at its next store call, or at its queue.
LEMMA RecordedGoes ==
    ASSUME NEW s, NEW log, NEW item, Ready(s, log), Journal(log), SessionOk(session)
    PROVE  Goes(Recorded(s, item), log)
<1> DEFINE t == [s EXCEPT !.item = item]
<1>1. Alike(s, t)
  BY DEF Ready, Base, Alike, RunFields
<1>2. Ready(t, log)
  BY <1>1, AlikeReady
<1> HIDE DEF t
<1>3. /\ Goes(Writing(s, Entry("LATE_FILL", None, item.k), "NEXT"), log)
      /\ Goes(Writing(s, Entry("PROVIDER", item.k, None), "NEXT"), log)
      /\ Goes(Writing(s, Entry("OBSERVATION_REFUSED", None, None), "NEXT"), log)
      /\ Goes(Writing(t, Entry("CONFLICTING_CORRECTION", item.c, item.k), "CONTESTED"), log)
  BY <1>2, PlainGoes
<1>4. Goes(AfterItem(s), log)
  BY AfterItemGoes
<1> QED BY <1>3, <1>4 DEF Recorded, t

-----------------------------------------------------------------------------
(***************************************************************************)
(* An entry is written.                                                    *)
(***************************************************************************)
\* t is s once its entry is committed
After(s, t, new) ==
    /\ DOMAIN t = RunFields /\ t.ended # "INTERRUPTED"
    /\ t.pending = s.pending /\ t.evaluated = s.evaluated /\ t.seq = s.seq
    /\ ~t.failed => t.entries = Len(new) /\ t.decisions = Cardinality(Decided(new))

\* The journal that holds the entry of a task is one, and says no more than was known.
LEMMA CommittedJournal ==
    ASSUME NEW s, NEW log, Goes(s, log), s.pc = "WRITE", Journal(log), Decisions(log, session),
           Closed(log)
    PROVE  /\ Journal(Appended(log, s.entry)) /\ Decisions(Appended(log, s.entry), session)
           /\ Closed(Appended(log, s.entry))
           /\ \A i \in DOMAIN Appended(log, s.entry) : Appended(log, s.entry)[i].seq <= s.seq
<1> DEFINE new == Appended(log, s.entry)
<1>1. /\ Fits(s, log, session, s.entry, s.then) /\ Open(s, log, session)
      /\ s.entry.seq = s.seq /\ s.seq \in Nat /\ \A i \in DOMAIN log : log[i].seq < s.seq
  BY DEF Goes, TaskOk, Open, Counts, Tasks
<1>2. DOMAIN s.entry = EntryFields
  BY <1>1 DEF Fits
<1>3. /\ Journal(new)
      /\ \A i \in DOMAIN new : \/ i \in DOMAIN log /\ new[i] = log[i]
                               \/ i = Len(log) + 1 /\ new[i] = s.entry
  BY <1>1, <1>2, AppendedFacts
<1> HIDE DEF new
<1>4. Decisions(new, session)
  BY <1>1, <1>3 DEF Decisions, Fits
<1>5. Closed(new)
  <2>1. Len(log) \in Nat /\ DOMAIN log = 1 .. Len(log)
    BY SeqFacts DEF Journal
  <2>2. Len(new) \in Nat /\ DOMAIN new = 1 .. Len(new)
    BY <1>3, SeqFacts DEF Journal
  <2>3. ASSUME NEW i \in DOMAIN new, NEW j \in DOMAIN new, Final(new[i]), i < j
        PROVE  FALSE
    <3>1. i = Len(log) + 1
      BY <1>1, <1>3, <2>3 DEF Open
    <3>2. j <= Len(log) + 1
      BY <1>3, <2>1
    <3> QED BY <3>1, <3>2, <2>1, <2>2, <2>3
  <2> QED BY <2>3 DEF Closed
<1>6. \A i \in DOMAIN new : new[i].seq <= s.seq
  BY <1>1, <1>3 DEF Journal
<1> QED BY <1>3, <1>4, <1>5, <1>6 DEF new

\* A task whose entry is committed, or may have been, goes on unless that entry was final.
LEMMA CommittedReady ==
    ASSUME NEW s, NEW log, NEW t, Goes(s, log), s.pc = "WRITE", s.then # "ENDED", Journal(log),
           After(s, t, Appended(log, s.entry))
    PROVE  Ready(t, Appended(log, s.entry))
<1> DEFINE new == Appended(log, s.entry)
<1>1. /\ Fits(s, log, session, s.entry, s.then) /\ Open(s, log, session) /\ Base(s, session)
      /\ s.entry.seq = s.seq /\ s.seq \in Nat /\ \A i \in DOMAIN log : log[i].seq < s.seq
  BY DEF Goes, TaskOk, Open, Counts, Tasks
<1>2. DOMAIN s.entry = EntryFields
  BY <1>1 DEF Fits
<1>3. /\ Journal(new)
      /\ \A i \in DOMAIN new : \/ i \in DOMAIN log /\ new[i] = log[i]
                               \/ i = Len(log) + 1 /\ new[i] = s.entry
  BY <1>1, <1>2, AppendedFacts
<1> HIDE DEF new
<1>4. Base(t, session)
  BY <1>1 DEF After, Base
<1>5. Counts(t, new)
  BY <1>1, <1>3 DEF After, Counts, Journal, new
<1>6. Sound(t, new, session)
  BY <1>1, <1>3 DEF Sound, Open, Fits, After
<1>7. \A i \in DOMAIN new : ~Final(new[i])
  BY <1>1, <1>3 DEF Open, Fits
<1> QED BY <1>4, <1>5, <1>6, <1>7 DEF Ready, Open, new

\* What the acknowledged write of each kind of entry adds to the counts.
LEMMA CommittedCounts ==
    ASSUME NEW s, NEW log, Goes(s, log), s.pc = "WRITE", Journal(log)
    PROVE  LET new == Appended(log, s.entry)
               decided == IF s.entry.marker = "UNAVAILABLE" THEN 0 ELSE 1
           IN  /\ ~s.failed => s.entries + Len(new) - Len(log) = Len(new)
               /\ ~s.failed /\ s.then # "EVALUATED" => s.decisions = Cardinality(Decided(new))
               /\ ~s.failed /\ s.then = "EVALUATED" =>
                    s.decisions + decided = Cardinality(Decided(new))
               /\ s.then \in {"EVALUATED", "ENDED"} => new = Append(log, s.entry)
<1> DEFINE new == Appended(log, s.entry)
           decided == IF s.entry.marker = "UNAVAILABLE" THEN 0 ELSE 1
<1>1. /\ Fits(s, log, session, s.entry, s.then) /\ Open(s, log, session)
      /\ s.entry.seq = s.seq /\ s.seq \in Nat /\ \A i \in DOMAIN log : log[i].seq < s.seq
  BY DEF Goes, TaskOk, Open, Counts, Tasks
<1>2. DOMAIN s.entry = EntryFields
  BY <1>1 DEF Fits
<1>3. /\ Journal(new)
      /\ \/ /\ new = log
            /\ \E i \in DOMAIN log : log[i].what = s.entry.what /\ log[i].marker = s.entry.marker
                                        /\ log[i].at = s.entry.at
         \/ new = Append(log, s.entry)
  BY <1>1, <1>2, AppendedFacts
<1> HIDE DEF new
<1>4. log \in Seq(ToSet(log)) /\ Len(log) \in Nat /\ Len(new) \in Nat
  BY <1>3, SeqFacts DEF Journal
<1>5. s.then \in {"EVALUATED", "ENDED"} => new = Append(log, s.entry)
  BY <1>1, <1>3 DEF Fits, Open, Final
<1>6. ~s.failed => s.entries + Len(new) - Len(log) = Len(new)
  BY <1>1, <1>4 DEF Open, Counts
<1>7. Cardinality(Decided(log)) \in Nat
  BY <1>4, DecidedFinite
<1>8. Cardinality(Decided(Append(log, s.entry))) =
             Cardinality(Decided(log)) +
               (IF s.entry.what = "DECISION" /\ s.entry.marker # "UNAVAILABLE" THEN 1 ELSE 0)
  BY <1>4, DecidedAppend
<1>9. ~s.failed => s.decisions = Cardinality(Decided(log))
  BY <1>1 DEF Open, Counts
<1>10. s.entry.what = "DECISION" <=> s.then = "EVALUATED"
  BY <1>1 DEF Fits
<1>11. ~s.failed /\ s.then # "EVALUATED" => s.decisions = Cardinality(Decided(new))
  <2>1. s.then # "EVALUATED" /\ new = Append(log, s.entry) =>
          Cardinality(Decided(new)) = Cardinality(Decided(log))
    BY <1>7, <1>8, <1>10
  <2>2. new = log \/ new = Append(log, s.entry)
    BY <1>3
  <2> QED BY <2>1, <2>2, <1>9
<1>12. ~s.failed /\ s.then = "EVALUATED" => s.decisions + decided = Cardinality(Decided(new))
  BY <1>5, <1>7, <1>8, <1>9, <1>10
<1> QED BY <1>5, <1>6, <1>11, <1>12 DEF new

\* Where the task goes once its entry is in the journal.
LEMMA WrittenGoes ==
    ASSUME NEW s, NEW log, Goes(s, log), s.pc = "WRITE", Journal(log), Decisions(log, session),
           Closed(log), SessionOk(session)
    PROVE  LET new == Appended(log, s.entry)
           IN  Goes(Written([s EXCEPT !.entries = @ + Len(new) - Len(log)]), new)
<1> DEFINE new == Appended(log, s.entry)
           t == [s EXCEPT !.entries = @ + Len(new) - Len(log)]
           decided == IF s.entry.marker = "UNAVAILABLE" THEN 0 ELSE 1
<1>1. /\ Fits(s, log, session, s.entry, s.then) /\ Open(s, log, session) /\ Base(s, session)
  BY DEF Goes, TaskOk, Tasks
<1>2. Journal(new) /\ \A i \in DOMAIN new : new[i].seq <= s.seq
  BY CommittedJournal
<1>3. /\ ~s.failed => s.entries + Len(new) - Len(log) = Len(new)
      /\ ~s.failed /\ s.then # "EVALUATED" => s.decisions = Cardinality(Decided(new))
      /\ ~s.failed /\ s.then = "EVALUATED" =>
                    s.decisions + decided = Cardinality(Decided(new))
      /\ s.then \in {"EVALUATED", "ENDED"} => new = Append(log, s.entry)
  BY CommittedCounts
<1>4. /\ DOMAIN t = RunFields /\ t.ended = s.ended /\ t.pending = s.pending
      /\ t.evaluated = s.evaluated /\ t.failed = s.failed /\ t.seq = s.seq
      /\ t.decisions = s.decisions /\ t.then = s.then /\ t.entry = s.entry /\ t.item = s.item
      /\ t.entries = s.entries + Len(new) - Len(log) /\ t.watches = s.watches
      /\ t.finished = s.finished
  BY <1>1 DEF Base, RunFields
<1>5. s.then \in {"NEXT", "EVALUATED", "CONTESTED", "INVALIDATE", "ENDED"}
  BY <1>1 DEF Fits
<1>s. s.ended # "INTERRUPTED"
  BY <1>1 DEF Base
<1>6. CASE s.then \in {"NEXT", "CONTESTED", "INVALIDATE"}
  <2> HIDE DEF t
  <2>1. After(s, t, new)
    BY <1>s, <1>3, <1>4, <1>6 DEF After
  <2>2. Ready(t, new)
    BY <2>1, <1>6, CommittedReady
  <2>3. s.then = "NEXT" => Written(t) = AfterItem(t)
    BY <1>4 DEF Written
  <2>4. s.then = "CONTESTED" => Written(t) = Superseding(t, t.item.c)
    BY <1>4 DEF Written
  <2>5. s.then = "INVALIDATE" => Written(t) = Invalidating(t, t.item.c)
    BY <1>4 DEF Written
  <2>6. /\ Goes(AfterItem(t), new) /\ Goes(Superseding(t, t.item.c), new)
        /\ Goes(Invalidating(t, t.item.c), new)
    BY <1>2, <2>2, AfterItemGoes, SupersedingGoes, InvalidatingGoes
  <2>7. Goes(Written(t), new)
    BY <1>6, <2>3, <2>4, <2>5, <2>6
  <2> QED BY <2>7 DEF t
<1>7. CASE s.then = "EVALUATED"
  <2> DEFINE u == [t EXCEPT !.decisions = @ + decided]
             w == Watched(u)
             next == Advanced(w, t.item.prefix, FALSE)
  <2>1. After(s, u, new)
    BY <1>s, <1>3, <1>4, <1>7 DEF After, RunFields
  <2>2. Ready(u, new)
    BY <2>1, <1>7, CommittedReady
  <2>3. Alike(u, w)
    <3> HIDE DEF u
    <3> QED BY <2>2 DEF Ready, Base, Watched, Alike, RunFields
  <2>4. Ready(w, new)
    BY <2>2, <2>3, AlikeReady
  <2>5. Goes(next, new)
    BY <1>2, <2>4, AdvancedGoes
  <2>6. Written(t) = IF next.pc = "LOOP" THEN AfterItem(next) ELSE next
    <3>1. t.entry = s.entry /\ t.then = "EVALUATED"
      BY <1>4, <1>7
    <3> HIDE DEF t, new
    <3>2. decided = IF t.entry.marker = "UNAVAILABLE" THEN 0 ELSE 1
      BY <3>1
    <3> HIDE DEF decided
    <3> QED BY <3>1, <3>2 DEF Written
  <2> HIDE DEF next, t
  <2>7. next.pc = "LOOP" => Ready(next, new)
    BY <2>5 DEF Goes, TaskOk, Ready, Tasks
  <2>8. next.pc = "LOOP" => Goes(AfterItem(next), new)
    BY <1>2, <2>7, AfterItemGoes
  <2>9. Goes(Written(t), new)
    BY <2>5, <2>6, <2>8
  <2> QED BY <2>9 DEF t
<1>8. CASE s.then = "ENDED"
  <2> DEFINE u == [t EXCEPT !.pc = "CLOSE"]
  <2>1. Written(t) = u
    BY <1>4, <1>8 DEF Written
  <2>2. /\ DOMAIN u = RunFields /\ u.ended = s.ended /\ u.pending = s.pending
        /\ u.evaluated = s.evaluated /\ u.failed = s.failed /\ u.seq = s.seq
        /\ u.decisions = s.decisions /\ u.entries = t.entries /\ u.pc = "CLOSE"
    BY <1>4 DEF RunFields
  <2> HIDE DEF u
  <2>3. Base(u, session)
    BY <1>1, <2>2 DEF Base
  <2>4. Counts(u, new)
    BY <1>1, <1>2, <1>3, <1>4, <1>8, <2>2 DEF Open, Counts
  <2>5. new # <<>> /\ Last(new) = s.entry
    BY <1>3, <1>8, AppendFacts DEF Journal, Last
  <2>6. s.entry.what = "RUN_ENDED"
    BY <1>1, <1>8 DEF Fits, Final
  <2>7. Goes(u, new)
    <3> HIDE DEF new
    <3> QED BY <2>2, <2>3, <2>4, <2>5, <2>6 DEF Goes, TaskOk, Tasks
  <2> QED BY <2>1, <2>7
<1> QED BY <1>5, <1>6, <1>7, <1>8

-----------------------------------------------------------------------------
(***************************************************************************)
(* A step of one run.                                                      *)
(***************************************************************************)
\* only the run r, its journal and perhaps the budget, the slots and readers change
Alone(r) ==
    /\ DOMAIN run' = Runs /\ DOMAIN journal' = Runs
    /\ \A q \in Runs \ {r} : run'[q] = run[q] /\ journal'[q] = journal[q]
    /\ UNCHANGED <<session, rows, lock, creators, enders, recovery>>

\* A task that stays one, or is over without closing its row, keeps the invariant.
LEMMA TaskKeeps ==
    ASSUME IInv, NEW r \in Runs, run[r].pc \in Tasks, Alone(r),
           Base(run'[r], session), TaskOk(run'[r], journal'[r], session),
           run'[r].pc \in Tasks \cup {"DONE"},
           Journal(journal'[r]), Decisions(journal'[r], session), Closed(journal'[r])
    PROVE  IInv'
<1>1. Shapes' /\ SessionOk(session)'
  BY DEF IInv, Alone, Shapes
<1>2. RunOk(run[r], journal[r], rows[r], session)
  BY DEF IInv
<1>3. RunOk(run'[r], journal'[r], rows'[r], session')
  <2>1. RowOk(run'[r].pc, rows[r])
    BY <1>2 DEF RunOk, RowOk, Tasks
  <2> QED BY <2>1 DEF RunOk, Alone, Tasks
<1>4. \A q \in Runs : RunOk(run'[q], journal'[q], rows'[q], session') /\ Closed(journal'[q])
  BY <1>3 DEF IInv, Alone
<1>5. recovery = {}
  BY DEF IInv, RecoveryOk, Tasks
<1>6. RecoveryOk'
  BY <1>5 DEF RecoveryOk, Alone
<1>7. ASSUME NEW h \in Creators PROVE CreatorOk(h)'
  <2>1. CreatorOk(h)
    BY DEF IInv
  <2>2. creators[h].phase \in {"ROW", "OPENED"} => creators[h].run # r
    BY <2>1 DEF CreatorOk, Tasks
  <2> QED BY <2>1, <2>2 DEF CreatorOk, Alone
<1>8. r \notin Ended
  BY <1>2 DEF RunOk, RowOk, Ended
<1>9. Ended' = Ended
  BY DEF Ended, Alone
<1>10. RowCountsItsJournal'
  <2>1. RowCountsItsJournal
    BY DEF IInv
  <2>2. \A q \in Ended : q \in Runs \ {r}
    BY <1>8 DEF Ended
  <2>3. \A q \in Ended : run'[q] = run[q] /\ journal'[q] = journal[q] /\ rows'[q] = rows[q]
    BY <2>2 DEF Alone
  <2> QED BY <2>1, <2>3, <1>9 DEF RowCountsItsJournal
<1> QED BY <1>1, <1>4, <1>6, <1>7, <1>10 DEF IInv

\* What the invariant says of a run.
LEMMA RunFacts ==
    ASSUME IInv, NEW r \in Runs
    PROVE  /\ Base(run[r], session) /\ TaskOk(run[r], journal[r], session)
           /\ RowOk(run[r].pc, rows[r]) /\ Journal(journal[r]) /\ Closed(journal[r])
           /\ Decisions(journal[r], session) /\ SessionOk(session)
           /\ run[r].pc \in Tasks => Goes(run[r], journal[r])
           /\ run[r].pc \in Tasks \ {"CLOSE"} => Ready(run[r], journal[r])
BY DEF IInv, RunOk, Goes, Ready, TaskOk

\* The same, when the journal is left alone.
LEMMA RunOnly ==
    ASSUME IInv, NEW r \in Runs, NEW t, OnlyRun(r, t), UNCHANGED journal,
           UNCHANGED <<session, rows, lock, creators, enders, recovery>>
    PROVE  Alone(r) /\ run'[r] = t /\ journal'[r] = journal[r]
BY DEF IInv, Shapes, OnlyRun, Alone

\* Taking the first of the queue, and taking up its boundary.
LEMMA QueueTail ==
    ASSUME NEW p, NEW evaluated, NEW ses, Queue(p, evaluated, ses), p # <<>>
    PROVE  /\ Queue(Tail(p), evaluated, ses) /\ DOMAIN Head(p) = ItemFields
           /\ Head(p).kind = "CAPTURE" =>
                /\ Queue(Tail(p), evaluated \cup {Head(p).k}, ses)
                /\ Known(ses, Head(p).k, Head(p).prefix) /\ Head(p).k \notin evaluated
<1> DEFINE q == Tail(p)
<1>1. /\ q \in Seq(ToSet(q)) /\ Len(p) \in Nat \ {0} /\ DOMAIN p = 1 .. Len(p)
      /\ DOMAIN q = 1 .. (Len(p) - 1)
      /\ \A i \in 1 .. (Len(p) - 1) : q[i] = p[i + 1]
      /\ Head(p) = p[1] /\ 1 \in DOMAIN p
  BY TailFacts, SeqFacts DEF Queue
<1> HIDE DEF q
<1>2. \A i \in DOMAIN q : i + 1 \in DOMAIN p /\ q[i] = p[i + 1] /\ i + 1 # 1 /\ i \in Nat
  BY <1>1
<1>3. \A i \in DOMAIN q : DOMAIN q[i] = ItemFields
  BY <1>2 DEF Queue
<1>4. ASSUME NEW i \in DOMAIN q, q[i].kind = "CAPTURE"
      PROVE  /\ Known(ses, q[i].k, q[i].prefix) /\ q[i].k \notin evaluated
             /\ Head(p).kind = "CAPTURE" => q[i].k # Head(p).k
             /\ \A j \in DOMAIN q : q[j].kind = "CAPTURE" /\ q[j].k = q[i].k => i = j
  <2>1. p[i + 1].kind = "CAPTURE" /\ q[i] = p[i + 1] /\ i + 1 \in DOMAIN p
    BY <1>2, <1>4
  <2>2. Known(ses, q[i].k, q[i].prefix) /\ q[i].k \notin evaluated
    BY <2>1 DEF Queue
  <2>3. Head(p).kind = "CAPTURE" => q[i].k # Head(p).k
    BY <1>1, <1>2, <2>1 DEF Queue
  <2>4. ASSUME NEW j \in DOMAIN q, q[j].kind = "CAPTURE", q[j].k = q[i].k PROVE i = j
    <3>1. i + 1 = j + 1
      BY <1>2, <2>1, <2>4 DEF Queue
    <3> QED BY <3>1, <1>2
  <2> QED BY <2>2, <2>3, <2>4
<1>5. Queue(q, evaluated, ses)
  BY <1>1, <1>3, <1>4 DEF Queue
<1>6. Head(p).kind = "CAPTURE" => Queue(q, evaluated \cup {Head(p).k}, ses)
  BY <1>1, <1>3, <1>4 DEF Queue
<1> QED BY <1>1, <1>5, <1>6 DEF Queue, q

\* Taking a record from the queue keeps the invariant.
LEMMA TakeRecordKeeps ==
    ASSUME IInv, NEW r \in Runs, TakeRecord(r)
    PROVE  IInv'
<1> DEFINE s == [run[r] EXCEPT !.pending = Tail(@)]
           item == Head(run[r].pending)
<1>1. run[r].pc = "LOOP" /\ run[r].pending # <<>>
  BY DEF TakeRecord
<1>2. Ready(run[r], journal[r]) /\ Journal(journal[r]) /\ SessionOk(session)
      /\ Closed(journal[r]) /\ Decisions(journal[r], session)
  BY <1>1, RunFacts DEF Tasks
<1>3. Ready(s, journal[r])
  <2>1. /\ DOMAIN s = RunFields /\ s.ended = run[r].ended /\ s.pending = Tail(run[r].pending)
        /\ s.evaluated = run[r].evaluated /\ s.failed = run[r].failed /\ s.seq = run[r].seq
        /\ s.decisions = run[r].decisions /\ s.entries = run[r].entries
    BY <1>2 DEF Ready, Base, RunFields
  <2>2. Queue(Tail(run[r].pending), run[r].evaluated, session)
    BY <1>1, <1>2, QueueTail DEF Ready, Base
  <2> HIDE DEF s
  <2> QED BY <1>2, <2>1, <2>2 DEF Ready, Base, Open, Counts, Sound
<1>4. Goes(Recorded(s, item), journal[r])
  BY <1>2, <1>3, RecordedGoes
<1>5. Alone(r) /\ run'[r] = Recorded(s, item) /\ journal'[r] = journal[r]
  BY RunOnly DEF TakeRecord, database, InTask, handlers
<1> HIDE DEF s, item
<1> QED BY <1>1, <1>2, <1>4, <1>5, TaskKeeps DEF Goes, Tasks

\* Evaluating a boundary keeps the invariant: its decision has what was captured.
LEMMA EvaluateKeeps ==
    ASSUME IInv, NEW r \in Runs, Evaluate(r)
    PROVE  IInv'
<1> DEFINE item == Head(run[r].pending)
           s == [run[r] EXCEPT !.pending = Tail(@), !.item = item]
           t == [s EXCEPT !.evaluated = @ \cup {item.k}, !.observations = @ + 1]
           limited == [s EXCEPT !.ended = "OBSERVATION_LIMIT"]
           failing == [t EXCEPT !.ended = "EVALUATION_ERROR"]
           log == journal[r]
<1>1. run[r].pc = "LOOP" /\ run[r].pending # <<>> /\ item.kind = "CAPTURE"
  BY DEF Evaluate
<1>2. Ready(run[r], journal[r]) /\ Journal(journal[r]) /\ SessionOk(session)
      /\ Closed(journal[r]) /\ Decisions(journal[r], session)
  BY <1>1, RunFacts DEF Tasks
<1>3. /\ Queue(Tail(run[r].pending), run[r].evaluated, session)
      /\ Queue(Tail(run[r].pending), run[r].evaluated \cup {item.k}, session)
      /\ Known(session, item.k, item.prefix) /\ item.k \notin run[r].evaluated
  BY <1>1, <1>2, QueueTail DEF Ready, Base
<1>4. item.k # None
  BY <1>2, <1>3 DEF Known, Past, SessionOk
<1>5. /\ DOMAIN s = RunFields /\ s.ended = run[r].ended /\ s.pending = Tail(run[r].pending)
      /\ s.evaluated = run[r].evaluated /\ s.failed = run[r].failed /\ s.seq = run[r].seq
      /\ s.decisions = run[r].decisions /\ s.entries = run[r].entries
  BY <1>2 DEF Ready, Base, RunFields
<1>6. /\ DOMAIN t = RunFields /\ t.ended = run[r].ended /\ t.pending = Tail(run[r].pending)
      /\ t.evaluated = run[r].evaluated \cup {item.k} /\ t.failed = run[r].failed
      /\ t.seq = run[r].seq /\ t.decisions = run[r].decisions /\ t.entries = run[r].entries
  BY <1>5 DEF RunFields
<1>7. Alike(s, limited)
  BY <1>5 DEF Alike, RunFields
<1>8. Alike(t, failing)
  BY <1>6 DEF Alike, RunFields
<1>9. Ready(s, log)
  <2> HIDE DEF s
  <2> QED BY <1>2, <1>3, <1>5 DEF Ready, Base, Open, Counts, Sound
<1>10. Ready(t, log)
  <2> HIDE DEF t
  <2> QED BY <1>2, <1>3, <1>6 DEF Ready, Base, Open, Counts, Sound, Known
<1>11. Ready(limited, log) /\ Ready(failing, log)
  BY <1>7, <1>8, <1>9, <1>10, AlikeReady
<1>12. Goes(Writing(limited, Entry("RUN_ENDED", "limit", item.k), "NEXT"), log)
  <2>1. Fits(limited, log, session, Entry("RUN_ENDED", "limit", item.k), "NEXT")
    BY <1>4 DEF Fits, Entry, EntryFields, Final
  <2> QED BY <1>2, <1>11, <2>1, WritingGoes
<1>13. Goes(Writing(failing, Entry("EVALUATION_FAILED", "strategy", item.k), "NEXT"), log)
  BY <1>2, <1>11, PlainGoes
<1>14. ASSUME NEW outcome
       PROVE  Goes(Writing(t, Decision(outcome, item), "EVALUATED"), log)
  <2> HIDE DEF t
  <2> DEFINE e == Decision(outcome, item)
  <2>1. DOMAIN e = EntryFields /\ e.what = "DECISION" /\ e.at = item.k /\ e.bars = item.prefix
    BY DEF Decision, EntryFields
  <2> HIDE DEF e
  <2>2. \A i \in DOMAIN log : log[i].what = "DECISION" => log[i].at # e.at
    BY <1>2, <1>3, <2>1 DEF Ready, Open, Sound
  <2>3. Fits(t, log, session, e, "EVALUATED")
    BY <1>3, <1>6, <2>1, <2>2 DEF Fits, Final
  <2>4. Goes(Writing(t, e, "EVALUATED"), log)
    BY <1>2, <1>10, <2>3, WritingGoes
  <2> QED BY <2>4 DEF e
<1>15. \E u : OnlyRun(r, u) /\ Goes(u, log)
  <2> HIDE DEF log, limited, failing
  <2> QED BY <1>12, <1>13, <1>14 DEF Evaluate, limited, failing
<1>16. PICK u : OnlyRun(r, u) /\ Goes(u, log)
  BY <1>15
<1>17. Alone(r) /\ run'[r] = u /\ journal'[r] = journal[r]
  BY <1>16, RunOnly DEF Evaluate, database, InTask, handlers
<1> HIDE DEF s, item, t, limited, failing
<1> QED BY <1>1, <1>2, <1>16, <1>17, TaskKeeps DEF Goes, Tasks

\* An empty queue, and what ends a run, keep the invariant.
LEMMA RunsOutKeeps ==
    ASSUME IInv, NEW r \in Runs, RunsOut(r)
    PROVE  IInv'
<1> DEFINE s == [run[r] EXCEPT !.ended = "PROVIDER_ERROR"]
           log == journal[r]
<1>1. run[r].pc = "LOOP"
  BY DEF RunsOut
<1>2. Ready(run[r], journal[r]) /\ Journal(journal[r]) /\ SessionOk(session)
      /\ Closed(journal[r]) /\ Decisions(journal[r], session)
  BY <1>1, RunFacts DEF Tasks
<1>3. Alike(run[r], s)
  BY <1>2 DEF Ready, Base, RunFields, Alike
<1>4. Ready(s, log)
  BY <1>2, <1>3, AlikeReady
<1>5. Goes(Writing(s, Entry("EVALUATION_FAILED", "overflow", None), "NEXT"), log)
  BY <1>2, <1>4, PlainGoes
<1>6. Goes(Finishing(run[r]), log)
  BY <1>2, FinishingGoes
<1>7. PICK u : OnlyRun(r, u) /\ Goes(u, log)
  BY <1>5, <1>6 DEF RunsOut
<1>8. Alone(r) /\ run'[r] = u /\ journal'[r] = journal[r]
  BY <1>7, RunOnly DEF RunsOut, database, InTask, handlers
<1> HIDE DEF s
<1> QED BY <1>1, <1>2, <1>7, <1>8, TaskKeeps DEF Goes, Tasks

\* The start of a task, or its end before it followed anything, keeps the invariant.
LEMMA TaskStartsKeeps ==
    ASSUME IInv, NEW r \in Runs, TaskStarts(r)
    PROVE  IInv'
<1>1. run[r].pc = "START"
  BY DEF TaskStarts
<1>2. Ready(run[r], journal[r]) /\ Journal(journal[r]) /\ Closed(journal[r])
      /\ Decisions(journal[r], session)
  BY <1>1, RunFacts DEF Tasks
<1>3. PICK pc \in {"LOOP", "DONE"} : OnlyRun(r, [run[r] EXCEPT !.pc = pc])
  BY DEF TaskStarts
<1> DEFINE u == [run[r] EXCEPT !.pc = pc]
<1>4. Alike(run[r], u) /\ u.pc = pc
  BY <1>2 DEF Ready, Base, Alike, RunFields
<1>5. Alone(r) /\ run'[r] = u /\ journal'[r] = journal[r]
  BY <1>3, RunOnly DEF TaskStarts, database, handlers
<1> HIDE DEF u
<1>6. Ready(u, journal[r])
  BY <1>2, <1>4, AlikeReady
<1>7. TaskOk(u, journal[r], session) /\ Base(u, session)
  BY <1>4, <1>6 DEF Ready, TaskOk, Tasks
<1> QED BY <1>1, <1>2, <1>4, <1>5, <1>7, TaskKeeps DEF Tasks

\* What appending to one journal changes.
LEMMA AppendsAlone ==
    ASSUME IInv, NEW r \in Runs, NEW t, NEW e, OnlyRun(r, t),
           journal' = [journal EXCEPT ![r] = Appended(@, e)],
           UNCHANGED <<session, rows, lock, creators, enders, recovery>>
    PROVE  Alone(r) /\ run'[r] = t /\ journal'[r] = Appended(journal[r], e)
BY DEF IInv, Shapes, OnlyRun, Alone

\* A committed entry keeps the invariant.
LEMMA WriteEntryKeeps ==
    ASSUME IInv, NEW r \in Runs, WriteEntry(r)
    PROVE  IInv'
<1> DEFINE new == Appended(journal[r], run[r].entry)
           s == [run[r] EXCEPT !.entries = @ + Len(new) - Len(journal[r])]
           s0 == [run[r] EXCEPT !.entries = @ + Len(journal'[r]) - Len(journal[r])]
<1>1. run[r].pc = "WRITE"
  BY DEF WriteEntry
<1>2. Goes(run[r], journal[r]) /\ Journal(journal[r]) /\ SessionOk(session)
      /\ Closed(journal[r]) /\ Decisions(journal[r], session)
  BY <1>1, RunFacts DEF Tasks
<1>3. Journal(new) /\ Decisions(new, session) /\ Closed(new)
  BY <1>1, <1>2, CommittedJournal
<1>4. Goes(Written(s), new)
  BY <1>1, <1>2, WrittenGoes
<1>5. Alone(r) /\ run'[r] = Written(s0) /\ journal'[r] = new
  BY AppendsAlone DEF WriteEntry, InTask, handlers
<1>6. s0 = s
  BY <1>5
<1> HIDE DEF s, s0, new
<1> QED BY <1>1, <1>3, <1>4, <1>5, <1>6, TaskKeeps DEF Goes, Tasks

\* Committed outcomes keep the invariant.
LEMMA PublishOutcomesKeeps ==
    ASSUME IInv, NEW r \in Runs, PublishOutcomes(r)
    PROVE  IInv'
<1> DEFINE t == IF run[r].finished THEN Closing(run[r]) ELSE AfterItem(run[r])
<1>1. run[r].pc = "PUBLISH"
  BY DEF PublishOutcomes
<1>2. Ready(run[r], journal[r]) /\ Journal(journal[r]) /\ SessionOk(session)
      /\ Closed(journal[r]) /\ Decisions(journal[r], session)
  BY <1>1, RunFacts DEF Tasks
<1>3. Goes(t, journal[r])
  BY <1>2, ClosingGoes, AfterItemGoes
<1>4. Alone(r) /\ run'[r] = t /\ journal'[r] = journal[r]
  BY RunOnly DEF PublishOutcomes, InTask, handlers
<1> HIDE DEF t
<1> QED BY <1>1, <1>2, <1>3, <1>4, TaskKeeps DEF Goes, Tasks

\* A store call raised: the journal may hold the entry or not.
LEMMA StoreFailsKeeps ==
    ASSUME IInv, NEW r \in Runs, StoreFails(r)
    PROVE  IInv'
<1> DEFINE s == [run[r] EXCEPT !.failed = TRUE]
           over == [s EXCEPT !.pc = "DONE"]
           new == Appended(journal[r], run[r].entry)
<1>1. run[r].pc \in {"WRITE", "PUBLISH"} /\ Raised(r)
  BY DEF StoreFails
<1>2. Ready(run[r], journal[r]) /\ Goes(run[r], journal[r]) /\ Journal(journal[r])
      /\ SessionOk(session) /\ Closed(journal[r]) /\ Decisions(journal[r], session)
  BY <1>1, RunFacts DEF Tasks
<1>3. /\ DOMAIN s = RunFields /\ s.ended = run[r].ended /\ s.pending = run[r].pending
      /\ s.evaluated = run[r].evaluated /\ s.failed = TRUE /\ s.seq = run[r].seq
      /\ s.decisions = run[r].decisions /\ s.entries = run[r].entries
      /\ s.finished = run[r].finished
  BY <1>2 DEF Ready, Base, RunFields
<1>4. /\ DOMAIN over = RunFields /\ over.ended = s.ended /\ over.pending = s.pending
      /\ over.evaluated = s.evaluated /\ over.pc = "DONE"
  BY <1>3 DEF RunFields
<1> HIDE DEF over
<1>5. Base(over, session)
  BY <1>2, <1>3, <1>4 DEF Ready, Base
<1>6. TaskOk(over, journal'[r], session)
  BY <1>4 DEF TaskOk, Tasks
<1>7. OnlyRun(r, IF s.finished THEN over ELSE Finishing(s))
  BY <1>1 DEF Raised, over
<1>u. UNCHANGED <<session, rows, lock, creators, enders, recovery>>
  BY <1>1 DEF Raised, handlers
<1>8. CASE UNCHANGED journal
  <2>1. Alone(r) /\ run'[r] = (IF s.finished THEN over ELSE Finishing(s))
          /\ journal'[r] = journal[r]
    BY <1>7, <1>8, <1>u, RunOnly
  <2>2. Ready(s, journal[r])
    <3> HIDE DEF s
    <3> QED BY <1>2, <1>3 DEF Ready, Base, Open, Counts, Sound
  <2>3. Goes(Finishing(s), journal[r])
    BY <1>2, <2>2, FinishingGoes
  <2> HIDE DEF s
  <2> QED BY <1>1, <1>2, <1>4, <1>5, <1>6, <2>1, <2>3, TaskKeeps DEF Goes, Tasks
<1>9. CASE run[r].pc = "WRITE" /\ journal' = [journal EXCEPT ![r] = Appended(@, run[r].entry)]
  <2>1. Alone(r) /\ run'[r] = (IF s.finished THEN over ELSE Finishing(s)) /\ journal'[r] = new
    <3> DEFINE u == IF s.finished THEN over ELSE Finishing(s)
    <3>1. OnlyRun(r, u)
      BY <1>7
    <3> HIDE DEF u
    <3>2. Alone(r) /\ run'[r] = u /\ journal'[r] = Appended(journal[r], run[r].entry)
      BY <3>1, <1>9, <1>u, AppendsAlone
    <3> QED BY <3>2 DEF u
  <2>2. Journal(new) /\ Decisions(new, session) /\ Closed(new)
    BY <1>2, <1>9, CommittedJournal
  <2>3. run[r].then = "ENDED" => run[r].finished
    BY <1>2, <1>9 DEF Goes, TaskOk, Fits
  <2>4. After(run[r], s, new)
    <3> HIDE DEF s, new
    <3> QED BY <1>2, <1>3 DEF After, Ready, Base
  <2>5. ~s.finished => Ready(s, new)
    BY <1>2, <1>3, <1>9, <2>3, <2>4, CommittedReady
  <2>6. ~s.finished => Goes(Finishing(s), new)
    BY <1>2, <2>2, <2>5, FinishingGoes
  <2> HIDE DEF s, new
  <2> QED BY <1>1, <1>4, <1>5, <1>6, <2>1, <2>2, <2>6, TaskKeeps DEF Goes, Tasks
<1> QED BY <1>8, <1>9 DEF StoreFails

-----------------------------------------------------------------------------
(***************************************************************************)
(* A row is closed.                                                        *)
(***************************************************************************)
\* The row of a task that is over, closed or not, whose counts are those of its journal
\* unless the store failed it.
LEMMA ClosesKeeps ==
    ASSUME IInv, NEW r \in Runs, run[r].pc = "CLOSE", UNCHANGED rows \/ RowClosed(r),
           NEW t, OnlyRun(r, t), t \in {[run[r] EXCEPT !.pc = "DONE"],
                                        [run[r] EXCEPT !.pc = "DONE", !.failed = TRUE]},
           UNCHANGED rows => t.failed,
           UNCHANGED <<session, journal, lock, creators, enders, recovery>>
    PROVE  IInv'
<1> DEFINE log == journal[r]
<1>1. /\ Base(run[r], session) /\ TaskOk(run[r], log, session) /\ RowOk(run[r].pc, rows[r])
      /\ Journal(log) /\ Closed(log) /\ Decisions(log, session) /\ SessionOk(session)
  BY RunFacts
<1>2. /\ DOMAIN t = RunFields /\ t.ended = run[r].ended /\ t.pending = run[r].pending
      /\ t.evaluated = run[r].evaluated /\ t.pc = "DONE"
      /\ run[r].failed => t.failed \in {run[r].failed, TRUE}
      /\ t.failed \in {run[r].failed, TRUE}
  BY <1>1 DEF Base, RunFields
<1>3. /\ DOMAIN rows = Runs /\ DOMAIN run = Runs
      /\ run'[r] = t /\ \A q \in Runs \ {r} : run'[q] = run[q] /\ rows'[q] = rows[q]
      /\ DOMAIN run' = Runs /\ DOMAIN rows' = Runs
  BY DEF OnlyRun, IInv, Shapes, RowClosed
<1>4. DOMAIN rows[r] = RowFields /\ rows[r].status = "OBSERVING"
  BY <1>1 DEF RowOk, Tasks
<1>5. RowClosed(r) =>
        /\ DOMAIN rows'[r] = RowFields /\ rows'[r].status = "ENDED"
        /\ rows'[r].reason = run[r].ended /\ rows'[r].entries = run[r].entries
        /\ rows'[r].decisions = run[r].decisions
  BY <1>3, <1>4 DEF RowClosed, RowFields
<1>6. DOMAIN rows'[r] = RowFields
  BY <1>4, <1>5
<1>7. RunOk(run'[r], journal'[r], rows'[r], session')
  <2>1. Base(t, session)
    BY <1>1, <1>2 DEF Base
  <2>2. TaskOk(t, log, session) /\ RowOk(t.pc, rows'[r])
    BY <1>2, <1>6 DEF TaskOk, RowOk, Tasks
  <2> QED BY <1>1, <1>2, <1>3, <2>1, <2>2 DEF RunOk
<1>8. \A q \in Runs : RunOk(run'[q], journal'[q], rows'[q], session') /\ Closed(journal'[q])
  BY <1>3, <1>7 DEF IInv
<1>9. Shapes' /\ SessionOk(session)'
  BY <1>1, <1>3 DEF IInv, Shapes
<1>10. recovery = {}
  BY DEF IInv, RecoveryOk
<1>11. RecoveryOk'
  BY <1>10 DEF RecoveryOk
<1>12. ASSUME NEW h \in Creators PROVE CreatorOk(h)'
  <2>1. CreatorOk(h)
    BY DEF IInv
  <2>2. creators[h].phase \in {"ROW", "OPENED"} => creators[h].run # r
    BY <2>1 DEF CreatorOk
  <2> QED BY <1>3, <2>1, <2>2 DEF CreatorOk
<1>13. ASSUME NEW q \in Ended', (~run[q].failed \/ rows[q].reason = "INTERRUPTED")'
       PROVE  (/\ rows[q].entries = Len(journal[q])
               /\ rows[q].decisions = Cardinality(Decided(journal[q]))
               /\ journal[q] # <<>> /\ Last(journal[q]).what = "RUN_ENDED"
               /\ \A i, j \in DOMAIN journal[q] : i < j => journal[q][i].seq < journal[q][j].seq)'
  <2>1. CASE q # r
    <3>1. q \in Ended /\ run'[q] = run[q] /\ rows'[q] = rows[q]
      BY <1>3, <1>13, <2>1 DEF Ended
    <3> QED BY <3>1, <1>13 DEF IInv, RowCountsItsJournal
  <2>2. CASE q = r
    <3>1. RowClosed(r)
      BY <1>4, <1>13, <2>2 DEF Ended
    <3>2. run[r].ended # "INTERRUPTED"
      BY <1>1 DEF Base
    <3>3. ~run[r].failed
      BY <1>2, <1>3, <1>5, <1>13, <2>2, <3>1, <3>2
    <3>4. /\ run[r].entries = Len(log) /\ run[r].decisions = Cardinality(Decided(log))
          /\ log # <<>> /\ Last(log).what = "RUN_ENDED"
      BY <1>1, <3>3 DEF TaskOk, Counts
    <3>5. \A i, j \in DOMAIN log : i < j => log[i].seq < log[j].seq
      BY <1>1 DEF Journal
    <3> QED BY <1>5, <2>2, <3>1, <3>4, <3>5
  <2> QED BY <2>1, <2>2
<1>14. RowCountsItsJournal'
  BY <1>13 DEF RowCountsItsJournal
<1> QED BY <1>8, <1>9, <1>11, <1>12, <1>14 DEF IInv

\* Closing the row keeps the invariant, whether the call is answered or not.
LEMMA FinishKeeps ==
    ASSUME IInv, NEW r \in Runs, FinishRun(r) \/ FinishFails(r)
    PROVE  IInv'
<1>1. CASE FinishRun(r)
  <2>1. /\ RowClosed(r) /\ OnlyRun(r, [run[r] EXCEPT !.pc = "DONE"]) /\ run[r].pc = "CLOSE"
        /\ UNCHANGED <<session, journal, lock, creators, enders, recovery>>
    BY <1>1 DEF FinishRun, handlers
  <2>2. rows' # rows
    <3>1. DOMAIN rows = Runs /\ DOMAIN rows[r] = RowFields /\ rows[r].status = "OBSERVING"
      BY <2>1, RunFacts DEF RowOk, Tasks, IInv, Shapes
    <3>2. rows'[r].status = "ENDED"
      BY <2>1, <3>1 DEF RowClosed, RowFields
    <3> QED BY <3>1, <3>2
  <2> QED BY <2>1, <2>2, ClosesKeeps
<1>2. CASE FinishFails(r)
  <2> DEFINE t == [run[r] EXCEPT !.pc = "DONE", !.failed = TRUE]
  <2>1. /\ UNCHANGED rows \/ RowClosed(r)
        /\ OnlyRun(r, t) /\ run[r].pc = "CLOSE"
        /\ UNCHANGED <<session, journal, lock, creators, enders, recovery>>
    BY <1>2 DEF FinishFails, handlers
  <2>2. t.failed
    BY RunFacts DEF Base, RunFields
  <2> QED BY <2>1, <2>2, ClosesKeeps
<1> QED BY <1>1, <1>2

-----------------------------------------------------------------------------
(***************************************************************************)
(* The session's next event.                                               *)
(***************************************************************************)
\* told is what the readers are told of the first item of the script
Told(ses, next, told) ==
    /\ DOMAIN told = ItemFields
    /\ told.kind = "CAPTURE" => Known(next, told.k, told.prefix) /\ ~Past(ses, told.k)

\* the next session knows what this one knew
Grows(ses, next) == \A k : Past(ses, k) => Past(next, k) /\ next.seen[k] = ses.seen[k]

\* the session applies the first item of its script
Applies(ses, next, book, contested, told) ==
    LET item == Head(ses.script)
    IN  /\ book = ses.book \cup (IF item.kind \in {"CANDLE", "LATE"} THEN {item.k} ELSE {})
        /\ told = IF item.kind = "CANDLE" THEN Captured(item, book, contested) ELSE item
        /\ next = [ses EXCEPT !.script = Tail(@), !.book = book, !.contested = contested,
                              !.seen = IF item.kind = "CANDLE"
                                       THEN [@ EXCEPT ![item.k] = told.prefix] ELSE @]

\* What was known stays known, and what is told is known now.
LEMMA EmitSession ==
    ASSUME NEW ses, NEW next, NEW book, NEW contested, NEW told,
           SessionOk(ses), ses.script # <<>>, Applies(ses, next, book, contested, told)
    PROVE  SessionOk(next) /\ Told(ses, next, told) /\ Grows(ses, next)
<1> DEFINE p == ses.script
           q == Tail(p)
           item == Head(p)
<1>1. /\ q \in Seq(ToSet(q)) /\ Len(p) \in Nat \ {0} /\ DOMAIN p = 1 .. Len(p)
      /\ DOMAIN q = 1 .. (Len(p) - 1)
      /\ \A i \in 1 .. (Len(p) - 1) : q[i] = p[i + 1]
      /\ item = p[1] /\ 1 \in DOMAIN p
  BY TailFacts, SeqFacts DEF SessionOk
<1>2. /\ DOMAIN next = SessionFields /\ next.script = q /\ next.book = book
      /\ next.touch = ses.touch /\ next.reason = ses.reason
      /\ item.kind = "CANDLE" => next.seen = [ses.seen EXCEPT ![item.k] = told.prefix]
      /\ item.kind # "CANDLE" => next.seen = ses.seen
      /\ book = ses.book \cup (IF item.kind \in {"CANDLE", "LATE"} THEN {item.k} ELSE {})
  BY DEF SessionOk, SessionFields, Applies
<1>3. \A i \in DOMAIN q : i + 1 \in DOMAIN p /\ q[i] = p[i + 1] /\ i + 1 # 1 /\ i \in Nat
  BY <1>1
<1>4. /\ DOMAIN item = ItemFields /\ item.kind # "CAPTURE"
      /\ item.kind \in {"CANDLE", "LATE"} => item.k \in DOMAIN ses.touch
  BY <1>1 DEF SessionOk
<1>t. /\ DOMAIN told = ItemFields
      /\ told.kind = "CAPTURE" <=> item.kind = "CANDLE"
      /\ told.k = item.k
  BY <1>4 DEF Captured, ItemFields, Applies
<1> HIDE DEF q, item
<1>5. \A i \in DOMAIN q :
        /\ DOMAIN q[i] = ItemFields /\ q[i].kind # "CAPTURE"
        /\ q[i].kind \in {"CANDLE", "LATE"} => q[i].k \in DOMAIN ses.touch
  BY <1>3 DEF SessionOk
<1>6. ASSUME NEW i \in DOMAIN q, NEW j \in DOMAIN q, q[i].kind = "CANDLE",
             q[j].kind = "CANDLE", q[j].k = q[i].k
      PROVE  i = j
  <2>1. i + 1 = j + 1
    BY <1>3, <1>6 DEF SessionOk
  <2> QED BY <2>1, <1>3
<1>7. SessionOk(next)
  <2>1. DOMAIN next.seen = DOMAIN ses.touch
    BY <1>2 DEF SessionOk
  <2>2. next.book \subseteq DOMAIN ses.touch
    BY <1>2, <1>4 DEF SessionOk
  <2> QED BY <1>1, <1>2, <1>5, <1>6, <2>1, <2>2 DEF SessionOk
<1>8. item.kind = "CANDLE" =>
        /\ ~Past(ses, item.k) /\ item.k \in DOMAIN ses.seen
        /\ \A i \in DOMAIN q : q[i].kind = "CANDLE" => q[i].k # item.k
  <2>1. ASSUME item.kind = "CANDLE", NEW i \in DOMAIN q, q[i].kind = "CANDLE", q[i].k = item.k
        PROVE  FALSE
    BY <1>1, <1>3, <2>1 DEF SessionOk
  <2> QED BY <1>1, <1>4, <2>1 DEF Past, SessionOk
<1>9. Told(ses, next, told)
  <2>1. CASE item.kind # "CANDLE"
    BY <1>t, <2>1 DEF Told
  <2>2. CASE item.kind = "CANDLE"
    <3>1. next.seen[item.k] = told.prefix /\ item.k \in DOMAIN next.seen
      BY <1>2, <1>8, <2>2
    <3>2. Known(next, told.k, told.prefix)
      BY <1>t, <1>2, <1>8, <2>2, <3>1 DEF Known, Past
    <3> QED BY <1>t, <1>8, <2>2, <3>2 DEF Told
  <2> QED BY <2>1, <2>2
<1>10. ASSUME NEW k, Past(ses, k)
       PROVE  Past(next, k) /\ next.seen[k] = ses.seen[k]
  <2>1. item.kind = "CANDLE" => item.k # k
    BY <1>8, <1>10
  <2>2. k \in DOMAIN next.seen /\ next.seen[k] = ses.seen[k]
    BY <1>2, <1>10, <2>1 DEF Past
  <2>3. \A i \in DOMAIN q : q[i].kind = "CANDLE" => q[i].k # k
    BY <1>3, <1>10 DEF Past
  <2> QED BY <1>2, <2>2, <2>3 DEF Past
<1> QED BY <1>7, <1>9, <1>10 DEF Grows

\* A queue stays as good when more is known.
LEMMA QueueGrows ==
    ASSUME NEW p, NEW evaluated, NEW ses, NEW next, Grows(ses, next), Queue(p, evaluated, ses)
    PROVE  Queue(p, evaluated, next)
BY DEF Queue, Grows, Known

\* A record is queued.
LEMMA QueueAppend ==
    ASSUME NEW p, NEW evaluated, NEW ses, NEW next, NEW told, Grows(ses, next),
           Queue(p, evaluated, ses), Told(ses, next, told), \A k \in evaluated : Past(ses, k)
    PROVE  Queue(Append(p, told), evaluated, next)
<1> DEFINE q == Append(p, told)
<1>1. /\ q \in Seq(ToSet(q)) /\ Len(p) \in Nat /\ DOMAIN p = 1 .. Len(p)
      /\ DOMAIN q = 1 .. (Len(p) + 1)
      /\ \A i \in 1 .. Len(p) : q[i] = p[i]
      /\ q[Len(p) + 1] = told
  BY AppendFacts, SeqFacts DEF Queue
<1> HIDE DEF q
<1>2. \A i \in DOMAIN q : \/ i \in DOMAIN p /\ q[i] = p[i]
                          \/ i = Len(p) + 1 /\ q[i] = told
  BY <1>1
<1>3. \A i \in DOMAIN q : DOMAIN q[i] = ItemFields
  BY <1>2 DEF Queue, Told
<1>4. \A i \in DOMAIN p : p[i].kind = "CAPTURE" => Past(ses, p[i].k)
  BY DEF Queue, Known
<1>5. told.kind = "CAPTURE" => told.k \notin evaluated
  BY DEF Told
<1>6. ASSUME NEW i \in DOMAIN q, q[i].kind = "CAPTURE"
      PROVE  Known(next, q[i].k, q[i].prefix) /\ q[i].k \notin evaluated
  BY <1>2, <1>5, <1>6 DEF Queue, Told, Known, Grows
<1>7. ASSUME NEW i \in DOMAIN q, NEW j \in DOMAIN q, q[i].kind = "CAPTURE",
             q[j].kind = "CAPTURE", q[j].k = q[i].k
      PROVE  i = j
  <2>1. CASE i \in DOMAIN p /\ q[i] = p[i] /\ j \in DOMAIN p /\ q[j] = p[j]
    BY <1>7, <2>1 DEF Queue
  <2>2. CASE i = Len(p) + 1 /\ q[i] = told /\ j \in DOMAIN p /\ q[j] = p[j]
    BY <1>4, <1>7, <2>2 DEF Told
  <2>3. CASE j = Len(p) + 1 /\ q[j] = told /\ i \in DOMAIN p /\ q[i] = p[i]
    BY <1>4, <1>7, <2>3 DEF Told
  <2> QED BY <1>2, <2>1, <2>2, <2>3
<1> QED BY <1>1, <1>3, <1>6, <1>7 DEF Queue, q

\* What a run holds stays known, and what it is told joins its queue.
LEMMA ObservedOk ==
    ASSUME NEW s, NEW log, NEW row, NEW told, NEW ses, NEW next,
           RunOk(s, log, row, ses), Grows(ses, next), Told(ses, next, told)
    PROVE  RunOk(s, log, row, next) /\ RunOk(Observed(s, told), log, row, next)
<1>1. Base(s, next)
  BY QueueGrows DEF RunOk, Base, Grows
<1>2. Decisions(log, next)
  BY DEF RunOk, Decisions, Known, Grows
<1>3. TaskOk(s, log, next)
  BY DEF RunOk, TaskOk, Open, Sound, Fits, Known, Grows
<1>4. RunOk(s, log, row, next)
  BY <1>1, <1>2, <1>3 DEF RunOk
<1> DEFINE t == Observed(s, told)
<1>5. /\ DOMAIN t = RunFields /\ t.ended = s.ended /\ t.evaluated = s.evaluated
      /\ t.failed = s.failed /\ t.seq = s.seq /\ t.decisions = s.decisions
      /\ t.entries = s.entries /\ t.pc = s.pc /\ t.entry = s.entry /\ t.then = s.then
      /\ t.finished = s.finished
      /\ t.pending \in {s.pending, Append(s.pending, told)}
  BY <1>1 DEF Base, Observed, RunFields
<1> HIDE DEF t
<1>6. Queue(t.pending, t.evaluated, next)
  <2>1. /\ Queue(s.pending, s.evaluated, ses) /\ Queue(s.pending, s.evaluated, next)
        /\ \A k \in s.evaluated : Past(ses, k)
    BY <1>1 DEF RunOk, Base
  <2>2. Queue(Append(s.pending, told), s.evaluated, next)
    BY <2>1, QueueAppend
  <2> QED BY <1>5, <2>1, <2>2
<1>7. Base(t, next)
  BY <1>1, <1>5, <1>6 DEF Base
<1>8. TaskOk(t, log, next)
  BY <1>3, <1>5 DEF TaskOk, Open, Counts, Sound, Fits
<1>9. RunOk(t, log, row, next)
  BY <1>4, <1>5, <1>7, <1>8 DEF RunOk
<1> QED BY <1>4, <1>9 DEF t

\* The session's events keep the invariant: what is captured is what is known then.
LEMMA EmitKeeps ==
    ASSUME IInv, Emit
    PROVE  IInv'
<1> DEFINE item == Head(session.script)
           book == session.book \cup (IF item.kind \in {"CANDLE", "LATE"} THEN {item.k} ELSE {})
           contested == session.contested \cup
                          (IF item.kind = "CONFLICT" /\ item.c.tf = "DRIVER" THEN {item.k} ELSE {})
           told == IF item.kind = "CANDLE" THEN Captured(item, book, contested) ELSE item
<1>1. /\ session.script # <<>>
      /\ session' = [session EXCEPT !.script = Tail(@), !.book = book,
                                         !.contested = contested,
                                         !.seen = IF item.kind = "CANDLE"
                                                  THEN [@ EXCEPT ![item.k] = told.prefix] ELSE @]
      /\ run' = [r \in Runs |-> IF r \in readers THEN Observed(run[r], told) ELSE run[r]]
      /\ UNCHANGED <<rows, journal, lock, creators, enders, recovery>>
  BY DEF Emit, handlers, database
<1>2. SessionOk(session') /\ Told(session, session', told) /\ Grows(session, session')
  <2>1. SessionOk(session)
    BY DEF IInv
  <2>2. Applies(session, session', book, contested, told)
    BY <1>1 DEF Applies
  <2> HIDE DEF book, contested, told
  <2> QED BY <1>1, <2>1, <2>2, EmitSession
<1> HIDE DEF told
<1>3. \A r \in Runs : RunOk(run'[r], journal'[r], rows'[r], session') /\ Closed(journal'[r])
  <2>1. \A r \in Runs : run'[r] \in {run[r], Observed(run[r], told)}
    BY <1>1
  <2> QED BY <1>1, <1>2, <2>1, ObservedOk DEF IInv
<1>4. \A r \in Runs : run'[r].pc = run[r].pc /\ run'[r].seq = run[r].seq
                        /\ run'[r].failed = run[r].failed
  BY <1>1, RunFacts DEF Base, Observed, RunFields
<1>5. Shapes'
  BY <1>1 DEF IInv, Shapes
<1>6. RecoveryOk'
  BY <1>1, <1>4 DEF IInv, RecoveryOk, Observing
<1>7. \A h \in Creators : CreatorOk(h)'
  BY <1>1, <1>4 DEF IInv, CreatorOk
<1>8. RowCountsItsJournal'
  <2>1. Ended' = Ended
    BY <1>1 DEF Ended
  <2> QED BY <1>1, <1>4, <2>1 DEF IInv, RowCountsItsJournal, Ended
<1> QED BY <1>2, <1>3, <1>5, <1>6, <1>7, <1>8 DEF IInv

\* The end of the session keeps the invariant.
LEMMA SessionEndsKeeps ==
    ASSUME IInv, SessionEnds
    PROVE  IInv'
<1>1. /\ SessionOk(session') /\ session'.script = session.script /\ session'.seen = session.seen
      /\ UNCHANGED <<run, rows, journal, lock, creators, enders, recovery>>
  <2>1. SessionOk(session) /\ DOMAIN session = SessionFields
    BY DEF IInv, SessionOk
  <2>2. /\ DOMAIN session' = SessionFields /\ session'.script = session.script
        /\ session'.seen = session.seen /\ session'.touch = session.touch
        /\ session'.book = session.book
        /\ session'.reason \in {session.reason, "STREAM_ENDED", "CANCELLED"}
    BY <2>1 DEF SessionEnds, SessionFields
  <2>3. UNCHANGED <<run, rows, journal, lock, creators, enders, recovery>>
    BY DEF SessionEnds, handlers, database
  <2> QED BY <2>1, <2>2, <2>3 DEF SessionOk
<1>2. \A r \in Runs : RunOk(run'[r], journal'[r], rows'[r], session') /\ Closed(journal'[r])
  BY <1>1 DEF IInv, RunOk, Base, Queue, TaskOk, Open, Sound, Fits, Decisions, Known, Past
<1>3. Shapes' /\ RecoveryOk'
  BY <1>1 DEF IInv, Shapes, RecoveryOk, Observing
<1>4. \A h \in Creators : CreatorOk(h)'
  BY <1>1 DEF IInv, CreatorOk
<1>5. RowCountsItsJournal'
  BY <1>1 DEF IInv, RowCountsItsJournal, Ended
<1> QED BY <1>1, <1>2, <1>3, <1>4, <1>5 DEF IInv

-----------------------------------------------------------------------------
(***************************************************************************)
(* Creation.                                                               *)
(***************************************************************************)
\* no creation holds the lock, or only that of h
Others(h) == \A g \in Creators \ {h} : creators[g].phase \notin {"ROW", "OPENED"}

\* A handler's step on its own run, before its task starts: what has to hold of that run.
LEMMA CreationKeeps ==
    ASSUME IInv, NEW h \in Creators, NEW r \in Runs, recovery = {},
           run[r].pc \in {"NONE", "CREATING"}, run'[r].pc \in {"CREATING", "START", "DONE"},
           DOMAIN run' = Runs, DOMAIN journal' = Runs, DOMAIN rows' = Runs,
           \A q \in Runs \ {r} : run'[q] = run[q] /\ journal'[q] = journal[q] /\ rows'[q] = rows[q],
           UNCHANGED <<session, enders, recovery>>,
           DOMAIN creators' = Creators, \A g \in Creators \ {h} : creators'[g] = creators[g],
           Others(h), CreatorOk(h)',
           RunOk(run'[r], journal'[r], rows'[r], session), Closed(journal'[r]),
           rows'[r] = None \/ rows'[r].status = "OBSERVING"
    PROVE  IInv'
<1>1. Shapes' /\ SessionOk(session')
  BY DEF IInv, Shapes
<1>2. \A q \in Runs : RunOk(run'[q], journal'[q], rows'[q], session') /\ Closed(journal'[q])
  BY DEF IInv
<1>3. RecoveryOk'
  BY DEF RecoveryOk
<1>4. ASSUME NEW g \in Creators PROVE CreatorOk(g)'
  <2>1. CASE g = h
    BY <2>1
  <2>2. CASE g # h
    <3>1. CreatorOk(g)
      BY DEF IInv
    <3> QED BY <2>2, <3>1 DEF Others, CreatorOk
  <2> QED BY <2>1, <2>2
<1>5. \A q \in Ended' : q \in Runs \ {r} /\ q \in Ended
  BY DEF Ended
<1>6. \A q \in Ended' : run'[q] = run[q] /\ journal'[q] = journal[q] /\ rows'[q] = rows[q]
  BY <1>5
<1>7. RowCountsItsJournal'
  BY <1>5, <1>6 DEF IInv, RowCountsItsJournal
<1> QED BY <1>1, <1>2, <1>3, <1>4, <1>7 DEF IInv

\* Handlers that touch no run, no row and no journal.
LEMMA AsideKeeps ==
    ASSUME IInv, UNCHANGED <<session, run, rows, journal, recovery>>,
           DOMAIN creators' = Creators, DOMAIN enders' = Enders,
           \A h \in Creators : CreatorOk(h)',
           recovery # {} => \A h \in Creators : creators'[h].phase = "IDLE",
           \A e \in Enders : DOMAIN enders'[e] = {"phase", "todo", "reason"}
                               /\ enders'[e].reason # "INTERRUPTED"
    PROVE  IInv'
<1>1. Shapes' /\ SessionOk(session')
  BY DEF IInv, Shapes
<1>2. \A r \in Runs : RunOk(run'[r], journal'[r], rows'[r], session') /\ Closed(journal'[r])
  BY DEF IInv
<1>3. RecoveryOk'
  BY DEF IInv, RecoveryOk, Observing
<1>4. RowCountsItsJournal'
  BY DEF IInv, RowCountsItsJournal, Ended
<1> QED BY <1>1, <1>2, <1>3, <1>4 DEF IInv

\* Asking for a run keeps the invariant.
LEMMA CreateAskKeeps ==
    ASSUME IInv, NEW h \in Creators, NEW key, CreateAsk(h, key)
    PROVE  IInv'
<1>1. /\ recovery = {} /\ UNCHANGED <<session, run, rows, journal, recovery, lock, enders>>
      /\ creators' = [creators EXCEPT ![h] = [phase |-> "LOCK", key |-> key, run |-> None]]
  BY DEF CreateAsk, database
<1>2. DOMAIN creators' = Creators /\ DOMAIN creators = Creators
  BY <1>1 DEF IInv, Shapes
<1>3. ASSUME NEW g \in Creators PROVE CreatorOk(g)'
  <2>1. CreatorOk(g)
    BY DEF IInv
  <2>2. CASE g = h
    BY <1>1, <1>2, <2>2 DEF CreatorOk
  <2>3. CASE g # h
    BY <1>1, <1>2, <2>1, <2>3 DEF CreatorOk
  <2> QED BY <2>2, <2>3
<1> QED BY <1>1, <1>2, <1>3, AsideKeeps DEF IInv, Shapes

\* A run that was given back is over, whether its row was written or not.
LEMMA GivenBackOk ==
    ASSUME NEW s, NEW log, NEW row, NEW next, NEW ses, RunOk(s, log, row, ses),
           s.pc \in {"CREATING", "NONE"}, next = None \/ DOMAIN next = RowFields
    PROVE  RunOk([s EXCEPT !.pc = "DONE"], log, next, ses) /\ [s EXCEPT !.pc = "DONE"].pc = "DONE"
<1> DEFINE t == [s EXCEPT !.pc = "DONE"]
<1>1. /\ DOMAIN t = RunFields /\ t.ended = s.ended /\ t.pending = s.pending
      /\ t.evaluated = s.evaluated /\ t.pc = "DONE"
  BY DEF RunOk, Base, RunFields
<1> HIDE DEF t
<1>2. Base(t, ses) /\ TaskOk(t, log, ses) /\ RowOk(t.pc, next)
  BY <1>1 DEF RunOk, Base, TaskOk, RowOk, Tasks
<1> QED BY <1>1, <1>2 DEF RunOk, t

\* One creation at a time is past the lock.
LEMMA LockHeld ==
    ASSUME IInv, NEW h \in Creators, lock = h \/ lock = None
    PROVE  Others(h)
BY ShadowConstants DEF IInv, CreatorOk, Others

\* An empty queue is a queue.
LEMMA EmptyQueue ==
    ASSUME NEW ses
    PROVE  Queue(<<>>, {}, ses)
<1>1. <<>> \in Seq(ToSet(<<>>)) /\ DOMAIN <<>> = {}
  OBVIOUS
<1> QED BY <1>1 DEF Queue

\* A run that begins, and one a crash left behind.
LEMMA FreshOk ==
    ASSUME NEW s, NEW log, NEW row, NEW ses, DOMAIN s = RunFields, s.ended = None,
           s.pending = <<>>, s.evaluated = {}, s.pc \in {"NONE", "CREATING", "DONE"},
           RowOk(s.pc, row), Journal(log), Decisions(log, ses),
           s.pc # "DONE" => log = <<>> /\ s.decisions = 0 /\ s.entries = 0
    PROVE  RunOk(s, log, row, ses)
<1>1. Base(s, ses)
  BY EmptyQueue, ShadowConstants DEF Base
<1>2. TaskOk(s, log, ses)
  BY DEF TaskOk, Tasks
<1> QED BY <1>1, <1>2 DEF RunOk

\* Answering, refusing or opening a run keeps the invariant.
LEMMA CreateOpenKeeps ==
    ASSUME IInv, NEW h \in Creators, CreateOpen(h)
    PROVE  IInv'
<1> DEFINE r == CHOOSE i \in Runs : rows[i] = None /\ run[i].pc = "NONE" /\ i \notin slots
           free == \E i \in Runs : rows[i] = None /\ run[i].pc = "NONE" /\ i \notin slots
           s == [NewRun EXCEPT !.pc = "CREATING"]
<1>1. /\ creators[h].phase = "LOCK" /\ lock = None
      /\ UNCHANGED <<session, enders, recovery, rows, journal>>
  BY DEF CreateOpen, database
<1>2. recovery = {} /\ Others(h) /\ DOMAIN creators = Creators /\ DOMAIN enders = Enders
  BY <1>1, LockHeld DEF IInv, RecoveryOk, Shapes
<1>3. CASE creators' = [creators EXCEPT ![h] = NoCreator] /\ UNCHANGED <<run, lock>>
  <2>1. ASSUME NEW g \in Creators PROVE CreatorOk(g)'
    BY <1>1, <1>2, <1>3 DEF CreatorOk, NoCreator, IInv
  <2> QED BY <1>1, <1>2, <1>3, <2>1, AsideKeeps DEF IInv, Shapes
<1>4. CASE /\ free /\ lock' = h
           /\ run' = [run EXCEPT ![r] = s]
           /\ creators' = [creators EXCEPT ![h].phase = "ROW", ![h].run = r]
  <2>1. r \in Runs /\ rows[r] = None /\ run[r].pc = "NONE"
    BY <1>4
  <2> HIDE DEF r
  <2>2. DOMAIN s = RunFields /\ s.pc = "CREATING" /\ s.pending = <<>> /\ s.evaluated = {}
          /\ s.decisions = 0 /\ s.entries = 0 /\ s.ended = None
    BY DEF NewRun, RunFields
  <2> HIDE DEF s
  <2>3. RunOk(run[r], journal[r], rows[r], session) /\ Closed(journal[r])
    BY <2>1 DEF IInv
  <2>4. journal[r] = <<>>
    BY <2>1, <2>3 DEF RunOk
  <2>5. RunOk(s, journal[r], rows[r], session)
    <3>1. RowOk(s.pc, rows[r]) /\ Journal(journal[r]) /\ Decisions(journal[r], session)
      BY <2>1, <2>2, <2>3 DEF RunOk, RowOk, Tasks
    <3> QED BY <2>2, <2>4, <3>1, FreshOk
  <2>6. /\ DOMAIN run' = Runs /\ run'[r] = s /\ \A q \in Runs \ {r} : run'[q] = run[q]
        /\ DOMAIN rows' = Runs /\ DOMAIN journal' = Runs
    BY <1>1, <1>4, <2>1 DEF IInv, Shapes
  <2>7. /\ DOMAIN creators' = Creators /\ \A g \in Creators \ {h} : creators'[g] = creators[g]
        /\ DOMAIN creators[h] = {"phase", "key", "run"}
    BY <1>2, <1>4 DEF IInv, CreatorOk
  <2>8. /\ DOMAIN creators'[h] = {"phase", "key", "run"} /\ creators'[h].phase = "ROW"
        /\ creators'[h].run = r
    BY <1>2, <1>4, <2>7
  <2>9. CreatorOk(h)'
    BY <1>4, <2>1, <2>2, <2>6, <2>8 DEF CreatorOk
  <2> QED BY <1>1, <1>2, <2>1, <2>2, <2>3, <2>5, <2>6, <2>7, <2>9, CreationKeeps
<1> QED BY <1>3, <1>4 DEF CreateOpen

\* Inserting the row keeps the invariant, whether the call is answered or not.
LEMMA CreateRowKeeps ==
    ASSUME IInv, NEW h \in Creators, CreateRow(h)
    PROVE  IInv'
<1> DEFINE r == creators[h].run
           over == [run[r] EXCEPT !.pc = "DONE"]
           s == [run[r] EXCEPT !.seq = 1]
<1>1. /\ creators[h].phase = "ROW" /\ UNCHANGED <<session, enders, recovery, journal>>
  BY DEF CreateRow
<1>2. /\ lock = h /\ r \in Runs /\ run[r].pc = "CREATING"
      /\ DOMAIN creators[h] = {"phase", "key", "run"}
  BY <1>1 DEF IInv, CreatorOk
<1>3. /\ recovery = {} /\ Others(h) /\ DOMAIN creators = Creators /\ DOMAIN run = Runs
      /\ DOMAIN rows = Runs /\ DOMAIN journal = Runs
  BY <1>1, <1>2, LockHeld DEF IInv, RecoveryOk, Shapes
<1>4. RunOk(run[r], journal[r], rows[r], session) /\ Closed(journal[r])
  BY <1>2 DEF IInv
<1>5. rows[r] = None \/ rows[r].status = "OBSERVING"
  BY <1>2, <1>4 DEF RunOk, RowOk
<1>6. DOMAIN NewRow = RowFields /\ NewRow.status = "OBSERVING"
  BY DEF NewRow, RowFields
<1>7. RowInserted(h) => rows'[r] = NewRow /\ DOMAIN rows' = Runs
                        /\ \A q \in Runs \ {r} : rows'[q] = rows[q]
  BY <1>2, <1>3 DEF RowInserted
<1>8. CASE GivenBack(h) /\ (UNCHANGED rows \/ RowInserted(h))
  <2>1. /\ DOMAIN run' = Runs /\ run'[r] = over /\ \A q \in Runs \ {r} : run'[q] = run[q]
        /\ creators' = [creators EXCEPT ![h] = NoCreator]
    BY <1>2, <1>3, <1>8 DEF GivenBack
  <2>2. /\ DOMAIN rows' = Runs /\ rows'[r] \in {rows[r], NewRow}
        /\ \A q \in Runs \ {r} : rows'[q] = rows[q]
    BY <1>3, <1>7, <1>8
  <2>3. rows'[r] = None \/ DOMAIN rows'[r] = RowFields
    BY <1>4, <1>6, <2>2 DEF RunOk, RowOk
  <2>4. rows'[r] = None \/ rows'[r].status = "OBSERVING"
    BY <1>5, <1>6, <2>2
  <2>5. RunOk(over, journal[r], rows'[r], session) /\ over.pc = "DONE"
    BY <1>2, <1>4, <2>3, GivenBackOk
  <2>6. CreatorOk(h)' /\ DOMAIN creators' = Creators
          /\ \A g \in Creators \ {h} : creators'[g] = creators[g]
    BY <1>3, <2>1 DEF CreatorOk, NoCreator
  <2> HIDE DEF over, r
  <2> QED BY <1>1, <1>2, <1>3, <1>4, <2>1, <2>2, <2>4, <2>5, <2>6, CreationKeeps
<1>9. CASE /\ RowInserted(h) /\ UNCHANGED lock
           /\ creators' = [creators EXCEPT ![h].phase = "OPENED"]
           /\ run' = [run EXCEPT ![creators[h].run].seq = 1]
  <2>1. /\ DOMAIN run' = Runs /\ run'[r] = s /\ \A q \in Runs \ {r} : run'[q] = run[q]
    BY <1>2, <1>3, <1>9
  <2>2. /\ DOMAIN s = RunFields /\ s.pc = "CREATING" /\ s.seq = 1 /\ s.ended = run[r].ended
        /\ s.pending = run[r].pending /\ s.evaluated = run[r].evaluated
        /\ s.decisions = run[r].decisions /\ s.entries = run[r].entries
    BY <1>2, <1>4 DEF RunOk, Base, RunFields
  <2> HIDE DEF s
  <2>3. Base(s, session) /\ TaskOk(s, journal[r], session) /\ RowOk(s.pc, NewRow)
    BY <1>4, <1>6, <2>2 DEF RunOk, Base, TaskOk, RowOk, Tasks
  <2>4. RunOk(s, journal[r], NewRow, session)
    BY <1>2, <1>4, <2>2, <2>3 DEF RunOk
  <2>5. /\ DOMAIN creators' = Creators /\ \A g \in Creators \ {h} : creators'[g] = creators[g]
        /\ DOMAIN creators'[h] = {"phase", "key", "run"} /\ creators'[h].phase = "OPENED"
        /\ creators'[h].run = r
    BY <1>2, <1>3, <1>9
  <2>6. CreatorOk(h)'
    BY <1>2, <1>6, <1>7, <1>9, <2>1, <2>2, <2>5 DEF CreatorOk
  <2> HIDE DEF r
  <2> QED BY <1>1, <1>2, <1>3, <1>4, <1>6, <1>7, <1>9, <2>1, <2>2, <2>4, <2>5, <2>6,
             CreationKeeps
<1> QED BY <1>8, <1>9 DEF CreateRow

\* RUN_OPENED, and the start of the task, keep the invariant.
LEMMA CreateOpenedKeeps ==
    ASSUME IInv, NEW h \in Creators, CreateOpened(h)
    PROVE  IInv'
<1> DEFINE r == creators[h].run
           over == [run[r] EXCEPT !.pc = "DONE"]
           opened == [Entry("RUN_OPENED", None, None) EXCEPT !.seq = 1]
           s == [run[r] EXCEPT !.entries = 1, !.pc = IF r \in held THEN "START" ELSE "DONE"]
           new == Appended(journal[r], opened)
<1>1. creators[h].phase = "OPENED" /\ UNCHANGED <<session, enders, recovery, rows>>
  BY DEF CreateOpened
<1>2. /\ lock = h /\ r \in Runs /\ run[r].pc = "CREATING" /\ run[r].seq = 1
      /\ DOMAIN creators[h] = {"phase", "key", "run"}
      /\ DOMAIN rows[r] = RowFields /\ rows[r].status = "OBSERVING"
  BY <1>1 DEF IInv, CreatorOk
<1>3. /\ recovery = {} /\ Others(h) /\ DOMAIN creators = Creators /\ DOMAIN run = Runs
      /\ DOMAIN rows = Runs /\ DOMAIN journal = Runs
  BY <1>1, <1>2, LockHeld DEF IInv, RecoveryOk, Shapes
<1>4. RunOk(run[r], journal[r], rows[r], session) /\ Closed(journal[r])
  BY <1>2 DEF IInv
<1>5. creators' = [creators EXCEPT ![h] = NoCreator]
  BY DEF CreateOpened, GivenBack
<1>6. CreatorOk(h)' /\ DOMAIN creators' = Creators
          /\ \A g \in Creators \ {h} : creators'[g] = creators[g]
  BY <1>3, <1>5 DEF CreatorOk, NoCreator
<1>7. CASE GivenBack(h) /\ UNCHANGED journal
  <2>1. /\ DOMAIN run' = Runs /\ run'[r] = over /\ \A q \in Runs \ {r} : run'[q] = run[q]
    BY <1>2, <1>3, <1>7 DEF GivenBack
  <2>2. RunOk(over, journal[r], rows[r], session) /\ over.pc = "DONE"
    BY <1>2, <1>4, GivenBackOk DEF RunOk, RowOk
  <2> HIDE DEF over, r
  <2> QED BY <1>1, <1>2, <1>3, <1>4, <1>6, <1>7, <2>1, <2>2, CreationKeeps
<1>8. CASE /\ journal' = [journal EXCEPT ![creators[h].run] = Appended(@, opened)]
           /\ \/ run' = [run EXCEPT ![creators[h].run].entries = 1,
                                    ![creators[h].run].pc = IF creators[h].run \in held
                                                            THEN "START" ELSE "DONE"]
              \/ GivenBack(h)
  <2>1. /\ DOMAIN run' = Runs /\ run'[r] \in {s, over} /\ \A q \in Runs \ {r} : run'[q] = run[q]
    BY <1>2, <1>3, <1>8 DEF GivenBack
  <2>2. /\ DOMAIN journal' = Runs /\ journal'[r] = new
        /\ \A q \in Runs \ {r} : journal'[q] = journal[q]
    BY <1>2, <1>3, <1>8
  <2>3. journal[r] = <<>> /\ run[r].decisions = 0 /\ run[r].evaluated = {}
    BY <1>2, <1>4 DEF RunOk
  <2>4. DOMAIN opened = EntryFields /\ opened.seq = 1 /\ opened.what = "RUN_OPENED"
    BY DEF Entry, EntryFields
  <2> HIDE DEF opened
  <2>5. /\ new = <<opened>> /\ Len(new) = 1 /\ DOMAIN new = {1} /\ new[1] = opened
        /\ new \in Seq(ToSet(new))
    <3>1. new = Append(<<>>, opened)
      BY <2>3 DEF Appended
    <3>2. <<>> \in Seq({opened}) /\ Append(<<>>, opened) = <<opened>>
      OBVIOUS
    <3>3. <<opened>> \in Seq({opened})
      OBVIOUS
    <3>4. Len(<<opened>>) = 1 /\ DOMAIN <<opened>> = {1} /\ <<opened>>[1] = opened
      OBVIOUS
    <3>5. <<opened>> \in Seq(ToSet(<<opened>>))
      BY <3>3, SeqFacts
    <3> QED BY <3>1, <3>2, <3>4, <3>5
  <2> HIDE DEF new
  <2>6. Journal(new) /\ Decisions(new, session) /\ Closed(new)
    BY <2>4, <2>5 DEF Journal, Decisions, Closed, Final
  <2>7. Decided(new) = {}
    BY <2>4, <2>5 DEF Decided
  <2>8. Cardinality(Decided(new)) = 0
    BY <2>7, FS_EmptySet
  <2> DEFINE t == run'[r]
  <2>9. /\ DOMAIN t = RunFields /\ t.pc \in {"START", "DONE"} /\ t.seq = 1
        /\ t.ended = run[r].ended /\ t.pending = run[r].pending
        /\ t.evaluated = run[r].evaluated /\ t.decisions = 0
        /\ t.pc = "START" => t.entries = 1
    <3>1. DOMAIN run[r] = RunFields
      BY <1>4 DEF RunOk, Base
    <3> QED BY <1>2, <2>1, <2>3, <3>1 DEF RunFields
  <2> HIDE DEF t
  <2>10. Base(t, session)
    BY <1>4, <2>9 DEF RunOk, Base
  <2>11. TaskOk(t, new, session) /\ RowOk(t.pc, rows[r])
    BY <1>2, <2>4, <2>5, <2>8, <2>9 DEF TaskOk, Open, Counts, Sound, Final, RowOk, Tasks
  <2>12. RunOk(t, new, rows[r], session)
    BY <2>6, <2>9, <2>10, <2>11 DEF RunOk
  <2> USE DEF t
  <2> HIDE DEF r, s, over
  <2> QED BY <1>1, <1>2, <1>3, <1>6, <2>1, <2>2, <2>6, <2>9, <2>12, CreationKeeps
<1> QED BY <1>1, <1>7, <1>8 DEF CreateOpened

-----------------------------------------------------------------------------
(***************************************************************************)
(* Cancel and shutdown.                                                    *)
(***************************************************************************)

\* Steps that only move a canceller.
LEMMA EnderAside ==
    ASSUME IInv, NEW e \in Enders,
           UNCHANGED <<session, run, rows, journal, lock, creators, recovery>>,
           DOMAIN enders' = Enders, \A x \in Enders \ {e} : enders'[x] = enders[x],
           DOMAIN enders'[e] = {"phase", "todo", "reason"}, enders'[e].reason # "INTERRUPTED"
    PROVE  IInv'
<1>1. \A h \in Creators : CreatorOk(h)'
  BY DEF IInv, CreatorOk
<1> QED BY <1>1, AsideKeeps DEF IInv, Shapes, RecoveryOk

\* What the invariant says of the handlers that end runs.
LEMMA EnderFacts ==
    ASSUME IInv, NEW e \in Enders
    PROVE  /\ DOMAIN enders = Enders /\ DOMAIN enders[e] = {"phase", "todo", "reason"}
           /\ enders[e].reason # "INTERRUPTED"
BY DEF IInv, Shapes

\* Asking to cancel keeps the invariant.
LEMMA CancelAskKeeps ==
    ASSUME IInv, NEW e \in Enders, NEW r, CancelAsk(e, r)
    PROVE  IInv'
BY EnderAside, EnderFacts DEF CancelAsk, database

\* Asking to shut down keeps the invariant.
LEMMA ShutdownAskKeeps ==
    ASSUME IInv, NEW e \in Enders, ShutdownAsk(e)
    PROVE  IInv'
BY EnderAside, EnderFacts DEF ShutdownAsk, database

\* Collecting the runs to shut down keeps the invariant.
LEMMA CollectKeeps ==
    ASSUME IInv, NEW e \in Enders, ShutdownCollect(e)
    PROVE  IInv'
BY EnderAside, EnderFacts DEF ShutdownCollect, database

Asked(s, reason) == [s EXCEPT !.cancelled = TRUE, !.ended = reason]

\* A run whose end is asked for stays where it is.
LEMMA AskedOk ==
    ASSUME NEW s, NEW log, NEW row, NEW ses, NEW reason, RunOk(s, log, row, ses),
           reason # "INTERRUPTED"
    PROVE  /\ RunOk(Asked(s, reason), log, row, ses) /\ Asked(s, reason).pc = s.pc
           /\ Asked(s, reason).seq = s.seq /\ Asked(s, reason).failed = s.failed
<1> DEFINE t == Asked(s, reason)
<1>1. /\ DOMAIN t = RunFields /\ t.ended = reason /\ t.evaluated = s.evaluated
      /\ t.failed = s.failed /\ t.seq = s.seq /\ t.decisions = s.decisions
      /\ t.entries = s.entries /\ t.pc = s.pc /\ t.entry = s.entry /\ t.then = s.then
      /\ t.finished = s.finished /\ t.pending = s.pending
  BY DEF RunOk, Base, RunFields, Asked
<1> HIDE DEF t
<1>2. Base(t, ses)
  BY <1>1 DEF RunOk, Base
<1>3. TaskOk(t, log, ses)
  BY <1>1 DEF RunOk, TaskOk, Open, Counts, Sound, Fits
<1>4. RunOk(t, log, row, ses)
  BY <1>1, <1>2, <1>3 DEF RunOk
<1> QED BY <1>1, <1>4 DEF t

\* Requesting the end of a run keeps the invariant.
LEMMA EndAskKeeps ==
    ASSUME IInv, NEW e \in Enders, EndAsk(e)
    PROVE  IInv'
<1> DEFINE r == Head(enders[e].todo)
           reason == IF r \in slots /\ run[r].ended = None THEN enders[e].reason ELSE run[r].ended
           t == Asked(run[r], reason)
<1>1. UNCHANGED <<session, rows, journal, lock, creators, recovery>>
  BY DEF EndAsk, database
<1>2. CASE UNCHANGED run /\ \/ enders' = [enders EXCEPT ![e] = NoEnder]
                            \/ enders' = [enders EXCEPT ![e].todo = Tail(@)]
  <2>1. DOMAIN NoEnder = {"phase", "todo", "reason"} /\ NoEnder.reason # "INTERRUPTED"
    BY ShadowConstants DEF NoEnder
  <2> QED BY <1>1, <1>2, <2>1, EnderAside, EnderFacts
<1>3. CASE /\ r \in Observing
           /\ \/ enders' = [enders EXCEPT ![e].phase = "WAIT"]
              \/ enders' = [enders EXCEPT ![e].todo = Tail(@)]
           /\ run' = [run EXCEPT ![r].cancelled = TRUE,
                                 ![r].ended = IF r \in slots /\ @ = None THEN enders[e].reason
                                              ELSE @]
  <2>1. r \in Runs /\ DOMAIN run = Runs
    BY <1>3 DEF Observing, IInv, Shapes
  <2>2. /\ DOMAIN run' = Runs /\ run'[r] = t /\ \A q \in Runs \ {r} : run'[q] = run[q]
    BY <1>3, <2>1 DEF Asked
  <2>3. RunOk(run[r], journal[r], rows[r], session)
    BY <2>1 DEF IInv
  <2>4. reason # "INTERRUPTED"
    BY <2>3, EnderFacts DEF RunOk, Base
  <2>5. RunOk(t, journal[r], rows[r], session) /\ t.pc = run[r].pc /\ t.seq = run[r].seq
          /\ t.failed = run[r].failed
    <3> HIDE DEF reason, r
    <3> QED BY <2>3, <2>4, AskedOk
  <2> HIDE DEF t, r
  <2>6. \A q \in Runs : RunOk(run'[q], journal'[q], rows'[q], session') /\ Closed(journal'[q])
    BY <1>1, <2>2, <2>5 DEF IInv
  <2>7. \A q \in Runs : run'[q].pc = run[q].pc /\ run'[q].seq = run[q].seq
                          /\ run'[q].failed = run[q].failed
    BY <2>2, <2>5
  <2>8. Shapes'
    BY <1>1, <1>3, <2>2 DEF IInv, Shapes
  <2>9. RecoveryOk'
    BY <1>1, <2>7 DEF IInv, RecoveryOk, Observing
  <2>10. \A h \in Creators : CreatorOk(h)'
    BY <1>1, <2>7 DEF IInv, CreatorOk
  <2>11. RowCountsItsJournal'
    <3>1. Ended' = Ended
      BY <1>1 DEF Ended
    <3> QED BY <1>1, <2>7, <3>1 DEF IInv, RowCountsItsJournal, Ended
  <2> QED BY <1>1, <2>6, <2>8, <2>9, <2>10, <2>11 DEF IInv
<1> QED BY <1>2, <1>3 DEF EndAsk

\* Giving up the wait for a run keeps the invariant.
LEMMA EndReturnKeeps ==
    ASSUME IInv, NEW e \in Enders, EndReturn(e)
    PROVE  IInv'
BY EnderAside, EnderFacts DEF EndReturn, database

-----------------------------------------------------------------------------
(***************************************************************************)
(* A crash, and the next start.                                            *)
(***************************************************************************)

\* A crash leaves the journals, the rows, and no task; the next start closes what observed.
LEMMA CrashKeeps ==
    ASSUME IInv, Crash
    PROVE  IInv'
<1>1. /\ UNCHANGED <<rows, journal>> /\ session' = [session EXCEPT !.life = "GONE"]
      /\ run' = [r \in Runs |-> IF run[r].pc = "NONE" THEN NewRun
                                ELSE [NewRun EXCEPT !.pc = "DONE", !.failed = run[r].failed]]
      /\ creators' = [h \in Creators |-> NoCreator] /\ enders' = [e \in Enders |-> NoEnder]
      /\ recovery' = {[run |-> r, phase |-> "APPEND"] : r \in Observing}
  BY DEF Crash, database
<1>2. /\ SessionOk(session') /\ session'.script = session.script /\ session'.seen = session.seen
  <2>1. SessionOk(session) /\ DOMAIN session = SessionFields
    BY DEF IInv, SessionOk
  <2>2. /\ DOMAIN session' = SessionFields /\ session'.reason = session.reason
        /\ session'.script = session.script /\ session'.seen = session.seen
        /\ session'.touch = session.touch /\ session'.book = session.book
    BY <1>1, <2>1 DEF SessionFields
  <2> QED BY <2>1, <2>2 DEF SessionOk
<1>3. Shapes'
  BY <1>1, ShadowConstants DEF IInv, Shapes, NoEnder
<1>4. ASSUME NEW r \in Runs
      PROVE  /\ RunOk(run'[r], journal'[r], rows'[r], session') /\ Closed(journal'[r])
             /\ run'[r].pc \in {"NONE", "DONE"}
             /\ r \in Ended => run'[r].failed = run[r].failed
  <2>1. RunOk(run[r], journal[r], rows[r], session) /\ Closed(journal[r])
    BY DEF IInv
  <2>2. Decisions(journal[r], session')
    BY <1>2, <2>1 DEF RunOk, Decisions, Known, Past
  <2>3. /\ DOMAIN run'[r] = RunFields /\ run'[r].ended = None /\ run'[r].pending = <<>>
        /\ run'[r].evaluated = {} /\ run'[r].decisions = 0 /\ run'[r].entries = 0
        /\ run[r].pc = "NONE" => run'[r].pc = "NONE"
        /\ run[r].pc # "NONE" => run'[r].pc = "DONE" /\ run'[r].failed = run[r].failed
    BY <1>1 DEF NewRun, RunFields
  <2>4. RowOk(run'[r].pc, rows[r])
    BY <2>1, <2>3 DEF RunOk, RowOk, Tasks
  <2>5. RunOk(run'[r], journal[r], rows[r], session')
    BY <2>1, <2>2, <2>3, <2>4, FreshOk DEF RunOk
  <2>6. r \in Ended => run[r].pc # "NONE"
    BY <2>1 DEF RunOk, RowOk, Ended
  <2> QED BY <1>1, <2>1, <2>3, <2>5, <2>6
<1>5. \A h \in Creators : CreatorOk(h)' /\ creators'[h].phase = "IDLE"
  BY <1>1 DEF CreatorOk, NoCreator
<1>6. RecoveryOk'
  <2>1. Observing' = Observing
    BY <1>1 DEF Observing
  <2>2. \A x \in recovery' : /\ DOMAIN x = {"run", "phase"} /\ x.run \in Observing'
                             /\ x.phase = "APPEND"
                             /\ \A u \in recovery' : u.run = x.run => u = x
    <3>1. ASSUME NEW x \in recovery'
          PROVE  \E q \in Observing : x = [run |-> q, phase |-> "APPEND"]
      BY <1>1
    <3> QED BY <2>1, <3>1
  <2> QED BY <1>4, <1>5, <2>2 DEF RecoveryOk
<1>7. RowCountsItsJournal'
  <2>1. Ended' = Ended /\ Ended \subseteq Runs
    BY <1>1 DEF Ended
  <2>2. RowCountsItsJournal
    BY DEF IInv
  <2>3. \A q \in Ended : run'[q].failed = run[q].failed
    BY <1>4, <2>1
  <2>4. rows' = rows /\ journal' = journal
    BY <1>1
  <2> QED BY <2>1, <2>2, <2>3, <2>4 DEF RowCountsItsJournal
<1> QED BY <1>2, <1>3, <1>4, <1>5, <1>6, <1>7 DEF IInv

\* The last number of a journal is that of its last entry.
LEMMA LastSequenceFacts ==
    ASSUME NEW r, Journal(journal[r])
    PROVE  /\ LastSequence(r) \in Nat
           /\ \A i \in DOMAIN journal[r] : journal[r][i].seq <= LastSequence(r)
<1> DEFINE log == journal[r]
           S == {0} \cup {log[i].seq : i \in DOMAIN log}
<1>1. /\ S \subseteq Nat /\ Len(log) \in Nat /\ DOMAIN log = 1 .. Len(log)
  BY SeqFacts DEF Journal
<1>2. \E x \in S : \A y \in S : x >= y
  <2>1. CASE log = <<>>
    BY <1>1, <2>1
  <2>2. CASE log # <<>>
    <3>1. Len(log) \in DOMAIN log /\ \A i \in DOMAIN log : i <= Len(log)
      BY <1>1, <2>2, LastFacts DEF Journal
    <3>2. \A i \in DOMAIN log : i = Len(log) \/ i < Len(log)
      BY <1>1
    <3>3. \A i \in DOMAIN log : log[i].seq <= log[Len(log)].seq
      BY <1>1, <3>1, <3>2 DEF Journal
    <3>4. log[Len(log)].seq \in S /\ log[Len(log)].seq \in Nat
      BY <1>1, <3>1
    <3>5. \A y \in S : log[Len(log)].seq >= y
      <4>1. ASSUME NEW y \in S PROVE y = 0 \/ \E i \in DOMAIN log : y = log[i].seq
        OBVIOUS
      <4> QED BY <1>1, <3>3, <3>4, <4>1
    <3> QED BY <3>4, <3>5
  <2> QED BY <2>1, <2>2
<1> HIDE DEF S
<1>3. Max(S) \in S /\ \A y \in S : Max(S) >= y
  BY <1>2 DEF Max
<1>4. LastSequence(r) = Max(S)
  BY DEF LastSequence, S
<1> QED BY <1>1, <1>3, <1>4 DEF S

\* The final entry of a recovered run keeps the invariant.
LEMMA RecoverAppendKeeps ==
    ASSUME IInv, RecoverAppend
    PROVE  IInv'
<1>1. PICK todo \in recovery :
        /\ todo.phase = "APPEND"
        /\ journal' = [journal EXCEPT ![todo.run] =
              Appended(@, [Entry("RUN_ENDED", "interrupted", None)
                             EXCEPT !.seq = LastSequence(todo.run) + 1])]
        /\ recovery' = (recovery \ {todo}) \cup {[todo EXCEPT !.phase = "CLOSE"]}
        /\ UNCHANGED <<session, run, lock, creators, enders, rows>>
  BY DEF RecoverAppend
<1> DEFINE r == todo.run
           e == [Entry("RUN_ENDED", "interrupted", None) EXCEPT !.seq = LastSequence(r) + 1]
           log == journal[r]
           new == Appended(log, e)
<1>2. /\ \A h \in Creators : creators[h].phase = "IDLE"
      /\ \A q \in Runs : run[q].pc \in {"NONE", "DONE"}
      /\ DOMAIN todo = {"run", "phase"} /\ r \in Observing
      /\ \A x \in recovery : /\ DOMAIN x = {"run", "phase"} /\ x.run \in Observing
                             /\ x.phase = "CLOSE" => journal[x.run] # <<>>
                                  /\ Last(journal[x.run]).what = "RUN_ENDED"
      /\ \A x, y \in recovery : x.run = y.run => x = y
  BY <1>1 DEF IInv, RecoveryOk
<1>3. r \in Runs /\ DOMAIN journal = Runs
  BY <1>2 DEF Observing, IInv, Shapes
<1>4. RunOk(run[r], log, rows[r], session) /\ Closed(log)
  BY <1>3 DEF IInv
<1>5. run[r].pc = "DONE"
  BY <1>2, <1>3, <1>4 DEF RunOk, RowOk, Observing
<1>6. Journal(log) /\ Decisions(log, session)
  BY <1>4 DEF RunOk
<1>7. LastSequence(r) \in Nat /\ \A i \in DOMAIN log : log[i].seq <= LastSequence(r)
  BY <1>6, LastSequenceFacts
<1>8. /\ DOMAIN e = EntryFields /\ e.seq = LastSequence(r) + 1 /\ e.what = "RUN_ENDED"
      /\ e.at = None
  BY DEF Entry, EntryFields
<1>9. e.seq \in Nat /\ \A i \in DOMAIN log : log[i].seq < e.seq
  BY <1>6, <1>7, <1>8 DEF Journal
<1>j. /\ DOMAIN journal' = Runs /\ journal'[r] = new
      /\ \A q \in Runs \ {r} : journal'[q] = journal[q]
  BY <1>1, <1>3
<1> HIDE DEF e
<1>10. /\ Journal(new)
       /\ \/ /\ new = log
             /\ \E i \in DOMAIN log : log[i].what = e.what /\ log[i].marker = e.marker
                                         /\ log[i].at = e.at
          \/ new = Append(log, e)
       /\ \A i \in DOMAIN new : \/ i \in DOMAIN log /\ new[i] = log[i]
                                \/ i = Len(log) + 1 /\ new[i] = e
  BY <1>6, <1>8, <1>9, AppendedFacts
<1> HIDE DEF new
<1>11. Decisions(new, session)
  BY <1>6, <1>8, <1>10 DEF Decisions
<1>12. Closed(new)
  <2>1. ASSUME NEW i \in DOMAIN new, NEW j \in DOMAIN new, Final(new[i]), i < j
        PROVE  new[j].what = "RUN_ENDED"
    <3>1. Len(log) \in Nat /\ DOMAIN log = 1 .. Len(log)
      BY <1>6, SeqFacts DEF Journal
    <3>2. CASE j = Len(log) + 1 /\ new[j] = e
      BY <1>8, <3>2
    <3>3. CASE j \in DOMAIN log /\ new[j] = log[j]
      <4>1. i \in DOMAIN log /\ new[i] = log[i]
        BY <1>10, <2>1, <3>1, <3>3
      <4> QED BY <1>4, <2>1, <3>3, <4>1 DEF Closed
    <3> QED BY <1>10, <3>2, <3>3
  <2> QED BY <2>1 DEF Closed
<1>13. new # <<>> /\ Last(new).what = "RUN_ENDED"
  <2>1. CASE new = Append(log, e)
    BY <1>6, <1>8, <2>1, AppendFacts DEF Journal, Last
  <2>2. CASE new = log /\ \E i \in DOMAIN log : log[i].what = e.what /\ log[i].at = e.at
    <3>1. PICK i \in DOMAIN log : Final(log[i])
      BY <1>8, <2>2 DEF Final
    <3>2. log # <<>>
      BY <3>1
    <3>3. /\ Len(log) \in DOMAIN log /\ Last(log) = log[Len(log)] /\ i <= Len(log)
          /\ i \in Nat /\ Len(log) \in Nat
      BY <1>6, <3>1, <3>2, LastFacts, SeqFacts DEF Journal
    <3>4. CASE i = Len(log)
      BY <2>2, <3>1, <3>2, <3>3, <3>4 DEF Final
    <3>5. CASE i < Len(log)
      BY <1>4, <2>2, <3>1, <3>2, <3>3, <3>5 DEF Closed
    <3> QED BY <3>3, <3>4, <3>5
  <2> QED BY <1>10, <2>1, <2>2
<1>14. RunOk(run[r], new, rows[r], session)
  BY <1>4, <1>5, <1>10, <1>11 DEF RunOk, TaskOk, Tasks
<1>15. \A q \in Runs : RunOk(run'[q], journal'[q], rows'[q], session') /\ Closed(journal'[q])
  BY <1>1, <1>12, <1>14, <1>j DEF IInv
<1>16. Shapes' /\ SessionOk(session')
  BY <1>1, <1>j DEF IInv, Shapes
<1>17. \A h \in Creators : CreatorOk(h)'
  BY <1>1 DEF IInv, CreatorOk
<1>18. RecoveryOk'
  <2>1. DEFINE done == [todo EXCEPT !.phase = "CLOSE"]
  <2>2. DOMAIN done = {"run", "phase"} /\ done.run = r /\ done.phase = "CLOSE"
    BY <1>2
  <2> HIDE DEF done, r
  <2>3. ASSUME NEW x \in recovery'
        PROVE  /\ DOMAIN x = {"run", "phase"} /\ x.run \in Observing
               /\ x.phase = "CLOSE" => journal'[x.run] # <<>>
                                         /\ Last(journal'[x.run]).what = "RUN_ENDED"
               /\ x = done \/ (x \in recovery /\ x.run # r)
    <3>1. CASE x = done
      BY <1>2, <1>13, <1>j, <2>2, <3>1
    <3>2. CASE x \in recovery \ {todo}
      <4>1. x.run # r
        BY <1>2, <3>2 DEF r
      <4>2. x.run \in Runs
        BY <1>2, <3>2 DEF Observing
      <4> QED BY <1>2, <1>j, <3>2, <4>1, <4>2
    <3> QED BY <1>1, <2>3, <3>1, <3>2 DEF done
  <2>4. \A x, y \in recovery' : x.run = y.run => x = y
    BY <1>2, <2>2, <2>3
  <2>5. Observing' = Observing
    BY <1>1 DEF Observing
  <2> QED BY <1>1, <1>2, <2>3, <2>4, <2>5 DEF RecoveryOk
<1>19. RowCountsItsJournal'
  <2>1. Ended' = Ended /\ r \notin Ended /\ Ended \subseteq Runs
    BY <1>1, <1>2 DEF Ended, Observing
  <2> HIDE DEF r
  <2>2. \A q \in Ended : journal'[q] = journal[q]
    BY <1>j, <2>1
  <2> QED BY <1>1, <2>1, <2>2 DEF IInv, RowCountsItsJournal
<1> QED BY <1>15, <1>16, <1>17, <1>18, <1>19 DEF IInv

\* Closing the row of a recovered run keeps the invariant.
LEMMA RecoverCloseKeeps ==
    ASSUME IInv, RecoverClose
    PROVE  IInv'
<1>1. PICK todo \in recovery :
        /\ todo.phase = "CLOSE" /\ rows' = [rows EXCEPT ![todo.run] = Interrupted(todo.run)]
        /\ recovery' = recovery \ {todo}
        /\ UNCHANGED <<session, run, lock, creators, enders, journal>>
  BY DEF RecoverClose
<1> DEFINE r == todo.run
           log == journal[r]
<1>2. /\ \A h \in Creators : creators[h].phase = "IDLE"
      /\ \A q \in Runs : run[q].pc \in {"NONE", "DONE"}
      /\ r \in Observing /\ log # <<>> /\ Last(log).what = "RUN_ENDED"
      /\ \A x \in recovery : /\ DOMAIN x = {"run", "phase"} /\ x.run \in Observing
                             /\ x.phase = "CLOSE" => journal[x.run] # <<>>
                                  /\ Last(journal[x.run]).what = "RUN_ENDED"
      /\ \A x, y \in recovery : x.run = y.run => x = y
  BY <1>1 DEF IInv, RecoveryOk
<1>3. r \in Runs /\ DOMAIN rows = Runs
  BY <1>2 DEF Observing, IInv, Shapes
<1>4. RunOk(run[r], log, rows[r], session) /\ Closed(log)
  BY <1>3 DEF IInv
<1>5. run[r].pc = "DONE" /\ DOMAIN rows[r] = RowFields
  BY <1>2, <1>3, <1>4 DEF RunOk, RowOk, Observing
<1>6. /\ DOMAIN rows' = Runs /\ rows'[r] = Interrupted(r)
      /\ \A q \in Runs \ {r} : rows'[q] = rows[q]
  BY <1>1, <1>3
<1>7. /\ DOMAIN Interrupted(r) = RowFields /\ Interrupted(r).entries = Len(log)
      /\ Interrupted(r).decisions = Cardinality(Decided(log))
  BY <1>5 DEF Interrupted, RowFields
<1> HIDE DEF r
<1>8. RunOk(run[r], log, rows'[r], session)
  BY <1>4, <1>5, <1>6, <1>7 DEF RunOk, RowOk, Tasks
<1>9. \A q \in Runs : RunOk(run'[q], journal'[q], rows'[q], session') /\ Closed(journal'[q])
  BY <1>1, <1>6, <1>8 DEF IInv
<1>10. Shapes' /\ SessionOk(session')
  BY <1>1, <1>6 DEF IInv, Shapes
<1>11. ASSUME NEW h \in Creators PROVE CreatorOk(h)'
  <2>1. CreatorOk(h) /\ creators'[h].phase = "IDLE"
    BY <1>1, <1>2 DEF IInv
  <2> QED BY <1>1, <2>1 DEF CreatorOk
<1>12. RecoveryOk'
  <2>1. ASSUME NEW x \in recovery' PROVE x \in recovery /\ x.run \in Observing'
    <3>1. x \in recovery /\ x.run # r
      BY <1>1, <1>2, <2>1 DEF r
    <3>2. x.run \in Observing /\ x.run \in Runs
      BY <1>2, <3>1 DEF Observing
    <3> QED BY <1>6, <3>1, <3>2 DEF Observing
  <2> QED BY <1>1, <1>2, <2>1 DEF RecoveryOk
<1>13. RowCountsItsJournal'
  <2>1. ASSUME NEW q \in Ended', (~run[q].failed \/ rows[q].reason = "INTERRUPTED")'
        PROVE  (/\ rows[q].entries = Len(journal[q])
                /\ rows[q].decisions = Cardinality(Decided(journal[q]))
                /\ journal[q] # <<>> /\ Last(journal[q]).what = "RUN_ENDED"
                /\ \A i, j \in DOMAIN journal[q] : i < j => journal[q][i].seq < journal[q][j].seq)'
    <3>1. CASE q = r
      <4>1. \A i, j \in DOMAIN log : i < j => log[i].seq < log[j].seq
        BY <1>4 DEF RunOk, Journal
      <4> QED BY <1>1, <1>2, <1>6, <1>7, <3>1, <4>1
    <3>2. CASE q # r
      <4>1. q \in Ended /\ rows'[q] = rows[q]
        BY <1>6, <2>1, <3>2 DEF Ended
      <4> QED BY <1>1, <2>1, <4>1 DEF IInv, RowCountsItsJournal
    <3> QED BY <3>1, <3>2
  <2> QED BY <2>1 DEF RowCountsItsJournal
<1> QED BY <1>9, <1>10, <1>11, <1>12, <1>13 DEF IInv

-----------------------------------------------------------------------------
(***************************************************************************)
(* The invariant.                                                          *)
(***************************************************************************)
\* Every session starts with its script ahead of it.
LEMMA InitKeeps == Init => IInv
<1> SUFFICES ASSUME Init PROVE IInv
  OBVIOUS
<1>1. /\ budget \in Scenarios
      /\ session = [script |-> budget.script, touch |-> budget.touch, book |-> {},
                  contested |-> {}, life |-> "RUNNING", reason |-> None,
                  seen |-> [k \in DOMAIN budget.touch |-> {}]]
      /\ run = [r \in Runs |-> NewRun] /\ creators = [h \in Creators |-> NoCreator]
      /\ enders = [e \in Enders |-> NoEnder] /\ rows = [r \in Runs |-> None]
      /\ journal = [r \in Runs |-> <<>>] /\ recovery = {}
  BY DEF Init
<1>2. SessionOk(session)
  <2>1. /\ DOMAIN session = SessionFields /\ session.reason = None
        /\ session.script = budget.script /\ session.touch = budget.touch
        /\ DOMAIN session.seen = DOMAIN budget.touch /\ session.book = {}
    BY <1>1 DEF SessionFields
  <2>2. /\ budget.script \in Seq(ToSet(budget.script)) /\ budget.touch \in Seq(ToSet(budget.touch))
        /\ None \notin DOMAIN budget.touch
    BY <1>1, ShadowSessions
  <2>3. ASSUME NEW i \in DOMAIN budget.script
        PROVE  LET item == budget.script[i]
               IN  /\ DOMAIN item = ItemFields /\ item.kind # "CAPTURE"
                   /\ item.kind \in {"CANDLE", "LATE"} => item.k \in DOMAIN budget.touch
                   /\ \A j \in DOMAIN budget.script :
                        item.kind = "CANDLE" /\ budget.script[j].kind = "CANDLE"
                          /\ budget.script[j].k = item.k => i = j
    <3> DEFINE item == budget.script[i]
    <3>1. /\ item = [Item(item.kind, item.k) EXCEPT !.c = item.c] /\ item.kind # "CAPTURE"
          /\ item.kind \in {"CANDLE", "LATE"} => item.k \in DOMAIN budget.touch
          /\ \A j \in DOMAIN budget.script :
            item.kind = "CANDLE" /\ budget.script[j].kind = "CANDLE"
              /\ budget.script[j].k = item.k => i = j
      <4>1. budget \in Scenarios
        BY <1>1
      <4>2. PICK x \in {budget.script[i]} :
              /\ x = [Item(x.kind, x.k) EXCEPT !.c = x.c] /\ x.kind # "CAPTURE"
              /\ x.kind \in {"CANDLE", "LATE"} => x.k \in DOMAIN budget.touch
              /\ \A j \in DOMAIN budget.script :
                  x.kind = "CANDLE" /\ budget.script[j].kind = "CANDLE"
                    /\ budget.script[j].k = x.k => i = j
        BY <2>3, <4>1, ShadowSessions
      <4>3. x = item
        BY <4>2
      <4> QED BY <4>2, <4>3
    <3>2. DOMAIN [Item(item.kind, item.k) EXCEPT !.c = item.c] = ItemFields
      BY DEF Item, ItemFields
    <3> HIDE DEF item
    <3>3. DOMAIN item = ItemFields
      BY <3>1, <3>2
    <3> QED BY <3>1, <3>3 DEF item
  <2> QED BY <2>1, <2>2, <2>3, ShadowConstants DEF SessionOk
<1>3. Shapes
  BY <1>1, ShadowConstants DEF Shapes, NoEnder
<1>4. ASSUME NEW r \in Runs
      PROVE  RunOk(run[r], journal[r], rows[r], session) /\ Closed(journal[r])
  <2>1. run[r] = NewRun /\ journal[r] = <<>> /\ rows[r] = None
    BY <1>1
  <2>2. /\ DOMAIN NewRun = RunFields /\ NewRun.ended = None /\ NewRun.pending = <<>>
        /\ NewRun.evaluated = {} /\ NewRun.pc = "NONE" /\ NewRun.decisions = 0
        /\ NewRun.entries = 0
    BY DEF NewRun, RunFields
  <2>3. <<>> \in Seq(ToSet(<<>>)) /\ DOMAIN <<>> = {}
    OBVIOUS
  <2>4. Journal(<<>>) /\ Decisions(<<>>, session) /\ Closed(<<>>)
    BY <2>3 DEF Journal, Decisions, Closed
  <2>5. RowOk("NONE", None)
    BY DEF RowOk, Tasks
  <2> QED BY <2>1, <2>2, <2>4, <2>5, FreshOk
<1>5. \A h \in Creators : CreatorOk(h)
  BY <1>1 DEF CreatorOk, NoCreator
<1>6. RecoveryOk
  BY <1>1 DEF RecoveryOk
<1>7. RowCountsItsJournal
  BY <1>1 DEF RowCountsItsJournal, Ended
<1> QED BY <1>2, <1>3, <1>4, <1>5, <1>6, <1>7 DEF IInv

\* Nothing happens.
LEMMA StutterKeeps ==
    ASSUME IInv, UNCHANGED vars
    PROVE  IInv'
BY DEF IInv, Shapes, RunOk, Base, TaskOk, Open, Counts, Sound, Fits, RowOk, Journal, Decisions,
       CreatorOk, RecoveryOk, Observing, RowCountsItsJournal, Ended, vars, handlers, database

\* Every step keeps the invariant.
LEMMA ShadowInvariant == Spec => []IInv
<1>1. IInv /\ [Next]_vars => IInv'
  <2> SUFFICES ASSUME IInv, [Next]_vars PROVE IInv'
    OBVIOUS
  <2>1. CASE Emit \/ SessionEnds
    BY <2>1, EmitKeeps, SessionEndsKeeps
  <2>2. CASE \E r \in Runs : Task(r) \/ StoreFails(r) \/ FinishFails(r)
    BY <2>2, TaskStartsKeeps, TakeRecordKeeps, EvaluateKeeps, RunsOutKeeps, WriteEntryKeeps, PublishOutcomesKeeps,
       FinishKeeps, StoreFailsKeeps DEF Task
  <2>3. CASE Handlers
    <3>1. CASE \E h \in Creators : CreateOpen(h) \/ CreateRow(h) \/ CreateOpened(h)
      BY <3>1, CreateOpenKeeps, CreateRowKeeps, CreateOpenedKeeps
    <3>2. CASE \E e \in Enders : ShutdownCollect(e) \/ EndAsk(e) \/ EndReturn(e)
      BY <3>2, CollectKeeps, EndAskKeeps, EndReturnKeeps
    <3> QED BY <2>3, <3>1, <3>2 DEF Handlers
  <2>4. CASE \E h \in Creators, key \in Keys : CreateAsk(h, key)
    BY <2>4, CreateAskKeeps
  <2>5. CASE \E e \in Enders, r \in Runs : CancelAsk(e, r)
    BY <2>5, CancelAskKeeps
  <2>6. CASE \E e \in Enders : ShutdownAsk(e)
    BY <2>6, ShutdownAskKeeps
  <2>7. CASE Crash \/ Recover
    BY <2>7, CrashKeeps, RecoverAppendKeeps, RecoverCloseKeeps DEF Recover
  <2>8. CASE UNCHANGED vars
    BY <2>8, StutterKeeps
  <2> QED BY <2>1, <2>2, <2>3, <2>4, <2>5, <2>6, <2>7, <2>8 DEF Next
<1> QED BY InitKeeps, <1>1, PTL DEF Spec

\* A decision in the journal read exactly what the session had confirmed when its boundary
\* closed, however far behind the consumer was (_capture): for any runs, limits and
\* sessions, through failures of the store, crashes and restarts.
THEOREM LagIsHarmless == Spec => []LagNeverChangesADecision
<1>1. IInv => LagNeverChangesADecision
  BY DEF IInv, RunOk, Decisions, Known, LagNeverChangesADecision
<1> QED BY <1>1, ShadowInvariant, PTL

\* The row of an ended run counts what its journal holds, and its journal ends saying so,
\* whether the run closed itself without a failure of the store or the next start closed
\* it (_finish, recover_interrupted_runs).
THEOREM RowsCount == Spec => []RowCountsItsJournal
<1>1. IInv => RowCountsItsJournal
  BY DEF IInv
<1> QED BY <1>1, ShadowInvariant, PTL


-----------------------------------------------------------------------------
(***************************************************************************)
(* Corrections.                                                            *)
(*                                                                         *)
(* A driver candle is contested by its correction for good.  The invariant *)
(* says why nothing it contests stands: what a run follows, or published   *)
(* and not invalidated, agrees with every correction it has worked         *)
(* through; the captures behind a correction in its queue are all          *)
(* unavailable, so nothing new is followed afterwards; and the newest      *)
(* outcome of a decision is OBSERVED only while it is published.           *)
(***************************************************************************)
Driver(e) == e.what = "CONFLICTING_CORRECTION" /\ e.marker.tf = "DRIVER"
DriverItem(item) == item.kind = "CONFLICT" /\ item.c.tf = "DRIVER"

\* no correction of a driver candle is in the journal, or about to be
Unwarned(s, log) ==
    /\ \A i \in DOMAIN log : ~Driver(log[i])
    /\ s.pc = "WRITE" => ~Driver(s.entry)

\* a capture is available only ahead of every correction
Warned(s, log, ses) ==
    /\ \A j \in DOMAIN s.pending :
        s.pending[j].kind = "CAPTURE" /\ s.pending[j].available =>
            /\ \A i \in DOMAIN s.pending : i < j => ~DriverItem(s.pending[i])
            /\ Unwarned(s, log)
    /\ ses.contested = {} =>
        (\A i \in DOMAIN s.pending : ~DriverItem(s.pending[i])) /\ Unwarned(s, log)

\* the decision at b was never followed
Untouched(s, outs, b) ==
    /\ b \notin s.watches /\ \A p \in s.published : p.at # b
    /\ \A i \in DOMAIN outs : outs[i].at # b

StillPublished(s, o) == \E p \in s.published : p.at = o.at /\ p.to = o.development.to

\* a decision is open or published, once, and not both; an invalidated one is neither
Followed(s, outs) ==
    /\ outs \in Seq(ToSet(outs)) /\ s.watches \subseteq s.evaluated
    /\ \A p \in s.published : p.at \in s.evaluated \ s.watches
    /\ \A p, q \in s.published : p.at = q.at => p = q
    /\ \A i \in DOMAIN outs :
        /\ outs[i].at \in s.evaluated \ s.watches
        /\ outs[i].development.state = "INVALIDATED" => \A p \in s.published : p.at # outs[i].at

\* what is OBSERVED last is still published, or about to be superseded
Stands(s, outs, covered) ==
    \A j \in Latest(outs) : outs[j].development.state = "OBSERVED" =>
        StillPublished(s, outs[j]) \/ outs[j].at \in covered

\* what is followed agrees with the corrections in the journal
Clear(s, log, working) ==
    \A i \in DOMAIN log : Driver(log[i]) /\ log[i].marker \notin working =>
        /\ \A b \in s.watches : ~Contests(log[i].marker, b, None)
        /\ \A p \in s.published : ~Contests(log[i].marker, p.at, p.to)

\* the outcomes about to be published
RecordsOk(s, outs) ==
    /\ IsFiniteSet(s.records) /\ \A x, y \in s.records : x.at = y.at => x = y
    /\ \A x \in s.records :
        /\ x.at \in s.evaluated \ s.watches /\ x \notin ToSet(outs)
        /\ x.development.state = "OBSERVED" =>
            StillPublished(s, x) /\ \A i \in DOMAIN outs : outs[i].at # x.at
        /\ x.development.state = "INVALIDATED" => \A p \in s.published : p.at # x.at

Settled(s, log, outs) == Followed(s, outs) /\ Stands(s, outs, {}) /\ Clear(s, log, {})

Following(s, log, outs) ==
    /\ s.pc \in {"START", "LOOP", "CLOSE"} => Settled(s, log, outs)
    /\ s.pc = "WRITE" =>
        /\ Followed(s, outs) /\ Stands(s, outs, {})
        /\ Clear(s, log, IF s.then = "INVALIDATE" THEN {s.item.c} ELSE {})
        /\ Driver(s.entry) => s.then = "CONTESTED" /\ s.entry.marker = s.item.c
        /\ s.then = "EVALUATED" =>
            /\ Untouched(s, outs, s.entry.at) /\ s.item.prefix = s.entry.bars
            /\ s.entry.marker # "UNAVAILABLE" => \A i \in DOMAIN log : ~Driver(log[i])
    /\ s.pc = "PUBLISH" =>
        /\ Followed(s, outs) /\ Clear(s, log, {}) /\ RecordsOk(s, outs)
        /\ Stands(s, outs, {x.at : x \in s.records})

FollowOk(s, log, outs, ses) ==
    /\ Warned(s, log, ses)
    /\ ~s.failed => Following(s, log, outs)
    /\ s.pc \in {"NONE", "CREATING"} => s.watches = {} /\ s.published = {} /\ outs = <<>>

SeenOk(ses) == \A k \in DOMAIN ses.seen : ses.seen[k] \subseteq DOMAIN ses.touch

FInv ==
    /\ DOMAIN outcomes = Runs /\ SeenOk(session)
    /\ \A r \in Runs : FollowOk(run[r], journal[r], outcomes[r], session)

-----------------------------------------------------------------------------
(***************************************************************************)
(* Finite sets of boundaries.                                              *)
(***************************************************************************)

\* A set of boundaries below a bound has a greatest one.
LEMMA BoundedMax ==
    ASSUME NEW n \in Nat, NEW S, S \subseteq 1 .. n, S # {}
    PROVE  Max(S) \in S
<1> DEFINE B == {m \in Nat : \A x \in S : x <= m}
<1>1. n \in B /\ B \subseteq Nat
  OBVIOUS
<1>2. PICK m \in B : \A y \in B : <<y, m>> \notin OpToRel(<, Nat)
  <2>1. B # {}
    BY <1>1
  <2> HIDE DEF B
  <2> QED BY <1>1, <2>1, NatLessThanWellFounded, WFMin
<1>3. \A y \in B : ~(y < m)
  BY <1>1, <1>2 DEF OpToRel
<1>4. m \in Nat /\ \A x \in S : x <= m /\ x \in Nat
  <2>1. m \in Nat /\ \A x \in S : x <= m
    BY <1>2
  <2> HIDE DEF B
  <2>2. \A x \in S : x \in Nat
    OBVIOUS
  <2> QED BY <2>1, <2>2
<1>5. m \in S
  <2> SUFFICES ASSUME m \notin S PROVE FALSE
    OBVIOUS
  <2>1. \A x \in S : x # m /\ x <= m - 1 /\ x >= 1
    BY <1>4
  <2>2. m - 1 \in Nat /\ m - 1 < m
    <3>1. PICK x \in S : x >= 1
      BY <2>1
    <3> QED BY <3>1, <1>4
  <2>3. m - 1 \in B
    BY <2>1, <2>2
  <2> HIDE DEF B
  <2> QED BY <1>3, <2>2, <2>3
<1> HIDE DEF B
<1> QED BY <1>4, <1>5 DEF Max

\* A finite set as a sequence: every member, and nothing else.
LEMMA SetToSeqFacts ==
    ASSUME NEW S, IsFiniteSet(S)
    PROVE  /\ SetToSeq(S) \in Seq(S) /\ DOMAIN SetToSeq(S) = 1 .. Len(SetToSeq(S))
           /\ \A x \in S : \E i \in DOMAIN SetToSeq(S) : SetToSeq(S)[i] = x
           /\ \A i \in DOMAIN SetToSeq(S) : SetToSeq(S)[i] \in S
           /\ \A i, j \in DOMAIN SetToSeq(S) : SetToSeq(S)[i] = SetToSeq(S)[j] => i = j
<1> DEFINE n == Cardinality(S)
           f == SetToSeq(S)
<1>1. n \in Nat /\ ExistsBijection(1 .. n, S)
  BY FS_CardinalityType
<1>2. PICK g : g \in Bijection(1 .. n, S)
  BY <1>1 DEF ExistsBijection
<1>3. g \in Injection(1 .. n, S)
  BY <1>2 DEF Bijection
<1>4. g \in [1 .. n -> S] /\ IsInjective(g)
  BY <1>3 DEF Injection
<1>5. f \in [1 .. n -> S] /\ IsInjective(f)
  BY <1>4 DEF SetToSeq
<1> HIDE DEF f
<1>6. f \in Injection(1 .. n, S)
  BY <1>5 DEF Injection
<1>7. Cardinality(1 .. n) = n /\ IsFiniteSet(1 .. n)
  BY <1>1, FS_Interval
<1>8. f \in Surjection(1 .. n, S)
  <2> HIDE DEF n
  <2>1. Cardinality(1 .. n) = Cardinality(S) <=> f \in Surjection(1 .. n, S)
    BY <1>6, FS_Injection
  <2> QED BY <1>7, <2>1 DEF n
<1>9. f \in Seq(S) /\ DOMAIN f = 1 .. n /\ Len(f) = n
  BY <1>1, <1>5
<1>10. \A x \in S : \E i \in 1 .. n : f[i] = x
  BY <1>8 DEF Surjection
<1>11. \A i, j \in 1 .. n : f[i] = f[j] => i = j
  BY <1>5, <1>9 DEF IsInjective
<1> QED BY <1>5, <1>9, <1>10, <1>11 DEF f

\* A description of each boundary of a set below a bound is a finite set.
LEMMA ImageFinite ==
    ASSUME NEW n \in Nat, NEW S, S \subseteq 1 .. n, NEW development
    PROVE  IsFiniteSet({[at |-> b, development |-> development[b]] : b \in S})
<1> DEFINE T == {[at |-> b, development |-> development[b]] : b \in S}
           F == [b \in S |-> [at |-> b, development |-> development[b]]]
<1>1. IsFiniteSet(S)
  <2>1. IsFiniteSet(1 .. n)
    BY FS_Interval
  <2> QED BY <2>1, FS_Subset
<1>2. F \in [S -> T] /\ \A t \in T : \E b \in S : F[b] = t
  OBVIOUS
<1> HIDE DEF T, F
<1>3. F \in Surjection(S, T)
  BY <1>2, Fun_IsSurj
<1>4. IsFiniteSet(T)
  BY <1>1, <1>3, FS_Surjection
<1> QED BY <1>4 DEF T

\* A development that was observed says up to which boundary.
LEMMA ObservedTo ==
    ASSUME NEW n \in Nat, NEW b, NEW prefix, NEW touch, NEW exhausted, prefix \subseteq 1 .. n,
           None \notin 1 .. n, ObserveDevelopment(b, prefix, touch, exhausted).state = "OBSERVED"
    PROVE  ObserveDevelopment(b, prefix, touch, exhausted).to # None
<1> DEFINE forward == Forward(prefix, b)
           usable == Usable(forward, b)
           at == FirstTouch(usable, touch)
           to == IF usable = {} THEN None ELSE Max(usable)
<1>1. usable \subseteq forward /\ forward \subseteq 1 .. n
  BY DEF Usable, Forward
<1>2. usable # {} => to # None
  <2> HIDE DEF usable
  <2> QED BY <1>1, BoundedMax
<1> DEFINE d == ObserveDevelopment(b, prefix, touch, exhausted)
<1>3. \/ d = Development("OBSERVED", touch[at], at) /\ at # None
      \/ d = Development("OBSERVED", "NONE", to) /\ forward # {} /\ usable = forward
      \/ \E state \in {"UNAVAILABLE", "PENDING"} : \E event, x : d = Development(state, event, x)
  <2> HIDE DEF forward, usable, at, to
  <2>1. d = IF forward = {}
        THEN Development(IF exhausted THEN "UNAVAILABLE" ELSE "PENDING", "NOT_OBSERVED", None)
        ELSE IF at # None THEN Development("OBSERVED", touch[at], at)
        ELSE IF usable # forward THEN Development("UNAVAILABLE", "NONE", to)
        ELSE IF Cardinality(usable) >= Window THEN Development("OBSERVED", "NONE", to)
        ELSE Development(IF exhausted THEN "UNAVAILABLE" ELSE "PENDING", "NONE", to)
    BY DEF ObserveDevelopment, forward, usable, at, to
  <2> HIDE DEF d
  <2> QED BY <2>1
<1> HIDE DEF d, at, to
<1>4. d.state = "OBSERVED"
  BY DEF d
<1>5. d.to # None
  BY <1>2, <1>3, <1>4 DEF Development
<1> QED BY <1>5 DEF d


-----------------------------------------------------------------------------
(***************************************************************************)
(* What the functions of the task leave alone.                             *)
(***************************************************************************)
Same(s, t) ==
    /\ DOMAIN t = RunFields /\ t.pending = s.pending /\ t.evaluated = s.evaluated
    /\ t.failed = s.failed

\* t is a task, and writes no correction of a driver candle
Plain(s, t) == Same(s, t) /\ t.pc \in Tasks /\ (t.pc = "WRITE" => ~Driver(t.entry))

\* What was left alone twice was left alone.
LEMMA SamePlain ==
    ASSUME NEW s, NEW t, NEW u, Same(s, t), Plain(t, u)
    PROVE  Plain(s, u)
BY DEF Same, Plain

\* The operational entries other than a correction are no correction.
LEMMA WritingPlain ==
    ASSUME NEW s, DOMAIN s = RunFields, NEW e, DOMAIN e = EntryFields, NEW then,
           e.what # "CONFLICTING_CORRECTION"
    PROVE  Plain(s, Writing(s, e, then))
<1> DEFINE t == Writing(s, e, then)
           f == [e EXCEPT !.seq = s.seq + 1]
<1>1. Same(s, t) /\ t.entry = f /\ t.pc \in Tasks
  BY DEF Writing, Same, RunFields, Tasks
<1>2. f.what = e.what
  BY DEF EntryFields
<1> HIDE DEF t, f
<1>3. Plain(s, t)
  BY <1>1, <1>2 DEF Plain, Driver
<1> QED BY <1>3 DEF t

\* An entry has the fields of one.
LEMMA EntryPlain ==
    ASSUME NEW s, DOMAIN s = RunFields, NEW what, NEW marker, NEW at, NEW then,
           what # "CONFLICTING_CORRECTION"
    PROVE  Plain(s, Writing(s, Entry(what, marker, at), then))
<1>1. DOMAIN Entry(what, marker, at) = EntryFields /\ Entry(what, marker, at).what = what
  BY DEF Entry, EntryFields
<1> QED BY <1>1, WritingPlain

\* Going back to the queue, and publishing, write nothing.
LEMMA LoopPlain ==
    ASSUME NEW s, DOMAIN s = RunFields, NEW settled, NEW development
    PROVE  /\ Plain(s, [s EXCEPT !.pc = "LOOP"]) /\ Plain(s, Publishing(s, settled, development))
           /\ Plain(s, Closing(s))
<1>1. Plain(s, [s EXCEPT !.pc = "LOOP"])
  BY DEF Plain, Same, RunFields, Tasks
<1>2. Plain(s, Publishing(s, settled, development))
  BY DEF Plain, Same, RunFields, Publishing, Tasks
<1> QED BY <1>1, <1>2, EntryPlain DEF Closing

\* Nor does looking at what price did.
LEMMA AdvancedPlain ==
    ASSUME NEW s, DOMAIN s = RunFields, NEW prefix, NEW exhausted
    PROVE  Plain(s, Advanced(s, prefix, exhausted))
<1> DEFINE development == [b \in s.watches |->
                            ObserveDevelopment(b, prefix, session.touch, exhausted)]
           settled == {b \in s.watches : development[b].state # "PENDING"}
           next == [s EXCEPT !.watches = @ \ settled,
                             !.published = @ \cup {[at |-> b, to |-> development[b].to] :
                                    b \in {b \in settled : development[b].to # None}}]
<1>1. Same(s, next)
  BY DEF Same, RunFields
<1>2. Advanced(s, prefix, exhausted) =
        IF settled # {} THEN Publishing(next, settled, development)
        ELSE IF s.finished THEN Closing(s) ELSE [s EXCEPT !.pc = "LOOP"]
  BY DEF Advanced
<1> HIDE DEF next, settled, development
<1>3. Plain(next, Publishing(next, settled, development))
  BY <1>1, LoopPlain DEF Same
<1> QED BY <1>1, <1>2, <1>3, LoopPlain, SamePlain

\* Nor do the ways an item ends.
LEMMA AfterItemPlain ==
    ASSUME NEW s, DOMAIN s = RunFields
    PROVE  Plain(s, Finishing(s)) /\ Plain(s, AfterItem(s))
<1> DEFINE t == [s EXCEPT !.finished = TRUE, !.ended = IF @ = None THEN EndReasonFor ELSE @]
<1>1. Same(s, t)
  BY DEF Same, RunFields
<1>2. Finishing(s) = Advanced(t, FinalSeries, TRUE)
  BY DEF Finishing
<1> HIDE DEF t
<1>3. Plain(s, Finishing(s))
  BY <1>1, <1>2, AdvancedPlain, SamePlain DEF Same
<1> QED BY <1>3, LoopPlain DEF AfterItem

\* Nor does working through a correction.
LEMMA SupersedingPlain ==
    ASSUME NEW s, DOMAIN s = RunFields, NEW c
    PROVE  Plain(s, Invalidating(s, c)) /\ Plain(s, Superseding(s, c))
<1> DEFINE open == {b \in s.watches : Contests(c, b, None)}
           stood == PublishedContested(s, c)
           all == open \cup {p.at : p \in stood}
           next == [s EXCEPT !.watches = @ \ open, !.published = @ \ stood]
           affected == {b \in s.evaluated : b >= c.at}
<1>1. Same(s, next)
  BY DEF Same, RunFields
<1>2. Invalidating(s, c) = IF all = {} THEN AfterItem(next)
                           ELSE Publishing(next, all, [b \in all |-> Invalidated])
  BY DEF Invalidating
<1> HIDE DEF next, all
<1>3. Plain(s, Invalidating(s, c))
  BY <1>1, <1>2, LoopPlain, AfterItemPlain, SamePlain DEF Same
<1>4. Plain(s, Writing(s, Entry("DECISION_SUPERSEDED", c, Min(affected)), "INVALIDATE"))
  BY EntryPlain
<1> QED BY <1>3, <1>4 DEF Superseding

\* Nothing written next after an entry is a correction.
LEMMA WrittenPlain ==
    ASSUME NEW s, DOMAIN s = RunFields, NEW n,
           s.then \in {"NEXT", "EVALUATED", "CONTESTED", "INVALIDATE", "ENDED"}
    PROVE  Plain(s, Written([s EXCEPT !.entries = n]))
<1> DEFINE t == [s EXCEPT !.entries = n]
           decided == IF t.entry.marker = "UNAVAILABLE" THEN 0 ELSE 1
           u == [t EXCEPT !.decisions = @ + decided]
           w == Watched(u)
           next == Advanced(w, t.item.prefix, FALSE)
<1>1. Same(s, t) /\ t.then = s.then /\ DOMAIN t = RunFields
  BY DEF Same, RunFields
<1> HIDE DEF t
<1>2. Same(t, u)
  BY <1>1 DEF Same, RunFields
<1> HIDE DEF u
<1>3. Same(t, w)
  BY <1>2 DEF Same, RunFields, Watched
<1>4. Plain(t, next)
  <2> HIDE DEF w
  <2> QED BY <1>3, AdvancedPlain, SamePlain DEF Same
<1>5. Plain(t, AfterItem(next))
  BY <1>4, AfterItemPlain, SamePlain DEF Plain, Same
<1>6. Plain(t, [t EXCEPT !.pc = "CLOSE"])
  BY <1>1 DEF Plain, Same, RunFields, Tasks
<1>7. /\ t.then = "NEXT" => Written(t) = AfterItem(t)
      /\ t.then = "EVALUATED" => Written(t) = IF next.pc = "LOOP" THEN AfterItem(next) ELSE next
      /\ t.then = "CONTESTED" => Written(t) = Superseding(t, t.item.c)
      /\ t.then = "INVALIDATE" => Written(t) = Invalidating(t, t.item.c)
      /\ t.then = "ENDED" => Written(t) = [t EXCEPT !.pc = "CLOSE"]
  BY DEF Written, u
<1> HIDE DEF next
<1>8. Plain(t, Written(t))
  BY <1>1, <1>4, <1>5, <1>6, <1>7, AfterItemPlain, SupersedingPlain
<1> QED BY <1>1, <1>8, SamePlain DEF t

-----------------------------------------------------------------------------
(***************************************************************************)
(* What the functions of the task follow.                                  *)
(***************************************************************************)
\* t follows what s does
Alongside(s, t) ==
    /\ DOMAIN t = RunFields /\ t.watches = s.watches /\ t.published = s.published
    /\ t.evaluated = s.evaluated

\* the boundaries taken up are the session's
Timely(s) ==
    /\ session.touch \in Seq(ToSet(session.touch)) /\ None \notin DOMAIN session.touch
    /\ session.book \subseteq DOMAIN session.touch /\ s.evaluated \subseteq DOMAIN session.touch

\* What is followed does not depend on the rest of a run.
LEMMA AlongsideFollows ==
    ASSUME NEW s, NEW t, NEW log, NEW outs, NEW cover, NEW working, Alongside(s, t)
    PROVE  /\ Followed(s, outs) => Followed(t, outs)
           /\ Stands(s, outs, cover) => Stands(t, outs, cover)
           /\ Clear(s, log, working) => Clear(t, log, working)
           /\ Timely(s) => Timely(t)
<1>1. Followed(s, outs) => Followed(t, outs)
  BY DEF Alongside, Followed
<1>2. Stands(s, outs, cover) => Stands(t, outs, cover)
  BY DEF Alongside, Stands, StillPublished
<1>3. Clear(s, log, working) => Clear(t, log, working)
  BY DEF Alongside, Clear
<1> QED BY <1>1, <1>2, <1>3 DEF Alongside, Timely

\* A settled task may go back to its queue, or close its row.
LEMMA LoopFollows ==
    ASSUME NEW s, DOMAIN s = RunFields, NEW log, NEW outs, Settled(s, log, outs),
           NEW pc \in {"LOOP", "CLOSE"}
    PROVE  Following([s EXCEPT !.pc = pc], log, outs)
<1> DEFINE t == [s EXCEPT !.pc = pc]
<1>1. Alongside(s, t) /\ t.pc = pc
  BY DEF Alongside, RunFields
<1> HIDE DEF t
<1>2. Settled(t, log, outs)
  BY <1>1, AlongsideFollows DEF Settled
<1>3. Following(t, log, outs)
  BY <1>1, <1>2 DEF Following
<1> QED BY <1>3 DEF t

\* A settled task may write what is neither a decision nor a correction.
LEMMA WritingFollows ==
    ASSUME NEW s, DOMAIN s = RunFields, NEW log, NEW outs, Settled(s, log, outs),
           NEW what, what # "CONFLICTING_CORRECTION", NEW marker, NEW at,
           NEW then \in {"NEXT", "ENDED"}
    PROVE  Following(Writing(s, Entry(what, marker, at), then), log, outs)
<1> DEFINE t == Writing(s, Entry(what, marker, at), then)
<1>1. Alongside(s, t) /\ t.pc = "WRITE" /\ t.then = then
  BY DEF Alongside, RunFields, Writing
<1>2. ~Driver(t.entry)
  BY <1>1, EntryPlain DEF Plain
<1> HIDE DEF t
<1>3. Settled(t, log, outs)
  BY <1>1, AlongsideFollows DEF Settled
<1>4. Following(t, log, outs)
  BY <1>1, <1>2, <1>3 DEF Following, Settled
<1> QED BY <1>4 DEF t

\* What is observed is never invalidated.
LEMMA ObservedState ==
    ASSUME NEW b, NEW prefix, NEW touch, NEW exhausted
    PROVE  ObserveDevelopment(b, prefix, touch, exhausted).state \in
             {"UNAVAILABLE", "PENDING", "OBSERVED"}
<1> DEFINE forward == Forward(prefix, b)
           usable == Usable(forward, b)
           at == FirstTouch(usable, touch)
           to == IF usable = {} THEN None ELSE Max(usable)
           d == ObserveDevelopment(b, prefix, touch, exhausted)
           full == Cardinality(usable) >= Window
<1>1. d = IF forward = {}
        THEN Development(IF exhausted THEN "UNAVAILABLE" ELSE "PENDING", "NOT_OBSERVED", None)
        ELSE IF at # None THEN Development("OBSERVED", touch[at], at)
        ELSE IF usable # forward THEN Development("UNAVAILABLE", "NONE", to)
        ELSE IF full THEN Development("OBSERVED", "NONE", to)
        ELSE Development(IF exhausted THEN "UNAVAILABLE" ELSE "PENDING", "NONE", to)
  BY DEF ObserveDevelopment
<1> HIDE DEF d, forward, usable, at, to, full
<1>2. \E state \in {"UNAVAILABLE", "PENDING", "OBSERVED"} : \E event, x :
        d = Development(state, event, x)
  BY <1>1
<1>3. d.state \in {"UNAVAILABLE", "PENDING", "OBSERVED"}
  BY <1>2 DEF Development
<1> QED BY <1>3 DEF d

\* _advance_watches: what is settled is published, and no longer open.
LEMMA AdvancedFollows ==
    ASSUME NEW s, DOMAIN s = RunFields, NEW log, NEW outs, Settled(s, log, outs), Timely(s),
           NEW prefix, prefix \subseteq DOMAIN session.touch, NEW exhausted
    PROVE  Following(Advanced(s, prefix, exhausted), log, outs)
<1> DEFINE development == [b \in s.watches |->
                            ObserveDevelopment(b, prefix, session.touch, exhausted)]
           settled == {b \in s.watches : development[b].state # "PENDING"}
           told == {[at |-> b, to |-> development[b].to] :
                                    b \in {b \in settled : development[b].to # None}}
           next == [s EXCEPT !.watches = @ \ settled, !.published = @ \cup told]
           t == Publishing(next, settled, development)
           records == {[at |-> b, development |-> development[b]] : b \in settled}
<1>1. Advanced(s, prefix, exhausted) =
        IF settled # {} THEN t
        ELSE IF s.finished THEN Closing(s) ELSE [s EXCEPT !.pc = "LOOP"]
  BY DEF Advanced
<1>2. Following(Closing(s), log, outs) /\ Following([s EXCEPT !.pc = "LOOP"], log, outs)
  BY LoopFollows, WritingFollows DEF Closing
<1>3. /\ t.pc = "PUBLISH" /\ t.watches = s.watches \ settled
      /\ t.published = s.published \cup told /\ t.evaluated = s.evaluated
      /\ t.records = records
  BY DEF Publishing, RunFields
<1>4. PICK n \in Nat : DOMAIN session.touch = 1 .. n
  BY SeqFacts DEF Timely
<1>5. Followed(s, outs) /\ Stands(s, outs, {}) /\ Clear(s, log, {})
  BY DEF Settled
<1>6. s.watches \subseteq 1 .. n /\ prefix \subseteq 1 .. n /\ None \notin 1 .. n
  BY <1>4, <1>5 DEF Followed, Timely
<1>7. settled \subseteq s.watches
  OBVIOUS
<1>8. ASSUME NEW b \in settled
      PROVE  /\ development[b].state \in {"UNAVAILABLE", "OBSERVED"}
             /\ development[b].state = "OBSERVED" => development[b].to # None
  <2>1. development[b] = ObserveDevelopment(b, prefix, session.touch, exhausted)
          /\ development[b].state # "PENDING"
    OBVIOUS
  <2> HIDE DEF development, settled
  <2> QED BY <2>1, <1>6, ObservedState, ObservedTo
<1>9. IsFiniteSet(records)
  <2> HIDE DEF development, settled
  <2> QED BY <1>6, <1>7, ImageFinite
<1>10. /\ \A p \in told : p.at \in settled
       /\ \A p, q \in told : p.at = q.at => p = q
       /\ \A b \in settled :
            development[b].to # None => [at |-> b, to |-> development[b].to] \in told
  <2> HIDE DEF development, settled
  <2>1. \A p \in told : p.at \in settled /\ p = [at |-> p.at, to |-> development[p.at].to]
    OBVIOUS
  <2>2. \A b \in settled : development[b].to # None => [at |-> b, to |-> development[b].to] \in told
    OBVIOUS
  <2> HIDE DEF told
  <2>3. ASSUME NEW p \in told, NEW q \in told, p.at = q.at PROVE p = q
    BY <2>1, <2>3
  <2> QED BY <2>1, <2>2, <2>3
<1>11. /\ \A x \in records : x.at \in settled /\ x.development = development[x.at]
       /\ \A x, y \in records : x.at = y.at => x = y
  <2> HIDE DEF development, settled
  <2>1. \A x \in records : /\ x.at \in settled /\ x.development = development[x.at]
                           /\ x = [at |-> x.at, development |-> development[x.at]]
    OBVIOUS
  <2> HIDE DEF records
  <2>2. ASSUME NEW x \in records, NEW y \in records, x.at = y.at PROVE x = y
    BY <2>1, <2>2
  <2> QED BY <2>1, <2>2
<1>12. settled # {} => Following(t, log, outs)
  <2> HIDE DEF t, next, told, records, settled, development
  <2>1. Followed(t, outs)
    BY <1>3, <1>5, <1>7, <1>10 DEF Followed
  <2>2. Clear(t, log, {})
    <3>1. ASSUME NEW i \in DOMAIN log, Driver(log[i])
          PROVE  \A b \in s.watches : \A to : ~Contests(log[i].marker, b, to)
      <4>1. \A b \in s.watches : ~Contests(log[i].marker, b, None)
        BY <1>5, <3>1 DEF Clear
      <4> QED BY <3>1, <4>1 DEF Driver, Contests
    <3> QED BY <1>3, <1>5, <1>7, <1>10, <3>1 DEF Clear
  <2>3. RecordsOk(t, outs)
    <3>1. ASSUME NEW x \in t.records
          PROVE  /\ x.at \in t.evaluated \ t.watches /\ x \notin ToSet(outs)
                 /\ x.development.state = "OBSERVED" =>
                      StillPublished(t, x) /\ \A i \in DOMAIN outs : outs[i].at # x.at
                 /\ x.development.state # "INVALIDATED"
      <4>1. x.at \in settled /\ x.development = development[x.at]
        BY <1>3, <1>11, <3>1
      <4>2. \A i \in DOMAIN outs : outs[i].at # x.at
        BY <1>5, <1>7, <4>1 DEF Followed
      <4>3. x \notin ToSet(outs)
        BY <4>2 DEF ToSet
      <4>4. x.development.state = "OBSERVED" => StillPublished(t, x)
        <5>1. CASE x.development.state = "OBSERVED"
          <6>1. development[x.at].to # None
            BY <1>8, <4>1, <5>1
          <6>2. [at |-> x.at, to |-> x.development.to] \in t.published
            BY <1>3, <1>10, <4>1, <6>1
          <6> QED BY <6>2 DEF StillPublished
        <5> QED BY <5>1
      <4>5. x.at \in t.evaluated \ t.watches
        BY <1>3, <1>5, <1>7, <4>1 DEF Followed
      <4> QED BY <1>8, <4>1, <4>2, <4>3, <4>4, <4>5
    <3> QED BY <1>3, <1>9, <1>11, <3>1 DEF RecordsOk
  <2>4. Stands(t, outs, {x.at : x \in t.records})
    BY <1>3, <1>5 DEF Stands, StillPublished
  <2> QED BY <1>3, <2>1, <2>2, <2>3, <2>4 DEF Following
<1> HIDE DEF t, settled
<1> QED BY <1>1, <1>2, <1>12

\* _finish, and the way an item ends.
LEMMA AfterItemFollows ==
    ASSUME NEW s, DOMAIN s = RunFields, NEW log, NEW outs, Settled(s, log, outs), Timely(s)
    PROVE  Following(Finishing(s), log, outs) /\ Following(AfterItem(s), log, outs)
<1> DEFINE t == [s EXCEPT !.finished = TRUE, !.ended = IF @ = None THEN EndReasonFor ELSE @]
<1>1. Alongside(s, t)
  BY DEF Alongside, RunFields
<1>2. Finishing(s) = Advanced(t, FinalSeries, TRUE)
  BY DEF Finishing
<1> HIDE DEF t
<1>3. DOMAIN t = RunFields /\ Settled(t, log, outs) /\ Timely(t)
  BY <1>1, AlongsideFollows DEF Settled, Alongside
<1>4. Following(Finishing(s), log, outs)
  BY <1>2, <1>3, AdvancedFollows DEF FinalSeries, Timely
<1> QED BY <1>4, LoopFollows DEF AfterItem

\* _invalidate: nothing the correction contests is followed any more.
LEMMA InvalidatingFollows ==
    ASSUME NEW s, DOMAIN s = RunFields, NEW log, NEW outs, NEW c, Timely(s),
           Followed(s, outs), Stands(s, outs, {}), Clear(s, log, {c})
    PROVE  Following(Invalidating(s, c), log, outs)
<1> DEFINE open == {b \in s.watches : Contests(c, b, None)}
           stood == PublishedContested(s, c)
           all == open \cup {p.at : p \in stood}
           next == [s EXCEPT !.watches = @ \ open, !.published = @ \ stood]
           told == [b \in all |-> Invalidated]
           t == Publishing(next, all, told)
           records == {[at |-> b, development |-> told[b]] : b \in all}
<1>1. Invalidating(s, c) = IF all = {} THEN AfterItem(next) ELSE t
  BY DEF Invalidating
<1>2. /\ DOMAIN next = RunFields /\ next.watches = s.watches \ open
      /\ next.published = s.published \ stood /\ next.evaluated = s.evaluated
  BY DEF RunFields
<1>3. /\ t.pc = "PUBLISH" /\ Alongside(next, t) /\ t.records = records
  BY DEF Publishing, RunFields, Alongside
<1>4. /\ stood \subseteq s.published /\ \A p \in s.published \ stood : ~Contests(c, p.at, p.to)
      /\ \A b \in s.watches \ open : ~Contests(c, b, None)
  BY DEF PublishedContested
<1>5. PICK n \in Nat : DOMAIN session.touch = 1 .. n
  BY SeqFacts DEF Timely
<1>6. all \subseteq s.evaluated /\ all \subseteq 1 .. n
  BY <1>4, <1>5 DEF Followed, Timely
<1>7. IsFiniteSet(records)
  <2> HIDE DEF told, all
  <2> QED BY <1>6, ImageFinite
<1>8. /\ \A x \in records : x.at \in all /\ x = [at |-> x.at, development |-> Invalidated]
      /\ \A b \in all : \E x \in records : x.at = b
  <2> HIDE DEF all
  <2>1. \A b \in all : told[b] = Invalidated
    OBVIOUS
  <2> HIDE DEF told
  <2>2. \A b \in all : [at |-> b, development |-> told[b]] \in records
    OBVIOUS
  <2>3. ASSUME NEW x \in records
        PROVE  x.at \in all /\ x = [at |-> x.at, development |-> told[x.at]]
    OBVIOUS
  <2> HIDE DEF records
  <2>4. ASSUME NEW b \in all PROVE \E x \in records : x.at = b
    BY <2>2
  <2> QED BY <2>1, <2>3, <2>4
<1> HIDE DEF next, t, records, told
<1>9. \A o \in all : (\A p \in s.published \ stood : p.at # o) /\ o \notin s.watches \ open
  <2> HIDE DEF stood
  <2> QED BY <1>4 DEF Followed
<1> HIDE DEF stood, open, all
<1>10. Followed(next, outs)
  BY <1>2 DEF Followed
<1>11. Clear(next, log, {})
  BY <1>2, <1>4 DEF Clear
<1>12. Timely(next)
  BY <1>2 DEF Timely
<1>13. Stands(next, outs, all)
  BY <1>2 DEF Stands, StillPublished, all
<1>14. CASE all = {}
  <2>1. Settled(next, log, outs)
    BY <1>10, <1>11, <1>13, <1>14 DEF Settled
  <2> QED BY <1>1, <1>2, <1>12, <1>14, <2>1, AfterItemFollows
<1>15. CASE all # {}
  <2>1. Followed(t, outs) /\ Clear(t, log, {}) /\ Stands(t, outs, all)
    BY <1>3, <1>10, <1>11, <1>13, AlongsideFollows
  <2>2. RecordsOk(t, outs)
    <3>1. /\ t.watches = s.watches \ open /\ t.published = s.published \ stood
          /\ t.evaluated = s.evaluated
      BY <1>2, <1>3 DEF Alongside
    <3>2. \A x, y \in records : x.at = y.at => x = y
      BY <1>8
    <3>3. ASSUME NEW x \in records
          PROVE  /\ x.at \in t.evaluated \ t.watches
                 /\ x.development.state # "OBSERVED" /\ \A p \in t.published : p.at # x.at
      <4>1. x.at \in all /\ x = [at |-> x.at, development |-> Invalidated]
        BY <1>8
      <4>2. x.development = Invalidated
        BY <4>1
      <4>3. x.development.state # "OBSERVED"
        BY <4>2 DEF Invalidated, Development
      <4> QED BY <1>6, <1>9, <3>1, <4>1, <4>3
    <3>4. ASSUME NEW x \in records PROVE x \notin ToSet(outs)
      <4> SUFFICES ASSUME NEW i \in DOMAIN outs, outs[i] = x PROVE FALSE
        BY DEF ToSet
      <4>1. x.at \in all /\ x = [at |-> x.at, development |-> Invalidated]
        BY <1>8
      <4>2. x.development.state = "INVALIDATED"
        BY <4>1 DEF Invalidated, Development
      <4>3. x.at \notin s.watches /\ \A p \in s.published : p.at # x.at
        BY <4>2 DEF Followed
      <4> QED BY <1>4, <4>1, <4>3 DEF all, open
    <3> QED BY <1>3, <1>7, <3>2, <3>3, <3>4 DEF RecordsOk
  <2>3. Stands(t, outs, {x.at : x \in t.records})
    BY <1>3, <1>8, <2>1 DEF Stands
  <2>4. Following(t, log, outs)
    BY <1>3, <2>1, <2>2, <2>3 DEF Following
  <2> QED BY <1>1, <1>15, <2>4
<1> QED BY <1>14, <1>15

\* _supersede: the correction is worked through after the entry that names a decision.
LEMMA SupersedingFollows ==
    ASSUME NEW s, DOMAIN s = RunFields, NEW log, NEW outs, NEW c, Timely(s), s.item.c = c,
           Followed(s, outs), Stands(s, outs, {}), Clear(s, log, {c})
    PROVE  Following(Superseding(s, c), log, outs)
<1> DEFINE affected == {b \in s.evaluated : b >= c.at}
           t == Writing(s, Entry("DECISION_SUPERSEDED", c, Min(affected)), "INVALIDATE")
<1>1. /\ Alongside(s, t) /\ t.pc = "WRITE" /\ t.then = "INVALIDATE" /\ t.item = s.item
  BY DEF Alongside, RunFields, Writing
<1>2. ~Driver(t.entry)
  BY <1>1, EntryPlain DEF Plain
<1>3. Superseding(s, c) = IF affected = {} THEN Invalidating(s, c) ELSE t
  BY DEF Superseding
<1> HIDE DEF t
<1>4. Followed(t, outs) /\ Stands(t, outs, {}) /\ Clear(t, log, {t.item.c})
  BY <1>1, AlongsideFollows
<1>5. Following(t, log, outs)
  BY <1>1, <1>2, <1>4 DEF Following
<1> QED BY <1>3, <1>5, InvalidatingFollows

\* Published outcomes are the newest of their decisions.
LEMMA PublishedFollows ==
    ASSUME NEW s, NEW log, NEW outs, Followed(s, outs), RecordsOk(s, outs),
           Stands(s, outs, {x.at : x \in s.records})
    PROVE  LET new == AppendedAll(outs, s.records)
           IN  Followed(s, new) /\ Stands(s, new, {})
<1> DEFINE q == SetToSeq(s.records)
           new == AppendedAll(outs, s.records)
<1>1. s.records \ ToSet(outs) = s.records
  BY DEF RecordsOk
<1>2. new = outs \o q
  BY <1>1 DEF AppendedAll
<1>3. /\ q \in Seq(s.records) /\ DOMAIN q = 1 .. Len(q)
      /\ \A x \in s.records : \E i \in DOMAIN q : q[i] = x
      /\ \A i \in DOMAIN q : q[i] \in s.records
  BY SetToSeqFacts DEF RecordsOk
<1> HIDE DEF q, new
<1>4. outs \in Seq(ToSet(outs)) /\ Len(outs) \in Nat /\ DOMAIN outs = 1 .. Len(outs)
  BY SeqFacts DEF Followed
<1>5. Len(q) \in Nat
  BY <1>3
<1>6. /\ new \in Seq(ToSet(outs) \cup s.records) /\ Len(new) = Len(outs) + Len(q)
      /\ \A i \in 1 .. Len(outs) : new[i] = outs[i]
      /\ \A i \in 1 .. Len(q) : new[Len(outs) + i] = q[i]
  <2>1. outs \in Seq(ToSet(outs) \cup s.records) /\ q \in Seq(ToSet(outs) \cup s.records)
    BY <1>3, <1>4
  <2> QED BY <1>2, <2>1
<1>7. DOMAIN new = 1 .. (Len(outs) + Len(q)) /\ new \in Seq(ToSet(new))
  BY <1>6, SeqFacts
<1>8. ASSUME NEW i \in DOMAIN new
      PROVE  \/ i \in DOMAIN outs /\ new[i] = outs[i]
             \/ i > Len(outs) /\ new[i] \in s.records
  <2>1. CASE i <= Len(outs)
    BY <1>4, <1>6, <1>7, <2>1
  <2>2. CASE i > Len(outs)
    <3>1. i - Len(outs) \in 1 .. Len(q) /\ Len(outs) + (i - Len(outs)) = i
      BY <1>4, <1>5, <1>7, <2>2
    <3> QED BY <1>3, <1>6, <2>2, <3>1
  <2> QED BY <1>4, <1>7, <2>1, <2>2
<1>9. Followed(s, new)
  BY <1>7, <1>8 DEF Followed, RecordsOk
<1>10. ASSUME NEW j \in Latest(new), new[j].development.state = "OBSERVED"
       PROVE  StillPublished(s, new[j])
  <2>1. j \in DOMAIN new /\ \A i \in DOMAIN new : new[i].at = new[j].at => i <= j
    BY DEF Latest
  <2>2. CASE j > Len(outs) /\ new[j] \in s.records
    BY <1>10, <2>2 DEF RecordsOk
  <2>3. CASE j \in DOMAIN outs /\ new[j] = outs[j]
    <3>1. j \in Latest(outs)
      <4>1. \A i \in DOMAIN outs : i \in DOMAIN new /\ new[i] = outs[i]
        BY <1>4, <1>5, <1>6, <1>7
      <4> QED BY <2>1, <2>3, <4>1 DEF Latest
    <3>2. ASSUME NEW x \in s.records PROVE x.at # outs[j].at
      <4>1. PICK i \in DOMAIN q : q[i] = x
        BY <1>3
      <4>2. Len(outs) + i \in DOMAIN new /\ new[Len(outs) + i] = x /\ Len(outs) + i > j
        BY <1>3, <1>4, <1>5, <1>6, <1>7, <2>3, <4>1
      <4>3. Len(outs) + i <= j \/ x.at # new[j].at
        BY <2>1, <4>2
      <4>4. j \in Nat
        BY <1>4, <2>3
      <4> QED BY <1>3, <1>4, <2>3, <4>2, <4>3, <4>4
    <3>3. outs[j].at \notin {x.at : x \in s.records}
      BY <3>2
    <3> QED BY <1>10, <2>3, <3>1, <3>3 DEF Stands
  <2> QED BY <1>8, <2>1, <2>2, <2>3
<1>11. Stands(s, new, {})
  BY <1>10 DEF Stands
<1> QED BY <1>9, <1>11 DEF new

\* What a committed entry of a task may say.
LEMMA CommittedClear ==
    ASSUME NEW s, NEW t, NEW log, NEW e, NEW working, Journal(log), DOMAIN e = EntryFields,
           e.seq \in Nat, \A i \in DOMAIN log : log[i].seq < e.seq, Alongside(s, t),
           Driver(e) => e.marker \in working
    PROVE  /\ Clear(s, log, working) => Clear(t, Appended(log, e), working)
           /\ (~Driver(e) /\ \A i \in DOMAIN log : ~Driver(log[i])) =>
                \A i \in DOMAIN Appended(log, e) : ~Driver(Appended(log, e)[i])
<1> DEFINE new == Appended(log, e)
<1>1. \A i \in DOMAIN new : \/ i \in DOMAIN log /\ new[i] = log[i]
                            \/ i = Len(log) + 1 /\ new[i] = e
  BY AppendedFacts
<1> HIDE DEF new
<1>2. Clear(s, log, working) => Clear(t, new, working)
  BY <1>1 DEF Clear, Alongside
<1>3. (~Driver(e) /\ \A i \in DOMAIN log : ~Driver(log[i])) =>
        \A i \in DOMAIN new : ~Driver(new[i])
  BY <1>1
<1> QED BY <1>2, <1>3 DEF new

\* Where the task goes once its entry is committed: a correction is worked through, and a
\* decision followed only if there is none.
LEMMA WrittenFollows ==
    ASSUME NEW s, NEW log, NEW outs, NEW n, Goes(s, log), s.pc = "WRITE", Journal(log),
           Following(s, log, outs), Timely(s), SeenOk(session)
    PROVE  Following(Written([s EXCEPT !.entries = n]), Appended(log, s.entry), outs)
<1> DEFINE new == Appended(log, s.entry)
           t == [s EXCEPT !.entries = n]
           decided == IF t.entry.marker = "UNAVAILABLE" THEN 0 ELSE 1
           u == [t EXCEPT !.decisions = @ + decided]
           w == Watched(u)
           next == Advanced(w, t.item.prefix, FALSE)
<1>1. /\ Fits(s, log, session, s.entry, s.then) /\ DOMAIN s = RunFields
      /\ s.entry.seq = s.seq /\ s.seq \in Nat /\ \A i \in DOMAIN log : log[i].seq < s.seq
  BY DEF Goes, TaskOk, Open, Counts, Tasks, Base
<1>2. /\ Followed(s, outs) /\ Stands(s, outs, {})
      /\ Clear(s, log, IF s.then = "INVALIDATE" THEN {s.item.c} ELSE {})
      /\ Driver(s.entry) => s.then = "CONTESTED" /\ s.entry.marker = s.item.c
      /\ s.then = "EVALUATED" =>
            /\ Untouched(s, outs, s.entry.at) /\ s.item.prefix = s.entry.bars
            /\ s.entry.marker # "UNAVAILABLE" => \A i \in DOMAIN log : ~Driver(log[i])
  BY DEF Following
<1>3. /\ Alongside(s, t) /\ t.then = s.then /\ t.item = s.item /\ t.entry = s.entry
      /\ DOMAIN t = RunFields
  BY <1>1 DEF Alongside, RunFields
<1>4. /\ Followed(t, outs) /\ Stands(t, outs, {}) /\ Timely(t)
  BY <1>2, <1>3, AlongsideFollows
<1>5. /\ DOMAIN s.entry = EntryFields
      /\ s.then \in {"NEXT", "EVALUATED", "CONTESTED", "INVALIDATE", "ENDED"}
  BY <1>1 DEF Fits
<1>6. /\ t.then = "NEXT" => Written(t) = AfterItem(t)
      /\ t.then = "EVALUATED" => Written(t) = IF next.pc = "LOOP" THEN AfterItem(next) ELSE next
      /\ t.then = "CONTESTED" => Written(t) = Superseding(t, t.item.c)
      /\ t.then = "INVALIDATE" => Written(t) = Invalidating(t, t.item.c)
      /\ t.then = "ENDED" => Written(t) = [t EXCEPT !.pc = "CLOSE"]
  BY DEF Written, u
<1> HIDE DEF t, new
<1>7. CASE s.then \in {"NEXT", "ENDED"}
  <2>1. Clear(s, log, {}) /\ ~Driver(s.entry)
    BY <1>2, <1>7
  <2>2. Clear(t, new, {})
    BY <1>1, <1>3, <1>5, <2>1, CommittedClear DEF new
  <2>3. Settled(t, new, outs)
    BY <1>4, <2>2 DEF Settled
  <2>4. Following(AfterItem(t), new, outs) /\ Following([t EXCEPT !.pc = "CLOSE"], new, outs)
    BY <1>3, <1>4, <2>3, AfterItemFollows, LoopFollows
  <2> QED BY <1>3, <1>6, <1>7, <2>4 DEF t, new
<1>8. CASE s.then = "CONTESTED"
  <2>1. Clear(s, log, {s.item.c})
    BY <1>2, <1>8 DEF Clear
  <2>2. Driver(s.entry) => s.entry.marker \in {s.item.c}
    BY <1>2
  <2>3. Clear(t, new, {t.item.c})
    <3>1. Clear(t, new, {s.item.c})
      BY <1>1, <1>3, <1>5, <2>1, <2>2, CommittedClear DEF new
    <3> QED BY <1>3, <3>1
  <2>4. Following(Superseding(t, t.item.c), new, outs)
    BY <1>3, <1>4, <2>3, SupersedingFollows
  <2> QED BY <1>3, <1>6, <1>8, <2>4 DEF t, new
<1>9. CASE s.then = "INVALIDATE"
  <2>1. Clear(s, log, {s.item.c}) /\ ~Driver(s.entry)
    BY <1>2, <1>9
  <2>2. Clear(t, new, {t.item.c})
    <3>1. Clear(t, new, {s.item.c})
      BY <1>1, <1>3, <1>5, <2>1, CommittedClear DEF new
    <3> QED BY <1>3, <3>1
  <2>3. Following(Invalidating(t, t.item.c), new, outs)
    BY <1>3, <1>4, <2>2, InvalidatingFollows
  <2> QED BY <1>3, <1>6, <1>9, <2>3 DEF t, new
<1>10. CASE s.then = "EVALUATED"
  <2>1. Clear(s, log, {}) /\ ~Driver(s.entry)
    BY <1>2, <1>10
  <2>2. Clear(t, new, {})
    BY <1>1, <1>3, <1>5, <2>1, CommittedClear DEF new
  <2>3. s.entry.marker # "UNAVAILABLE" => \A i \in DOMAIN new : ~Driver(new[i])
    BY <1>1, <1>2, <1>3, <1>5, <1>10, <2>1, CommittedClear DEF new
  <2>4. Alongside(t, u) /\ u.entry = s.entry
    BY <1>3 DEF Alongside, RunFields
  <2> HIDE DEF u
  <2>5. /\ DOMAIN w = RunFields /\ w.published = t.published /\ w.evaluated = t.evaluated
        /\ \/ w.watches = t.watches
           \/ w.watches = t.watches \cup {s.entry.at} /\ s.entry.marker = "ENTRY_INTENT"
    BY <2>4 DEF Watched, Alongside, RunFields
  <2> HIDE DEF w
  <2>6. ASSUME w.watches = t.watches PROVE Settled(w, new, outs)
    <3>1. Alongside(t, w)
      BY <2>5, <2>6 DEF Alongside
    <3> QED BY <1>4, <2>2, <2>5, <3>1, AlongsideFollows, <1>3 DEF Settled
  <2>7. ASSUME w.watches = t.watches \cup {s.entry.at}, s.entry.marker = "ENTRY_INTENT"
        PROVE  Settled(w, new, outs)
    <3>1. \A i \in DOMAIN new : ~Driver(new[i])
      BY <2>3, <2>7
    <3>2. Clear(w, new, {})
      BY <3>1 DEF Clear
    <3>3. Untouched(t, outs, s.entry.at)
      BY <1>2, <1>3, <1>10 DEF Untouched, Alongside
    <3>4. s.entry.at \in t.evaluated
      BY <1>1, <1>3, <1>10 DEF Fits, Alongside
    <3>5. Followed(w, outs)
      BY <1>4, <2>5, <2>7, <3>3, <3>4 DEF Followed, Untouched
    <3>6. Stands(w, outs, {})
      BY <1>4, <2>5 DEF Stands, StillPublished
    <3> QED BY <3>2, <3>5, <3>6 DEF Settled
  <2>8. Settled(w, new, outs) /\ Timely(w) /\ DOMAIN w = RunFields
    <3>1. Timely(w)
      BY <1>4, <2>5 DEF Timely
    <3> QED BY <2>5, <2>6, <2>7, <3>1
  <2>9. t.item.prefix \subseteq DOMAIN session.touch
    BY <1>1, <1>2, <1>3, <1>10 DEF Fits, Known, Past, SeenOk
  <2>10. Following(next, new, outs)
    BY <2>8, <2>9, AdvancedFollows
  <2>11. next.pc = "LOOP" => Settled(next, new, outs)
    BY <2>10 DEF Following
  <2>12. DOMAIN next = RunFields /\ next.evaluated = w.evaluated
    <3>1. Plain(w, next)
      BY <2>8, AdvancedPlain
    <3> QED BY <3>1 DEF Plain, Same
  <2> HIDE DEF next
  <2>13. Timely(next)
    BY <2>8, <2>12 DEF Timely
  <2>14. next.pc = "LOOP" => Following(AfterItem(next), new, outs)
    BY <2>11, <2>12, <2>13, AfterItemFollows
  <2> QED BY <1>3, <1>6, <1>10, <2>10, <2>14 DEF t, new
<1> QED BY <1>5, <1>7, <1>8, <1>9, <1>10

\* _on_record writes a correction of a driver candle for no other record.
LEMMA RecordedPlain ==
    ASSUME NEW s, DOMAIN s = RunFields, NEW item
    PROVE  /\ Same(s, Recorded(s, item)) /\ Recorded(s, item).pc \in Tasks
           /\ Recorded(s, item).pc = "WRITE" /\ Driver(Recorded(s, item).entry) =>
                DriverItem(item)
<1> DEFINE t == [s EXCEPT !.item = item]
           e == Entry("CONFLICTING_CORRECTION", item.c, item.k)
           u == Writing(t, e, "CONTESTED")
           x == Recorded(s, item)
<1>1. Same(s, u) /\ u.entry.marker = item.c /\ u.pc \in Tasks
  BY DEF Same, RunFields, Writing, Entry, Tasks
<1>2. \/ x = u /\ item.kind = "CONFLICT"
      \/ x = Writing(s, Entry("LATE_FILL", None, item.k), "NEXT")
      \/ x = Writing(s, Entry("PROVIDER", item.k, None), "NEXT")
      \/ x = Writing(s, Entry("OBSERVATION_REFUSED", None, None), "NEXT")
      \/ x = AfterItem(s)
  BY DEF Recorded
<1> HIDE DEF u, x
<1>3. Plain(s, x) \/ (x = u /\ item.kind = "CONFLICT")
  BY <1>2, EntryPlain, AfterItemPlain
<1>4. /\ Same(s, x) /\ x.pc \in Tasks
      /\ x.pc = "WRITE" /\ Driver(x.entry) => DriverItem(item)
  BY <1>1, <1>3 DEF Plain, Driver, DriverItem
<1> QED BY <1>4 DEF x

\* _on_record, on a settled task.
LEMMA RecordedFollows ==
    ASSUME NEW s, DOMAIN s = RunFields, NEW log, NEW outs, Settled(s, log, outs), Timely(s),
           NEW item
    PROVE  Following(Recorded(s, item), log, outs)
<1> DEFINE t == [s EXCEPT !.item = item]
           e == Entry("CONFLICTING_CORRECTION", item.c, item.k)
           u == Writing(t, e, "CONTESTED")
           x == Recorded(s, item)
<1>1. /\ Alongside(s, u) /\ u.pc = "WRITE" /\ u.then = "CONTESTED"
      /\ u.item = item /\ u.entry.marker = item.c
  BY DEF Alongside, RunFields, Writing, Entry
<1>2. \/ x = u
      \/ x = Writing(s, Entry("LATE_FILL", None, item.k), "NEXT")
      \/ x = Writing(s, Entry("PROVIDER", item.k, None), "NEXT")
      \/ x = Writing(s, Entry("OBSERVATION_REFUSED", None, None), "NEXT")
      \/ x = AfterItem(s)
  BY DEF Recorded
<1> HIDE DEF u, x
<1>3. Settled(u, log, outs)
  BY <1>1, AlongsideFollows DEF Settled
<1>4. Following(u, log, outs)
  BY <1>1, <1>3 DEF Following, Settled
<1>5. Following(x, log, outs)
  BY <1>2, <1>4, WritingFollows, AfterItemFollows
<1> QED BY <1>5 DEF x

-----------------------------------------------------------------------------
(***************************************************************************)
(* A step of one run.                                                      *)
(***************************************************************************)
\* only what is kept of the run r changes
OneRun(r) ==
    /\ DOMAIN outcomes' = Runs /\ UNCHANGED session
    /\ \A q \in Runs \ {r} :
        run'[q] = run[q] /\ journal'[q] = journal[q] /\ outcomes'[q] = outcomes[q]

\* What is kept of one run says whether the step was right.
LEMMA OneRunFollows ==
    ASSUME FInv, NEW r \in Runs, OneRun(r),
           FollowOk(run'[r], journal'[r], outcomes'[r], session)
    PROVE  FInv'
BY DEF FInv, OneRun, SeenOk

\* What the invariants say of a run.
LEMMA FollowFacts ==
    ASSUME IInv, FInv, NEW r \in Runs
    PROVE  /\ FollowOk(run[r], journal[r], outcomes[r], session) /\ SeenOk(session)
           /\ DOMAIN run[r] = RunFields /\ Timely(run[r]) /\ DOMAIN outcomes = Runs
<1>1. Base(run[r], session) /\ SessionOk(session)
  BY RunFacts
<1>2. Timely(run[r])
  BY <1>1 DEF Base, Past, SessionOk, Timely
<1> QED BY <1>1, <1>2 DEF FInv, Base

\* Captures are available only ahead of the corrections, as before.
LEMMA WarnedStays ==
    ASSUME NEW s, NEW t, NEW log, NEW new, NEW ses, Warned(s, log, ses),
           t.pending = s.pending, Unwarned(s, log) => Unwarned(t, new)
    PROVE  Warned(t, new, ses)
BY DEF Warned

\* The same once the first of the queue is taken.
LEMMA WarnedTail ==
    ASSUME NEW s, NEW t, NEW log, NEW ses, Warned(s, log, ses),
           s.pending \in Seq(ToSet(s.pending)), s.pending # <<>>, t.pending = Tail(s.pending),
           Unwarned(s, log) /\ ~DriverItem(Head(s.pending)) => Unwarned(t, log)
    PROVE  Warned(t, log, ses)
<1> DEFINE p == s.pending
           q == Tail(p)
<1>1. /\ Len(p) \in Nat \ {0} /\ DOMAIN q = 1 .. (Len(p) - 1) /\ DOMAIN p = 1 .. Len(p)
      /\ \A i \in 1 .. (Len(p) - 1) : q[i] = p[i + 1]
      /\ Head(p) = p[1] /\ 1 \in DOMAIN p
  BY TailFacts, SeqFacts
<1> HIDE DEF q
<1>2. \A i \in DOMAIN q : i + 1 \in DOMAIN p /\ q[i] = p[i + 1] /\ 1 < i + 1
  BY <1>1
<1>3. \A i, j \in DOMAIN q : i < j => i + 1 < j + 1
  BY <1>1
<1>4. ASSUME NEW j \in DOMAIN q, q[j].kind = "CAPTURE", q[j].available
      PROVE  (\A i \in DOMAIN q : i < j => ~DriverItem(q[i])) /\ Unwarned(t, log)
  <2>1. (\A i \in DOMAIN p : i < j + 1 => ~DriverItem(p[i])) /\ Unwarned(s, log)
    BY <1>2, <1>4 DEF Warned
  <2>2. ~DriverItem(Head(p))
    BY <1>1, <1>2, <2>1
  <2> QED BY <1>2, <1>3, <2>1, <2>2
<1>5. ASSUME ses.contested = {}
      PROVE  (\A i \in DOMAIN q : ~DriverItem(q[i])) /\ Unwarned(t, log)
  <2>1. (\A i \in DOMAIN p : ~DriverItem(p[i])) /\ Unwarned(s, log)
    BY <1>5 DEF Warned
  <2> QED BY <1>1, <1>2, <2>1
<1>6. t.pending = q
  BY DEF q
<1> HIDE DEF p
<1> QED BY <1>4, <1>5, <1>6 DEF Warned

\* Taking a record keeps it.
LEMMA TakeRecordFollows ==
    ASSUME IInv, FInv, NEW r \in Runs, TakeRecord(r)
    PROVE  FInv'
<1> DEFINE s == [run[r] EXCEPT !.pending = Tail(@)]
           item == Head(run[r].pending)
           log == journal[r]
           outs == outcomes[r]
           t == Recorded(s, item)
<1>1. run[r].pc = "LOOP" /\ run[r].pending # <<>>
  BY DEF TakeRecord
<1>2. /\ FollowOk(run[r], log, outs, session) /\ DOMAIN run[r] = RunFields /\ Timely(run[r])
      /\ Base(run[r], session)
  BY FollowFacts, RunFacts
<1>3. /\ Alongside(run[r], s) /\ s.pending = Tail(run[r].pending) /\ s.failed = run[r].failed
  BY <1>2 DEF Alongside, RunFields
<1>4. OneRun(r) /\ run'[r] = t /\ journal'[r] = log /\ outcomes'[r] = outs
  BY FollowFacts DEF TakeRecord, OnlyRun, database, InTask, handlers, OneRun, IInv, Shapes
<1> HIDE DEF s, t
<1>5. Timely(s) /\ DOMAIN s = RunFields
  BY <1>2, <1>3, AlongsideFollows DEF Alongside
<1>6. Same(s, t) /\ (t.pc = "WRITE" /\ Driver(t.entry) => DriverItem(item))
  BY <1>5, RecordedPlain DEF t
<1>7. t.pc \in Tasks
  BY <1>5, RecordedPlain DEF t
<1>8. Warned(t, log, session)
  <2>1. t.pending = Tail(run[r].pending)
    BY <1>3, <1>6 DEF Same
  <2>2. Unwarned(run[r], log) /\ ~DriverItem(item) => Unwarned(t, log)
    BY <1>6 DEF Unwarned
  <2> QED BY <1>1, <1>2, <2>1, <2>2, WarnedTail DEF FollowOk, Base, Queue, item
<1>9. ~t.failed => Following(t, log, outs)
  <2> SUFFICES ASSUME ~t.failed PROVE Following(t, log, outs)
    OBVIOUS
  <2>1. Settled(run[r], log, outs)
    BY <1>1, <1>2, <1>3, <1>6 DEF FollowOk, Following, Same
  <2>2. Settled(s, log, outs)
    BY <1>3, <2>1, AlongsideFollows DEF Settled
  <2> QED BY <1>5, <2>2, RecordedFollows DEF t
<1> QED BY <1>4, <1>7, <1>8, <1>9, OneRunFollows DEF FollowOk, Tasks

\* What a boundary taken up was eligible for is decided ahead of every correction.
LEMMA DecisionFollows ==
    ASSUME NEW t, DOMAIN t = RunFields, NEW log, NEW outs, Settled(t, log, outs), NEW item,
           NEW outcome, t.item = item, Untouched(t, outs, item.k),
           outcome # "UNAVAILABLE" => \A i \in DOMAIN log : ~Driver(log[i])
    PROVE  LET u == Writing(t, Decision(outcome, item), "EVALUATED")
           IN  Plain(t, u) /\ Following(u, log, outs)
<1> DEFINE e == Decision(outcome, item)
           u == Writing(t, e, "EVALUATED")
<1>1. /\ DOMAIN e = EntryFields /\ e.what = "DECISION" /\ e.at = item.k /\ e.bars = item.prefix
      /\ e.marker = outcome
  BY DEF Decision, EntryFields
<1> HIDE DEF e
<1>2. /\ Alongside(t, u) /\ u.pc = "WRITE" /\ u.then = "EVALUATED" /\ u.item = item
      /\ u.entry = [e EXCEPT !.seq = t.seq + 1]
  BY DEF Alongside, RunFields, Writing
<1>3. Plain(t, u)
  BY <1>1, WritingPlain
<1> HIDE DEF u
<1>4. /\ u.entry.what = "DECISION" /\ u.entry.at = item.k /\ u.entry.bars = item.prefix
      /\ u.entry.marker = outcome
  BY <1>1, <1>2 DEF EntryFields
<1>5. Settled(u, log, outs)
  BY <1>2, AlongsideFollows DEF Settled
<1>6. Untouched(u, outs, u.entry.at)
  BY <1>2, <1>4 DEF Untouched, Alongside
<1>7. Following(u, log, outs)
  BY <1>2, <1>3, <1>4, <1>5, <1>6 DEF Following, Settled, Plain
<1> QED BY <1>3, <1>7 DEF u, e

\* Evaluating a boundary keeps it.
LEMMA EvaluateFollows ==
    ASSUME IInv, FInv, NEW r \in Runs, Evaluate(r)
    PROVE  FInv'
<1> DEFINE item == Head(run[r].pending)
           s == [run[r] EXCEPT !.pending = Tail(@), !.item = item]
           t == [s EXCEPT !.evaluated = @ \cup {item.k}, !.observations = @ + 1]
           limited == [s EXCEPT !.ended = "OBSERVATION_LIMIT"]
           failing == [t EXCEPT !.ended = "EVALUATION_ERROR"]
           log == journal[r]
           outs == outcomes[r]
           eligible == Eligibility(item.available, item.prefix) = "ELIGIBLE"
<1>1. run[r].pc = "LOOP" /\ run[r].pending # <<>> /\ item.kind = "CAPTURE"
  BY DEF Evaluate
<1>2. /\ FollowOk(run[r], log, outs, session) /\ DOMAIN run[r] = RunFields /\ Timely(run[r])
      /\ Base(run[r], session)
  BY FollowFacts, RunFacts
<1>3. /\ item.k \notin run[r].evaluated /\ 1 \in DOMAIN run[r].pending
      /\ run[r].pending[1] = item
  BY <1>1, <1>2, QueueTail, TailFacts DEF Base, Queue
<1>4. /\ Alongside(run[r], s) /\ s.pending = Tail(run[r].pending) /\ s.failed = run[r].failed
      /\ s.item = item
  BY <1>2 DEF Alongside, RunFields
<1>5. /\ DOMAIN t = RunFields /\ t.watches = run[r].watches /\ t.published = run[r].published
      /\ t.evaluated = run[r].evaluated \cup {item.k} /\ t.pending = s.pending
      /\ t.failed = s.failed /\ t.item = item
  BY <1>2 DEF RunFields
<1>6. Alongside(s, limited) /\ Same(s, limited)
  BY <1>2 DEF Alongside, RunFields, Same
<1>7. Alongside(t, failing) /\ Same(t, failing)
  BY <1>5 DEF Alongside, RunFields, Same
<1>8. eligible => \A i \in DOMAIN log : ~Driver(log[i])
  <2>1. eligible => item.available
    BY DEF Eligibility
  <2>2. item.available => Unwarned(run[r], log)
    BY <1>1, <1>2, <1>3 DEF FollowOk, Warned
  <2> HIDE DEF eligible
  <2> QED BY <2>1, <2>2 DEF Unwarned
<1>9. ~run[r].failed => Settled(run[r], log, outs)
  BY <1>1, <1>2 DEF FollowOk, Following
<1>10. ASSUME Settled(run[r], log, outs)
       PROVE  /\ Settled(limited, log, outs) /\ Settled(failing, log, outs)
              /\ Settled(t, log, outs) /\ Untouched(t, outs, item.k)
  <2>1. Settled(s, log, outs)
    BY <1>4, <1>10, AlongsideFollows DEF Settled
  <2>2. Settled(limited, log, outs)
    BY <1>6, <2>1, AlongsideFollows DEF Settled
  <2> HIDE DEF t
  <2>3. Untouched(t, outs, item.k)
    BY <1>3, <1>5, <1>10 DEF Settled, Followed, Untouched
  <2>4. Followed(t, outs)
    BY <1>3, <1>5, <1>10 DEF Settled, Followed
  <2>5. Stands(t, outs, {}) /\ Clear(t, log, {})
    BY <1>5, <1>10 DEF Settled, Stands, StillPublished, Clear
  <2>6. Settled(t, log, outs)
    BY <2>4, <2>5 DEF Settled
  <2>7. Settled(failing, log, outs)
    BY <1>7, <2>6, AlongsideFollows DEF Settled
  <2> QED BY <2>2, <2>3, <2>6, <2>7
<1> HIDE DEF s, t, limited, failing, item
\* the task goes on from one of these, to one of these
<1> DEFINE Good(u) == /\ u.pending = Tail(run[r].pending) /\ u.pc \in Tasks
                      /\ u.pc = "WRITE" => ~Driver(u.entry)
                      /\ ~u.failed => Following(u, log, outs)
<1>11. Good(Writing(limited, Entry("RUN_ENDED", "limit", item.k), "NEXT"))
  <2> DEFINE u == Writing(limited, Entry("RUN_ENDED", "limit", item.k), "NEXT")
  <2>1. Plain(limited, u)
    BY <1>6, EntryPlain DEF Same
  <2>2. Settled(limited, log, outs) => Following(u, log, outs)
    BY <1>6, WritingFollows DEF Same
  <2> HIDE DEF u
  <2>4. Good(u)
    BY <1>4, <1>6, <1>9, <1>10, <2>1, <2>2 DEF Plain, Same
  <2> QED BY <2>4 DEF u
<1>12. Good(Writing(failing, Entry("EVALUATION_FAILED", "strategy", item.k), "NEXT"))
  <2> DEFINE u == Writing(failing, Entry("EVALUATION_FAILED", "strategy", item.k), "NEXT")
  <2>1. Plain(failing, u)
    BY <1>7, EntryPlain DEF Same
  <2>2. Settled(failing, log, outs) => Following(u, log, outs)
    BY <1>7, WritingFollows DEF Same
  <2> HIDE DEF u
  <2>4. Good(u)
    BY <1>4, <1>5, <1>7, <1>9, <1>10, <2>1, <2>2 DEF Plain, Same
  <2> QED BY <2>4 DEF u
<1>13. ASSUME NEW outcome, outcome # "UNAVAILABLE" => eligible
       PROVE  Good(Writing(t, Decision(outcome, item), "EVALUATED"))
  <2> DEFINE u == Writing(t, Decision(outcome, item), "EVALUATED")
  <2>1. Plain(t, u)
    <3>1. DOMAIN Decision(outcome, item) = EntryFields /\ Decision(outcome, item).what = "DECISION"
      BY DEF Decision, EntryFields
    <3> QED BY <1>5, <3>1, WritingPlain
  <2>2. outcome # "UNAVAILABLE" => \A i \in DOMAIN log : ~Driver(log[i])
    BY <1>8, <1>13
  <2>3. Settled(t, log, outs) /\ Untouched(t, outs, item.k) => Following(u, log, outs)
    <3> HIDE DEF u, log, outs
    <3> SUFFICES ASSUME Settled(t, log, outs), Untouched(t, outs, item.k)
                 PROVE  Following(u, log, outs)
      OBVIOUS
    <3>1. LET v == Writing(t, Decision(outcome, item), "EVALUATED")
          IN  Plain(t, v) /\ Following(v, log, outs)
      BY <1>5, <2>2, DecisionFollows
    <3> QED BY <3>1 DEF u
  <2> HIDE DEF u
  <2>4. Good(u)
    BY <1>4, <1>5, <1>9, <1>10, <2>1, <2>3 DEF Plain, Same
  <2> QED BY <2>4 DEF u
<1>14. PICK u : OnlyRun(r, u) /\ Good(u)
  <2>1. (\E outcome : /\ outcome # "UNAVAILABLE" => eligible
                      /\ OnlyRun(r, Writing(t, Decision(outcome, item), "EVALUATED")))
        \/ OnlyRun(r, Writing(limited, Entry("RUN_ENDED", "limit", item.k), "NEXT"))
        \/ OnlyRun(r, Writing(failing, Entry("EVALUATION_FAILED", "strategy", item.k), "NEXT"))
    BY DEF Evaluate, s, t, limited, failing, item
  <2> HIDE DEF Good
  <2> QED BY <1>11, <1>12, <1>13, <2>1
<1>15. OneRun(r) /\ run'[r] = u /\ journal'[r] = log /\ outcomes'[r] = outs
  BY <1>14, FollowFacts DEF Evaluate, OnlyRun, database, InTask, handlers, OneRun, IInv, Shapes
<1>16. Warned(u, log, session)
  <2>1. Unwarned(run[r], log) => Unwarned(u, log)
    BY <1>14 DEF Unwarned
  <2> QED BY <1>1, <1>2, <1>14, <2>1, WarnedTail DEF FollowOk, Base, Queue
<1> QED BY <1>14, <1>15, <1>16, OneRunFollows DEF FollowOk, Tasks

\* What ends a run keeps it.
LEMMA RunsOutFollows ==
    ASSUME IInv, FInv, NEW r \in Runs, RunsOut(r)
    PROVE  FInv'
<1> DEFINE s == [run[r] EXCEPT !.ended = "PROVIDER_ERROR"]
           log == journal[r]
           outs == outcomes[r]
           over == Writing(s, Entry("EVALUATION_FAILED", "overflow", None), "NEXT")
<1>1. run[r].pc = "LOOP"
  BY DEF RunsOut
<1>2. FollowOk(run[r], log, outs, session) /\ DOMAIN run[r] = RunFields /\ Timely(run[r])
  BY FollowFacts
<1>3. Alongside(run[r], s) /\ Same(run[r], s)
  BY <1>2 DEF Alongside, RunFields, Same
<1>4. PICK u \in {over, Finishing(run[r])} : OnlyRun(r, u)
  BY DEF RunsOut
<1> HIDE DEF s
<1>5. Plain(run[r], over)
  BY <1>3, EntryPlain, SamePlain DEF Same
<1>6. Plain(run[r], u)
  BY <1>2, <1>5, AfterItemPlain
<1>7. ~run[r].failed => Following(u, log, outs)
  <2> SUFFICES ASSUME ~run[r].failed PROVE Following(u, log, outs)
    OBVIOUS
  <2>1. Settled(run[r], log, outs)
    BY <1>1, <1>2 DEF FollowOk, Following
  <2>2. Settled(s, log, outs) /\ DOMAIN s = RunFields
    BY <1>3, <2>1, AlongsideFollows DEF Settled, Same
  <2>3. Following(over, log, outs)
    BY <2>2, WritingFollows
  <2>4. Following(Finishing(run[r]), log, outs)
    BY <1>2, <2>1, AfterItemFollows
  <2> QED BY <2>3, <2>4
<1> HIDE DEF over
<1>8. OneRun(r) /\ run'[r] = u /\ journal'[r] = log /\ outcomes'[r] = outs
  BY <1>4, FollowFacts DEF RunsOut, OnlyRun, database, InTask, handlers, OneRun, IInv, Shapes
<1>9. Warned(u, log, session)
  BY <1>2, <1>6, WarnedStays DEF FollowOk, Plain, Same, Unwarned
<1> QED BY <1>6, <1>7, <1>8, <1>9, OneRunFollows DEF FollowOk, Tasks, Plain, Same

\* A committed entry adds no correction but its own.
LEMMA CommittedUnwarned ==
    ASSUME NEW s, NEW log, NEW t, Goes(s, log), s.pc = "WRITE", Journal(log),
           t.pc = "WRITE" => ~Driver(t.entry), Unwarned(s, log)
    PROVE  Unwarned(t, Appended(log, s.entry))
<1>1. /\ Fits(s, log, session, s.entry, s.then)
      /\ s.entry.seq = s.seq /\ s.seq \in Nat /\ \A i \in DOMAIN log : log[i].seq < s.seq
  BY DEF Goes, TaskOk, Open, Counts, Tasks
<1>2. DOMAIN s.entry = EntryFields /\ ~Driver(s.entry) /\ \A i \in DOMAIN log : ~Driver(log[i])
  BY <1>1 DEF Fits, Unwarned
<1>3. \A i \in DOMAIN Appended(log, s.entry) : ~Driver(Appended(log, s.entry)[i])
  BY <1>1, <1>2, AppendedFacts
<1> QED BY <1>3 DEF Unwarned

\* A committed entry keeps it.
LEMMA WriteEntryFollows ==
    ASSUME IInv, FInv, NEW r \in Runs, WriteEntry(r)
    PROVE  FInv'
<1> DEFINE s == run[r]
           log == journal[r]
           outs == outcomes[r]
           new == Appended(log, s.entry)
           n == s.entries + Len(journal'[r]) - Len(log)
           t == Written([s EXCEPT !.entries = n])
<1>1. s.pc = "WRITE"
  BY DEF WriteEntry
<1>2. /\ FollowOk(s, log, outs, session) /\ DOMAIN s = RunFields /\ Timely(s)
      /\ SeenOk(session)
  BY FollowFacts
<1>3. Goes(s, log) /\ Journal(log)
  BY <1>1, RunFacts DEF Tasks
<1>4. OneRun(r) /\ run'[r] = t /\ journal'[r] = new /\ outcomes'[r] = outs
  BY FollowFacts DEF WriteEntry, OnlyRun, InTask, handlers, OneRun, IInv, Shapes
<1> HIDE DEF n, new
<1>5. Plain(s, t)
  <2>1. s.then \in {"NEXT", "EVALUATED", "CONTESTED", "INVALIDATE", "ENDED"}
    BY <1>1, <1>3 DEF Goes, TaskOk, Fits
  <2> HIDE DEF s
  <2> QED BY <1>2, <2>1, WrittenPlain
<1>6. ~s.failed => Following(t, new, outs)
  <2> SUFFICES ASSUME ~s.failed PROVE Following(t, new, outs)
    OBVIOUS
  <2>1. Following(s, log, outs)
    BY <1>2 DEF FollowOk
  <2> HIDE DEF s, log, outs
  <2> QED BY <1>1, <1>2, <1>3, <2>1, WrittenFollows DEF new
<1> HIDE DEF t
<1>7. Unwarned(s, log) => Unwarned(t, new)
  <2> HIDE DEF s, log
  <2> QED BY <1>1, <1>3, <1>5, CommittedUnwarned DEF Plain, new
<1>8. Warned(t, new, session)
  BY <1>2, <1>5, <1>7, WarnedStays DEF FollowOk, Plain, Same
<1> QED BY <1>4, <1>5, <1>6, <1>8, OneRunFollows DEF FollowOk, Plain, Same, Tasks

\* Committed outcomes keep it.
LEMMA PublishOutcomesFollows ==
    ASSUME IInv, FInv, NEW r \in Runs, PublishOutcomes(r)
    PROVE  FInv'
<1> DEFINE s == run[r]
           log == journal[r]
           outs == outcomes[r]
           new == AppendedAll(outs, s.records)
           t == IF s.finished THEN Closing(s) ELSE AfterItem(s)
<1>1. s.pc = "PUBLISH"
  BY DEF PublishOutcomes
<1>2. FollowOk(s, log, outs, session) /\ DOMAIN s = RunFields /\ Timely(s)
  BY FollowFacts
<1>3. OneRun(r) /\ run'[r] = t /\ journal'[r] = log /\ outcomes'[r] = new
  BY FollowFacts DEF PublishOutcomes, OnlyRun, InTask, handlers, OneRun, IInv, Shapes
<1>4. Plain(s, t)
  BY <1>2, LoopPlain, AfterItemPlain
<1>5. ~s.failed => Following(t, log, new)
  <2> SUFFICES ASSUME ~s.failed PROVE Following(t, log, new)
    OBVIOUS
  <2>1. /\ Followed(s, outs) /\ Clear(s, log, {}) /\ RecordsOk(s, outs)
        /\ Stands(s, outs, {x.at : x \in s.records})
    BY <1>1, <1>2 DEF FollowOk, Following
  <2> HIDE DEF s, log, outs
  <2>2. Settled(s, log, new)
    BY <2>1, PublishedFollows DEF Settled
  <2> HIDE DEF new
  <2>3. Following(Closing(s), log, new) /\ Following(AfterItem(s), log, new)
    BY <1>2, <2>2, WritingFollows, AfterItemFollows DEF Closing
  <2> QED BY <2>3
<1> HIDE DEF t
<1>6. Warned(t, log, session)
  BY <1>2, <1>4, WarnedStays DEF FollowOk, Plain, Same, Unwarned
<1> QED BY <1>3, <1>4, <1>5, <1>6, OneRunFollows DEF FollowOk, Plain, Same, Tasks

\* A store call that raised keeps it: the run has failed, and nothing is said of it but what
\* waits in its queue.
LEMMA StoreFailsFollows ==
    ASSUME IInv, FInv, NEW r \in Runs, StoreFails(r)
    PROVE  FInv'
<1> DEFINE s == run[r]
           f == [s EXCEPT !.failed = TRUE]
           log == journal[r]
           new == Appended(log, s.entry)
           t == IF f.finished THEN [f EXCEPT !.pc = "DONE"] ELSE Finishing(f)
<1>1. /\ Raised(r)
      /\ \/ journal' = journal
         \/ s.pc = "WRITE" /\ journal' = [journal EXCEPT ![r] = new]
  BY DEF StoreFails
<1>2. FollowOk(s, log, outcomes[r], session) /\ DOMAIN s = RunFields
  BY FollowFacts
<1>3. OneRun(r) /\ run'[r] = t
  BY <1>1, FollowFacts DEF StoreFails, Raised, OnlyRun, handlers, OneRun, IInv, Shapes
<1>4. /\ DOMAIN f = RunFields /\ f.pending = s.pending /\ f.failed
  BY <1>2 DEF RunFields
<1>5. /\ t.pending = s.pending /\ t.failed /\ t.pc \in Tasks \cup {"DONE"}
      /\ t.pc = "WRITE" => ~Driver(t.entry)
  <2>1. Plain(f, Finishing(f))
    BY <1>4, AfterItemPlain
  <2> HIDE DEF f
  <2>2. LET d == [f EXCEPT !.pc = "DONE"] IN d.pending = f.pending /\ d.failed /\ d.pc = "DONE"
    BY <1>4 DEF RunFields
  <2> QED BY <1>4, <2>1, <2>2 DEF Plain, Same, Tasks
<1> HIDE DEF t
<1>6. Unwarned(s, log) => Unwarned(t, journal'[r])
  <2>1. CASE journal' = journal
    BY <1>5, <2>1 DEF Unwarned
  <2>2. CASE s.pc = "WRITE" /\ journal' = [journal EXCEPT ![r] = new]
    <3>1. Goes(s, log) /\ Journal(log) /\ journal'[r] = new
      BY <2>2, RunFacts DEF Tasks, IInv, Shapes
    <3> HIDE DEF s, log
    <3> QED BY <1>5, <2>2, <3>1, CommittedUnwarned
  <2> QED BY <1>1, <2>1, <2>2
<1>7. Warned(t, journal'[r], session)
  BY <1>2, <1>5, <1>6, WarnedStays DEF FollowOk
<1> QED BY <1>3, <1>5, <1>7, OneRunFollows DEF FollowOk, Tasks

\* A task that is over, with the journal and outcomes as they were, keeps it.
LEMMA DoneFollows ==
    ASSUME IInv, FInv, NEW r \in Runs, OneRun(r), UNCHANGED <<journal, outcomes>>,
           run'[r].pending = run[r].pending, run'[r].pc = "DONE"
    PROVE  FInv'
<1>1. FollowOk(run[r], journal[r], outcomes[r], session)
  BY FollowFacts
<1>2. Warned(run'[r], journal[r], session)
  BY <1>1, WarnedStays DEF FollowOk, Unwarned
<1>3. FollowOk(run'[r], journal[r], outcomes[r], session)
  BY <1>2 DEF FollowOk, Following
<1> QED BY <1>3, OneRunFollows

\* The start of a task, or its end before it followed anything, keeps it.
LEMMA TaskStartsFollows ==
    ASSUME IInv, FInv, NEW r \in Runs, TaskStarts(r)
    PROVE  FInv'
<1>1. FollowOk(run[r], journal[r], outcomes[r], session) /\ DOMAIN run[r] = RunFields
  BY FollowFacts
<1>2. OneRun(r) /\ UNCHANGED <<journal, outcomes>>
  BY FollowFacts DEF TaskStarts, OnlyRun, OneRun, IInv, Shapes, database
<1>3. run[r].pc = "START" /\ \E pc \in {"LOOP", "DONE"} : run'[r] = [run[r] EXCEPT !.pc = pc]
  BY DEF TaskStarts, OnlyRun, IInv, Shapes
<1>4. CASE run'[r] = [run[r] EXCEPT !.pc = "DONE"]
  <2>1. run'[r].pending = run[r].pending /\ run'[r].pc = "DONE"
    BY <1>1, <1>4 DEF RunFields
  <2> QED BY <1>2, <2>1, DoneFollows
<1>5. CASE run'[r] = [run[r] EXCEPT !.pc = "LOOP"]
  <2>1. /\ run'[r].pending = run[r].pending /\ run'[r].pc = "LOOP"
        /\ run'[r].failed = run[r].failed
    BY <1>1, <1>5 DEF RunFields
  <2>2. Warned(run'[r], journal[r], session)
    BY <1>1, <2>1, WarnedStays DEF FollowOk, Unwarned
  <2>3. ~run[r].failed => Following(run'[r], journal[r], outcomes[r])
    <3>1. SUFFICES ASSUME ~run[r].failed PROVE Following(run'[r], journal[r], outcomes[r])
      OBVIOUS
    <3>2. Settled(run[r], journal[r], outcomes[r])
      BY <1>1, <1>3, <3>1 DEF FollowOk, Following
    <3>3. Following([run[r] EXCEPT !.pc = "LOOP"], journal[r], outcomes[r])
      BY <1>1, <3>2, LoopFollows
    <3> QED BY <1>5, <3>3
  <2>4. FollowOk(run'[r], journal[r], outcomes[r], session)
    BY <2>1, <2>2, <2>3 DEF FollowOk
  <2> QED BY <1>2, <2>4, OneRunFollows
<1> QED BY <1>3, <1>4, <1>5

\* Closing the row keeps it.
LEMMA FinishFollows ==
    ASSUME IInv, FInv, NEW r \in Runs, FinishRun(r) \/ FinishFails(r)
    PROVE  FInv'
<1>1. DOMAIN run[r] = RunFields
  BY FollowFacts
<1>2. OneRun(r) /\ UNCHANGED <<journal, outcomes>>
  BY FollowFacts DEF FinishRun, FinishFails, OnlyRun, OneRun, IInv, Shapes
<1>3. \/ run'[r] = [run[r] EXCEPT !.pc = "DONE"]
      \/ run'[r] = [run[r] EXCEPT !.pc = "DONE", !.failed = TRUE]
  BY DEF FinishRun, FinishFails, OnlyRun, IInv, Shapes
<1>4. run'[r].pending = run[r].pending /\ run'[r].pc = "DONE"
  BY <1>1, <1>3 DEF RunFields
<1> QED BY <1>2, <1>4, DoneFollows

-----------------------------------------------------------------------------
(***************************************************************************)
(* The steps of the session and of the handlers.                           *)
(***************************************************************************)
\* t is where s is, and follows what it does
Twin(s, t) ==
    /\ t.pc = s.pc /\ t.failed = s.failed /\ t.watches = s.watches
    /\ t.published = s.published /\ t.evaluated = s.evaluated /\ t.entry = s.entry
    /\ t.then = s.then /\ t.item = s.item /\ t.records = s.records

\* What is followed does not depend on the queue.
LEMMA TwinFollows ==
    ASSUME NEW s, NEW t, NEW log, NEW outs, NEW ses, NEW next, FollowOk(s, log, outs, ses),
           Twin(s, t), Warned(t, log, next)
    PROVE  FollowOk(t, log, outs, next)
<1>1. Followed(s, outs) => Followed(t, outs)
  BY DEF Twin, Followed
<1>2. \A cover : Stands(s, outs, cover) => Stands(t, outs, cover)
  BY DEF Twin, Stands, StillPublished
<1>3. \A working : Clear(s, log, working) => Clear(t, log, working)
  BY DEF Twin, Clear
<1>4. RecordsOk(s, outs) => RecordsOk(t, outs)
  BY DEF Twin, RecordsOk, StillPublished
<1>5. \A b : Untouched(s, outs, b) => Untouched(t, outs, b)
  BY DEF Twin, Untouched
<1>6. Settled(s, log, outs) => Settled(t, log, outs)
  BY <1>1, <1>2, <1>3 DEF Settled
<1>7. Following(s, log, outs) => Following(t, log, outs)
  BY <1>1, <1>2, <1>3, <1>4, <1>5, <1>6 DEF Following, Twin
<1> QED BY <1>7 DEF FollowOk, Twin

\* A capture is available only while nothing is contested, and a correction contests.
LEMMA WarnedAppend ==
    ASSUME NEW s, NEW t, NEW log, NEW ses, NEW next, NEW told, Warned(s, log, ses),
           s.pending \in Seq(ToSet(s.pending)), t.pending \in {s.pending, Append(s.pending, told)},
           t.pc = s.pc, t.entry = s.entry,
           next.contested = {} => ses.contested = {} /\ ~DriverItem(told),
           told.kind = "CAPTURE" /\ told.available => ses.contested = {}
    PROVE  Warned(t, log, next)
<1> DEFINE p == s.pending
           q == Append(p, told)
<1>1. Unwarned(s, log) => Unwarned(t, log)
  BY DEF Unwarned
<1>2. /\ Len(p) \in Nat /\ DOMAIN p = 1 .. Len(p) /\ DOMAIN q = 1 .. (Len(p) + 1)
      /\ \A i \in 1 .. Len(p) : q[i] = p[i]
      /\ q[Len(p) + 1] = told
  BY AppendFacts, SeqFacts
<1> HIDE DEF q
<1>3. \A i \in DOMAIN q : \/ i \in DOMAIN p /\ q[i] = p[i]
                          \/ i = Len(p) + 1 /\ q[i] = told
  BY <1>2
<1>4. \A i \in DOMAIN q : \A j \in DOMAIN p : i < j => i \in DOMAIN p /\ q[i] = p[i]
  BY <1>2
<1>5. ASSUME NEW j \in DOMAIN q, q[j].kind = "CAPTURE", q[j].available
      PROVE  (\A i \in DOMAIN q : i < j => ~DriverItem(q[i])) /\ Unwarned(t, log)
  <2>1. CASE j \in DOMAIN p /\ q[j] = p[j]
    BY <1>1, <1>4, <1>5, <2>1 DEF Warned
  <2>2. CASE j = Len(p) + 1 /\ q[j] = told
    <3>1. (\A i \in DOMAIN p : ~DriverItem(p[i])) /\ Unwarned(s, log)
      BY <1>5, <2>2 DEF Warned
    <3>2. ~DriverItem(told)
      BY <1>5, <2>2 DEF DriverItem
    <3> QED BY <1>1, <1>3, <3>1, <3>2
  <2> QED BY <1>3, <2>1, <2>2
<1>6. ASSUME next.contested = {}
      PROVE  (\A i \in DOMAIN q : ~DriverItem(q[i])) /\ Unwarned(t, log)
                /\ \A i \in DOMAIN p : ~DriverItem(p[i])
  <2>1. (\A i \in DOMAIN p : ~DriverItem(p[i])) /\ Unwarned(s, log)
    BY <1>6 DEF Warned
  <2> QED BY <1>1, <1>3, <1>6, <2>1
<1>7. CASE t.pending = q
  BY <1>5, <1>6, <1>7 DEF Warned
<1>8. CASE t.pending = p
  <2> HIDE DEF p
  <2>1. ASSUME NEW j \in DOMAIN p, p[j].kind = "CAPTURE", p[j].available
        PROVE  (\A i \in DOMAIN p : i < j => ~DriverItem(p[i])) /\ Unwarned(t, log)
    BY <1>1, <2>1 DEF Warned, p
  <2> QED BY <1>6, <1>8, <2>1 DEF Warned
<1> QED BY <1>7, <1>8 DEF q

\* The session's events keep it.
LEMMA EmitFollows ==
    ASSUME IInv, FInv, Emit
    PROVE  FInv'
<1> DEFINE item == Head(session.script)
           book == session.book \cup (IF item.kind \in {"CANDLE", "LATE"} THEN {item.k} ELSE {})
           contested == session.contested \cup
                          (IF item.kind = "CONFLICT" /\ item.c.tf = "DRIVER" THEN {item.k} ELSE {})
           told == IF item.kind = "CANDLE" THEN Captured(item, book, contested) ELSE item
           seen == IF item.kind = "CANDLE"
                   THEN [session.seen EXCEPT ![item.k] = told.prefix] ELSE session.seen
<1>1. /\ session.script # <<>>
      /\ session' = [session EXCEPT !.script = Tail(@), !.book = book,
                                         !.contested = contested,
                                         !.seen = IF item.kind = "CANDLE"
                                                  THEN [@ EXCEPT ![item.k] = told.prefix] ELSE @]
      /\ run' = [r \in Runs |-> IF r \in readers THEN Observed(run[r], told) ELSE run[r]]
      /\ UNCHANGED <<journal, outcomes>>
  BY DEF Emit, database
<1>2. SessionOk(session)
  BY DEF IInv
<1>3. session'.contested = contested /\ session'.seen = seen /\ session'.touch = session.touch
  BY <1>1, <1>2 DEF SessionOk, SessionFields
<1>4. /\ DOMAIN item = ItemFields /\ item.kind # "CAPTURE"
      /\ item.kind \in {"CANDLE", "LATE"} => item.k \in DOMAIN session.touch
  <2>1. item = session.script[1] /\ 1 \in DOMAIN session.script
    BY <1>1, <1>2, TailFacts DEF SessionOk
  <2> HIDE DEF item
  <2> QED BY <1>2, <2>1 DEF SessionOk
<1> HIDE DEF item
<1>5. book \subseteq DOMAIN session.touch
  BY <1>2, <1>4 DEF SessionOk
<1>6. item.kind = "CANDLE" =>
        /\ told.prefix \subseteq book /\ told.kind = "CAPTURE"
        /\ told.available => contested = {}
  <2> HIDE DEF book, contested
  <2>1. LET t == Captured(item, book, contested)
        IN  /\ t.prefix = ConfirmedAt(book, item.k) /\ t.kind = "CAPTURE"
            /\ t.available = Available(book, contested)
    BY <1>4 DEF Captured, ItemFields
  <2> QED BY <2>1 DEF ConfirmedAt, Available
<1>7. SeenOk(session')
  <2>1. SeenOk(session)
    BY DEF FInv
  <2> HIDE DEF told, book
  <2> QED BY <1>3, <1>5, <1>6, <2>1 DEF SeenOk
<1>8. contested = {} => session.contested = {} /\ ~DriverItem(told)
  <2>1. contested = {} /\ item.kind # "CANDLE" => ~DriverItem(told)
    BY DEF DriverItem
  <2>2. item.kind = "CANDLE" => ~DriverItem(told)
    BY <1>6 DEF DriverItem
  <2> QED BY <2>1, <2>2
<1>9. told.kind = "CAPTURE" /\ told.available => session.contested = {}
  <2>1. told.kind = "CAPTURE" => item.kind = "CANDLE"
    BY <1>4
  <2> QED BY <1>6, <2>1
<1> HIDE DEF told, contested, book, seen
<1>10. ASSUME NEW r \in Runs
       PROVE  FollowOk(run'[r], journal[r], outcomes[r], session')
  <2> DEFINE s == run[r]
             t == run'[r]
  <2>1. FollowOk(s, journal[r], outcomes[r], session) /\ DOMAIN s = RunFields
    BY FollowFacts
  <2>2. s.pending \in Seq(ToSet(s.pending))
    BY RunFacts DEF Base, Queue
  <2>3. t \in {s, Observed(s, told)}
    BY <1>1
  <2>4. /\ Twin(s, Observed(s, told))
        /\ Observed(s, told).pending \in {s.pending, Append(s.pending, told)}
    <3> HIDE DEF s
    <3> QED BY <2>1 DEF Observed, Twin, RunFields
  <2>5. Twin(s, t) /\ t.pending \in {s.pending, Append(s.pending, told)}
    BY <2>3, <2>4 DEF Twin
  <2> HIDE DEF s, t
  <2>6. Warned(t, journal[r], session')
    BY <1>3, <1>8, <1>9, <2>1, <2>2, <2>5, WarnedAppend DEF FollowOk, Twin
  <2> QED BY <2>1, <2>5, <2>6, TwinFollows DEF t
<1> QED BY <1>1, <1>7, <1>10 DEF FInv

\* A session that only loses its life, and runs that only lose their task, keep it.
LEMMA AsideFollows ==
    ASSUME FInv, UNCHANGED <<run, journal, outcomes>>, session'.contested = session.contested,
           session'.seen = session.seen, session'.touch = session.touch
    PROVE  FInv'
<1>1. \A r \in Runs : FollowOk(run[r], journal[r], outcomes[r], session')
  BY DEF FInv, FollowOk, Warned
<1> QED BY <1>1 DEF FInv, SeenOk

\* The end of the session keeps it.
LEMMA SessionEndsFollows ==
    ASSUME IInv, FInv, SessionEnds
    PROVE  FInv'
<1>1. UNCHANGED <<run, journal, outcomes>>
  BY DEF SessionEnds, database
<1>2. /\ session'.contested = session.contested /\ session'.seen = session.seen
      /\ session'.touch = session.touch
  BY DEF SessionEnds, IInv, SessionOk, SessionFields
<1> QED BY <1>1, <1>2, AsideFollows

\* A run that begins, and one that is over, follow nothing.
LEMMA FreshFollows ==
    ASSUME NEW s, NEW log, NEW outs, NEW ses, s.pc \in {"NONE", "CREATING", "DONE"},
           s.pending = <<>>, s.pc # "DONE" => s.watches = {} /\ s.published = {} /\ outs = <<>>,
           ses.contested = {} => \A i \in DOMAIN log : ~Driver(log[i])
    PROVE  FollowOk(s, log, outs, ses)
<1>1. DOMAIN s.pending = {}
  OBVIOUS
<1>2. Warned(s, log, ses)
  BY <1>1 DEF Warned, Unwarned
<1> QED BY <1>2 DEF FollowOk, Following

\* Asking for a run, and opening one, keep it.
LEMMA CreateOpenFollows ==
    ASSUME IInv, FInv, NEW h \in Creators, CreateOpen(h)
    PROVE  FInv'
<1> DEFINE r == CHOOSE i \in Runs : rows[i] = None /\ run[i].pc = "NONE" /\ i \notin slots
           free == \E i \in Runs : rows[i] = None /\ run[i].pc = "NONE" /\ i \notin slots
           s == [NewRun EXCEPT !.pc = "CREATING"]
<1>1. UNCHANGED <<session, journal, outcomes>>
  BY DEF CreateOpen, database
<1>2. CASE UNCHANGED run
  BY <1>1, <1>2, AsideFollows
<1>3. CASE free /\ run' = [run EXCEPT ![r] = s]
  <2>1. r \in Runs /\ run[r].pc = "NONE"
    BY <1>3
  <2> HIDE DEF r
  <2>2. journal[r] = <<>> /\ outcomes[r] = <<>>
    BY <2>1, FollowFacts DEF IInv, RunOk, FollowOk
  <2>3. s.pc = "CREATING" /\ s.pending = <<>> /\ s.watches = {} /\ s.published = {}
    BY DEF NewRun
  <2> HIDE DEF s
  <2>4. \A i \in DOMAIN journal[r] : ~Driver(journal[r][i])
    BY <2>2
  <2>5. FollowOk(s, journal[r], outcomes[r], session)
    BY <2>2, <2>3, <2>4, FreshFollows
  <2>6. OneRun(r) /\ run'[r] = s
    BY <1>1, <1>3, <2>1, FollowFacts DEF OneRun, IInv, Shapes
  <2> QED BY <1>1, <2>1, <2>5, <2>6, OneRunFollows
<1> QED BY <1>2, <1>3 DEF CreateOpen

\* A creation that is given back keeps it.
LEMMA GivenBackFollows ==
    ASSUME IInv, FInv, NEW h \in Creators, creators[h].run \in Runs, GivenBack(h),
           UNCHANGED <<session, journal, outcomes>>
    PROVE  FInv'
<1> DEFINE r == creators[h].run
<1>1. DOMAIN run[r] = RunFields
  BY FollowFacts
<1>2. OneRun(r) /\ run'[r] = [run[r] EXCEPT !.pc = "DONE"]
  BY FollowFacts DEF GivenBack, OneRun, IInv, Shapes
<1> HIDE DEF r
<1>3. run'[r].pending = run[r].pending /\ run'[r].pc = "DONE"
  BY <1>1, <1>2 DEF RunFields
<1> QED BY <1>2, <1>3, DoneFollows DEF r

\* A run that stays where it is, and whose queue does not move, keeps it.
LEMMA TwinKeepsFollowing ==
    ASSUME IInv, FInv, NEW r \in Runs, OneRun(r), UNCHANGED <<journal, outcomes>>,
           Twin(run[r], run'[r]), run'[r].pending = run[r].pending
    PROVE  FInv'
<1>1. FollowOk(run[r], journal[r], outcomes[r], session)
  BY FollowFacts
<1>2. Warned(run'[r], journal[r], session)
  BY <1>1, WarnedStays DEF FollowOk, Unwarned, Twin
<1>3. FollowOk(run'[r], journal[r], outcomes[r], session)
  BY <1>1, <1>2, TwinFollows
<1> QED BY <1>3, OneRunFollows

\* Inserting the row keeps it.
LEMMA CreateRowFollows ==
    ASSUME IInv, FInv, NEW h \in Creators, CreateRow(h)
    PROVE  FInv'
<1> DEFINE r == creators[h].run
<1>1. UNCHANGED <<session, journal, outcomes>> /\ r \in Runs
  BY DEF CreateRow, IInv, CreatorOk
<1>2. CASE GivenBack(h)
  BY <1>1, <1>2, GivenBackFollows
<1>3. CASE run' = [run EXCEPT ![creators[h].run].seq = 1]
  <2>1. DOMAIN run[r] = RunFields
    BY <1>1, FollowFacts
  <2>2. OneRun(r) /\ run'[r] = [run[r] EXCEPT !.seq = 1]
    BY <1>1, <1>3, FollowFacts DEF OneRun, IInv, Shapes
  <2> HIDE DEF r
  <2>3. Twin(run[r], run'[r]) /\ run'[r].pending = run[r].pending
    BY <2>1, <2>2 DEF Twin, RunFields
  <2> QED BY <1>1, <2>2, <2>3, TwinKeepsFollowing
<1> QED BY <1>2, <1>3 DEF CreateRow

\* RUN_OPENED, and the start of the task, keep it.
LEMMA CreateOpenedFollows ==
    ASSUME IInv, FInv, NEW h \in Creators, CreateOpened(h)
    PROVE  FInv'
<1> DEFINE r == creators[h].run
           opened == [Entry("RUN_OPENED", None, None) EXCEPT !.seq = 1]
           s == [run[r] EXCEPT !.entries = 1, !.pc = IF r \in held THEN "START" ELSE "DONE"]
           over == [run[r] EXCEPT !.pc = "DONE"]
           new == Appended(journal[r], opened)
<1>1. /\ creators[h].phase = "OPENED" /\ UNCHANGED <<session, outcomes>>
      /\ r \in Runs /\ run[r].pc = "CREATING"
  BY DEF CreateOpened, IInv, CreatorOk
<1>2. CASE GivenBack(h) /\ UNCHANGED journal
  BY <1>1, <1>2, GivenBackFollows
<1>3. CASE /\ journal' = [journal EXCEPT ![creators[h].run] = Appended(@, opened)]
           /\ \/ run' = [run EXCEPT ![creators[h].run].entries = 1,
                                    ![creators[h].run].pc = IF creators[h].run \in held
                                                            THEN "START" ELSE "DONE"]
              \/ GivenBack(h)
  <2>1. /\ FollowOk(run[r], journal[r], outcomes[r], session) /\ DOMAIN run[r] = RunFields
        /\ journal[r] = <<>>
    BY <1>1, FollowFacts DEF IInv, RunOk
  <2>2. /\ OneRun(r) /\ run'[r] \in {s, over} /\ journal'[r] = new
        /\ outcomes'[r] = outcomes[r]
    BY <1>1, <1>3, FollowFacts DEF OneRun, IInv, Shapes, GivenBack
  <2>3. opened.what = "RUN_OPENED"
    BY DEF Entry
  <2> HIDE DEF opened
  <2>4. DOMAIN new = {1} /\ new[1] = opened
    BY <2>1 DEF Appended
  <2> HIDE DEF new
  <2> DEFINE t == run'[r]
  <2>5. /\ t.pc \in {"START", "DONE"} /\ t.pending = run[r].pending
        /\ t.watches = run[r].watches /\ t.published = run[r].published
        /\ t.evaluated = run[r].evaluated
    BY <2>1, <2>2 DEF RunFields
  <2> HIDE DEF t, s, over
  <2>6. t.watches = {} /\ t.published = {} /\ outcomes[r] = <<>>
    BY <1>1, <2>1, <2>5 DEF FollowOk
  <2>7. Unwarned(t, new)
    BY <2>3, <2>4, <2>5 DEF Unwarned, Driver
  <2>8. Warned(t, new, session)
    BY <2>1, <2>5, <2>7, WarnedStays DEF FollowOk
  <2>9. Settled(t, new, outcomes[r])
    <3>1. <<>> \in Seq(ToSet(<<>>)) /\ DOMAIN <<>> = {}
      OBVIOUS
    <3> QED BY <2>6, <3>1 DEF Settled, Followed, Stands, Latest, Clear
  <2>10. FollowOk(t, new, outcomes[r], session)
    BY <2>5, <2>8, <2>9 DEF FollowOk, Following
  <2> QED BY <1>1, <2>2, <2>10, OneRunFollows DEF r, t
<1> QED BY <1>2, <1>3 DEF CreateOpened

\* Requesting the end of a run keeps it.
LEMMA EndAskFollows ==
    ASSUME IInv, FInv, NEW e \in Enders, EndAsk(e)
    PROVE  FInv'
<1> DEFINE r == Head(enders[e].todo)
           reason == IF r \in slots /\ run[r].ended = None THEN enders[e].reason ELSE run[r].ended
           t == Asked(run[r], reason)
<1>1. UNCHANGED <<session, journal, outcomes>>
  BY DEF EndAsk, database
<1>2. CASE UNCHANGED run
  BY <1>1, <1>2, AsideFollows
<1>3. CASE /\ r \in Observing
           /\ run' = [run EXCEPT ![r].cancelled = TRUE,
                                 ![r].ended = IF r \in slots /\ @ = None THEN enders[e].reason
                                              ELSE @]
  <2>1. r \in Runs /\ DOMAIN run = Runs
    BY <1>3 DEF Observing, IInv, Shapes
  <2>2. OneRun(r) /\ run'[r] = t
    BY <1>1, <1>3, <2>1, FollowFacts DEF Asked, OneRun
  <2>3. DOMAIN run[r] = RunFields
    BY <2>1, FollowFacts
  <2> HIDE DEF r, reason
  <2>4. Twin(run[r], t) /\ t.pending = run[r].pending
    BY <2>3 DEF Twin, Asked, RunFields
  <2> HIDE DEF t
  <2> QED BY <1>1, <2>1, <2>2, <2>4, TwinKeepsFollowing
<1> QED BY <1>2, <1>3 DEF EndAsk

-----------------------------------------------------------------------------
(***************************************************************************)
(* A crash, and the next start.                                            *)
(***************************************************************************)

\* A crash keeps it: what was followed is gone, and nothing follows it any more.
LEMMA CrashFollows ==
    ASSUME IInv, FInv, Crash
    PROVE  FInv'
<1>1. /\ UNCHANGED <<journal, outcomes>> /\ session' = [session EXCEPT !.life = "GONE"]
      /\ run' = [r \in Runs |-> IF run[r].pc = "NONE" THEN NewRun
                                ELSE [NewRun EXCEPT !.pc = "DONE", !.failed = run[r].failed]]
  BY DEF Crash, database
<1>2. /\ session'.contested = session.contested /\ session'.seen = session.seen
      /\ session'.touch = session.touch
  BY <1>1 DEF IInv, SessionOk, SessionFields
<1>3. ASSUME NEW r \in Runs
      PROVE  FollowOk(run'[r], journal[r], outcomes[r], session')
  <2>1. FollowOk(run[r], journal[r], outcomes[r], session)
    BY FollowFacts
  <2>2. /\ run'[r].pending = <<>> /\ run'[r].watches = {} /\ run'[r].published = {}
        /\ \/ run[r].pc = "NONE" /\ run'[r].pc = "NONE"
           \/ run'[r].pc = "DONE"
    BY <1>1 DEF NewRun
  <2>3. session'.contested = {} => \A i \in DOMAIN journal[r] : ~Driver(journal[r][i])
    BY <1>2, <2>1 DEF FollowOk, Warned, Unwarned
  <2>4. run'[r].pc # "DONE" => outcomes[r] = <<>>
    BY <2>1, <2>2 DEF FollowOk
  <2>5. run'[r].pc \in {"NONE", "CREATING", "DONE"}
    BY <2>2
  <2> QED BY <2>2, <2>3, <2>4, <2>5, FreshFollows
<1> QED BY <1>1, <1>2, <1>3 DEF FInv, SeenOk

\* The final entry of a recovered run keeps it.
LEMMA RecoverAppendFollows ==
    ASSUME IInv, FInv, RecoverAppend
    PROVE  FInv'
<1>1. PICK todo \in recovery :
        /\ todo.phase = "APPEND"
        /\ journal' = [journal EXCEPT ![todo.run] =
              Appended(@, [Entry("RUN_ENDED", "interrupted", None)
                             EXCEPT !.seq = LastSequence(todo.run) + 1])]
        /\ UNCHANGED <<session, run, outcomes>>
  BY DEF RecoverAppend
<1> DEFINE r == todo.run
           e == [Entry("RUN_ENDED", "interrupted", None) EXCEPT !.seq = LastSequence(r) + 1]
           log == journal[r]
           new == Appended(log, e)
<1>2. r \in Runs /\ run[r].pc \in {"NONE", "DONE"} /\ r \in Observing
  BY DEF IInv, RecoveryOk, Observing
<1>3. run[r].pc = "DONE" /\ Journal(log)
  BY <1>2 DEF IInv, RunOk, RowOk, Observing
<1>4. OneRun(r) /\ run'[r] = run[r] /\ journal'[r] = new /\ outcomes'[r] = outcomes[r]
  BY <1>1, <1>2, FollowFacts DEF OneRun, IInv, Shapes
<1>5. /\ LastSequence(r) \in Nat /\ \A i \in DOMAIN log : log[i].seq <= LastSequence(r)
      /\ DOMAIN e = EntryFields /\ e.seq = LastSequence(r) + 1 /\ e.what = "RUN_ENDED"
  BY <1>3, LastSequenceFacts DEF Entry, EntryFields
<1>6. e.seq \in Nat /\ \A i \in DOMAIN log : log[i].seq < e.seq
  BY <1>3, <1>5 DEF Journal
<1> HIDE DEF e
<1>7. \A i \in DOMAIN new : \/ i \in DOMAIN log /\ new[i] = log[i]
                            \/ new[i] = e
  BY <1>3, <1>5, <1>6, AppendedFacts
<1> HIDE DEF new
<1>8. Unwarned(run[r], log) => Unwarned(run[r], new)
  BY <1>5, <1>7 DEF Unwarned, Driver
<1>9. FollowOk(run[r], log, outcomes[r], session)
  BY <1>2, FollowFacts
<1>10. Warned(run[r], new, session)
  BY <1>8, <1>9, WarnedStays DEF FollowOk
<1>11. FollowOk(run[r], new, outcomes[r], session)
  BY <1>3, <1>10 DEF FollowOk, Following
<1> QED BY <1>1, <1>2, <1>4, <1>11, OneRunFollows

-----------------------------------------------------------------------------
(***************************************************************************)
(* What corrections leave.                                                 *)
(***************************************************************************)

\* Nothing is followed before anything happened.
LEMMA NothingFollowed == Init => FInv
<1> SUFFICES ASSUME Init PROVE FInv
  OBVIOUS
<1>1. /\ run = [r \in Runs |-> NewRun] /\ journal = [r \in Runs |-> <<>>]
      /\ outcomes = [r \in Runs |-> <<>>]
      /\ session.seen = [k \in DOMAIN budget.touch |-> {}]
  BY DEF Init
<1>2. ASSUME NEW r \in Runs PROVE FollowOk(run[r], journal[r], outcomes[r], session)
  <2>1. run[r] = NewRun /\ journal[r] = <<>> /\ outcomes[r] = <<>>
    BY <1>1
  <2>2. /\ NewRun.pending = <<>> /\ NewRun.pc = "NONE" /\ NewRun.watches = {}
        /\ NewRun.published = {}
    BY DEF NewRun
  <2>3. \A i \in DOMAIN journal[r] : ~Driver(journal[r][i])
    BY <2>1
  <2> QED BY <2>1, <2>2, <2>3, FreshFollows
<1>3. SeenOk(session)
  BY <1>1 DEF SeenOk
<1> QED BY <1>1, <1>2, <1>3 DEF FInv

\* Every step of a handler keeps it.
LEMMA HandlersFollow ==
    ASSUME IInv, FInv,
           \/ Handlers
           \/ \E h \in Creators, key \in Keys : CreateAsk(h, key)
           \/ \E e \in Enders, r \in Runs : CancelAsk(e, r)
           \/ \E e \in Enders : ShutdownAsk(e)
    PROVE  FInv'
<1>1. CASE \E h \in Creators : CreateOpen(h) \/ CreateRow(h) \/ CreateOpened(h)
  BY <1>1, CreateOpenFollows, CreateRowFollows, CreateOpenedFollows
<1>2. CASE \E e \in Enders : EndAsk(e)
  BY <1>2, EndAskFollows
<1>3. CASE \E e \in Enders : ShutdownCollect(e) \/ EndReturn(e) \/ ShutdownAsk(e)
  BY <1>3, AsideFollows DEF ShutdownCollect, EndReturn, ShutdownAsk, database
<1>4. CASE \E h \in Creators, key \in Keys : CreateAsk(h, key)
  BY <1>4, AsideFollows DEF CreateAsk, database
<1>5. CASE \E e \in Enders, r \in Runs : CancelAsk(e, r)
  BY <1>5, AsideFollows DEF CancelAsk, database
<1> QED BY <1>1, <1>2, <1>3, <1>4, <1>5 DEF Handlers

\* Every step keeps what is followed in agreement with the corrections.
LEMMA FollowInvariant == Spec => []FInv
<1>1. IInv /\ FInv /\ [Next]_vars => FInv'
  <2> SUFFICES ASSUME IInv, FInv, [Next]_vars PROVE FInv'
    OBVIOUS
  <2>1. CASE Emit \/ SessionEnds
    BY <2>1, EmitFollows, SessionEndsFollows
  <2>2. CASE \E r \in Runs : Task(r) \/ StoreFails(r) \/ FinishFails(r)
    BY <2>2, TaskStartsFollows, TakeRecordFollows, EvaluateFollows, RunsOutFollows, WriteEntryFollows,
       PublishOutcomesFollows, FinishFollows, StoreFailsFollows DEF Task
  <2>3. CASE \/ Handlers
             \/ \E h \in Creators, key \in Keys : CreateAsk(h, key)
             \/ \E e \in Enders, r \in Runs : CancelAsk(e, r)
             \/ \E e \in Enders : ShutdownAsk(e)
    BY <2>3, HandlersFollow
  <2>4. CASE Crash \/ RecoverAppend
    BY <2>4, CrashFollows, RecoverAppendFollows
  <2>5. CASE RecoverClose
    BY <2>5, AsideFollows DEF RecoverClose
  <2>6. CASE UNCHANGED vars
    BY <2>6, AsideFollows DEF vars, database
  <2> QED BY <2>1, <2>2, <2>3, <2>4, <2>5, <2>6 DEF Next, Recover
<1> QED BY NothingFollowed, ShadowInvariant, <1>1, PTL DEF Spec

\* Once a correction of a driver candle is journalled and worked through, nothing it
\* contests stands as OBSERVED (_on_conflict, _invalidate): for any runs, limits and
\* sessions, as long as the store did not fail the run.
THEOREM CorrectionsHold == Spec => []ContestedNeverStands
<1>1. FInv => ContestedNeverStands
  <2> SUFFICES ASSUME FInv, NEW r \in Runs, NEW i \in DOMAIN journal[r],
                      Driver(journal[r][i]), run[r].pc \in {"LOOP", "CLOSE"}, ~run[r].failed,
                      NEW j \in Latest(outcomes[r]),
                      outcomes[r][j].development.state = "OBSERVED"
               PROVE  ~Contests(journal[r][i].marker, outcomes[r][j].at,
                                outcomes[r][j].development.to)
    BY DEF ContestedNeverStands, Driver
  <2>1. Settled(run[r], journal[r], outcomes[r])
    BY DEF FInv, FollowOk, Following
  <2>2. PICK p \in run[r].published :
           p.at = outcomes[r][j].at /\ p.to = outcomes[r][j].development.to
    BY <2>1 DEF Settled, Stands, StillPublished
  <2>3. ~Contests(journal[r][i].marker, p.at, p.to)
    BY <2>1 DEF Settled, Clear
  <2> QED BY <2>2, <2>3
<1> QED BY <1>1, FollowInvariant, PTL
=============================================================================
