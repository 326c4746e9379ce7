---------------------------- MODULE ReplayProofs ----------------------------
(***************************************************************************)
(* Proofs about Replay, for every dataset, every set of handlers, commands *)
(* and positions and every limit: a repeated command keeps its target, and *)
(* no bar of an advance is skipped for a position whose link it had read.  *)
(***************************************************************************)
EXTENDS Replay, PaperEngineProofs, FiniteSetTheorems

(***************************************************************************)
(* What a position has of a candle.                                        *)
(***************************************************************************)

\* The position ended before this candle.
ClosedBefore(p, candle) ==
    /\ p.state \in Terminal
    /\ p.lastBar = None \/ p.lastBar < candle.time

\* The position has the candle, or need not have it.
Handled(p, candle) ==
    candle.time >= p.spec.decision /\ ~ClosedBefore(p, candle) => Applied(p, candle)

\* q is p or a later state of it, as far as candles are concerned.
Grows(p, q) ==
    Good(q) /\ q.spec = p.spec /\ \A candle : Handled(p, candle) => Handled(q, candle)

\* A ledger that continues another records every bar the other does.
LEMMA AppliedContinues ==
    ASSUME NEW p, NEW q, IsLedger(p.events), IsLedger(q.events),
           Continues(p.events, q.events), NEW candle, Applied(p, candle)
    PROVE  Applied(q, candle)
<1>1. DOMAIN p.events = 1..Len(p.events) /\ DOMAIN q.events = 1..Len(q.events)
  BY DEF IsLedger
<1>2. PICK i \in DOMAIN p.events :
        /\ p.events[i].type = "OBSERVATION_APPLIED" /\ p.events[i].time = candle.time
        /\ p.events[i].data = candle
  BY DEF Applied, AppliedBars
<1>3. i \in DOMAIN q.events /\ q.events[i] = p.events[i]
  BY <1>1 DEF Continues
<1> QED
  BY <1>2, <1>3 DEF Applied, AppliedBars

\* A position whose ledger continues and that was not yet over, or did not
\* change, has every candle it had.
LEMMA LedgerGrows ==
    ASSUME NEW p, NEW q, Shaped(p), Shaped(q), Good(q), q.spec = p.spec,
           Continues(p.events, q.events), p.state \notin Terminal
    PROVE  Grows(p, q)
<1> SUFFICES ASSUME NEW candle, Handled(p, candle) PROVE Handled(q, candle)
  BY DEF Grows
<1>1. ~ClosedBefore(p, candle)
  BY DEF ClosedBefore
<1>2. Applied(p, candle) => Applied(q, candle)
  BY AppliedContinues DEF Shaped
<1> QED
  BY <1>1, <1>2 DEF Handled

\* A position is a later state of itself.
LEMMA GrowsSelf ==
    ASSUME NEW p, Good(p)
    PROVE  Grows(p, p)
  BY DEF Grows

\* A well-formed position has the fields and the ledger of one.
LEMMA GoodIsShaped ==
    ASSUME NEW p, Good(p)
    PROVE  Shaped(p)
<1>1. p \in Builders
  BY DEF Good, PaperPositions
<1> QED
  BY <1>1 DEF Shaped, Fields, IsLedger, Builders

\* A bar leaves every candle the position had.
LEMMA ObservedGrows ==
    ASSUME NEW p, Good(p), NEW bar \in Bar, NEW q, q = ApplyObservation(p, bar).position
    PROVE  Grows(p, q)
<1>1. Good(q) /\ q.spec = p.spec
  BY ObservationKeepsGood
<1>2. CASE q = p
  BY <1>2, GrowsSelf
<1>3. CASE q = Process(p, bar) /\ p.state \notin Terminal
  <2>1. Shaped(p) /\ Shaped(q)
    BY <1>1, GoodIsShaped
  <2>2. Continues(p.events, q.events)
    BY <1>3, <2>1, ProcessAdds DEF Extends
  <2> QED
    BY <1>1, <1>3, <2>1, <2>2, LedgerGrows
<1>4. Result(OK, Process(p, bar)).position = Process(p, bar)
  BY DEF Result
<1> QED
  BY <1>2, <1>3, <1>4, ObservationCases

\* So does a command.
LEMMA CommandGrows ==
    ASSUME NEW p, Good(p), NEW kind \in CommandKinds, NEW q, q = ApplyCommand(p, kind).position
    PROVE  Grows(p, q)
<1>1. Good(q) /\ q.spec = p.spec
  BY CommandsKeepGood DEF ApplyCommand, CommandKinds
<1>2. CASE q = p
  BY <1>2, GrowsSelf
<1>3. CASE q # p
  <2>1. Shaped(p) /\ Shaped(q)
    BY <1>1, GoodIsShaped
  <2>2. PICK type, t : Told(p, q, type, t)
    BY <1>3, <2>1, CommandCases
  <2>3. p.state \notin Terminal
    BY <1>3, <2>1, CommandCases DEF Exposed, Terminal
  <2>4. Continues(p.events, q.events)
    BY <2>1, <2>2, AppendToLedger DEF Told, Shaped
  <2> QED
    BY <1>1, <2>1, <2>3, <2>4, LedgerGrows
<1> QED
  BY <1>2, <1>3

\* The answer to a bar that the feed accepts: the position has the candle, or
\* had ended before it.  The exit guards being dead code, INVALID_TRANSITION
\* comes only from a position that is over.
LEMMA Delivered ==
    ASSUME NEW p, Good(p), NEW bar \in Bar, ValidBar(bar),
           NEW r, r = ApplyObservation(p, bar), r.code \in {OK, "INVALID_TRANSITION"}
    PROVE  Handled(r.position, bar)
<1> USE DEF OK
<1>1. Shaped(p) /\ p.lastBar \in Int \cup {None} /\ bar.time \in Int
  <2>1. p \in Builders
    BY DEF Good, PaperPositions
  <2> QED
    BY <2>1, GoodIsShaped DEF Builders, Bar
<1>2. CASE p.lastBar # None /\ bar.time <= p.lastBar
  <2>1. r = AgainstRecord(p, bar)
    BY <1>2 DEF ApplyObservation
  <2>2. bar \in AppliedBars(p, bar.time) /\ r.position = p
    BY <2>1 DEF AgainstRecord, Result
  <2> QED
    BY <2>2 DEF Handled, Applied
<1>3. CASE ~(p.lastBar # None /\ bar.time <= p.lastBar)
  <2>1. CASE p.state \in Terminal
    <3>1. r.position = p
      BY <2>1, ObservationCases, Zenon
    <3>2. ClosedBefore(p, bar)
      BY <1>1, <1>3, <2>1, PaperConstants DEF ClosedBefore
    <3> QED
      BY <3>1, <3>2 DEF Handled
  <2>2. CASE p.state \notin Terminal
    <3>1. r = Unraised(p, Process(p, bar))
      BY <1>3, <2>2 DEF ApplyObservation, Result
    <3>2. Process(p, bar).error \in {OK, "FILL_NOT_POSITIVE"}
      BY <2>2, ProcessKeepsUnits DEF Soft
    <3>3. r.position = Process(p, bar)
      BY <3>1, <3>2 DEF Unraised, Result
    <3> DEFINE noted == Emit(p, "OBSERVATION_APPLIED", bar.time, bar)
               e == Event("OBSERVATION_APPLIED", bar.time, bar)
    <3>4. /\ Shaped(noted) /\ noted.events = Append(p.events, e)
          /\ Extends(noted, Process(p, bar), bar.time, Derived)
      BY <1>1, ProcessExtends
    <3>5. /\ Shaped(Process(p, bar)) /\ Continues(noted.events, Process(p, bar).events)
      BY <3>4 DEF Extends
    <3>6. Applied(noted, bar)
      <4>1. /\ Len(noted.events) \in Nat /\ Len(noted.events) = Len(p.events) + 1
            /\ noted.events[Len(noted.events)] = e /\ Len(p.events) \in Nat
        BY <1>1, <3>4, AppendToLedger DEF Shaped, Continues
      <4>2. DOMAIN noted.events = 1..Len(noted.events)
        BY <3>4 DEF Shaped, IsLedger
      <4>3. e.type = "OBSERVATION_APPLIED" /\ e.time = bar.time /\ e.data = bar
        BY DEF Event
      <4>4. Len(noted.events) \in DOMAIN noted.events
        BY <4>1, <4>2
      <4> HIDE DEF noted, e
      <4> QED
        BY <4>1, <4>3, <4>4 DEF Applied, AppliedBars
    <3>7. Applied(Process(p, bar), bar)
      <4> HIDE DEF noted
      <4> QED
        BY <3>4, <3>5, <3>6, AppliedContinues DEF Shaped
    <3> QED
      BY <3>3, <3>7 DEF Handled
  <2> QED
    BY <2>1, <2>2
<1> QED
  BY <1>2, <1>3

-----------------------------------------------------------------------------
(***************************************************************************)
(* The cursor.                                                             *)
(***************************************************************************)

\* A session row: its cursor stands at the end of its last revealed candle,
\* and the command that moved it last does not aim beyond the data.
SessionOK(s) ==
    /\ s \in SessionRows
    /\ s.revealed \in 1..Len(Candles)
    /\ s.asOf = CoverageEnd(Candles[s.revealed])
    /\ s.state = "END_OF_DATASET" <=> s.revealed = Len(Candles)
    /\ s.key # None => /\ s.target \in Int /\ s.target <= Len(Candles)
                       /\ s.revealed <= s.target

\* A start that start_cursor accepts.
InData(start) ==
    /\ ~(start < CoverageEnd(Candles[1]))
    /\ ~(start > CoverageEnd(Candles[Len(Candles)]))

\* The candles are bars in order, each covered before the next begins.
LEMMA CandleFacts ==
    /\ Candles # <<>> /\ Len(Candles) \in Nat \ {0} /\ DOMAIN Candles = 1..Len(Candles)
    /\ \A i \in 1..Len(Candles) :
          /\ Candles[i] \in Bar /\ ValidBar(Candles[i])
          /\ Candles[i].time \in Int /\ CoverageEnd(Candles[i]) \in Int
          /\ Candles[i].time < CoverageEnd(Candles[i])
    /\ Interval \in Nat \ {0}
<1>1. Interval \in Nat \ {0}
  BY PaperConstants
<1>2. /\ Candles # <<>> /\ Candles \in Seq(Bar)
      /\ \A i \in DOMAIN Candles : ValidBar(Candles[i])
  BY ReplayConstants
<1>3. Len(Candles) \in Nat \ {0} /\ DOMAIN Candles = 1..Len(Candles)
  BY <1>2
<1>4. \A bar \in Bar : bar.time \in Int
  BY DEF Bar
<1> QED
  BY <1>1, <1>2, <1>3, <1>4 DEF CoverageEnd

\* A start inside the data has revealed at least one candle and at most all.
LEMMA RevealedInData ==
    ASSUME NEW start \in Int, InData(start)
    PROVE  RevealedCount(start) \in 1..Len(Candles)
<1> DEFINE S == {i \in DOMAIN Candles : CoverageEnd(Candles[i]) <= start}
<1>1. IsFiniteSet(1..Len(Candles)) /\ Cardinality(1..Len(Candles)) = Len(Candles)
  <2>1. \A n \in Nat \ {0} : IsFiniteSet(1..n) /\ Cardinality(1..n) = n
    BY FS_Interval
  <2> QED
    BY <2>1, CandleFacts
<1>2. S \subseteq 1..Len(Candles)
  BY CandleFacts
<1>3. IsFiniteSet(S) /\ Cardinality(S) \in Nat /\ Cardinality(S) <= Len(Candles)
  BY <1>1, <1>2, FS_Subset, FS_CardinalityType
<1>4. 1 \in S
  BY CandleFacts DEF InData
<1>5. Cardinality(S) # 0
  BY <1>3, <1>4, FS_EmptySet
<1> QED
  BY <1>3, <1>5 DEF RevealedCount

\* create_session writes a row whose cursor stands in the data.
LEMMA StartOK ==
    ASSUME NEW request \in Creates, InData(request.start)
    PROVE  /\ SessionOK(StartCursor(request))
           /\ StartCursor(request).version = 1 /\ StartCursor(request).key = None
<1> DEFINE count == RevealedCount(request.start)
<1>1. count \in 1..Len(Candles)
  BY RevealedInData, ReplayConstants
<1>2. StartCursor(request) =
        [request |-> Fingerprint(request), asOf |-> CoverageEnd(Candles[count]),
         revealed |-> count, state |-> Status(count, "READY"), version |-> 1,
         key |-> None, target |-> None]
  BY DEF StartCursor
<1>3. Fingerprint(request) \in Requested
  BY DEF Requested
<1>4. CoverageEnd(Candles[count]) \in Int /\ count \in Nat /\ Len(Candles) \in Nat
  BY <1>1, CandleFacts
<1>5. /\ Status(count, "READY") \in {"READY", "IN_PROGRESS", "END_OF_DATASET"}
      /\ Status(count, "READY") = "END_OF_DATASET" <=> count = Len(Candles)
  BY <1>1, <1>4 DEF Status
<1> HIDE DEF count
<1> QED
  BY <1>1, <1>2, <1>3, <1>4, <1>5 DEF SessionOK, SessionRows

\* The row an advance writes over s: one more candle, the command's key and the
\* target it was given.
Advanced(s, key, target) ==
    [StepCursor(s) EXCEPT !.key = key, !.target = IF key = None THEN None ELSE target]

\* A row with candles left, and a target beyond its cursor and in the data.
Plannable(s, target) ==
    /\ SessionOK(s) /\ s.revealed < Len(Candles)
    /\ target \in Int /\ target <= Len(Candles) /\ s.revealed < target

Follows(s, n, key, target) ==
    /\ SessionOK(n) /\ n.version = s.version + 1 /\ n.revealed = s.revealed + 1
    /\ n.key = key /\ (key # None => n.target = target)
    /\ StepCursor(s).revealed = s.revealed + 1
    /\ StepCursor(s).asOf = CoverageEnd(Candles[s.revealed + 1])

\* It is a row again, one candle and one version on.
LEMMA AdvancedOK ==
    ASSUME NEW s, NEW target, Plannable(s, target), NEW key \in StepKeys \cup {None},
           NEW n, n = Advanced(s, key, target)
    PROVE  Follows(s, n, key, target)
<1> USE DEF Plannable, Follows
<1> DEFINE count == s.revealed + 1
           aim == IF key = None THEN None ELSE target
           state == Status(count, "IN_PROGRESS")
<1>1. /\ s \in SessionRows /\ s.revealed \in 1..Len(Candles) /\ s.version \in Nat
      /\ Len(Candles) \in Nat
  BY CandleFacts DEF SessionOK, SessionRows
<1>2. count \in 1..Len(Candles) /\ count \in Nat
  BY <1>1
<1>3. CoverageEnd(Candles[count]) \in Int
  BY <1>2, CandleFacts
<1>4. state \in {"READY", "IN_PROGRESS", "END_OF_DATASET"}
  BY DEF Status
<1>10. state = "END_OF_DATASET" <=> count = Len(Candles)
  BY <1>1, <1>2 DEF Status
<1>5. StepCursor(s) = [s EXCEPT !.asOf = CoverageEnd(Candles[count]), !.revealed = count,
                                !.state = state, !.version = s.version + 1]
  BY DEF StepCursor
<1>6. aim \in Int \cup {None} /\ (key # None => aim = target)
  OBVIOUS
<1> HIDE DEF count, state, aim
<1>7. /\ StepCursor(s) \in SessionRows
      /\ StepCursor(s).asOf = CoverageEnd(Candles[count]) /\ StepCursor(s).revealed = count
      /\ StepCursor(s).state = state /\ StepCursor(s).version = s.version + 1
  <2> DEFINE ends == CoverageEnd(Candles[count])
             version == s.version + 1
  <2>1. ends \in Int /\ version \in Nat
    BY <1>1, <1>3
  <2>2. StepCursor(s) = [s EXCEPT !.asOf = ends, !.revealed = count,
                                  !.state = state, !.version = version]
    BY <1>5
  <2> HIDE DEF ends, version
  <2>3. /\ StepCursor(s) \in SessionRows
        /\ StepCursor(s).asOf = ends /\ StepCursor(s).revealed = count
        /\ StepCursor(s).state = state /\ StepCursor(s).version = version
    BY <1>1, <1>2, <1>4, <2>1, <2>2 DEF SessionRows
  <2> QED
    BY <2>3 DEF ends, version
<1>8. n = [StepCursor(s) EXCEPT !.key = key, !.target = aim]
  BY DEF Advanced, aim
<1>9. /\ n \in SessionRows
      /\ n.asOf = CoverageEnd(Candles[count]) /\ n.revealed = count
      /\ n.state = state /\ n.version = s.version + 1 /\ n.key = key /\ n.target = aim
  BY <1>6, <1>7, <1>8 DEF SessionRows
<1> QED
  <2>1. count <= target
    BY <1>1 DEF count
  <2> QED
    BY <1>2, <1>10, <1>6, <1>7, <1>9, <2>1 DEF SessionOK, count

(***************************************************************************)
(* What a handler holds against the session row s.                         *)
(***************************************************************************)
HandlerFields == {"command", "pc", "session", "left", "target", "links", "fed", "answer"}

CreatePcs == {"find", "save dataset", "insert", "find winner"}
StepPcs == {"load", "links", "feed"}
OpenPcs == {"load to open", "count links", "create", "link"}

\* The program counter and the request belong together.
Asked(h) ==
    /\ DOMAIN h = HandlerFields
    /\ h.pc \in {"idle"} \cup CreatePcs \cup StepPcs \cup OpenPcs
    /\ h.pc \in CreatePcs => h.command.op = "CREATE" /\ h.command.request \in Creates
    /\ h.pc \in StepPcs => h.command.op = "STEP" /\ h.command.step \in StepCommands
    /\ h.pc \in OpenPcs => h.command.op = "OPEN" /\ h.command.key \in OpenKeys

\* An advance holds a row that was committed, which is the current one exactly
\* if the versions agree, and plans to stop inside the data; the repeat of the
\* command that moved the row last plans to stop where that command does.
Advancing(h, s) ==
    /\ SessionOK(h.session) /\ h.session.version <= s.version
    /\ h.session.version = s.version => h.session = s
    /\ h.left \in Int /\ h.left >= 1
    /\ h.target = h.session.revealed + h.left /\ h.target <= Len(Candles)
    /\ h.session = s /\ s.key # None /\ h.command.step.key = s.key => h.target = s.target

Sane(h, s) ==
    /\ Asked(h)
    /\ h.pc \in StepPcs \cup OpenPcs => s # None
    /\ h.pc = "insert" => InData(h.command.request.start)
    /\ h.pc \in {"links", "feed"} => Advancing(h, s)

CursorInv ==
    /\ DOMAIN work = Tabs
    /\ session # None => SessionOK(session)
    /\ \A t \in Tabs : Sane(work[t], session)

\* An answer frees its handler and touches no other.
LEMMA AnswerFrees ==
    ASSUME DOMAIN work = Tabs, NEW t \in Tabs, NEW code
    PROVE  /\ DOMAIN Answer(t, code) = Tabs
           /\ Answer(t, code)[t].pc = "idle" /\ DOMAIN Answer(t, code)[t] = HandlerFields
           /\ \A u \in Tabs \ {t} : Answer(t, code)[u] = work[u]
  BY DEF Answer, Idle, HandlerFields

\* A free handler holds nothing against any row.
LEMMA FreeIsSane ==
    ASSUME NEW h, DOMAIN h = HandlerFields, h.pc = "idle", NEW s
    PROVE  Sane(h, s)
  BY DEF Sane, Asked, StepPcs, OpenPcs, CreatePcs

\* What a handler holds stays true of the row when the row moves on.
LEMMA SaneMoved ==
    ASSUME NEW h, NEW s, Sane(h, s), NEW n, SessionOK(n),
           s # None => SessionOK(s) /\ n.version = s.version + 1
    PROVE  Sane(h, n)
<1>1. n # None
  BY NoneIsNoRow DEF SessionOK
<1>2. h.pc \in {"links", "feed"} => Advancing(h, n)
  <2> SUFFICES ASSUME h.pc \in {"links", "feed"} PROVE Advancing(h, n)
    OBVIOUS
  <2>1. s # None /\ Advancing(h, s)
    BY DEF Sane, StepPcs
  <2>2. /\ n.version \in Nat /\ s.version \in Nat /\ h.session.version \in Nat
        /\ n.version = s.version + 1
    BY <2>1 DEF SessionOK, SessionRows, Advancing
  <2>3. h.session.version < n.version
    BY <2>1, <2>2 DEF Advancing
  <2>4. h.session # n
    BY <2>2, <2>3
  <2> QED
    BY <2>1, <2>2, <2>3, <2>4 DEF Advancing
<1> QED
  BY <1>1, <1>2 DEF Sane

\* A jump to another point of the code keeps what the handler holds.
LEMMA GotoMoves ==
    ASSUME DOMAIN work = Tabs, NEW t \in Tabs, DOMAIN work[t] = HandlerFields, NEW pc,
           work' = Goto(t, pc)
    PROVE  /\ DOMAIN work' = Tabs
           /\ work'[t].pc = pc /\ DOMAIN work'[t] = HandlerFields
           /\ work'[t].command = work[t].command /\ work'[t].session = work[t].session
           /\ work'[t].left = work[t].left /\ work'[t].target = work[t].target
           /\ work'[t].links = work[t].links /\ work'[t].fed = work[t].fed
           /\ \A u \in Tabs \ {t} : work'[u] = work[u]
  BY DEF Goto, HandlerFields

\* A step of one handler that leaves the row alone need only account for what
\* that handler then holds.
LEMMA HandlerKeepsCursor ==
    ASSUME CursorInv, NEW t \in Tabs, session' = session, DOMAIN work' = Tabs,
           \A u \in Tabs \ {t} : work'[u] = work[u],
           Sane(work'[t], session)
    PROVE  CursorInv'
  BY DEF CursorInv

\* A jump among the steps of creating a session.
LEMMA GotoKeepsCursor ==
    ASSUME CursorInv, NEW t \in Tabs, session' = session, NEW pc \in CreatePcs,
           work[t].pc \in CreatePcs, work' = Goto(t, pc),
           pc = "insert" => InData(work[t].command.request.start)
    PROVE  CursorInv'
<1>1. DOMAIN work = Tabs /\ DOMAIN work[t] = HandlerFields /\ Asked(work[t])
  BY DEF CursorInv, Sane, Asked
<1>2. /\ DOMAIN work' = Tabs /\ \A u \in Tabs \ {t} : work'[u] = work[u]
      /\ work'[t].pc = pc /\ DOMAIN work'[t] = HandlerFields
      /\ work'[t].command = work[t].command
  BY <1>1, GotoMoves
<1>3. Sane(work'[t], session)
  BY <1>1, <1>2 DEF Sane, Asked, CreatePcs, StepPcs, OpenPcs
<1> QED
  BY <1>2, <1>3, HandlerKeepsCursor

\* In particular a step that answers.
LEMMA AnswerKeepsCursor ==
    ASSUME CursorInv, NEW t \in Tabs, session' = session, NEW code,
           work' = Answer(t, code)
    PROVE  CursorInv'
<1>1. DOMAIN work = Tabs
  BY DEF CursorInv
<1>2. Sane(work'[t], session)
  BY <1>1, AnswerFrees, FreeIsSane
<1> QED
  BY <1>1, <1>2, AnswerFrees, HandlerKeepsCursor

\* A request is received.
LEMMA ReceiveKeepsCursor ==
    ASSUME CursorInv, NEW t \in Tabs, NEW command, Receive(t, command),
           \/ command.op = "CREATE" /\ command.request \in Creates
           \/ command.op = "STEP" /\ command.step \in StepCommands /\ session # None
           \/ command.op = "OPEN" /\ command.key \in OpenKeys /\ session # None
    PROVE  /\ CursorInv' /\ DOMAIN work' = Tabs
           /\ \A u \in Tabs \ {t} : work'[u] = work[u]
           /\ work'[t].pc = IF command.op = "CREATE" THEN "find"
                            ELSE IF command.op = "STEP" THEN "load" ELSE "load to open"
<1> DEFINE pc == CASE command.op = "CREATE" -> "find"
                   [] command.op = "STEP" -> "load"
                   [] command.op = "OPEN" -> "load to open"
<1>1. DOMAIN work = Tabs /\ DOMAIN work[t] = HandlerFields
  BY DEF CursorInv, Sane, Asked
<1>2. work' = [work EXCEPT ![t].command = command, ![t].answer = None, ![t].pc = pc]
  BY DEF Receive
<1>3. pc = IF command.op = "CREATE" THEN "find"
           ELSE IF command.op = "STEP" THEN "load" ELSE "load to open"
  OBVIOUS
<1> HIDE DEF pc
<1>4. /\ DOMAIN work' = Tabs /\ \A u \in Tabs \ {t} : work'[u] = work[u]
      /\ DOMAIN work'[t] = HandlerFields /\ work'[t].pc = pc /\ work'[t].command = command
  BY <1>1, <1>2 DEF HandlerFields
<1>5. Sane(work'[t], session)
  BY <1>3, <1>4 DEF Sane, Asked, CreatePcs, StepPcs, OpenPcs
<1>6. session' = session
  BY DEF Receive
<1> QED
  BY <1>3, <1>4, <1>5, <1>6, HandlerKeepsCursor

\* Creating a session.
LEMMA CreateKeepsCursor ==
    ASSUME CursorInv, NEW t \in Tabs,
           Create(t) \/ FindByKey(t) \/ SaveDataset(t) \/ FindWinner(t)
    PROVE  CursorInv' /\ session' = session
<1>1. DOMAIN work = Tabs /\ DOMAIN work[t] = HandlerFields /\ Sane(work[t], session)
  BY DEF CursorInv, Sane, Asked
<1>2. CASE Create(t)
  <2>1. PICK request \in Creates : Receive(t, [op |-> "CREATE", request |-> request])
    BY <1>2 DEF Create
  <2>2. session' = session
    BY <2>1 DEF Receive
  <2> QED
    BY <2>1, <2>2, ReceiveKeepsCursor
<1>3. CASE FindByKey(t)
  <2>1. session' = session /\ work[t].pc = "find"
    BY <1>3 DEF FindByKey, At
  <2>2. (\E code : work' = Answer(t, code)) \/ work' = Goto(t, "save dataset")
    BY <1>3, Zenon DEF FindByKey
  <2>3. CASE work' = Goto(t, "save dataset")
    BY <2>1, <2>3, GotoKeepsCursor DEF CreatePcs
  <2> QED
    BY <2>1, <2>2, <2>3, AnswerKeepsCursor
<1>4. CASE SaveDataset(t)
  <2> DEFINE start == work[t].command.request.start
  <2>1. session' = session /\ work[t].pc = "save dataset"
    BY <1>4 DEF SaveDataset, At
  <2>2. \/ \E code : work' = Answer(t, code)
        \/ work' = Goto(t, "insert") /\ InData(start)
    BY <1>4, Zenon DEF SaveDataset, InData
  <2>3. CASE work' = Goto(t, "insert") /\ InData(start)
    BY <2>1, <2>3, GotoKeepsCursor DEF CreatePcs
  <2> QED
    BY <2>1, <2>2, <2>3, AnswerKeepsCursor
<1>5. CASE FindWinner(t)
  BY <1>5, AnswerKeepsCursor DEF FindWinner
<1> QED
  BY <1>2, <1>3, <1>4, <1>5

\* Inserting it: the winner writes the first row, the loser looks for it.
LEMMA InsertKeepsCursor ==
    ASSUME CursorInv, NEW t \in Tabs, InsertSession(t)
    PROVE  CursorInv' /\ (session # None => session' = session)
<1>1. DOMAIN work = Tabs /\ DOMAIN work[t] = HandlerFields /\ Sane(work[t], session)
  BY DEF CursorInv, Sane, Asked
<1>2. work[t].pc = "insert"
  BY DEF InsertSession, At
<1>3. CASE session # None
  <2>1. work' = Goto(t, "find winner") /\ session' = session
    BY <1>3 DEF InsertSession
  <2> QED
    BY <1>2, <2>1, GotoKeepsCursor DEF CreatePcs
<1>4. CASE session = None
  <2> DEFINE request == work[t].command.request
  <2>1. work' = Answer(t, OK) /\ session' = StartCursor(request)
    BY <1>4 DEF InsertSession
  <2>2. request \in Creates /\ InData(request.start)
    BY <1>1, <1>2 DEF Sane, Asked, CreatePcs
  <2>3. SessionOK(session')
    BY <2>1, <2>2, StartOK
  <2>4. \A u \in Tabs : Sane(work[u], session) => Sane(work[u], session')
    BY <1>4, <2>3, SaneMoved
  <2>5. DOMAIN work' = Tabs /\ \A u \in Tabs \ {t} : work'[u] = work[u]
    BY <1>1, <2>1, AnswerFrees
  <2>6. Sane(work'[t], session')
    BY <1>1, <2>1, AnswerFrees, FreeIsSane
  <2> QED
    BY <1>4, <2>3, <2>4, <2>5, <2>6 DEF CursorInv
<1> QED
  BY <1>3, <1>4

\* Planning an advance: a repeat of the last command plans the rest of it, any
\* other command its own steps, and neither plans beyond the data.
LEMMA PlanFacts ==
    ASSUME NEW s, SessionOK(s), NEW command \in StepCommands, ~(command.steps < 1),
           ~(Repeats(s, command) /\ s.revealed >= s.target), s.state # "END_OF_DATASET",
           NEW remaining, remaining = Remaining(s, command),
           NEW left, left = IF remaining <= Len(Candles) - s.revealed
                            THEN remaining ELSE Len(Candles) - s.revealed
    PROVE  /\ left \in Int /\ left >= 1 /\ s.revealed + left <= Len(Candles)
           /\ s.key # None /\ command.key = s.key => s.revealed + left = s.target
<1>1. /\ s.revealed \in Int /\ s.revealed <= Len(Candles) /\ s.revealed # Len(Candles)
      /\ Len(Candles) \in Int
  BY CandleFacts DEF SessionOK
<1>2. command.steps \in Int
  BY ReplayConstants
<1>3. CASE Repeats(s, command)
  <2>1. s.key # None /\ s.target \in Int /\ s.target <= Len(Candles)
    BY <1>3 DEF Repeats, SessionOK
  <2>2. remaining = s.target - s.revealed
    BY <1>3 DEF Remaining
  <2> QED
    BY <1>1, <1>3, <2>1, <2>2
<1>4. CASE ~Repeats(s, command)
  <2>1. remaining = command.steps
    BY <1>4 DEF Remaining
  <2>2. ~(s.key # None /\ command.key = s.key)
    BY <1>4 DEF Repeats
  <2> QED
    BY <1>1, <1>2, <2>1, <2>2
<1> QED
  BY <1>3, <1>4

\* What loading the row for an advance leaves: an answer, or the row and a plan.
LEMMA LoadEffect ==
    ASSUME CursorInv, NEW t \in Tabs, LoadToStep(t)
    PROVE  /\ session' = session /\ positions' = positions /\ links' = links
           /\ work[t].pc = "load" /\ DOMAIN work' = Tabs
           /\ \A u \in Tabs \ {t} : work'[u] = work[u]
           /\ \/ \E code : work' = Answer(t, code)
              \/ work'[t].pc = "links" /\ Sane(work'[t], session)
<1>1. DOMAIN work = Tabs /\ DOMAIN work[t] = HandlerFields /\ Asked(work[t])
  BY DEF CursorInv, Sane, Asked
<1>2. /\ session' = session /\ positions' = positions /\ links' = links
      /\ work[t].pc = "load"
  BY DEF LoadToStep, At
<1>3. work[t].command.op = "STEP" /\ work[t].command.step \in StepCommands
  BY <1>1, <1>2 DEF Asked, StepPcs
<1>4. session # None /\ SessionOK(session)
  BY <1>2 DEF CursorInv, Sane, StepPcs
<1> DEFINE command == work[t].command.step
           remaining == Remaining(session, command)
           left == IF remaining <= Len(Candles) - session.revealed
                   THEN remaining ELSE Len(Candles) - session.revealed
           planned == [Goto(t, "links") EXCEPT ![t].session = session, ![t].left = left,
                                               ![t].target = session.revealed + left]
<1>5. \/ \E code : work' = Answer(t, code)
      \/ /\ work' = planned /\ ~(command.steps < 1) /\ session.state # "END_OF_DATASET"
         /\ ~(Repeats(session, command) /\ session.revealed >= session.target)
  BY Zenon DEF LoadToStep
<1>6. CASE \E code : work' = Answer(t, code)
  BY <1>1, <1>2, <1>6, AnswerFrees
<1>7. CASE /\ work' = planned /\ ~(command.steps < 1) /\ session.state # "END_OF_DATASET"
           /\ ~(Repeats(session, command) /\ session.revealed >= session.target)
  <2>1. /\ left \in Int /\ left >= 1 /\ session.revealed + left <= Len(Candles)
        /\ session.key # None /\ command.key = session.key =>
              session.revealed + left = session.target
    BY <1>3, <1>4, <1>7, PlanFacts
  <2> DEFINE target == session.revealed + left
  <2>2. work' = [Goto(t, "links") EXCEPT ![t].session = session, ![t].left = left,
                                         ![t].target = target]
    BY <1>7
  <2> HIDE DEF left, target
  <2>3. /\ DOMAIN work' = Tabs /\ \A u \in Tabs \ {t} : work'[u] = work[u]
        /\ DOMAIN work'[t] = HandlerFields /\ work'[t].pc = "links"
        /\ work'[t].command = work[t].command /\ work'[t].session = session
        /\ work'[t].left = left /\ work'[t].target = target
    BY <1>1, <2>2 DEF Goto, HandlerFields
  <2>4. Advancing(work'[t], session)
    <3>1. session.version <= session.version
      BY <1>4 DEF SessionOK, SessionRows
    <3> QED
      BY <1>4, <2>1, <2>3, <3>1 DEF Advancing, target
  <2>5. Sane(work'[t], session)
    BY <1>1, <1>2, <1>4, <2>3, <2>4 DEF Sane, Asked, CreatePcs, StepPcs, OpenPcs
  <2> QED
    BY <1>2, <2>3, <2>5
<1> QED
  BY <1>5, <1>6, <1>7

\* Reading the links.
LEMMA LinksEffect ==
    ASSUME CursorInv, NEW t \in Tabs, ReadLinks(t)
    PROVE  /\ session' = session /\ positions' = positions /\ links' = links
           /\ work[t].pc = "links" /\ DOMAIN work' = Tabs
           /\ \A u \in Tabs \ {t} : work'[u] = work[u]
           /\ work'[t].pc = "feed" /\ Sane(work'[t], session)
           /\ work'[t].links = links /\ work'[t].fed = 0
<1>1. DOMAIN work = Tabs /\ DOMAIN work[t] = HandlerFields /\ Sane(work[t], session)
  BY DEF CursorInv, Sane, Asked
<1>2. /\ session' = session /\ positions' = positions /\ links' = links
      /\ work[t].pc = "links"
      /\ work' = [Goto(t, "feed") EXCEPT ![t].links = links, ![t].fed = 0]
  BY DEF ReadLinks, At
<1>3. /\ DOMAIN work' = Tabs /\ \A u \in Tabs \ {t} : work'[u] = work[u]
      /\ DOMAIN work'[t] = HandlerFields /\ work'[t].pc = "feed"
      /\ work'[t].command = work[t].command /\ work'[t].session = work[t].session
      /\ work'[t].left = work[t].left /\ work'[t].target = work[t].target
      /\ work'[t].links = links /\ work'[t].fed = 0
  BY <1>1, <1>2 DEF Goto, HandlerFields
<1>4. Advancing(work[t], session)
  BY <1>1, <1>2 DEF Sane
<1>5. Advancing(work'[t], session)
  BY <1>3, <1>4 DEF Advancing
<1>6. Sane(work'[t], session)
  BY <1>1, <1>2, <1>3, <1>5 DEF Sane, Asked, CreatePcs, StepPcs, OpenPcs
<1> QED
  BY <1>2, <1>3, <1>6

\* Feeding one position the candle after the row's cursor.
LEMMA FeedEffect ==
    ASSUME CursorInv, NEW t \in Tabs, Feed(t)
    PROVE  LET h == work[t]
               id == h.links[h.fed + 1]
               candle == Candles[h.session.revealed + 1]
               r == ApplyObservation(positions[id], candle)
           IN  /\ session' = session /\ links' = links
               /\ h.pc = "feed" /\ h.fed + 1 <= Len(h.links) /\ Advancing(h, session)
               /\ h.session.revealed + 1 \in 1..Len(Candles)
               /\ positions' = [positions EXCEPT ![id] = r.position]
               /\ DOMAIN work' = Tabs /\ \A u \in Tabs \ {t} : work'[u] = work[u]
               /\ \/ \E code : work' = Answer(t, code)
                  \/ /\ r.code \in {OK, "INVALID_TRANSITION"}
                     /\ work'[t].pc = "feed" /\ Sane(work'[t], session)
                     /\ work'[t].links = h.links /\ work'[t].fed = h.fed + 1
                     /\ work'[t].session = h.session
<1> DEFINE h == work[t]
           next == h.fed + 1
           id == h.links[next]
           candle == Candles[h.session.revealed + 1]
           r == ApplyObservation(positions[id], candle)
           reached == StepCursor(h.session)
<1>1. DOMAIN work = Tabs /\ DOMAIN h = HandlerFields /\ Sane(h, session)
  BY DEF CursorInv, Sane, Asked
<1>2. h.pc = "feed" /\ next <= Len(h.links) /\ session' = session /\ links' = links
  BY DEF Feed, At
<1>3. Advancing(h, session)
  BY <1>1, <1>2 DEF Sane
<1>4. /\ SessionOK(h.session) /\ h.session.revealed \in 1..Len(Candles)
      /\ h.session.revealed < Len(Candles) /\ h.session.revealed + 1 \in 1..Len(Candles)
  <2>1. SessionOK(h.session) /\ h.session.revealed \in 1..Len(Candles)
    BY <1>3 DEF Advancing, SessionOK
  <2>2. /\ h.left \in Int /\ h.left >= 1
        /\ h.session.revealed + h.left <= Len(Candles)
    BY <1>3 DEF Advancing
  <2>3. Len(Candles) \in Nat
    BY CandleFacts
  <2> HIDE DEF h
  <2> QED
    BY <2>1, <2>2, <2>3
<1>5. reached.revealed = h.session.revealed + 1 /\ reached.asOf = CoverageEnd(candle)
  <2>1. Len(Candles) \in Int /\ Len(Candles) <= Len(Candles)
    BY CandleFacts
  <2>2. PICK n : n = Advanced(h.session, None, Len(Candles))
    OBVIOUS
  <2>3. Plannable(h.session, Len(Candles))
    BY <1>4, <2>1 DEF Plannable
  <2>4. Follows(h.session, n, None, Len(Candles))
    BY <2>2, <2>3, AdvancedOK, Zenon
  <2> QED
    BY <2>4 DEF Follows
<1>6. Observe(positions[id], Candles[reached.revealed], reached.asOf) = r
  <2>1. CoverageEnd(candle) \in Int
    BY <1>4, CandleFacts
  <2> QED
    BY <1>5, <2>1 DEF Observe
<1>7. /\ positions' = [positions EXCEPT ![id] = r.position]
      /\ work' = IF r.code \in {OK, "INVALID_TRANSITION"}
                 THEN [work EXCEPT ![t].fed = next]
                 ELSE Answer(t, "OBSERVATION_NOT_DELIVERED")
  BY <1>6, Zenon DEF Feed
<1> HIDE DEF r, candle, id, reached
<1>8. CASE r.code \in {OK, "INVALID_TRANSITION"}
  <2>1. work' = [work EXCEPT ![t].fed = next]
    BY <1>7, <1>8
  <2>2. /\ DOMAIN work' = Tabs /\ \A u \in Tabs \ {t} : work'[u] = work[u]
        /\ DOMAIN work'[t] = HandlerFields /\ work'[t].pc = "feed"
        /\ work'[t].command = h.command /\ work'[t].session = h.session
        /\ work'[t].left = h.left /\ work'[t].target = h.target
        /\ work'[t].links = h.links /\ work'[t].fed = next
    BY <1>1, <1>2, <2>1 DEF HandlerFields
  <2>3. Advancing(work'[t], session)
    BY <1>3, <2>2 DEF Advancing
  <2>4. Sane(work'[t], session)
    BY <1>1, <1>2, <2>2, <2>3 DEF Sane, Asked, CreatePcs, StepPcs, OpenPcs
  <2> QED
    BY <1>2, <1>3, <1>4, <1>7, <1>8, <2>2, <2>4 DEF r, candle, id
<1>9. CASE r.code \notin {OK, "INVALID_TRANSITION"}
  <2>1. work' = Answer(t, "OBSERVATION_NOT_DELIVERED")
    BY <1>7, <1>9
  <2>2. DOMAIN work' = Tabs /\ \A u \in Tabs \ {t} : work'[u] = work[u]
    BY <1>1, <2>1, AnswerFrees
  <2> QED
    BY <1>2, <1>3, <1>4, <1>7, <2>1, <2>2 DEF r, candle, id
<1> QED
  BY <1>8, <1>9

\* The row as it moves on keeps the target of the command that moved it before,
\* if it is the same command, and stays short of it.
Onward(s, n) ==
    /\ SessionOK(n) /\ n.version = s.version + 1 /\ n.revealed = s.revealed + 1
    /\ s.key # None /\ n.key = s.key => n.target = s.target /\ n.revealed <= s.target

\* Committing a boundary.
LEMMA AdvanceEffect ==
    ASSUME CursorInv, NEW t \in Tabs, AdvanceSession(t) \/ AdvanceUnacknowledged(t)
    PROVE  LET h == work[t]
           IN  /\ h.pc = "feed" /\ h.fed = Len(h.links) /\ h.session = session
               /\ session # None /\ Onward(session, session')
               /\ positions' = positions /\ links' = links
               /\ DOMAIN work' = Tabs /\ \A u \in Tabs \ {t} : work'[u] = work[u]
               /\ Sane(work'[t], session')
               /\ \/ \E code : work' = Answer(t, code)
                  \/ /\ work'[t].pc = "feed" /\ work'[t].session = session'
                     /\ work'[t].links = h.links /\ work'[t].fed = 0
<1> DEFINE h == work[t]
           key == h.command.step.key
           n == Reached(t)
<1>1. DOMAIN work = Tabs /\ DOMAIN h = HandlerFields /\ Sane(h, session)
  BY DEF CursorInv, Sane, Asked
<1>2. /\ h.pc = "feed" /\ h.fed = Len(h.links) /\ session.version = h.session.version
      /\ session' = n /\ positions' = positions /\ links' = links
  BY DEF AdvanceSession, AdvanceUnacknowledged, Fed, At, Moved
<1>3. Advancing(h, session) /\ session # None
  BY <1>1, <1>2 DEF Sane, StepPcs
<1>4. /\ h.session = session /\ SessionOK(session) /\ h.left \in Int /\ h.left >= 1
      /\ h.target = session.revealed + h.left /\ h.target <= Len(Candles)
      /\ session.key # None /\ key = session.key => h.target = session.target
  BY <1>2, <1>3 DEF Advancing
<1>5. /\ session.revealed \in Int /\ Len(Candles) \in Int /\ h.target \in Int
      /\ session.revealed < h.target /\ session.revealed < Len(Candles)
  BY <1>4, CandleFacts DEF SessionOK
<1>6. h.command.op = "STEP" /\ h.command.step \in StepCommands
  BY <1>1, <1>2 DEF Sane, Asked, StepPcs
<1>7. key \in StepKeys \cup {None}
  BY <1>6, Zenon DEF StepKeys
<1>8. n = Advanced(session, key, h.target)
  BY <1>4 DEF Reached, Advanced
<1> HIDE DEF n, key
<1>9. /\ SessionOK(n) /\ n.version = session.version + 1
      /\ n.revealed = session.revealed + 1 /\ n.key = key
      /\ key # None => n.target = h.target
  <2>1. Plannable(session, h.target)
    BY <1>4, <1>5 DEF Plannable
  <2>2. Follows(session, n, key, h.target)
    BY <1>7, <1>8, <2>1, AdvancedOK, Zenon
  <2> QED
    BY <2>2 DEF Follows
<1>10. Onward(session, session')
  BY <1>2, <1>4, <1>5, <1>9 DEF Onward
<1>11. CASE \E code : work' = Answer(t, code)
  <2>1. /\ DOMAIN work' = Tabs /\ \A u \in Tabs \ {t} : work'[u] = work[u]
        /\ Sane(work'[t], session')
    BY <1>1, <1>11, AnswerFrees, FreeIsSane
  <2> QED
    BY <1>2, <1>3, <1>4, <1>10, <1>11, <2>1
<1>12. CASE /\ h.left # 1
            /\ work' = [work EXCEPT ![t].left = @ - 1, ![t].fed = 0, ![t].session = n]
  <2> DEFINE left == h.left - 1
  <2>1. work' = [work EXCEPT ![t].left = left, ![t].fed = 0, ![t].session = n]
    BY <1>12
  <2>2. left \in Int /\ left >= 1 /\ h.target = n.revealed + left
    BY <1>4, <1>5, <1>9, <1>12
  <2> HIDE DEF left
  <2>3. /\ DOMAIN work' = Tabs /\ \A u \in Tabs \ {t} : work'[u] = work[u]
        /\ DOMAIN work'[t] = HandlerFields /\ work'[t].pc = "feed"
        /\ work'[t].command = h.command /\ work'[t].session = n
        /\ work'[t].left = left /\ work'[t].target = h.target
        /\ work'[t].links = h.links /\ work'[t].fed = 0
    BY <1>1, <1>2, <2>1 DEF HandlerFields
  <2>4. Advancing(work'[t], n)
    <3>1. n.version <= n.version
      BY <1>9 DEF SessionOK, SessionRows
    <3> QED
      BY <1>4, <1>9, <2>2, <2>3, <3>1 DEF Advancing, key
  <2>5. n # None
    BY <1>9, NoneIsNoRow DEF SessionOK
  <2>6. Sane(work'[t], session')
    BY <1>1, <1>2, <2>3, <2>4, <2>5 DEF Sane, Asked, CreatePcs, StepPcs, OpenPcs
  <2> QED
    BY <1>2, <1>3, <1>4, <1>10, <2>3, <2>6
<1> QED
  <2>1. CASE AdvanceUnacknowledged(t)
    BY <1>11, <2>1 DEF AdvanceUnacknowledged
  <2>2. CASE AdvanceSession(t)
    <3>1. work' = IF h.left = 1 THEN Answer(t, OK)
                  ELSE [work EXCEPT ![t].left = @ - 1, ![t].fed = 0, ![t].session = n]
      BY <2>2 DEF AdvanceSession, n
    <3> QED
      BY <1>11, <1>12, <3>1
  <2> QED
    BY <2>1, <2>2

\* Loading the row to open a position, and the steps that follow.
LEMMA OpenEffect ==
    ASSUME CursorInv, NEW t \in Tabs,
           LoadToOpen(t) \/ CountLinks(t) \/ CreatePosition(t) \/ LinkPosition(t)
    PROVE  /\ session' = session /\ session # None /\ work[t].pc \in OpenPcs
           /\ work[t].command.key \in OpenKeys
           /\ DOMAIN work' = Tabs /\ \A u \in Tabs \ {t} : work'[u] = work[u]
           /\ Sane(work'[t], session)
           /\ \/ \E code : work' = Answer(t, code)
              \/ /\ work'[t].pc = IF LoadToOpen(t) THEN "count links"
                                  ELSE IF CountLinks(t) THEN "create" ELSE "link"
                 /\ work'[t].command = work[t].command
                 /\ work'[t].session = IF LoadToOpen(t) THEN session ELSE work[t].session
<1>1. DOMAIN work = Tabs /\ DOMAIN work[t] = HandlerFields /\ Sane(work[t], session)
  BY DEF CursorInv, Sane, Asked
<1>2. session' = session
  BY DEF LoadToOpen, CountLinks, CreatePosition, LinkPosition
<1>3. work[t].pc \in OpenPcs
  BY DEF LoadToOpen, CountLinks, CreatePosition, LinkPosition, At, OpenPcs
<1>4. session # None /\ work[t].command.op = "OPEN" /\ work[t].command.key \in OpenKeys
  BY <1>1, <1>3 DEF Sane, Asked
<1>5. CASE \E code : work' = Answer(t, code)
  <2>1. /\ DOMAIN work' = Tabs /\ \A u \in Tabs \ {t} : work'[u] = work[u]
        /\ Sane(work'[t], session)
    BY <1>1, <1>5, AnswerFrees, FreeIsSane
  <2> QED
    BY <1>2, <1>3, <1>4, <1>5, <2>1
<1>6. ASSUME NEW pc \in OpenPcs, NEW s,
             work' = [Goto(t, pc) EXCEPT ![t].session = s] \/ work' = Goto(t, pc)
      PROVE  /\ DOMAIN work' = Tabs /\ \A u \in Tabs \ {t} : work'[u] = work[u]
             /\ Sane(work'[t], session) /\ work'[t].pc = pc
             /\ work'[t].command = work[t].command
             /\ work' = [Goto(t, pc) EXCEPT ![t].session = s] => work'[t].session = s
             /\ work' = Goto(t, pc) => work'[t].session = work[t].session
  <2>1. /\ DOMAIN work' = Tabs /\ \A u \in Tabs \ {t} : work'[u] = work[u]
        /\ DOMAIN work'[t] = HandlerFields /\ work'[t].pc = pc
        /\ work'[t].command = work[t].command
        /\ work' = [Goto(t, pc) EXCEPT ![t].session = s] => work'[t].session = s
        /\ work' = Goto(t, pc) => work'[t].session = work[t].session
    BY <1>1, <1>6 DEF Goto, HandlerFields
  <2>2. Sane(work'[t], session)
    BY <1>1, <1>3, <1>4, <1>6, <2>1 DEF Sane, Asked, CreatePcs, StepPcs, OpenPcs
  <2> QED
    BY <2>1, <2>2
<1>7. CASE LoadToOpen(t)
  <2>1. work' = [Goto(t, "count links") EXCEPT ![t].session = session]
    BY <1>7 DEF LoadToOpen
  <2>2. "count links" \in OpenPcs
    BY DEF OpenPcs
  <2> QED
    BY <1>2, <1>3, <1>4, <1>6, <1>7, <2>1, <2>2
<1>8. CASE CountLinks(t)
  <2>1. ~LoadToOpen(t)
    BY <1>8 DEF CountLinks, LoadToOpen, At
  <2>2. (\E code : work' = Answer(t, code)) \/ work' = Goto(t, "create")
    BY <1>8, Zenon DEF CountLinks
  <2>3. "create" \in OpenPcs
    BY DEF OpenPcs
  <2> QED
    BY <1>2, <1>3, <1>4, <1>5, <1>6, <1>8, <2>1, <2>2, <2>3
<1>9. CASE CreatePosition(t) \/ LinkPosition(t)
  <2>1. ~LoadToOpen(t) /\ ~CountLinks(t)
    BY <1>9 DEF CreatePosition, LinkPosition, CountLinks, LoadToOpen, At
  <2>2. (\E code : work' = Answer(t, code)) \/ work' = Goto(t, "link")
    BY <1>9, Zenon DEF CreatePosition, LinkPosition
  <2>3. "link" \in OpenPcs
    BY DEF OpenPcs
  <2> QED
    BY <1>2, <1>3, <1>4, <1>5, <1>6, <2>1, <2>2, <2>3
<1> QED
  BY <1>7, <1>8, <1>9

\* Every step keeps what the handlers hold against the row, and moves the row
\* on or leaves it alone.
LEMMA CursorStep ==
    ASSUME CursorInv, [Next]_vars
    PROVE  /\ CursorInv'
           /\ session # None => session' = session \/ Onward(session, session')
<1>1. ASSUME NEW t \in Tabs,
             \/ Create(t) \/ FindByKey(t) \/ SaveDataset(t) \/ FindWinner(t)
      PROVE  CursorInv' /\ session' = session
  BY <1>1, CreateKeepsCursor
<1>2. ASSUME NEW t \in Tabs, InsertSession(t)
      PROVE  CursorInv' /\ (session # None => session' = session)
  BY <1>2, InsertKeepsCursor
<1>3. ASSUME NEW t \in Tabs, Step(t)
      PROVE  CursorInv' /\ session' = session
  <2>1. PICK c \in StepCommands : Receive(t, [op |-> "STEP", step |-> c])
    BY <1>3 DEF Step
  <2>2. session # None /\ session' = session
    BY <1>3, <2>1 DEF Step, Receive
  <2> QED
    BY <2>1, <2>2, ReceiveKeepsCursor
<1>4. ASSUME NEW t \in Tabs, LoadToStep(t)
      PROVE  CursorInv' /\ session' = session
  BY <1>4, LoadEffect, AnswerKeepsCursor, HandlerKeepsCursor
<1>5. ASSUME NEW t \in Tabs, ReadLinks(t)
      PROVE  CursorInv' /\ session' = session
  BY <1>5, LinksEffect, HandlerKeepsCursor
<1>6. ASSUME NEW t \in Tabs, Feed(t)
      PROVE  CursorInv' /\ session' = session
  BY <1>6, FeedEffect, AnswerKeepsCursor, HandlerKeepsCursor
<1>7. ASSUME NEW t \in Tabs, AdvanceSession(t) \/ AdvanceUnacknowledged(t)
      PROVE  CursorInv' /\ Onward(session, session')
  <2>1. /\ session # None /\ Onward(session, session') /\ Sane(work'[t], session')
        /\ DOMAIN work' = Tabs /\ \A u \in Tabs \ {t} : work'[u] = work[u]
    BY <1>7, AdvanceEffect
  <2>2. \A u \in Tabs : Sane(work[u], session')
    BY <2>1, SaneMoved DEF CursorInv, Onward
  <2> QED
    BY <2>1, <2>2 DEF CursorInv, Onward
<1>8. ASSUME NEW t \in Tabs, AdvanceConflict(t) \/ ConnectionLost(t)
      PROVE  CursorInv' /\ session' = session
  <2>1. session' = session /\ \E code : work' = Answer(t, code)
    BY <1>8 DEF AdvanceConflict, ConnectionLost
  <2> QED
    BY <2>1, AnswerKeepsCursor
<1>9. ASSUME NEW t \in Tabs, Open(t)
      PROVE  CursorInv' /\ session' = session
  <2>1. PICK k \in OpenKeys : Receive(t, [op |-> "OPEN", key |-> k])
    BY <1>9 DEF Open
  <2>2. session # None /\ session' = session
    BY <1>9, <2>1 DEF Open, Receive
  <2> QED
    BY <2>1, <2>2, ReceiveKeepsCursor
<1>10. ASSUME NEW t \in Tabs,
              LoadToOpen(t) \/ CountLinks(t) \/ CreatePosition(t) \/ LinkPosition(t)
       PROVE  CursorInv' /\ session' = session
  BY <1>10, OpenEffect, HandlerKeepsCursor
<1>11. CASE PositionCommand
  BY <1>11 DEF PositionCommand, CursorInv
<1>12. CASE UNCHANGED vars
  BY <1>12 DEF vars, CursorInv
<1> QED
  BY <1>1, <1>2, <1>3, <1>4, <1>5, <1>6, <1>7, <1>8, <1>9, <1>10, <1>11, <1>12 DEF Next

\* The invariant of the cursor holds of every reachable state.
THEOREM CursorInvariant == Spec => []CursorInv
<1>1. Init => CursorInv
  BY FreeIsSane DEF Init, CursorInv, Idle, HandlerFields
<1>2. CursorInv /\ [Next]_vars => CursorInv'
  BY CursorStep
<1> QED
  BY <1>1, <1>2, PTL DEF Spec

\* A repeated command finishes what it began and no more, whatever other
\* commands, repeats and lost answers come between (the key and the target
\* advance_session stores, and the version its UPDATE is conditional on).
THEOREM TargetIsKept == Spec => RetryKeepsItsTarget
<1>1. CursorInv /\ [Next]_vars =>
        [session # None /\ session.key # None /\ session'.key = session.key =>
            session'.target = session.target /\ session'.revealed <= session.target]_vars
  <2> SUFFICES ASSUME CursorInv, [Next]_vars, session # None, session.key # None,
                      session'.key = session.key
               PROVE  session'.target = session.target /\ session'.revealed <= session.target
    OBVIOUS
  <2>1. SessionOK(session)
    BY DEF CursorInv
  <2>2. session' = session \/ Onward(session, session')
    BY CursorStep
  <2> QED
    BY <2>1, <2>2 DEF SessionOK, Onward
<1> QED
  BY <1>1, CursorInvariant, PTL DEF Spec, RetryKeepsItsTarget

-----------------------------------------------------------------------------
(***************************************************************************)
(* The positions and their links.                                          *)
(***************************************************************************)

\* Every position is well formed, and the linked ones exist.
Stored(l, ps) ==
    /\ DOMAIN ps = OpenKeys /\ \A k \in OpenKeys : ps[k] = None \/ Good(ps[k])
    /\ l \in Seq(OpenKeys) /\ \A i \in 1..Len(l) : ps[l[i]] # None

\* Every revealed candle has its entry in the history, and the positions that the
\* advance which revealed it had read have it, or need not have it.
Caught(s, l, ps, tl) ==
    /\ s = None => l = <<>> /\ tl = <<>>
    /\ s # None => Len(tl) = s.revealed
    /\ tl \in Seq(Nat)
    /\ \A j \in 1..Len(tl) : /\ tl[j] <= Len(l)
                             /\ \A i \in 1..tl[j] : Handled(ps[l[i]], Candles[j])

\* A feed over the current row has delivered the next candle to the positions
\* it says it has fed, which are the oldest links.
Feeding(h, s, l, ps) ==
    h.pc = "feed" =>
        /\ Len(h.links) \in Nat /\ Len(h.links) <= Len(l)
        /\ \A m \in 1..Len(h.links) : h.links[m] = l[m]
        /\ h.fed \in 0..Len(h.links)
        /\ h.session = s => \A m \in 1..h.fed : Handled(ps[l[m]], Candles[s.revealed + 1])

\* A position about to be created has a time to be decided at, and one about to
\* be linked exists.
Opening(h, ps) ==
    /\ h.pc \in {"count links", "create", "link"} => h.session.asOf \in Int
    /\ h.pc = "link" => ps[h.command.key] # None

Promised(w, s, l, ps) == \A t \in Tabs : Feeding(w[t], s, l, ps) /\ Opening(w[t], ps)

FeedInv ==
    /\ Stored(links, positions) /\ Caught(session, links, positions, told)
    /\ Promised(work, session, links, positions)

\* Positions that only grow.
Later(ps, qs) ==
    /\ DOMAIN qs = OpenKeys /\ \A k \in OpenKeys : qs[k] = None \/ Good(qs[k])
    /\ \A k \in OpenKeys : ps[k] # None =>
          /\ qs[k] # None /\ qs[k].spec = ps[k].spec
          /\ \A candle : Handled(ps[k], candle) => Handled(qs[k], candle)

\* A position in the store is not None.
LEMMA GoodIsSome ==
    ASSUME NEW p, Good(p)
    PROVE  p # None
  BY NoneIsNoRow DEF Good

\* One position that grows is a store that does.
LEMMA OneLater ==
    ASSUME NEW l, NEW ps, Stored(l, ps), NEW k \in OpenKeys, ps[k] # None,
           NEW q, Grows(ps[k], q), NEW qs, qs = [ps EXCEPT ![k] = q]
    PROVE  Later(ps, qs)
<1>1. q # None /\ Good(q) /\ q.spec = ps[k].spec
  BY GoodIsSome DEF Grows
<1>2. DOMAIN qs = OpenKeys /\ qs[k] = q /\ \A x \in OpenKeys \ {k} : qs[x] = ps[x]
  BY DEF Stored
<1>3. \A x \in OpenKeys : ps[x] # None =>
          /\ qs[x] # None /\ qs[x].spec = ps[x].spec
          /\ \A candle : Handled(ps[x], candle) => Handled(qs[x], candle)
  <2> SUFFICES ASSUME NEW x \in OpenKeys, ps[x] # None
               PROVE  /\ qs[x] # None /\ qs[x].spec = ps[x].spec
                      /\ \A candle : Handled(ps[x], candle) => Handled(qs[x], candle)
    OBVIOUS
  <2>1. CASE x = k
    BY <1>1, <1>2, <2>1 DEF Grows
  <2>2. CASE x # k
    BY <1>2, <2>2
  <2> QED
    BY <2>1, <2>2
<1>4. \A x \in OpenKeys : qs[x] = None \/ Good(qs[x])
  BY <1>1, <1>2 DEF Stored
<1> QED
  BY <1>2, <1>3, <1>4 DEF Later

\* A store that grows keeps every promise made about it.
LEMMA LaterKeeps ==
    ASSUME NEW w, NEW s, NEW l, NEW ps, NEW tl,
           Stored(l, ps), Caught(s, l, ps, tl), Promised(w, s, l, ps),
           \A t \in Tabs : w[t].pc = "link" => w[t].command.key \in OpenKeys,
           NEW qs, Later(ps, qs)
    PROVE  Stored(l, qs) /\ Caught(s, l, qs, tl) /\ Promised(w, s, l, qs)
<1>1. Len(l) \in Nat /\ \A i \in 1..Len(l) : l[i] \in OpenKeys /\ ps[l[i]] # None
  BY DEF Stored
<1>2. Stored(l, qs)
  BY <1>1 DEF Stored, Later
<1>3. Caught(s, l, qs, tl)
  <2>1. ASSUME NEW j \in 1..Len(tl), NEW i \in 1..tl[j]
        PROVE  Handled(qs[l[i]], Candles[j])
    <3>1. tl[j] \in Nat /\ tl[j] <= Len(l) /\ Handled(ps[l[i]], Candles[j])
      BY DEF Caught
    <3>2. i \in 1..Len(l)
      BY <1>1, <3>1
    <3> QED
      BY <1>1, <3>1, <3>2 DEF Later
  <2> QED
    BY <2>1 DEF Caught
<1>4. ASSUME NEW t \in Tabs PROVE Feeding(w[t], s, l, qs)
  <2> SUFFICES ASSUME w[t].pc = "feed" PROVE Feeding(w[t], s, l, qs)
    BY DEF Feeding
  <2>1. /\ Len(w[t].links) \in Nat /\ Len(w[t].links) <= Len(l)
        /\ \A m \in 1..Len(w[t].links) : w[t].links[m] = l[m]
        /\ w[t].fed \in 0..Len(w[t].links)
        /\ w[t].session = s =>
              \A m \in 1..w[t].fed : Handled(ps[l[m]], Candles[s.revealed + 1])
    BY DEF Promised, Feeding
  <2>2. \A m \in 1..w[t].fed : m \in 1..Len(l)
    BY <1>1, <2>1
  <2>3. \A m \in 1..w[t].fed : \A candle :
          Handled(ps[l[m]], candle) => Handled(qs[l[m]], candle)
    BY <1>1, <2>2 DEF Later
  <2> QED
    BY <2>1, <2>3 DEF Feeding
<1>5. ASSUME NEW t \in Tabs PROVE Opening(w[t], qs)
  BY DEF Promised, Opening, Later
<1> QED
  BY <1>2, <1>3, <1>4, <1>5 DEF Promised

\* A handler that neither advances nor opens promises nothing.
Neutral(h) == h.pc \notin StepPcs \cup OpenPcs

\* One handler changes and the store does not.
LEMMA HandlerKeepsFeed ==
    ASSUME FeedInv, NEW t \in Tabs, UNCHANGED <<session, links, positions, told>>,
           \A u \in Tabs \ {t} : work'[u] = work[u],
           Feeding(work'[t], session, links, positions), Opening(work'[t], positions)
    PROVE  FeedInv'
<1>1. Promised(work', session, links, positions)
  BY DEF FeedInv, Promised
<1> QED
  BY <1>1 DEF FeedInv

\* A handler that is neutral promises nothing about any row.
LEMMA NeutralPromises ==
    ASSUME NEW h, Neutral(h), NEW s, NEW l, NEW ps
    PROVE  Feeding(h, s, l, ps) /\ Opening(h, ps)
BY DEF Neutral, Feeding, Opening, StepPcs, OpenPcs

\* A handler that becomes neutral.
LEMMA NeutralKeepsFeed ==
    ASSUME FeedInv, NEW t \in Tabs, UNCHANGED <<session, links, positions, told>>,
           \A u \in Tabs \ {t} : work'[u] = work[u], Neutral(work'[t])
    PROVE  FeedInv'
BY NeutralPromises, HandlerKeepsFeed

\* An answer is neutral.
LEMMA AnswerIsNeutral ==
    ASSUME DOMAIN work = Tabs, NEW t \in Tabs, \E code : work' = Answer(t, code)
    PROVE  /\ Neutral(work'[t]) /\ DOMAIN work' = Tabs
           /\ \A u \in Tabs \ {t} : work'[u] = work[u]
<1>1. PICK code : work' = Answer(t, code)
  OBVIOUS
<1>2. /\ work'[t].pc = "idle" /\ DOMAIN work' = Tabs
      /\ \A u \in Tabs \ {t} : work'[u] = work[u]
  BY <1>1, AnswerFrees
<1> QED
  BY <1>2 DEF Neutral, StepPcs, OpenPcs

\* Creating a session concerns no position.
LEMMA CreateKeepsFeed ==
    ASSUME CursorInv, FeedInv, NEW t \in Tabs,
           \/ Create(t) \/ FindByKey(t) \/ SaveDataset(t) \/ FindWinner(t)
           \/ AdvanceConflict(t) \/ ConnectionLost(t)
    PROVE  FeedInv'
<1>1. DOMAIN work = Tabs /\ DOMAIN work[t] = HandlerFields
  BY DEF CursorInv, Sane, Asked
<1>2. UNCHANGED <<session, links, positions, told>>
  BY DEF Create, Receive, FindByKey, SaveDataset, FindWinner, AdvanceConflict, ConnectionLost
<1>3. ASSUME NEW pc \in CreatePcs, work' = Goto(t, pc)
      PROVE  Neutral(work'[t]) /\ \A u \in Tabs \ {t} : work'[u] = work[u]
  BY <1>1, <1>3, GotoMoves DEF Neutral, CreatePcs, StepPcs, OpenPcs
<1>4. CASE Create(t)
  <2>1. PICK request \in Creates : Receive(t, [op |-> "CREATE", request |-> request])
    BY <1>4 DEF Create
  <2>2. PICK command : /\ Receive(t, command)
                       /\ command.op = "CREATE" /\ command.request \in Creates
    BY <2>1
  <2>3. work'[t].pc = "find" /\ \A u \in Tabs \ {t} : work'[u] = work[u]
    BY <2>2, ReceiveKeepsCursor
  <2> QED
    BY <1>2, <2>3, NeutralKeepsFeed DEF Neutral, StepPcs, OpenPcs
<1>5. CASE FindByKey(t)
  <2>1. (\E code : work' = Answer(t, code)) \/ work' = Goto(t, "save dataset")
    BY <1>5, Zenon DEF FindByKey
  <2>2. "save dataset" \in CreatePcs
    BY DEF CreatePcs
  <2> QED
    BY <1>1, <1>2, <1>3, <2>1, <2>2, AnswerIsNeutral, NeutralKeepsFeed
<1>6. CASE SaveDataset(t)
  <2>1. (\E code : work' = Answer(t, code)) \/ work' = Goto(t, "insert")
    BY <1>6, Zenon DEF SaveDataset
  <2>2. "insert" \in CreatePcs
    BY DEF CreatePcs
  <2> QED
    BY <1>1, <1>2, <1>3, <2>1, <2>2, AnswerIsNeutral, NeutralKeepsFeed
<1>7. CASE FindWinner(t) \/ AdvanceConflict(t) \/ ConnectionLost(t)
  <2>1. \E code : work' = Answer(t, code)
    BY <1>7 DEF FindWinner, AdvanceConflict, ConnectionLost
  <2> QED
    BY <1>1, <1>2, <2>1, AnswerIsNeutral, NeutralKeepsFeed
<1> QED
  BY <1>4, <1>5, <1>6, <1>7

\* The first row: there is nothing linked yet, and nobody advances or opens.
LEMMA InsertKeepsFeed ==
    ASSUME CursorInv, FeedInv, NEW t \in Tabs, InsertSession(t)
    PROVE  FeedInv'
<1>1. DOMAIN work = Tabs /\ DOMAIN work[t] = HandlerFields
  BY DEF CursorInv, Sane, Asked
<1>2. UNCHANGED <<links, positions>>
  BY DEF InsertSession
<1>3. CASE session # None
  <2>1. work' = Goto(t, "find winner") /\ session' = session /\ told' = told
    BY <1>3 DEF InsertSession
  <2>2. Neutral(work'[t]) /\ \A u \in Tabs \ {t} : work'[u] = work[u]
    <3>1. work'[t].pc = "find winner" /\ \A u \in Tabs \ {t} : work'[u] = work[u]
      BY <1>1, <2>1, GotoMoves
    <3> QED
      BY <3>1 DEF Neutral, StepPcs, OpenPcs
  <2> QED
    BY <1>2, <2>1, <2>2, NeutralKeepsFeed
<1>4. CASE session = None
  <2>1. links = <<>>
    BY <1>4 DEF FeedInv, Caught
  <2>2. PICK n : n = session'
    OBVIOUS
  <2>3. /\ \E code : work' = Answer(t, code)
        /\ n = StartCursor(work[t].command.request)
        /\ told' = [i \in 1..n.revealed |-> 0]
    BY <1>4, <2>2 DEF InsertSession
  <2>4. SessionOK(n) /\ n # None
    <3>1. work[t].pc = "insert" /\ Sane(work[t], session)
      BY DEF InsertSession, At, CursorInv
    <3>2. work[t].command.request \in Creates /\ InData(work[t].command.request.start)
      BY <3>1 DEF Sane, Asked, CreatePcs
    <3> QED
      BY <2>3, <3>2, StartOK, NoneIsNoRow DEF SessionOK
  <2>5. n.revealed \in Nat
    BY <2>4 DEF SessionOK, SessionRows
  <2>6. \A u \in Tabs : Neutral(work[u])
    BY <1>4 DEF CursorInv, Sane, Neutral
  <2>7. \A u \in Tabs : Neutral(work'[u])
    BY <1>1, <2>3, <2>6, AnswerIsNeutral
  <2>8. Promised(work', n, links, positions)
    BY <2>7, NeutralPromises DEF Promised
  <2>9. Caught(n, links, positions, told')
    <3>1. Len(links) = 0
      BY <2>1
    <3> QED
      BY <2>3, <2>4, <2>5, <3>1 DEF Caught
  <2> QED
    BY <1>2, <2>2, <2>8, <2>9 DEF FeedInv
<1> QED
  BY <1>3, <1>4

\* A request that is received promises nothing yet.
LEMMA ReceiveKeepsFeed ==
    ASSUME CursorInv, FeedInv, NEW t \in Tabs, Step(t) \/ Open(t)
    PROVE  FeedInv'
<1>1. UNCHANGED <<session, links, positions, told>> /\ session # None
  BY DEF Step, Open, Receive
<1>2. PICK command : /\ Receive(t, command)
                     /\ \/ command.op = "STEP" /\ command.step \in StepCommands
                        \/ command.op = "OPEN" /\ command.key \in OpenKeys
  <2>1. CASE Step(t)
    <3>1. PICK c \in StepCommands : Receive(t, [op |-> "STEP", step |-> c])
      BY <2>1 DEF Step
    <3> QED
      BY <3>1
  <2>2. CASE Open(t)
    <3>1. PICK k \in OpenKeys : Receive(t, [op |-> "OPEN", key |-> k])
      BY <2>2 DEF Open
    <3> QED
      BY <3>1
  <2> QED
    BY <2>1, <2>2
<1>3. /\ work'[t].pc \in {"load", "load to open"}
      /\ \A u \in Tabs \ {t} : work'[u] = work[u]
  BY <1>1, <1>2, ReceiveKeepsCursor
<1>4. Feeding(work'[t], session, links, positions) /\ Opening(work'[t], positions)
  BY <1>3 DEF Feeding, Opening
<1> QED
  BY <1>1, <1>3, <1>4, HandlerKeepsFeed

\* Planning an advance and reading its links.
LEMMA PlanKeepsFeed ==
    ASSUME CursorInv, FeedInv, NEW t \in Tabs, LoadToStep(t) \/ ReadLinks(t)
    PROVE  FeedInv'
<1>1. DOMAIN work = Tabs /\ told' = told
  BY DEF CursorInv, LoadToStep, ReadLinks
<1>2. CASE LoadToStep(t)
  <2>1. /\ UNCHANGED <<session, links, positions>> /\ work[t].pc = "load"
        /\ \A u \in Tabs \ {t} : work'[u] = work[u]
        /\ (\E code : work' = Answer(t, code)) \/ work'[t].pc = "links"
    BY <1>2, LoadEffect
  <2>2. CASE work'[t].pc = "links"
    <3>1. Feeding(work'[t], session, links, positions) /\ Opening(work'[t], positions)
      BY <2>2 DEF Feeding, Opening
    <3> QED
      BY <1>1, <2>1, <3>1, HandlerKeepsFeed
  <2> QED
    BY <1>1, <2>1, <2>2, AnswerIsNeutral, NeutralKeepsFeed
<1>3. CASE ReadLinks(t)
  <2>1. /\ UNCHANGED <<session, links, positions>> /\ work[t].pc = "links"
        /\ \A u \in Tabs \ {t} : work'[u] = work[u]
        /\ work'[t].pc = "feed" /\ work'[t].links = links /\ work'[t].fed = 0
    BY <1>3, LinksEffect
  <2>2. Len(links) \in Nat
    BY DEF FeedInv, Stored
  <2>3. Feeding(work'[t], session, links, positions) /\ Opening(work'[t], positions)
    BY <2>1, <2>2 DEF Feeding, Opening
  <2> QED
    BY <1>1, <2>1, <2>3, HandlerKeepsFeed
<1> QED
  BY <1>2, <1>3

\* One handler changes while the store grows.
LEMMA GrownKeepsFeed ==
    ASSUME CursorInv, FeedInv, NEW t \in Tabs, UNCHANGED <<session, links, told>>,
           Later(positions, positions'), \A u \in Tabs \ {t} : work'[u] = work[u],
           Feeding(work'[t], session, links, positions'), Opening(work'[t], positions')
    PROVE  FeedInv'
<1>1. \A u \in Tabs : work[u].pc = "link" => work[u].command.key \in OpenKeys
  BY DEF CursorInv, Sane, Asked, OpenPcs
<1>2. PICK qs : qs = positions'
  OBVIOUS
<1>3. /\ Stored(links, qs) /\ Caught(session, links, qs, told)
      /\ Promised(work, session, links, qs)
  BY <1>1, <1>2, LaterKeeps DEF FeedInv
<1>4. Promised(work', session, links, qs)
  BY <1>2, <1>3 DEF Promised
<1> QED
  BY <1>2, <1>3, <1>4 DEF FeedInv

\* Delivering the next candle to one position.
LEMMA FeedKeepsFeed ==
    ASSUME CursorInv, FeedInv, NEW t \in Tabs, Feed(t)
    PROVE  FeedInv'
<1> DEFINE h == work[t]
           next == h.fed + 1
           id == h.links[next]
           candle == Candles[h.session.revealed + 1]
           r == ApplyObservation(positions[id], candle)
<1>1. /\ session' = session /\ links' = links
      /\ h.pc = "feed" /\ next <= Len(h.links) /\ Advancing(h, session)
      /\ h.session.revealed + 1 \in 1..Len(Candles)
      /\ positions' = [positions EXCEPT ![id] = r.position]
      /\ DOMAIN work' = Tabs /\ \A u \in Tabs \ {t} : work'[u] = work[u]
      /\ \/ \E code : work' = Answer(t, code)
         \/ /\ r.code \in {OK, "INVALID_TRANSITION"}
            /\ work'[t].pc = "feed" /\ Sane(work'[t], session)
            /\ work'[t].links = h.links /\ work'[t].fed = next
            /\ work'[t].session = h.session
  BY FeedEffect
<1>2. /\ Len(h.links) \in Nat /\ Len(links) \in Nat /\ Len(h.links) <= Len(links)
      /\ \A m \in 1..Len(h.links) : h.links[m] = links[m]
      /\ h.fed \in 0..Len(h.links)
      /\ h.session = session =>
            \A m \in 1..h.fed : Handled(positions[links[m]], Candles[session.revealed + 1])
  <2>1. h.pc = "feed" /\ Feeding(h, session, links, positions)
    BY <1>1 DEF FeedInv, Promised
  <2>2. Len(links) \in Nat
    BY DEF FeedInv, Stored
  <2> HIDE DEF h
  <2> QED
    BY <2>1, <2>2 DEF Feeding
<1>3. /\ next \in 1..Len(links) /\ next \in 0..Len(h.links) /\ next \in 1..Len(h.links)
      /\ \A m \in 1..h.fed : m \in 1..Len(links)
  BY <1>1, <1>2
<1>4. id \in OpenKeys /\ positions[id] # None /\ Good(positions[id]) /\ id = links[next]
  BY <1>2, <1>3 DEF FeedInv, Stored
<1>5. candle \in Bar /\ ValidBar(candle)
  BY <1>1, CandleFacts
<1>6. DOMAIN work = Tabs /\ told' = told
  BY DEF CursorInv, Feed
<1>7. \A m \in 1..next : m = next \/ m \in 1..h.fed
  BY <1>2, <1>3
<1> HIDE DEF h, next, id, candle, r
<1>8. Grows(positions[id], r.position)
  BY <1>4, <1>5, ObservedGrows DEF r
<1>9. Later(positions, positions')
  <2>1. PICK qs : qs = positions'
    OBVIOUS
  <2> QED
    BY <1>1, <1>4, <1>8, <2>1, OneLater DEF FeedInv
<1>10. CASE \E code : work' = Answer(t, code)
  <2>1. Neutral(work'[t])
    BY <1>6, <1>10, AnswerIsNeutral
  <2>2. Feeding(work'[t], session, links, positions') /\ Opening(work'[t], positions')
    <3>1. PICK qs : qs = positions'
      OBVIOUS
    <3> QED
      BY <2>1, <3>1, NeutralPromises
  <2> QED
    BY <1>1, <1>6, <1>9, <2>2, GrownKeepsFeed
<1>11. CASE /\ r.code \in {OK, "INVALID_TRANSITION"} /\ work'[t].pc = "feed"
            /\ work'[t].links = h.links /\ work'[t].fed = next
            /\ work'[t].session = h.session
  <2>2. positions'[id] = r.position
    BY <1>1, <1>4 DEF FeedInv, Stored
  <2>3. Handled(positions'[id], candle)
    BY <1>4, <1>5, <1>11, <2>2, Delivered DEF r
  <2>4. ASSUME h.session = session, NEW m \in 1..next
        PROVE  Handled(positions'[links[m]], Candles[session.revealed + 1])
    <3>1. CASE m = next
      BY <1>4, <2>3, <2>4, <3>1 DEF candle
    <3>2. CASE m \in 1..h.fed
      <4>1. Handled(positions[links[m]], Candles[session.revealed + 1])
        BY <1>2, <2>4, <3>2
      <4>2. links[m] \in OpenKeys /\ positions[links[m]] # None
        BY <1>3, <3>2 DEF FeedInv, Stored
      <4> QED
        BY <1>9, <4>1, <4>2 DEF Later
    <3> QED
      BY <1>7, <3>1, <3>2
  <2>5. Feeding(work'[t], session, links, positions')
    BY <1>2, <1>3, <1>11, <2>4 DEF Feeding
  <2>6. Opening(work'[t], positions')
    BY <1>11 DEF Opening
  <2> QED
    BY <1>1, <1>6, <1>9, <2>5, <2>6, GrownKeepsFeed
<1> QED
  BY <1>1, <1>10, <1>11

\* Committing the boundary: every position whose link was read has its candle by
\* then, and whoever still feeds an older row promises nothing about the new one.
LEMMA AdvanceKeepsFeed ==
    ASSUME CursorInv, FeedInv, NEW t \in Tabs, AdvanceSession(t) \/ AdvanceUnacknowledged(t)
    PROVE  FeedInv'
<1> DEFINE h == work[t]
<1>1. /\ h.pc = "feed" /\ h.fed = Len(h.links) /\ h.session = session
      /\ session # None /\ Onward(session, session')
      /\ positions' = positions /\ links' = links
      /\ DOMAIN work' = Tabs /\ \A u \in Tabs \ {t} : work'[u] = work[u]
      /\ \/ \E code : work' = Answer(t, code)
         \/ /\ work'[t].pc = "feed" /\ work'[t].session = session'
            /\ work'[t].links = h.links /\ work'[t].fed = 0
  BY AdvanceEffect
<1>2. PICK n : n = session'
  OBVIOUS
<1>3. SessionOK(session) /\ SessionOK(n) /\ n # None
  BY <1>1, <1>2, NoneIsNoRow DEF CursorInv, Onward, SessionOK
<1>4. /\ session.revealed \in Nat /\ n.revealed = session.revealed + 1
      /\ session.version \in Nat /\ n.version = session.version + 1
  BY <1>1, <1>2, <1>3 DEF Onward, SessionOK, SessionRows
<1>5. /\ Len(h.links) \in Nat /\ Len(h.links) <= Len(links)
      /\ \A m \in 1..Len(h.links) : h.links[m] = links[m]
      /\ \A m \in 1..Len(h.links) : Handled(positions[links[m]], Candles[n.revealed])
  <2>1. h.pc = "feed" /\ Feeding(h, session, links, positions)
    BY <1>1 DEF FeedInv, Promised
  <2> HIDE DEF h
  <2> QED
    BY <1>1, <1>4, <2>1 DEF Feeding
<1>6. told' = Append(told, Len(h.links))
  BY DEF AdvanceSession, AdvanceUnacknowledged, Moved
<1>7. Caught(n, links, positions, told')
  <2>1. /\ told \in Seq(Nat) /\ Len(told) = session.revealed
        /\ \A j \in 1..Len(told) : /\ told[j] <= Len(links)
                                   /\ \A i \in 1..told[j] : Handled(positions[links[i]], Candles[j])
    BY <1>1 DEF FeedInv, Caught
  <2>2. PICK m, tl : m = Len(h.links) /\ tl = told'
    OBVIOUS
  <2> HIDE DEF h
  <2>3. /\ tl \in Seq(Nat) /\ Len(tl) = n.revealed /\ tl[n.revealed] = m
        /\ \A j \in 1..Len(tl) : j = n.revealed \/ (j \in 1..Len(told) /\ tl[j] = told[j])
    BY <1>4, <1>5, <1>6, <2>1, <2>2
  <2>4. ASSUME NEW j \in 1..Len(tl)
        PROVE  tl[j] <= Len(links) /\ \A i \in 1..tl[j] : Handled(positions[links[i]], Candles[j])
    <3>1. CASE j = n.revealed
      BY <1>5, <2>2, <2>3, <3>1
    <3>2. CASE j \in 1..Len(told) /\ tl[j] = told[j]
      BY <2>1, <3>2
    <3> QED
      BY <2>3, <3>1, <3>2
  <2> QED
    BY <1>3, <2>2, <2>3, <2>4 DEF Caught
<1>8. Feeding(work'[t], n, links, positions) /\ Opening(work'[t], positions)
  <2>1. CASE \E code : work' = Answer(t, code)
    <3>1. Neutral(work'[t])
      BY <2>1, AnswerIsNeutral DEF CursorInv
    <3> QED
      BY <3>1, NeutralPromises
  <2>2. CASE /\ work'[t].pc = "feed" /\ work'[t].session = session'
             /\ work'[t].links = h.links /\ work'[t].fed = 0
    BY <1>5, <2>2 DEF Feeding, Opening
  <2> QED
    BY <1>1, <2>1, <2>2
<1>9. ASSUME NEW u \in Tabs \ {t}
      PROVE  Feeding(work'[u], n, links, positions) /\ Opening(work'[u], positions)
  <2>1. work'[u] = work[u]
    BY <1>1
  <2>2. work[u].pc = "feed" => work[u].session # n
    BY <1>3, <1>4 DEF CursorInv, Sane, Advancing
  <2>3. Feeding(work[u], session, links, positions) /\ Opening(work[u], positions)
    BY DEF FeedInv, Promised
  <2>4. Feeding(work[u], n, links, positions)
    BY <2>2, <2>3 DEF Feeding
  <2> QED
    BY <2>1, <2>3, <2>4
<1>10. Promised(work', n, links, positions)
  BY <1>8, <1>9 DEF Promised
<1> QED
  BY <1>1, <1>2, <1>7, <1>10 DEF FeedInv

\* Loading the session to open a position, and counting its links.
LEMMA CountKeepsFeed ==
    ASSUME CursorInv, FeedInv, NEW t \in Tabs, LoadToOpen(t) \/ CountLinks(t)
    PROVE  FeedInv'
<1>1. DOMAIN work = Tabs
  BY DEF CursorInv
<1>2. UNCHANGED <<session, links, positions, told>>
  BY DEF LoadToOpen, CountLinks
<1>3. /\ work[t].pc \in OpenPcs /\ \A u \in Tabs \ {t} : work'[u] = work[u]
      /\ \/ \E code : work' = Answer(t, code)
         \/ /\ work'[t].pc = IF LoadToOpen(t) THEN "count links"
                             ELSE IF CountLinks(t) THEN "create" ELSE "link"
            /\ work'[t].session = IF LoadToOpen(t) THEN session ELSE work[t].session
  BY OpenEffect
<1>4. CASE \E code : work' = Answer(t, code)
  BY <1>1, <1>2, <1>4, AnswerIsNeutral, NeutralKeepsFeed
<1>5. CASE work'[t].pc \in {"count links", "create"} /\ work'[t].session.asOf \in Int
  <2>1. Feeding(work'[t], session, links, positions) /\ Opening(work'[t], positions)
    BY <1>5 DEF Feeding, Opening
  <2> QED
    BY <1>2, <1>3, <2>1, HandlerKeepsFeed
<1>6. CountLinks(t) => work[t].session.asOf \in Int
  BY DEF CountLinks, At, FeedInv, Promised, Opening
<1>7. LoadToOpen(t) => session.asOf \in Int
  <2>1. session # None
    BY OpenEffect
  <2> QED
    BY <2>1 DEF CursorInv, SessionOK, SessionRows
<1> QED
  BY <1>3, <1>4, <1>5, <1>6, <1>7

\* The specification a replay opens is the wanted one, decided at replay time.
LEMMA WantedSpec ==
    ASSUME NEW k \in OpenKeys, NEW time \in Int,
           NEW spec, spec = [Wanted[k] EXCEPT !.decision = time]
    PROVE  spec \in PositionSpec /\ ValidSpec(spec) /\ spec.decision = time
<1>1. Wanted[k] \in PositionSpec /\ ValidSpec(Wanted[k])
  BY ReplayConstants
<1>2. spec \in PositionSpec /\ spec.decision = time
  BY <1>1 DEF PositionSpec
<1>3. /\ spec.direction = Wanted[k].direction /\ spec.quantity = Wanted[k].quantity
      /\ spec.entry = Wanted[k].entry /\ spec.stop = Wanted[k].stop
      /\ spec.targets = Wanted[k].targets
  BY <1>1 DEF PositionSpec
<1>4. ValidSpec(spec)
  BY <1>1, <1>3 DEF ValidSpec, TargetUnits
<1> QED
  BY <1>2, <1>4

\* Creating the position: a new one, or one that asks for the same.
LEMMA CreatePositionKeepsFeed ==
    ASSUME CursorInv, FeedInv, NEW t \in Tabs, CreatePosition(t)
    PROVE  FeedInv'
<1> DEFINE key == work[t].command.key
<1>0. work[t].pc = "create" /\ links' = links /\ told' = told
  BY DEF CreatePosition, At
<1>1. /\ session' = session /\ session # None /\ key \in OpenKeys
      /\ DOMAIN work' = Tabs /\ \A u \in Tabs \ {t} : work'[u] = work[u]
  BY OpenEffect
<1>2. DOMAIN work = Tabs /\ DOMAIN work[t] = HandlerFields
  BY DEF CursorInv, Sane, Asked
<1>3. work[t].session.asOf \in Int
  BY <1>0 DEF FeedInv, Promised, Opening
<1>4. PICK spec : spec = [Wanted[key] EXCEPT !.decision = work[t].session.asOf]
  OBVIOUS
<1>5. spec \in PositionSpec /\ ValidSpec(spec)
  BY <1>1, <1>3, <1>4, WantedSpec
<1>6. PICK calculable, onGrid, r :
        /\ calculable \in BOOLEAN /\ onGrid \in BOOLEAN
        /\ r = OpenPosition(spec, spec.quantity, calculable, onGrid)
        /\ \/ /\ positions[key] # None /\ positions[key].spec = spec
              /\ work' = Goto(t, "link") /\ positions' = positions
           \/ (\E code : work' = Answer(t, code)) /\ positions' = positions
           \/ /\ positions[key] = None /\ r.code = OK /\ work' = Goto(t, "link")
              /\ positions' = [positions EXCEPT ![key] = r.position]
  BY <1>3, <1>4, Zenon DEF CreatePosition
<1> HIDE DEF key
<1>7. CASE (\E code : work' = Answer(t, code)) /\ positions' = positions
  BY <1>0, <1>1, <1>2, <1>7, AnswerIsNeutral, NeutralKeepsFeed
<1>8. CASE /\ work' = Goto(t, "link") /\ Later(positions, positions')
           /\ positions'[key] # None
  <2>1. /\ work'[t].pc = "link" /\ work'[t].session = work[t].session
        /\ work'[t].command.key = key
    BY <1>2, <1>8, GotoMoves DEF key
  <2>2. Feeding(work'[t], session, links, positions')
    BY <2>1 DEF Feeding
  <2>3. Opening(work'[t], positions')
    BY <1>3, <1>8, <2>1 DEF Opening
  <2> QED
    BY <1>0, <1>1, <1>8, <2>2, <2>3, GrownKeepsFeed
<1>9. CASE /\ positions[key] # None /\ positions[key].spec = spec
           /\ work' = Goto(t, "link") /\ positions' = positions
  <2>1. Later(positions, positions)
    BY DEF FeedInv, Stored, Later
  <2> QED
    BY <1>8, <1>9, <2>1
<1>10. CASE /\ positions[key] = None /\ r.code = OK /\ work' = Goto(t, "link")
            /\ positions' = [positions EXCEPT ![key] = r.position]
  <2>1. Good(r.position) /\ r.position.spec = spec
    BY <1>5, <1>6, <1>10, OpenGood
  <2>2. r.position # None
    BY <2>1, GoodIsSome
  <2>3. /\ DOMAIN positions' = OpenKeys /\ positions'[key] = r.position
        /\ \A k \in OpenKeys \ {key} : positions'[k] = positions[k]
    BY <1>1, <1>10 DEF FeedInv, Stored
  <2>4. Later(positions, positions')
    BY <1>10, <2>1, <2>3 DEF Later, FeedInv, Stored
  <2> QED
    BY <1>8, <1>10, <2>1, <2>2, <2>3, <2>4
<1> QED
  BY <1>6, <1>7, <1>9, <1>10

\* Linking it: the links that were read before stay the oldest ones.
LEMMA LinkKeepsFeed ==
    ASSUME CursorInv, FeedInv, NEW t \in Tabs, LinkPosition(t)
    PROVE  FeedInv'
<1> DEFINE key == work[t].command.key
           more == Append(links, key)
<1>1. /\ session' = session /\ session # None /\ key \in OpenKeys /\ told' = told
      /\ \A u \in Tabs \ {t} : work'[u] = work[u]
      /\ work[t].pc = "link" /\ positions' = positions
      /\ DOMAIN work = Tabs
  BY OpenEffect DEF LinkPosition, At, CursorInv
<1>2. \E code : work' = Answer(t, code)
  BY DEF LinkPosition
<1>3. Neutral(work'[t])
  BY <1>1, <1>2, AnswerIsNeutral
<1>4. links' = links \/ links' = more
  BY DEF LinkPosition
<1>5. CASE links' = links
  BY <1>1, <1>3, <1>5, NeutralKeepsFeed
<1>6. CASE links' = more
  <2>1. /\ links \in Seq(OpenKeys) /\ Len(links) \in Nat
        /\ \A i \in 1..Len(links) : positions[links[i]] # None
    BY DEF FeedInv, Stored
  <2>2. positions[key] # None
    BY <1>1 DEF FeedInv, Promised, Opening
  <2>3. /\ more \in Seq(OpenKeys) /\ Len(more) = Len(links) + 1
        /\ \A i \in 1..Len(links) : more[i] = links[i]
        /\ \A i \in 1..Len(more) : i \in 1..Len(links) \/ more[i] = key
    BY <1>1, <2>1
  <2> HIDE DEF key, more
  <2>4. Stored(more, positions)
    BY <2>1, <2>2, <2>3 DEF FeedInv, Stored
  <2>5. Caught(session, more, positions, told)
    <3>1. /\ told \in Seq(Nat) /\ Len(told) = session.revealed
          /\ \A j \in 1..Len(told) :
                /\ told[j] <= Len(links)
                /\ \A i \in 1..told[j] : Handled(positions[links[i]], Candles[j])
      BY <1>1 DEF FeedInv, Caught
    <3>2. ASSUME NEW j \in 1..Len(told)
          PROVE  /\ told[j] <= Len(more)
                 /\ \A i \in 1..told[j] : Handled(positions[more[i]], Candles[j])
      <4>1. told[j] \in Nat /\ told[j] <= Len(links)
        BY <3>1
      <4>2. Len(links) \in Nat /\ Len(more) \in Nat /\ Len(links) <= Len(more)
        BY <2>1, <2>3
      <4>3. told[j] <= Len(more)
        BY <4>1, <4>2
      <4>4. ASSUME NEW i \in 1..told[j]
            PROVE  Handled(positions[more[i]], Candles[j])
        <5>1. i \in 1..Len(links)
          BY <4>1, <4>2
        <5>2. more[i] = links[i]
          BY <2>3, <5>1
        <5> QED
          BY <3>1, <5>2
      <4> QED
        BY <4>3, <4>4
    <3> QED
      BY <1>1, <3>1, <3>2 DEF Caught
  <2>6. ASSUME NEW u \in Tabs
        PROVE  Feeding(work'[u], session, more, positions) /\ Opening(work'[u], positions)
    <3>1. CASE u = t
      BY <1>3, <3>1, NeutralPromises
    <3>2. CASE u # t
      <4>1. work'[u] = work[u] /\ Opening(work[u], positions)
        BY <1>1, <3>2 DEF FeedInv, Promised
      <4>2. Feeding(work[u], session, links, positions)
        BY DEF FeedInv, Promised
      <4>3. Feeding(work[u], session, more, positions)
        <5> SUFFICES ASSUME work[u].pc = "feed"
                     PROVE  Feeding(work[u], session, more, positions)
          BY DEF Feeding
        <5>1. /\ Len(work[u].links) \in Nat /\ Len(work[u].links) <= Len(links)
              /\ \A m \in 1..Len(work[u].links) : work[u].links[m] = links[m]
              /\ work[u].fed \in 0..Len(work[u].links)
              /\ work[u].session = session =>
                    \A m \in 1..work[u].fed :
                        Handled(positions[links[m]], Candles[session.revealed + 1])
          BY <4>2 DEF Feeding
        <5>2. /\ Len(work[u].links) <= Len(more)
              /\ \A m \in 1..Len(work[u].links) : m \in 1..Len(links)
              /\ \A m \in 1..work[u].fed : m \in 1..Len(links)
          BY <2>1, <2>3, <5>1
        <5> QED
          BY <2>3, <5>1, <5>2 DEF Feeding
      <4> QED
        BY <4>1, <4>3
    <3> QED
      BY <3>1, <3>2
  <2>7. Promised(work', session, more, positions)
    BY <2>6 DEF Promised
  <2> QED
    BY <1>1, <1>6, <2>4, <2>5, <2>7 DEF FeedInv
<1> QED
  BY <1>4, <1>5, <1>6

\* A command on a linked position.
LEMMA CommandKeepsFeed ==
    ASSUME CursorInv, FeedInv, PositionCommand
    PROVE  FeedInv'
<1>1. PICK i \in DOMAIN links, kind \in {"CLOSE", "BREAKEVEN", "CANCEL"} :
        /\ positions' = [positions EXCEPT ![links[i]] = ApplyCommand(@, kind).position]
        /\ UNCHANGED <<session, links, work, told>>
  BY DEF PositionCommand
<1>2. i \in 1..Len(links) /\ links[i] \in OpenKeys /\ positions[links[i]] # None
  BY DEF FeedInv, Stored
<1>3. PICK k, q : k = links[i] /\ q = ApplyCommand(positions[k], kind).position
  OBVIOUS
<1>4. positions' = [positions EXCEPT ![k] = q]
  BY <1>1, <1>3
<1>5. k \in OpenKeys /\ positions[k] # None /\ Good(positions[k]) /\ kind \in CommandKinds
  BY <1>2, <1>3 DEF FeedInv, Stored, CommandKinds
<1>6. Grows(positions[k], q)
  BY <1>3, <1>5, CommandGrows
<1>7. PICK qs : qs = positions'
  OBVIOUS
<1>8. Later(positions, qs)
  BY <1>4, <1>5, <1>6, <1>7, OneLater DEF FeedInv
<1>9. \A u \in Tabs : work[u].pc = "link" => work[u].command.key \in OpenKeys
  BY DEF CursorInv, Sane, Asked, OpenPcs
<1>10. /\ Stored(links, qs) /\ Caught(session, links, qs, told)
       /\ Promised(work, session, links, qs)
  BY <1>8, <1>9, LaterKeeps DEF FeedInv
<1> QED
  BY <1>1, <1>7, <1>10 DEF FeedInv

\* Every step keeps the invariant of the feed.
LEMMA FeedStep ==
    ASSUME CursorInv, FeedInv, [Next]_vars
    PROVE  FeedInv'
<1>1. CASE UNCHANGED vars
  BY <1>1 DEF vars, FeedInv
<1> QED
  BY <1>1, CreateKeepsFeed, InsertKeepsFeed, ReceiveKeepsFeed, PlanKeepsFeed, FeedKeepsFeed,
     AdvanceKeepsFeed, CountKeepsFeed, CreatePositionKeepsFeed, LinkKeepsFeed,
     CommandKeepsFeed DEF Next

\* A position misses no candle, from its decision to its end, of an advance that had
\* read its link, whatever deliveries fail, commands repeat, advances race, positions
\* are opened meanwhile and answers get lost.
THEOREM ReadLinksAreFed == Spec => []ReadLinksMissNothing
<1>1. Init => FeedInv
  <2> SUFFICES ASSUME Init PROVE FeedInv
    OBVIOUS
  <2>1. /\ links = <<>> /\ links \in Seq(OpenKeys) /\ Len(links) = 0 /\ session = None
        /\ told = <<>> /\ told \in Seq(Nat) /\ Len(told) = 0
    BY DEF Init
  <2>2. Stored(links, positions)
    BY <2>1 DEF Init, Stored
  <2>3. Caught(session, links, positions, told)
    BY <2>1 DEF Caught
  <2>4. \A t \in Tabs : work[t].pc = "idle"
    BY DEF Init, Idle
  <2> QED
    BY <2>2, <2>3, <2>4 DEF FeedInv, Promised, Feeding, Opening
<1>2. CursorInv /\ FeedInv /\ [Next]_vars => FeedInv'
  BY FeedStep
<1>3. FeedInv => ReadLinksMissNothing
  <2> SUFFICES ASSUME FeedInv, NEW i \in DOMAIN told, NEW n \in 1..told[i]
               PROVE  Handled(positions[links[n]], Candles[i])
    BY DEF ReadLinksMissNothing, Handled, ClosedBefore
  <2>1. DOMAIN told = 1..Len(told)
    BY DEF FeedInv, Caught
  <2> QED
    BY <2>1 DEF FeedInv, Caught
<1> QED
  BY <1>1, <1>2, <1>3, CursorInvariant, PTL DEF Spec

=============================================================================
