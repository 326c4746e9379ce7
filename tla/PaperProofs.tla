---------------------------- MODULE PaperProofs ----------------------------
(***************************************************************************)
(* Proofs about PaperPosition, for every set of specifications and bars,   *)
(* every interval and point value: type correctness, the accounting of     *)
(* units, the unreachability of the exit guards, the stop that never       *)
(* loosens; and what a ledger says of its history: it replays to the       *)
(* position, is in market order, credits no target of an ambiguous bar,    *)
(* and its entries add up to the units, the money and the fees held.       *)
(*                                                                         *)
(* Then what is committed by the paper-trading service, for any number of  *)
(* requests, positions and bars.  The argument is the row lock: between    *)
(* its locking SELECT (or its INSERT) and its commit a request owns its    *)
(* row, so what it loaded is still what is committed, and what it computed *)
(* from it continues the committed ledger.                                 *)
(***************************************************************************)
EXTENDS PaperPosition, PaperService, PaperEngineProofs

(***************************************************************************)
(* The invariant and the theorems about single positions.                  *)
(***************************************************************************)
IInv == position # None => Good(position)

\* Every step keeps the invariant and never loosens the stop.
LEMMA NextKeepsIInv ==
    ASSUME IInv, [PositionNext]_position
    PROVE  IInv' /\ (position # None => Tightens(position, position'))
<1>1. CASE \E spec \in Specs, approval \in Approvals, calculable \in BOOLEAN,
              onGrid \in BOOLEAN : Open(spec, approval, calculable, onGrid)
  <2>1. PICK spec \in Specs, approval \in Approvals, calculable \in BOOLEAN,
             onGrid \in BOOLEAN : Open(spec, approval, calculable, onGrid)
    BY <1>1
  <2>2. spec \in PositionSpec
    BY PaperInputs
  <2> QED
    BY <2>1, <2>2, OpenGood DEF Open, IInv
<1>2. CASE \E bar \in Bars : Observe(bar)
  <2>1. PICK bar \in Bars : Observe(bar)
    BY <1>2
  <2>2. bar \in Bar
    BY PaperInputs
  <2> QED
    BY <2>1, <2>2, ObservationKeepsGood DEF Observe, IInv
<1>3. CASE Close
  BY <1>3, CommandsKeepGood DEF Close, IInv
<1>4. CASE Breakeven
  BY <1>4, CommandsKeepGood DEF Breakeven, IInv
<1>5. CASE CancelEntry
  BY <1>5, CommandsKeepGood DEF CancelEntry, IInv
<1>6. CASE UNCHANGED position
  <2>1. position # None => position.stop \in Int
    BY DEF IInv, Good, PaperPositions, Builders
  <2> QED
    BY <1>6, <2>1 DEF IInv, Tightens
<1> QED
  BY <1>1, <1>2, <1>3, <1>4, <1>5, <1>6 DEF PositionNext

\* The inductive invariant holds of every reachable position.
THEOREM Invariance == Lifetime => []IInv
<1>1. PositionInit => IInv
  BY DEF PositionInit, IInv
<1>2. IInv /\ [PositionNext]_position => IInv'
  BY NextKeepsIInv
<1> QED
  BY <1>1, <1>2, PTL DEF Lifetime

\* A position is always a well-formed PaperPosition of a valid specification;
\* in particular no stored position carries an exception.
THEOREM TypeCorrectness == Lifetime => []TypeOK
<1>1. IInv => TypeOK
  BY DEF IInv, Good, TypeOK
<1> QED
  BY <1>1, Invariance, PTL

\* An exposed position holds exactly its quantity less the units of its filled
\* targets, and no other state holds any.
THEOREM Accounting == Lifetime => []UnitsAccounted
<1>1. IInv => UnitsAccounted
  BY DEF IInv, Good, UnitsAccounted
<1> QED
  BY <1>1, Invariance, PTL

\* The two INVALID_TRANSITION guards of the exits are dead code: for every
\* specification and every bar a live position is offered.
THEOREM GuardsUnreachable == Lifetime => []ExitGuardsUnreachable
<1>1. IInv => ExitGuardsUnreachable
  <2> SUFFICES ASSUME IInv, position # None, position.state \notin Terminal,
                      NEW bar \in Bars
               PROVE  Process(position, bar).error \in {OK, "FILL_NOT_POSITIVE"}
    BY DEF ExitGuardsUnreachable
  <2>1. Good(position) /\ bar \in Bar
    BY PaperInputs DEF IInv
  <2> QED
    BY <2>1, ProcessKeepsUnits DEF Soft
<1> QED
  BY <1>1, Invariance, PTL

\* No input moves the stop of a position away from the market.
THEOREM StopOnlyTightens == Lifetime => StopNeverLoosens
<1>1. IInv /\ [PositionNext]_position =>
        [position # None => Tightens(position, position')]_position
  BY NextKeepsIInv
<1> QED
  BY <1>1, Invariance, PTL DEF Lifetime, StopNeverLoosens


(***************************************************************************)
(* The history a ledger keeps.                                             *)
(***************************************************************************)

\* A step opens a position, offers it a bar, gives it a command or does nothing.
LEMMA StepKinds ==
    ASSUME [PositionNext]_position
    PROVE  \/ position' = position
           \/ /\ position = None
              /\ \E spec \in PositionSpec, approval \in Nat \cup {None},
                    calculable \in BOOLEAN, onGrid \in BOOLEAN :
                   /\ ValidSpec(spec)
                   /\ position' = OpenPosition(spec, approval, calculable, onGrid).position
           \/ /\ position # None
              /\ \E bar \in Bar : position' = ApplyObservation(position, bar).position
           \/ /\ position # None
              /\ \E kind \in CommandKinds : position' = ApplyCommand(position, kind).position
<1>1. CASE \E spec \in Specs, approval \in Approvals, calculable \in BOOLEAN,
              onGrid \in BOOLEAN : Open(spec, approval, calculable, onGrid)
  BY <1>1, PaperInputs, Zenon DEF Open
<1>2. CASE \E bar \in Bars : Observe(bar)
  BY <1>2, PaperInputs DEF Observe
<1>3. CASE Close
  BY <1>3 DEF Close, CommandKinds, ApplyCommand
<1>4. CASE Breakeven
  BY <1>4 DEF Breakeven, CommandKinds, ApplyCommand
<1>5. CASE CancelEntry
  BY <1>5 DEF CancelEntry, CommandKinds, ApplyCommand
<1> QED
  BY <1>1, <1>2, <1>3, <1>4, <1>5 DEF PositionNext

-----------------------------------------------------------------------------
ReplayInv == position # None => Reproduces(position, position.spec.quantity)

\* Every step keeps it.
LEMMA NextKeepsReplay ==
    ASSUME IInv, ReplayInv, [PositionNext]_position
    PROVE  ReplayInv'
<1> SUFFICES ASSUME position' # None
             PROVE  Reproduces(position', position'.spec.quantity)
  BY DEF ReplayInv
<1>1. CASE position' = position
  BY <1>1 DEF ReplayInv
<1>2. ASSUME NEW spec \in PositionSpec, NEW approval \in Nat \cup {None},
             NEW calculable \in BOOLEAN, NEW onGrid \in BOOLEAN,
             position' = OpenPosition(spec, approval, calculable, onGrid).position
      PROVE  Reproduces(position', position'.spec.quantity)
  <2> DEFINE p == position'
  <2>1. OpenPosition(spec, approval, calculable, onGrid) = Result(OK, p)
    BY <1>2, OpenedPosition
  <2>2. spec.quantity \in Int /\ spec.quantity <= spec.quantity
    BY DEF PositionSpec
  <2> HIDE DEF p
  <2>3. Reproduces(p, spec.quantity) /\ p.spec = spec
    BY <2>1, <2>2, OpenReproduces
  <2> QED BY <2>3 DEF p
<1>3. ASSUME position # None, NEW bar \in Bar,
             position' = ApplyObservation(position, bar).position
      PROVE  Reproduces(position', position'.spec.quantity)
  BY <1>3, ObservationReproduces DEF ReplayInv
<1>4. ASSUME position # None, NEW kind \in CommandKinds,
             position' = ApplyCommand(position, kind).position
      PROVE  Reproduces(position', position'.spec.quantity)
  BY <1>4, CommandReproduces DEF ReplayInv
<1> QED
  BY <1>1, <1>2, <1>3, <1>4, StepKinds

\* Rebuilding the stored ledger gives exactly the live position.
THEOREM ReplayFidelity == Lifetime => []ReplayReproduces
<1>1. PositionInit => ReplayInv
  BY DEF PositionInit, ReplayInv
<1>2. IInv /\ ReplayInv /\ [PositionNext]_position => ReplayInv'
  BY NextKeepsReplay
<1>3. ReplayInv => ReplayReproduces
  <2> SUFFICES ASSUME ReplayInv, position # None
               PROVE  Rebuild(position.spec, position.spec.quantity, position.events)
                        = Result(OK, position)
    BY DEF ReplayReproduces
  <2>1. Replay(position.spec, position.spec.quantity, position.events) = Result(OK, position)
    BY DEF ReplayInv, Reproduces
  <2> QED BY <2>1 DEF Rebuild, Reproduced, Result
<1> QED
  BY <1>1, <1>2, <1>3, Invariance, PTL DEF Lifetime

-----------------------------------------------------------------------------
(***************************************************************************)
(* Market order.  The latest market time a position knows of is its last   *)
(* bar, or its decision while it has seen none.  No event is later, and    *)
(* before the first bar no request carries a time.                         *)
(***************************************************************************)
Asks == {"CLOSE_REQUESTED", "STOP_MOVED_TO_BREAKEVEN"}

Dated(p) ==
    \A i \in 1..Len(p.events) :
        p.events[i].time # None =>
            /\ p.events[i].time \in Int /\ p.events[i].time <= Known(p)
            /\ p.lastBar = None => p.events[i].type \notin Asks

InOrder(before, after) ==
    before.time # None /\ after.time # None =>
        /\ before.time <= after.time
        /\ before.type \in Asks /\ after.type \in FillTypes => before.time < after.time

Ordered(p) ==
    \A i, j \in 1..Len(p.events) : i < j => InOrder(p.events[i], p.events[j])

Chronicle(p) == Dated(p) /\ Ordered(p)

\* Events of a bar later than every one seen.
LEMMA BarKeepsChronicle ==
    ASSUME NEW p, Shaped(p), Chronicle(p), Known(p) \in Int,
           NEW t \in Int, Known(p) <= t, p.lastBar # None => p.lastBar < t,
           NEW q, q.lastBar = t, NEW T, T \cap Asks = {},
           Extends(p, q, t, T)
    PROVE  Chronicle(q)
<1> DEFINE m == Len(p.events)
           n == Len(q.events)
           s == p.events
           u == q.events
<1>1. t # None /\ Known(q) = t
  BY PaperConstants DEF Known
<1>2. /\ m \in Nat /\ n \in Nat /\ m <= n
      /\ \A i \in 1..m : s[i] = u[i]
      /\ \A i \in (m + 1)..n : u[i].type \notin Asks /\ u[i].time = t
  BY DEF Extends, Continues
<1>3. /\ \A i \in 1..m : s[i].time # None =>
            /\ s[i].time \in Int /\ s[i].time <= Known(p)
            /\ p.lastBar = None => s[i].type \notin Asks
      /\ \A i, j \in 1..m : i < j => InOrder(s[i], s[j])
  BY DEF Chronicle, Dated, Ordered
<1> HIDE DEF m, n, s, u
<1>4. ASSUME NEW i \in 1..n, u[i].time # None
      PROVE  /\ u[i].time \in Int /\ u[i].time <= t
             /\ i \in 1..m => u[i].time <= Known(p)
             /\ i \in 1..m /\ u[i].type \in Asks => u[i].time < t
  <2>1. CASE i \in 1..m
    <3>1. /\ u[i].time \in Int /\ u[i].time <= Known(p)
          /\ u[i].type \in Asks => p.lastBar # None
      BY <1>2, <1>3, <1>4, <2>1
    <3>2. p.lastBar # None => Known(p) = p.lastBar
      BY DEF Known
    <3> QED BY <3>1, <3>2
  <2>2. CASE i \notin 1..m
    BY <1>2, <2>2
  <2> QED BY <2>1, <2>2
<1>5. Dated(q)
  BY <1>1, <1>4 DEF Dated, u, n
<1>6. ASSUME NEW i \in 1..n, NEW j \in 1..n, i < j
      PROVE  InOrder(u[i], u[j])
  <2>1. CASE j \in 1..m
    BY <1>2, <1>3, <1>6, <2>1
  <2>2. CASE j \notin 1..m
    <3>1. u[j].time = t
      BY <1>2, <2>2
    <3>2. i \notin 1..m => u[i].type \notin Asks
      BY <1>2
    <3> QED BY <1>4, <3>1, <3>2 DEF InOrder
  <2> QED BY <2>1, <2>2
<1>7. Ordered(q)
  BY <1>6 DEF Ordered, u, n
<1> QED BY <1>5, <1>7 DEF Chronicle

\* A command is dated by the last bar, or not at all.
LEMMA CommandKeepsChronicle ==
    ASSUME NEW p, Shaped(p), Chronicle(p), p.lastBar \in Int \cup {None},
           NEW e, e.type \notin FillTypes, e.time = p.lastBar \/ e.time = None,
           NEW q, q.lastBar = p.lastBar, q.spec = p.spec, q.events = Append(p.events, e)
    PROVE  Chronicle(q)
<1> DEFINE m == Len(p.events)
           s == p.events
           u == q.events
<1>1. IsLedger(s)
  BY DEF Shaped
<1>2. /\ Continues(s, Append(s, e)) /\ Len(Append(s, e)) = Len(s) + 1
      /\ Append(s, e)[Len(s) + 1] = e
  <2> HIDE DEF s
  <2> QED BY <1>1, AppendToLedger
<1>3. m \in Nat /\ Len(u) = m + 1 /\ u[m + 1] = e /\ \A i \in 1..m : u[i] = s[i]
  BY <1>2 DEF Continues
<1>4. /\ \A i \in 1..m : s[i].time # None =>
            /\ s[i].time \in Int /\ s[i].time <= Known(p)
            /\ p.lastBar = None => s[i].type \notin Asks
      /\ \A i, j \in 1..m : i < j => InOrder(s[i], s[j])
  BY DEF Chronicle, Dated, Ordered
<1>5. Known(q) = Known(p) /\ (p.lastBar # None => Known(p) = p.lastBar)
  BY DEF Known
<1> HIDE DEF m, s, u
<1>6. ASSUME NEW i \in 1..(m + 1), u[i].time # None
      PROVE  /\ u[i].time \in Int /\ u[i].time <= Known(q)
             /\ q.lastBar = None => u[i].type \notin Asks
  <2>1. CASE i = m + 1
    BY <1>3, <1>5, <1>6, <2>1
  <2>2. CASE i \in 1..m
    BY <1>3, <1>4, <1>5, <1>6, <2>2
  <2> QED BY <1>3, <2>1, <2>2
<1>7. Dated(q)
  BY <1>3, <1>6 DEF Dated, u
<1>8. ASSUME NEW i \in 1..(m + 1), NEW j \in 1..(m + 1), i < j
      PROVE  InOrder(u[i], u[j])
  <2>1. CASE j \in 1..m
    BY <1>3, <1>4, <1>8, <2>1
  <2>2. CASE j = m + 1
    <3>1. i \in 1..m /\ u[j] = e
      BY <1>3, <1>8, <2>2
    <3>2. e.time # None => e.time = p.lastBar /\ Known(p) = e.time
      BY <1>5
    <3>3. u[i].time # None => u[i].time <= Known(p)
      BY <1>3, <1>4, <3>1
    <3> QED BY <3>1, <3>2, <3>3 DEF InOrder
  <2> QED BY <1>3, <2>1, <2>2
<1>9. Ordered(q)
  BY <1>3, <1>8 DEF Ordered, u
<1> QED BY <1>7, <1>9 DEF Chronicle

OrderInv == position # None => Shaped(position) /\ Chronicle(position)

\* Every step keeps the ledger in market order.
LEMMA NextKeepsOrder ==
    ASSUME IInv, OrderInv, [PositionNext]_position
    PROVE  OrderInv'
<1> DEFINE p == position
           q == position'
<1> SUFFICES ASSUME q # None PROVE Shaped(q) /\ Chronicle(q)
  BY DEF OrderInv
<1>1. CASE q = p
  BY <1>1 DEF OrderInv
<1>2. ASSUME NEW spec \in PositionSpec, NEW approval \in Nat \cup {None},
             NEW calculable \in BOOLEAN, NEW onGrid \in BOOLEAN,
             q = OpenPosition(spec, approval, calculable, onGrid).position
      PROVE  Shaped(q) /\ Chronicle(q)
  <2> HIDE DEF q
  <2>1. OpenPosition(spec, approval, calculable, onGrid) = Result(OK, q)
    BY <1>2, OpenedPosition
  <2>2. spec.quantity \in Int /\ spec.quantity <= spec.quantity /\ spec.decision \in Int
    BY DEF PositionSpec
  <2>3. /\ Shaped(q) /\ q.spec = spec
        /\ q.events = <<Event("POSITION_CREATED", spec.decision, None)>>
    BY <2>1, <2>2, OpenReproduces DEF Reproduces
  <2>4. q.lastBar = None
    BY <1>2 DEF OpenPosition, Result
  <2> QED BY <2>2, <2>3, <2>4 DEF Chronicle, Dated, Ordered, Known, Event, Asks
<1>3. ASSUME p # None, NEW bar \in Bar, q = ApplyObservation(p, bar).position
      PROVE  Shaped(q) /\ Chronicle(q)
  <2>1. Good(p) /\ Shaped(p) /\ Chronicle(p) /\ bar.time \in Int
    BY <1>3 DEF IInv, OrderInv, Bar
  <2>2. /\ p.lastBar \in Int \cup {None} /\ p.spec.decision \in Int /\ Known(p) \in Int
    BY <2>1, GoodShape
  <2>3. \/ q = p
        \/ /\ q = Process(p, bar) /\ ~(bar.time < p.spec.decision)
           /\ p.lastBar # None => ~(bar.time <= p.lastBar)
    BY <1>3, ObservationCases DEF Result
  <2>4. Processed \cap Asks = {}
    BY DEF Processed, Derived, Asks
  <2> HIDE DEF p, q
  <2>5. CASE q # p
    <3>1. Known(p) <= bar.time /\ (p.lastBar # None => p.lastBar < bar.time)
      BY <2>1, <2>2, <2>3, <2>5 DEF Known
    <3>2. Extends(p, q, bar.time, Processed) /\ q.lastBar = bar.time
      BY <2>1, <2>3, <2>5, ProcessAdds
    <3>3. Chronicle(q)
      BY <2>1, <2>2, <2>4, <3>1, <3>2, BarKeepsChronicle
    <3> QED BY <3>2, <3>3 DEF Extends
  <2> QED BY <2>1, <2>5
<1>4. ASSUME p # None, NEW kind \in CommandKinds, q = ApplyCommand(p, kind).position
      PROVE  Shaped(q) /\ Chronicle(q)
  <2>1. Good(p) /\ Shaped(p) /\ Chronicle(p)
    BY <1>4 DEF IInv, OrderInv
  <2>2. p.lastBar \in Int \cup {None}
    BY <2>1, GoodShape
  <2> HIDE DEF p, q
  <2>3. \/ q = p
        \/ \E type \in {"CLOSE_REQUESTED", "STOP_MOVED_TO_BREAKEVEN", "POSITION_CANCELLED"} :
             \E t \in {p.lastBar, None} : Told(p, q, type, t)
    BY <1>4, <2>1, CommandCases
  <2>4. ASSUME NEW type \in {"CLOSE_REQUESTED", "STOP_MOVED_TO_BREAKEVEN", "POSITION_CANCELLED"},
               NEW t \in {p.lastBar, None}, Told(p, q, type, t)
        PROVE  Shaped(q) /\ Chronicle(q)
    <3> DEFINE e == Event(type, t, None)
    <3>1. e.type \notin FillTypes /\ (e.time = p.lastBar \/ e.time = None)
      BY DEF Event, FillTypes
    <3>2. /\ Shaped(q) /\ q.lastBar = p.lastBar /\ q.spec = p.spec
          /\ q.events = Append(p.events, e)
      BY <2>4 DEF Told
    <3> HIDE DEF e
    <3> QED BY <2>1, <2>2, <3>1, <3>2, CommandKeepsChronicle
  <2> QED BY <2>1, <2>3, <2>4
<1> QED
  BY <1>1, <1>2, <1>3, <1>4, StepKinds

\* The ledger runs in market order and a request is only filled by a later bar.
THEOREM MarketOrder == Lifetime => []NoLookAhead
<1>1. PositionInit => OrderInv
  BY DEF PositionInit, OrderInv
<1>2. IInv /\ OrderInv /\ [PositionNext]_position => OrderInv'
  BY NextKeepsOrder
<1>3. OrderInv => NoLookAhead
  <2> SUFFICES ASSUME OrderInv, position # None,
                      NEW i \in DOMAIN position.events, NEW j \in DOMAIN position.events,
                      i < j
               PROVE  InOrder(position.events[i], position.events[j])
    BY DEF NoLookAhead, InOrder, Asks
  <2>1. DOMAIN position.events = 1..Len(position.events)
    BY DEF OrderInv, Shaped, IsLedger
  <2> QED BY <2>1 DEF OrderInv, Chronicle, Ordered
<1> QED
  BY <1>1, <1>2, <1>3, Invariance, PTL DEF Lifetime

-----------------------------------------------------------------------------
SilentInv == position # None => Silent(position)

\* Every step keeps the ledger silent about ambiguous bars.
LEMMA NextKeepsSilent ==
    ASSUME IInv, SilentInv, [PositionNext]_position
    PROVE  SilentInv'
<1> SUFFICES ASSUME position' # None PROVE Silent(position')
  BY DEF SilentInv
<1>1. position # None => Good(position) /\ Silent(position)
  BY DEF IInv, SilentInv
<1>2. ASSUME NEW spec \in PositionSpec, NEW approval \in Nat \cup {None},
             NEW calculable \in BOOLEAN, NEW onGrid \in BOOLEAN,
             position' = OpenPosition(spec, approval, calculable, onGrid).position
      PROVE  Silent(position')
  BY <1>2, OpenSilent
<1>3. ASSUME position # None
      PROVE  /\ \A bar \in Bar : Silent(ApplyObservation(position, bar).position)
             /\ \A kind \in CommandKinds : Silent(ApplyCommand(position, kind).position)
  BY <1>1, <1>3, ObservationKeepsSilent, CommandKeepsSilent
<1> QED
  BY <1>1, <1>2, <1>3, StepKinds

\* Nothing after an ambiguous bar credits a target, whatever follows it.
THEOREM NeverCredited == Lifetime => []AmbiguityNeverCredited
<1>1. PositionInit => SilentInv
  BY DEF PositionInit, SilentInv
<1>2. IInv /\ SilentInv /\ [PositionNext]_position => SilentInv'
  BY NextKeepsSilent
<1>3. IInv /\ SilentInv => AmbiguityNeverCredited
  <2> SUFFICES ASSUME IInv, SilentInv, position # None,
                      NEW i \in DOMAIN position.events, NEW j \in DOMAIN position.events,
                      i < j, position.events[i].type = "SAME_BAR_AMBIGUITY"
               PROVE  position.events[j].type \notin Forbidden(position.spec)
    BY DEF AmbiguityNeverCredited, Forbidden
  <2>1. DOMAIN position.events = 1..Len(position.events)
    BY GoodShape DEF IInv, Shaped, IsLedger
  <2> QED BY <2>1 DEF SilentInv, Silent, Uncredited
<1> QED
  BY <1>1, <1>2, <1>3, Invariance, PTL DEF Lifetime

-----------------------------------------------------------------------------
(***************************************************************************)
(* Double entry.                                                           *)
(***************************************************************************)
BalanceInv == position # None => Balanced(position)

\* Every step keeps the ledger balanced.
LEMMA NextKeepsBalance ==
    ASSUME IInv, BalanceInv, [PositionNext]_position
    PROVE  BalanceInv'
<1> SUFFICES ASSUME position' # None PROVE Balanced(position')
  BY DEF BalanceInv
<1>1. position # None => Good(position) /\ Balanced(position)
  BY DEF IInv, BalanceInv
<1>2. ASSUME NEW spec \in PositionSpec, NEW approval \in Nat \cup {None},
             NEW calculable \in BOOLEAN, NEW onGrid \in BOOLEAN,
             position' = OpenPosition(spec, approval, calculable, onGrid).position
      PROVE  Balanced(position')
  BY <1>2, OpenBalanced
<1>3. ASSUME position # None
      PROVE  /\ \A bar \in Bar : Balanced(ApplyObservation(position, bar).position)
             /\ \A kind \in CommandKinds : Balanced(ApplyCommand(position, kind).position)
  BY <1>1, <1>3, ObservationKeepsBalance, CommandKeepsBalance
<1> QED
  BY <1>1, <1>2, <1>3, StepKinds

\* The ledger's fills add up to the position's units, money and fees.
THEOREM DoubleEntry == Lifetime => []LedgerBalances
<1>1. PositionInit => BalanceInv
  BY DEF PositionInit, BalanceInv
<1>2. IInv /\ BalanceInv /\ [PositionNext]_position => BalanceInv'
  BY NextKeepsBalance
<1>3. BalanceInv => LedgerBalances
  BY DEF BalanceInv, Balanced, LedgerBalances, Entered, Exited, Realized
<1> QED
  BY <1>1, <1>2, <1>3, Invariance, PTL DEF Lifetime

-----------------------------------------------------------------------------
(***************************************************************************)
(* What the handlers compute from a position that its ledger reproduces.   *)
(***************************************************************************)

\* q came from p by accepted inputs: its ledger goes on from p's and replays to q.
Follows(q, p, approval) ==
    /\ Reproduces(q, approval) /\ q.spec = p.spec /\ Continues(p.events, q.events)
    /\ q.events = p.events => q = p

\* f records the upload's loop after each of its first n bars.
IsUpload(f, p, bars, now, n) ==
    /\ f = [i \in 0..n |-> f[i]]
    /\ f[0] = Result(OK, p)
    /\ \A i \in 1..n : f[i] = ApplyBar(f[i - 1], bars[i], now)

\* The recursive function of ApplyBars is defined, for uploads of any length.
LEMMA UploadExists ==
    ASSUME NEW p, NEW bars, NEW now
    PROVE  \A n \in Nat : \E f : IsUpload(f, p, bars, now, n)
<1> DEFINE S == {n \in Nat : \E f : IsUpload(f, p, bars, now, n)}
<1>1. 0 \in S
  <2> DEFINE f == [i \in 0..0 |-> Result(OK, p)]
  <2>1. IsUpload(f, p, bars, now, 0)
    BY DEF IsUpload
  <2> QED BY <2>1
<1>2. ASSUME NEW n \in Nat, n \in S
      PROVE  n + 1 \in S
  <2>1. PICK f : IsUpload(f, p, bars, now, n)
    BY <1>2
  <2> DEFINE g == [i \in 0..(n + 1) |-> IF i = n + 1 THEN ApplyBar(f[n], bars[n + 1], now)
                                        ELSE f[i]]
  <2>2. /\ f[0] = Result(OK, p)
        /\ \A i \in 1..n : f[i] = ApplyBar(f[i - 1], bars[i], now)
    BY <2>1, Zenon DEF IsUpload
  <2>3. /\ g[n + 1] = ApplyBar(f[n], bars[n + 1], now)
        /\ \A i \in 0..n : g[i] = f[i]
    OBVIOUS
  <2>4. g = [i \in 0..(n + 1) |-> g[i]]
    OBVIOUS
  <2> HIDE DEF g
  <2>5. g[0] = Result(OK, p)
    BY <2>2, <2>3
  <2>6. ASSUME NEW i \in 1..(n + 1)
        PROVE  g[i] = ApplyBar(g[i - 1], bars[i], now)
    <3>1. i - 1 \in 0..n /\ (i = n + 1 \/ i \in 1..n)
      OBVIOUS
    <3>2. g[i - 1] = f[i - 1]
      BY <2>3, <3>1
    <3>3. CASE i = n + 1
      BY <2>3, <3>2, <3>3
    <3>4. CASE i \in 1..n
      <4>1. f[i] = ApplyBar(f[i - 1], bars[i], now) /\ i \in 0..n
        BY <2>2, <3>4
      <4> QED BY <2>3, <3>2, <4>1
    <3> QED BY <3>1, <3>3, <3>4
  <2>7. IsUpload(g, p, bars, now, n + 1)
    BY <2>4, <2>5, <2>6, Zenon DEF IsUpload
  <2> QED BY <2>7
<1> HIDE DEF S
<1>3. \A n \in Nat : n \in S
  BY <1>1, <1>2, SetInduction
<1> QED
  BY <1>3 DEF S

\* What ApplyBars returns is the last entry of that record.
LEMMA UploadFunction ==
    ASSUME NEW p, NEW bars, NEW now, Len(bars) \in Nat
    PROVE  \E f : /\ IsUpload(f, p, bars, now, Len(bars))
                  /\ ApplyBars(p, bars, now) = f[Len(bars)]
<1> DEFINE Body(f) == [i \in 0..Len(bars) |->
                          IF i = 0 THEN Result(OK, p) ELSE ApplyBar(f[i - 1], bars[i], now)]
           a == CHOOSE f : f = Body(f)
<1>1. PICK f : IsUpload(f, p, bars, now, Len(bars))
  BY UploadExists
<1>2. f = Body(f)
  <2>1. \A i \in 0..Len(bars) : f[i] = Body(f)[i]
    BY <1>1 DEF IsUpload
  <2>2. f = [i \in 0..Len(bars) |-> f[i]]
    BY <1>1 DEF IsUpload
  <2>3. Body(f) = [i \in 0..Len(bars) |-> Body(f)[i]]
    OBVIOUS
  <2> HIDE DEF Body
  <2> QED BY <2>1, <2>2, <2>3, Zenon
<1>3. a = Body(a)
  <2> HIDE DEF Body
  <2> QED BY <1>2
<1>4. IsUpload(a, p, bars, now, Len(bars))
  <2> HIDE DEF a
  <2>1. a = [i \in 0..Len(bars) |-> a[i]]
    <3>1. Body(a) = [i \in 0..Len(bars) |-> Body(a)[i]]
      OBVIOUS
    <3> HIDE DEF Body
    <3> QED BY <1>3, <3>1
  <2>2. \A i \in 0..Len(bars) : a[i] = Body(a)[i]
    <3> HIDE DEF Body
    <3> QED BY <1>3
  <2> QED BY <2>1, <2>2 DEF IsUpload
<1>5. ApplyBars(p, bars, now) = a[Len(bars)]
  BY DEF ApplyBars
<1> QED
  BY <1>4, <1>5

\* A position follows itself.
LEMMA FollowsSelf ==
    ASSUME NEW p, NEW approval, Reproduces(p, approval)
    PROVE  Follows(p, p, approval)
BY DEF Follows, Reproduces, Shaped, IsLedger, Continues

\* The positions that follow p do so through any number of inputs.
LEMMA FollowsMore ==
    ASSUME NEW p, NEW q, NEW r, NEW approval, Follows(q, p, approval),
           Reproduces(r, approval), r.spec = q.spec, Continues(q.events, r.events),
           r = q \/ Len(r.events) > Len(q.events)
    PROVE  Follows(r, p, approval)
<1>1. /\ Len(p.events) \in Nat /\ Len(q.events) \in Nat /\ Len(r.events) \in Nat
      /\ Len(p.events) <= Len(q.events) /\ Len(q.events) <= Len(r.events)
  BY DEF Follows, Continues
<1>2. Continues(p.events, r.events)
  BY <1>1 DEF Follows, Continues
<1>3. ASSUME r.events = p.events
      PROVE  r = p
  <2>1. r = q
    BY <1>1, <1>3
  <2> QED BY <1>3, <2>1 DEF Follows
<1> QED BY <1>2, <1>3 DEF Follows

\* The loop of observe: whatever the upload, where it stops the position follows
\* the one it started from.
LEMMA UploadFollows ==
    ASSUME NEW p, NEW approval, Reproduces(p, approval), NEW bars, Len(bars) \in Nat, NEW now
    PROVE  Follows(ApplyBars(p, bars, now).position, p, approval)
<1>1. PICK f : /\ IsUpload(f, p, bars, now, Len(bars))
               /\ ApplyBars(p, bars, now) = f[Len(bars)]
  BY UploadFunction
<1> DEFINE n == Len(bars)
           S == {i \in Nat : i <= n => Follows(f[i].position, p, approval)}
<1>2. /\ f[0] = Result(OK, p)
      /\ \A i \in 1..n : f[i] = ApplyBar(f[i - 1], bars[i], now)
  BY <1>1, Zenon DEF IsUpload
<1>3. 0 \in S
  BY <1>2, FollowsSelf DEF Result
<1>4. ASSUME NEW i \in Nat, i \in S
      PROVE  i + 1 \in S
  <2> SUFFICES ASSUME i + 1 <= n
               PROVE  Follows(f[i + 1].position, p, approval)
    BY <1>4
  <2> DEFINE before == f[i]
             after == f[i + 1]
             bar == bars[i + 1]
             q == before.position
             applied == ApplyObservation(q, bar)
  <2>1. Follows(q, p, approval)
    BY <1>4
  <2>2. after = ApplyBar(before, bar, now)
    <3>1. i + 1 \in 1..n /\ (i + 1) - 1 = i
      OBVIOUS
    <3> QED BY <1>2, <3>1
  <2> HIDE DEF before, after, bar
  <2>3. ApplyBar(before, bar, now)
           \in {before, Result("OBSERVATION_NOT_CLOSED", q), applied}
    BY Zenon DEF ApplyBar
  <2>4. after.position = q \/ after.position = applied.position
    <3> HIDE DEF applied
    <3> QED BY <2>2, <2>3 DEF Result
  <2>5. Follows(applied.position, p, approval)
    <3> DEFINE r == applied.position
    <3>1. Reproduces(q, approval)
      BY <2>1 DEF Follows
    <3> HIDE DEF q
    <3>2. r = ApplyObservation(q, bar).position
      OBVIOUS
    <3> HIDE DEF r
    <3>3. /\ Reproduces(r, approval) /\ r.spec = q.spec /\ Continues(q.events, r.events)
          /\ (r = q \/ Len(r.events) > Len(q.events))
      BY <3>1, <3>2, ObservationReproduces
    <3>4. Follows(r, p, approval)
      BY <2>1, <3>3, FollowsMore
    <3> QED BY <3>4 DEF r
  <2>6. Follows(after.position, p, approval)
    <3> HIDE DEF applied, q
    <3> QED BY <2>1, <2>4, <2>5
  <2> QED BY <2>6 DEF after
<1> HIDE DEF S
<1>5. n \in S
  BY <1>3, <1>4, SetInduction
<1> QED BY <1>1, <1>5 DEF S

\* The requests that change a position that exists.
Changing == {"OBSERVE"} \cup CommandKinds

\* Whatever a handler computes from a position, refused or not, follows it.
LEMMA HandledFollows ==
    ASSUME NEW p, NEW approval, Reproduces(p, approval),
           NEW command \in Requests, command.op \in Changing, NEW now
    PROVE  Follows(Handled(command, p, now).position, p, approval)
<1> DEFINE r == Handled(command, p, now)
<1>1. CASE command.op = "OBSERVE"
  <2>1. Len(command.bars) \in Nat
    BY <1>1 DEF Requests
  <2> DEFINE bars == command.bars
             applied == ApplyBars(p, bars, now)
  <2>2. r \in {Result("POSITION_BAR_LIMIT", p), applied}
    BY <1>1, Zenon DEF Handled
  <2>3. Follows(applied.position, p, approval)
    <3> HIDE DEF bars
    <3> QED BY <2>1, UploadFollows DEF bars
  <2> HIDE DEF r, applied
  <2>4. Follows(r.position, p, approval)
    BY <2>2, <2>3, FollowsSelf DEF Result
  <2> QED BY <2>4 DEF r
<1>2. CASE command.op \in CommandKinds
  <2> DEFINE kind == command.op
             q == ApplyCommand(p, kind).position
  <2>1. r = ApplyCommand(p, kind)
    BY <1>2 DEF Handled, CommandKinds
  <2> HIDE DEF r, kind
  <2>2. kind \in CommandKinds
    BY <1>2 DEF kind
  <2>3. q = ApplyCommand(p, kind).position
    OBVIOUS
  <2> HIDE DEF q
  <2>4. /\ Reproduces(q, approval) /\ q.spec = p.spec /\ Continues(p.events, q.events)
        /\ (q = p \/ Len(q.events) > Len(p.events))
    BY <2>2, <2>3, CommandReproduces
  <2>5. Follows(q, p, approval)
    BY <2>4, FollowsSelf, FollowsMore
  <2>6. Follows(r.position, p, approval)
    BY <2>1, <2>3, <2>5
  <2> QED BY <2>6 DEF r
<1> QED BY <1>1, <1>2 DEF Changing

(***************************************************************************)
(* Ledgers as sequences.                                                   *)
(***************************************************************************)

\* A ledger and another that goes on from it are sequences over one set.
LEMMA CommonSet ==
    ASSUME NEW s, IsLedger(s), NEW t, IsLedger(t)
    PROVE  \E S : s \in Seq(S) /\ t \in Seq(S)
<1>1. PICK S : s \in Seq(S)
  BY DEF IsLedger
<1>2. PICK T : t \in Seq(T)
  BY DEF IsLedger
<1>3. s \in Seq(S \cup T) /\ t \in Seq(S \cup T)
  BY <1>1, <1>2
<1> QED BY <1>3

\* The events append writes are those after the ones it loaded: with them the
\* committed ledger is the one the engine built.
LEMMA TailAppended ==
    ASSUME NEW s, IsLedger(s), NEW t, IsLedger(t), Continues(s, t)
    PROVE  s \o SubSeq(t, Len(s) + 1, Len(t)) = t
<1>1. PICK S : s \in Seq(S) /\ t \in Seq(S)
  BY CommonSet
<1> DEFINE n == Len(s)
           m == Len(t)
           u == SubSeq(t, n + 1, m)
<1>2. n \in Nat /\ m \in Nat /\ n <= m /\ \A i \in 1..n : s[i] = t[i]
  BY DEF Continues
<1>3. u \in Seq(S) /\ Len(u) = m - n /\ \A i \in 1..(m - n) : u[i] = t[n + i]
  <2>1. \A i \in (n + 1)..m : t[i] \in S
    BY <1>1, <1>2
  <2> QED BY <1>1, <1>2, <2>1
<1> HIDE DEF u
<1>4. s \o u \in Seq(S) /\ Len(s \o u) = m
  BY <1>1, <1>2, <1>3
<1>5. ASSUME NEW i \in 1..m
      PROVE  (s \o u)[i] = t[i]
  <2>1. CASE i <= n
    BY <1>1, <1>2, <1>3, <2>1
  <2>2. CASE i > n
    <3>1. i - n \in 1..(m - n) /\ n + (i - n) = i
      BY <1>2, <2>2
    <3>2. (s \o u)[i] = u[i - n]
      BY <1>1, <1>2, <1>3, <2>2
    <3> QED BY <1>3, <3>1, <3>2
  <2>3. i <= n \/ i > n
    BY <1>2
  <2> QED BY <2>1, <2>2, <2>3
<1> QED BY <1>1, <1>4, <1>5 DEF u

\* A ledger that goes on from another has it as a prefix.
LEMMA ContinuesIsPrefix ==
    ASSUME NEW s, IsLedger(s), NEW t, IsLedger(t), Continues(s, t)
    PROVE  IsPrefix(s, t)
<1>1. PICK S : s \in Seq(S) /\ t \in Seq(S)
  BY CommonSet
<1> DEFINE n == Len(s)
<1>2. n \in Nat /\ n <= Len(t) /\ \A i \in 1..n : s[i] = t[i]
  BY DEF Continues
<1>3. SubSeq(s, 1, n) = SubSeq(t, 1, n)
  BY <1>1, <1>2
<1> QED BY <1>2, <1>3 DEF IsPrefix

\* What continues a ledger that continues another continues that one.
LEMMA ContinuesTransitive ==
    ASSUME NEW s, NEW t, NEW u, Continues(s, t), Continues(t, u)
    PROVE  Continues(s, u)
BY DEF Continues

(***************************************************************************)
(* The inductive invariant.                                                *)
(***************************************************************************)
RowFields == {"spec", "approval", "version", "projection"}
WorkFields == {"command", "pc", "row", "events", "next", "answer", "retries"}

\* The row and the ledger of a position are those of p, which its ledger replays to.
Explained(row, events, p) ==
    /\ DOMAIN row = RowFields
    /\ Reproduces(p, row.approval) /\ p.spec = row.spec
    /\ p.events = events /\ row.projection = Project(p)

\* Where each kind of request can be in its handler, and what it keeps meanwhile.
Placed(x) ==
    /\ x.pc = "idle" => x = Idle
    /\ x.pc # "idle" => x.command \in Commands
    /\ x.pc \in {"find", "insert", "find winner"} => x.command.op = "CREATE"
    /\ x.pc \in {"parse", "load for update", "load events", "append"} =>
          x.command.op \in Changing
    /\ x.pc \in {"read row", "read events"} => x.command.op = "GET"
    /\ x.pc = "commit" => x.command.op \in Changing \cup {"CREATE"}
    /\ x.pc \in {"find", "insert"} => x.events = <<>>
    /\ x.pc # "done" => x.answer = None

\* A create that passed its checks: its position is the one the engine opens.
Accepted(x) ==
    /\ ValidSpec(x.command.spec)
    /\ \E now \in Nows : x.command.spec.decision <= now
    /\ Reopened(x.command.spec, x.command.approval) = Result(OK, x.next)
    /\ x.events = <<>>

\* A change computed from p, with something new to write.
Computed(x, p) ==
    /\ \E now \in Nows : /\ Handled(x.command, p, now).code = OK
                         /\ Handled(x.command, p, now).position = x.next
    /\ Len(x.next.events) > Len(p.events)

Creating(x) == x.pc = "commit" /\ x.command.op = "CREATE"
Saving(x) == x.pc = "append" \/ (x.pc = "commit" /\ x.command.op # "CREATE")
Changes(x) == x.pc = "load events" \/ Saving(x)

\* The transaction that holds a row still sees what it loaded.
Held(w) ==
    LET x == work[w]
        k == work[w].command.key
    IN  /\ Changes(x) => lock[k] = w /\ k \in DOMAIN rows /\ x.row = rows[k]
        /\ Saving(x) => /\ x.events = ledger[k]
                        /\ \E p : Explained(x.row, ledger[k], p) /\ Computed(x, p)
        /\ x.pc = "insert" \/ Creating(x) => Accepted(x)
        /\ Creating(x) => lock[k] = w /\ k \notin DOMAIN rows

\* What a client was told is still so.
ToldStands(w) ==
    LET x == work[w]
        k == work[w].command.key
    IN  x.pc = "done" =>
          /\ x.answer = OK => IsLedger(x.events) /\ Continues(x.events, ledger[k])
          /\ x.command.op = "CREATE" /\ x.answer \in {OK, "REPLAYED"} =>
                k \in DOMAIN rows /\ rows[k].spec = x.command.spec

\* Every committed position explains itself; a key without a row has no events.
Committed ==
    \A k \in Keys : IF k \in DOMAIN rows THEN \E p : Explained(rows[k], ledger[k], p)
                    ELSE ledger[k] = <<>>

Shapes ==
    /\ DOMAIN rows \subseteq Keys /\ DOMAIN ledger = Keys
    /\ DOMAIN lock = Keys /\ \A k \in Keys : lock[k] \in Workers \cup {None}
    /\ DOMAIN work = Workers
    /\ \A w \in Workers : DOMAIN work[w] = WorkFields /\ work[w].pc \in Pcs

ServiceInv ==
    /\ Shapes /\ Committed
    /\ \A w \in Workers : Placed(work[w]) /\ Held(w) /\ ToldStands(w)

(***************************************************************************)
(* What a step of one request does to the others.                          *)
(***************************************************************************)

\* Only w moves.
Moved(w) ==
    /\ DOMAIN work' = Workers /\ \A v \in Workers \ {w} : work'[v] = work[v]
    /\ DOMAIN work'[w] = WorkFields /\ work'[w].pc \in Pcs

\* No lock of another request is taken away.
Grants(w) ==
    /\ DOMAIN lock' = Keys
    /\ \A k \in Keys : /\ lock'[k] \in Workers \cup {None}
                       /\ lock[k] \in Workers \ {w} => lock'[k] = lock[k]

\* Only a row that w holds changes, its ledger only grows, and what was asked
\* for stays.
Stores(w) ==
    /\ DOMAIN rows \subseteq DOMAIN rows' /\ DOMAIN rows' \subseteq Keys
    /\ DOMAIN ledger' = Keys
    /\ \A k \in Keys :
          /\ lock[k] # w => /\ k \in DOMAIN rows' => k \in DOMAIN rows
                            /\ k \in DOMAIN rows => rows'[k] = rows[k]
                            /\ ledger'[k] = ledger[k]
          /\ Continues(ledger[k], ledger'[k])
          /\ k \in DOMAIN rows => rows'[k].spec = rows[k].spec

\* A command has a key of the service.
LEMMA CommandsAreRequests ==
    ASSUME NEW c \in Commands
    PROVE  c \in Requests /\ c.key \in Keys
<1>1. c \in Requests
  BY ServiceConstants
<1> QED BY <1>1 DEF Requests

\* Committed ledgers are ledgers.
LEMMA CommittedLedgers ==
    ASSUME Committed, NEW k \in Keys
    PROVE  IsLedger(ledger[k]) /\ Len(ledger[k]) \in Nat /\ Continues(ledger[k], ledger[k])
<1>1. IsLedger(ledger[k])
  <2>1. CASE k \in DOMAIN rows
    <3>1. PICK p : Explained(rows[k], ledger[k], p)
      BY <2>1 DEF Committed
    <3> QED BY <3>1 DEF Explained, Reproduces, Shaped
  <2>2. CASE k \notin DOMAIN rows
    <3>1. <<>> \in Seq({})
      OBVIOUS
    <3> QED BY <2>2, <3>1 DEF Committed, IsLedger
  <2> QED BY <2>1, <2>2
<1> QED BY <1>1 DEF IsLedger, Continues

\* The other requests see none of it.
LEMMA Bystanders ==
    ASSUME ServiceInv, NEW w \in Workers, Moved(w), Grants(w), Stores(w),
           NEW v \in Workers, v # w
    PROVE  Placed(work[v])' /\ Held(v)' /\ ToldStands(v)'
<1> DEFINE x == work[v]
           k == x.command.key
<1>1. work'[v] = x
  BY DEF Moved
<1>2. Placed(x) /\ Held(v) /\ ToldStands(v)
  BY DEF ServiceInv
<1>3. x.pc # "idle" => k \in Keys
  <2>1. x.pc # "idle" => x.command \in Commands
    BY <1>2 DEF Placed
  <2> QED BY <2>1, CommandsAreRequests
<1>4. Placed(work[v])'
  BY <1>1, <1>2
<1>5. Held(v)'
  <2>1. ASSUME Changes(x) \/ Creating(x)
        PROVE  /\ k \in Keys /\ lock[k] = v /\ lock'[k] = v
               /\ k \in DOMAIN rows' <=> k \in DOMAIN rows
               /\ k \in DOMAIN rows => rows'[k] = rows[k]
               /\ ledger'[k] = ledger[k]
    <3>1. k \in Keys
      BY <1>3, <2>1 DEF Changes, Saving, Creating
    <3>2. lock[k] = v
      BY <1>2, <2>1 DEF Held
    <3> QED BY <3>1, <3>2 DEF Grants, Stores
  <2>2. Changes(x) => lock'[k] = v /\ k \in DOMAIN rows' /\ x.row = rows'[k]
    BY <1>2, <2>1 DEF Held
  <2>3. Saving(x) => /\ x.events = ledger'[k]
                     /\ \E p : Explained(x.row, ledger'[k], p) /\ Computed(x, p)
    BY <1>2, <2>1 DEF Held, Changes
  <2>4. x.pc = "insert" \/ Creating(x) => Accepted(x)
    BY <1>2 DEF Held
  <2>5. Creating(x) => lock'[k] = v /\ k \notin DOMAIN rows'
    BY <1>2, <2>1 DEF Held
  <2> HIDE DEF x
  <2> QED BY <1>1, <2>2, <2>3, <2>4, <2>5 DEF Held
<1>6. ToldStands(v)'
  <2> SUFFICES ASSUME x.pc = "done"
               PROVE  /\ x.answer = OK => IsLedger(x.events) /\ Continues(x.events, ledger'[k])
                      /\ x.command.op = "CREATE" /\ x.answer \in {OK, "REPLAYED"} =>
                            k \in DOMAIN rows' /\ rows'[k].spec = x.command.spec
    BY <1>1 DEF ToldStands
  <2>1. k \in Keys
    BY <1>3
  <2>2. /\ x.answer = OK => IsLedger(x.events) /\ Continues(x.events, ledger[k])
        /\ x.command.op = "CREATE" /\ x.answer \in {OK, "REPLAYED"} =>
              k \in DOMAIN rows /\ rows[k].spec = x.command.spec
    BY <1>2 DEF ToldStands
  <2>3. /\ Continues(ledger[k], ledger'[k])
        /\ k \in DOMAIN rows => k \in DOMAIN rows' /\ rows'[k].spec = rows[k].spec
    BY <2>1 DEF Stores
  <2> DEFINE e == x.events
             s == ledger[k]
             t == ledger'[k]
  <2>4. Continues(e, s) => Continues(e, t)
    <3>1. Continues(s, t)
      BY <2>3
    <3> HIDE DEF e, s, t
    <3> QED BY <3>1, ContinuesTransitive
  <2> QED BY <2>2, <2>3, <2>4
<1> QED BY <1>4, <1>5, <1>6

\* A step that writes nothing leaves the committed positions as they are.
LEMMA NothingStored ==
    ASSUME ServiceInv, NEW w \in Workers, UNCHANGED <<rows, ledger>>
    PROVE  Committed' /\ Stores(w)
<1>1. Committed /\ DOMAIN rows \subseteq Keys /\ DOMAIN ledger = Keys
  BY DEF ServiceInv, Shapes
<1>2. \A k \in Keys : Continues(ledger[k], ledger[k])
  BY <1>1, CommittedLedgers
<1>3. rows' = rows /\ ledger' = ledger
  OBVIOUS
<1> QED BY <1>1, <1>2, <1>3 DEF Committed, Stores

\* Ending a transaction frees its own row only.
LEMMA ReleasedGrants ==
    ASSUME ServiceInv, NEW w \in Workers, lock' = Released(w)
    PROVE  Grants(w)
BY DEF ServiceInv, Shapes, Released, Grants

\* A row is locked only when nobody holds it.
LEMMA TakenGrants ==
    ASSUME ServiceInv, NEW w \in Workers, NEW k \in Keys, lock[k] = None,
           lock' = [lock EXCEPT ![k] = w]
    PROVE  Grants(w) /\ lock'[k] = w
BY ServiceConstants DEF ServiceInv, Shapes, Grants

\* A step that touches no lock.
LEMMA UntouchedGrants ==
    ASSUME ServiceInv, NEW w \in Workers, UNCHANGED lock
    PROVE  Grants(w)
BY DEF ServiceInv, Shapes, Grants

\* What one request must show for its own step.
LEMMA StepKeepsInv ==
    ASSUME ServiceInv, NEW w \in Workers, Moved(w), Grants(w), Stores(w), Committed',
           Placed(work[w])', Held(w)', ToldStands(w)'
    PROVE  ServiceInv'
<1>1. Shapes'
  <2>1. ASSUME NEW v \in Workers
        PROVE  DOMAIN work'[v] = WorkFields /\ work'[v].pc \in Pcs
    BY DEF ServiceInv, Shapes, Moved
  <2> QED BY <2>1 DEF Shapes, Moved, Grants, Stores
<1>2. \A v \in Workers : Placed(work[v])' /\ Held(v)' /\ ToldStands(v)'
  BY Bystanders
<1> QED BY <1>1, <1>2 DEF ServiceInv

(***************************************************************************)
(* The steps of a request, as what they leave of it.                       *)
(***************************************************************************)

\* A handler that returned.
LEMMA Returned ==
    ASSUME ServiceInv, NEW w \in Workers, NEW code, work' = Answer(w, code)
    PROVE  /\ Moved(w) /\ work'[w].command = work[w].command /\ work'[w].pc = "done"
           /\ work'[w].answer = code /\ work'[w].events = <<>>
<1>1. DOMAIN work = Workers /\ DOMAIN work[w] = WorkFields
  BY DEF ServiceInv, Shapes
<1> DEFINE y == [Idle EXCEPT !.command = work[w].command, !.pc = "done",
                             !.answer = code, !.retries = work[w].retries]
<1>2. /\ DOMAIN y = WorkFields /\ y.command = work[w].command /\ y.pc = "done"
      /\ y.answer = code /\ y.events = <<>>
  BY DEF Idle, WorkFields
<1>3. work' = [work EXCEPT ![w] = y]
  BY DEF Answer
<1> HIDE DEF y
<1>4. "done" \in Pcs
  BY DEF Pcs
<1> QED BY <1>1, <1>2, <1>3, <1>4 DEF Moved

\* A handler that returned with the events it read.
LEMMA ReturnedWith ==
    ASSUME ServiceInv, NEW w \in Workers, NEW code, NEW e,
           work' = [Answer(w, code) EXCEPT ![w].events = e]
    PROVE  /\ Moved(w) /\ work'[w].command = work[w].command /\ work'[w].pc = "done"
           /\ work'[w].answer = code /\ work'[w].events = e
<1>1. DOMAIN work = Workers /\ DOMAIN work[w] = WorkFields
  BY DEF ServiceInv, Shapes
<1> DEFINE y == [Idle EXCEPT !.command = work[w].command, !.pc = "done",
                             !.answer = code, !.retries = work[w].retries]
           z == [y EXCEPT !.events = e]
<1>2. /\ DOMAIN z = WorkFields /\ z.command = work[w].command /\ z.pc = "done"
      /\ z.answer = code /\ z.events = e
  BY DEF Idle, WorkFields
<1>3. work' = [[work EXCEPT ![w] = y] EXCEPT ![w].events = e]
  BY DEF Answer
<1> HIDE DEF y
<1>4. /\ DOMAIN work' = Workers /\ work'[w] = z
      /\ \A v \in Workers \ {w} : work'[v] = work[v]
  BY <1>1, <1>3
<1> HIDE DEF z
<1>5. "done" \in Pcs
  BY DEF Pcs
<1> QED BY <1>1, <1>2, <1>4, <1>5 DEF Moved

\* A handler that went on: its place, and at most what it loaded, changed.
Went(w, pc) ==
    /\ Moved(w) /\ work'[w].command = work[w].command /\ work'[w].pc = pc
    /\ work'[w].answer = work[w].answer

\* Goto, alone and with a row, a computed position or loaded events.
LEMMA WentOn ==
    ASSUME ServiceInv, NEW w \in Workers, NEW pc \in Pcs
    PROVE  /\ work' = Goto(w, pc) =>
                 /\ Went(w, pc) /\ work'[w].row = work[w].row
                 /\ work'[w].events = work[w].events /\ work'[w].next = work[w].next
           /\ \A r : work' = [Goto(w, pc) EXCEPT ![w].row = r] =>
                 Went(w, pc) /\ work'[w].row = r
           /\ \A n : work' = [Goto(w, pc) EXCEPT ![w].next = n] =>
                 Went(w, pc) /\ work'[w].next = n /\ work'[w].events = work[w].events
           /\ \A e, n : work' = [Goto(w, pc) EXCEPT ![w].events = e, ![w].next = n] =>
                 /\ Went(w, pc) /\ work'[w].row = work[w].row
                 /\ work'[w].events = e /\ work'[w].next = n
<1>1. DOMAIN work = Workers /\ DOMAIN work[w] = WorkFields
  BY DEF ServiceInv, Shapes
<1> DEFINE g == Goto(w, pc)
<1>2. /\ DOMAIN g = Workers /\ \A v \in Workers \ {w} : g[v] = work[v]
      /\ DOMAIN g[w] = WorkFields /\ g[w].pc = pc /\ g[w].command = work[w].command
      /\ g[w].answer = work[w].answer /\ g[w].row = work[w].row
      /\ g[w].events = work[w].events /\ g[w].next = work[w].next
  BY <1>1 DEF Goto, WorkFields
<1> HIDE DEF g
<1>3. work' = g => /\ Went(w, pc) /\ work'[w].row = work[w].row
                   /\ work'[w].events = work[w].events /\ work'[w].next = work[w].next
  BY <1>2 DEF Went, Moved
<1>4. ASSUME NEW r, work' = [g EXCEPT ![w].row = r]
      PROVE  Went(w, pc) /\ work'[w].row = r
  BY <1>2, <1>4 DEF Went, Moved, WorkFields
<1>5. ASSUME NEW n, work' = [g EXCEPT ![w].next = n]
      PROVE  Went(w, pc) /\ work'[w].next = n /\ work'[w].events = work[w].events
  BY <1>2, <1>5 DEF Went, Moved, WorkFields
<1>6. ASSUME NEW e, NEW n, work' = [g EXCEPT ![w].events = e, ![w].next = n]
      PROVE  /\ Went(w, pc) /\ work'[w].row = work[w].row
             /\ work'[w].events = e /\ work'[w].next = n
  BY <1>2, <1>6 DEF Went, Moved, WorkFields
<1> QED BY <1>3, <1>4, <1>5, <1>6 DEF g

\* A request that was answered has nothing left but its answer.
LEMMA DoneIsSound ==
    ASSUME ServiceInv, NEW w \in Workers, work[w].pc # "idle",
           work'[w].command = work[w].command, work'[w].pc = "done",
           work'[w].answer = OK =>
              IsLedger(work'[w].events) /\ Continues(work'[w].events, ledger'[Key(w)]),
           Op(w) = "CREATE" /\ work'[w].answer \in {OK, "REPLAYED"} =>
              Key(w) \in DOMAIN rows' /\ rows'[Key(w)].spec = work[w].command.spec
    PROVE  Placed(work[w])' /\ Held(w)' /\ ToldStands(w)'
<1>1. work[w].command \in Commands
  BY DEF ServiceInv, Placed
<1>2. Placed(work[w])'
  BY <1>1 DEF Placed
<1>3. Held(w)'
  BY DEF Held, Changes, Saving, Creating
<1>4. ToldStands(w)'
  BY DEF ToldStands, Key, Op
<1> QED BY <1>2, <1>3, <1>4

\* A refusal promises nothing.
LEMMA RefusalIsSound ==
    ASSUME ServiceInv, NEW w \in Workers, work[w].pc # "idle", Committed',
           NEW code, work' = Answer(w, code),
           Op(w) = "CREATE" /\ code \in {OK, "REPLAYED"} =>
              Key(w) \in DOMAIN rows' /\ rows'[Key(w)].spec = work[w].command.spec
    PROVE  Moved(w) /\ Placed(work[w])' /\ Held(w)' /\ ToldStands(w)'
<1>1. /\ Moved(w) /\ work'[w].command = work[w].command /\ work'[w].pc = "done"
      /\ work'[w].answer = code /\ work'[w].events = <<>>
  BY Returned
<1>2. Key(w) \in Keys
  BY CommandsAreRequests DEF ServiceInv, Placed, Key
<1>3. IsLedger(<<>>) /\ Continues(<<>>, ledger'[Key(w)])
  <2>1. Len(ledger'[Key(w)]) \in Nat
    <3> DEFINE k == Key(w)
    <3>1. ASSUME k \in DOMAIN rows'
          PROVE  Len(ledger'[k]) \in Nat
      <4>1. PICK p : Explained(rows'[k], ledger'[k], p)
        BY <1>2, <3>1 DEF Committed
      <4> QED BY <4>1 DEF Explained, Reproduces, Shaped, IsLedger
    <3>2. ASSUME k \notin DOMAIN rows'
          PROVE  Len(ledger'[k]) \in Nat
      BY <1>2, <3>2 DEF Committed
    <3> QED BY <3>1, <3>2
  <2>2. <<>> \in Seq({})
    OBVIOUS
  <2> QED BY <2>1, <2>2 DEF IsLedger, Continues
<1> QED BY <1>1, <1>3, DoneIsSound

(***************************************************************************)
(* Each action keeps the invariant.                                        *)
(***************************************************************************)

\* A request that arrives or is sent again starts with nothing loaded.
LEMMA StartedIsSound ==
    ASSUME ServiceInv, NEW w \in Workers, Moved(w), UNCHANGED <<rows, ledger, lock>>,
           work'[w].command \in Commands, work'[w].pc = Start(work'[w].command.op),
           work'[w].events = <<>>, work'[w].answer = None
    PROVE  ServiceInv'
<1> DEFINE y == work'[w]
           op == y.command.op
<1>1. op \in {"CREATE", "GET"} \cup Changing
  BY CommandsAreRequests DEF Requests, Changing, CommandKinds
<1>2. \/ op = "CREATE" /\ y.pc = "find"
      \/ op \in Changing /\ y.pc \in {"parse", "load for update"}
      \/ op = "GET" /\ y.pc = "read row"
  BY <1>1, Zenon DEF Start, Changing, CommandKinds
<1>3. Placed(y)
  BY <1>2 DEF Placed
<1>4. Held(w)' /\ ToldStands(w)'
  BY <1>2 DEF Held, ToldStands, Changes, Saving, Creating
<1>5. Committed' /\ Stores(w) /\ Grants(w)
  BY NothingStored, UntouchedGrants
<1> QED BY <1>3, <1>4, <1>5, StepKeepsInv

\* A request arrives at a free worker.
LEMMA ReceiveKeepsInv ==
    ASSUME ServiceInv, NEW w \in Workers, NEW command \in Commands, Receive(w, command)
    PROVE  ServiceInv'
<1>1. DOMAIN work = Workers /\ work[w] = Idle
  BY DEF ServiceInv, Shapes, Placed, Receive, At
<1>2. work' = [work EXCEPT ![w].command = command, ![w].pc = Start(command.op)]
  BY DEF Receive
<1>3. Start(command.op) \in Pcs
  BY DEF Start, Pcs
<1>4. /\ Moved(w) /\ work'[w].command = command /\ work'[w].pc = Start(command.op)
      /\ work'[w].events = <<>> /\ work'[w].answer = None
  BY <1>1, <1>2, <1>3 DEF Moved, Idle, WorkFields
<1> QED BY <1>4, StartedIsSound DEF Receive

\* A client repeats a request whose answer it never had.
LEMMA RetryKeepsInv ==
    ASSUME ServiceInv, NEW w \in Workers, Retry(w)
    PROVE  ServiceInv'
<1> DEFINE y == [Idle EXCEPT !.command = work[w].command, !.pc = Start(Op(w)),
                             !.retries = work[w].retries + 1]
<1>1. DOMAIN work = Workers /\ work[w].command \in Commands
  BY DEF ServiceInv, Shapes, Placed, Retry, At
<1>2. work' = [work EXCEPT ![w] = y]
  BY DEF Retry
<1>3. Start(Op(w)) \in Pcs
  BY DEF Start, Pcs
<1>4. /\ DOMAIN y = WorkFields /\ y.command = work[w].command /\ y.pc = Start(Op(w))
      /\ y.events = <<>> /\ y.answer = None
  BY DEF Idle, WorkFields
<1> HIDE DEF y
<1>5. Moved(w) /\ work'[w] = y
  BY <1>1, <1>2, <1>3, <1>4 DEF Moved
<1> QED BY <1>1, <1>4, <1>5, StartedIsSound DEF Retry, Op

\* A worker forgets the request it answered.
LEMMA RespondKeepsInv ==
    ASSUME ServiceInv, NEW w \in Workers, Respond(w)
    PROVE  ServiceInv'
<1>1. DOMAIN work = Workers
  BY DEF ServiceInv, Shapes
<1>2. work' = [work EXCEPT ![w] = Idle]
  BY DEF Respond
<1>3. Moved(w) /\ work'[w] = Idle
  BY <1>1, <1>2 DEF Moved, Idle, WorkFields, Pcs
<1>4. Placed(work[w])' /\ Held(w)' /\ ToldStands(w)'
  BY <1>3 DEF Idle, Placed, Held, ToldStands, Changes, Saving, Creating
<1>5. Committed' /\ Stores(w) /\ Grants(w)
  BY NothingStored, UntouchedGrants DEF Respond
<1> QED BY <1>3, <1>4, <1>5, StepKeepsInv

\* A rolled-back transaction leaves nothing behind.
LEMMA ConnectionLostKeepsInv ==
    ASSUME ServiceInv, NEW w \in Workers, ConnectionLost(w)
    PROVE  ServiceInv'
<1>1. Committed' /\ Stores(w) /\ Grants(w)
  BY NothingStored, ReleasedGrants DEF ConnectionLost
<1>2. work[w].pc # "idle" /\ work' = Answer(w, "UNAVAILABLE")
  BY DEF ConnectionLost
<1>3. Moved(w) /\ Placed(work[w])' /\ Held(w)' /\ ToldStands(w)'
  BY <1>1, <1>2, RefusalIsSound DEF OK
<1> QED BY <1>1, <1>3, StepKeepsInv

\* A request that is refused, having locked nothing or freeing what it locked.
LEMMA RefusedKeepsInv ==
    ASSUME ServiceInv, NEW w \in Workers, work[w].pc # "idle",
           NEW code, work' = Answer(w, code), UNCHANGED <<rows, ledger>>,
           UNCHANGED lock \/ lock' = Released(w),
           Op(w) = "CREATE" /\ code \in {OK, "REPLAYED"} =>
              Stored(Key(w)) /\ rows[Key(w)].spec = work[w].command.spec
    PROVE  ServiceInv'
<1>1. Committed' /\ Stores(w) /\ Grants(w)
  BY NothingStored, ReleasedGrants, UntouchedGrants
<1>2. rows' = rows
  OBVIOUS
<1>3. Moved(w) /\ Placed(work[w])' /\ Held(w)' /\ ToldStands(w)'
  BY <1>1, <1>2, RefusalIsSound DEF Stored
<1> QED BY <1>1, <1>3, StepKeepsInv

\* A repeated create is answered with the stored position only if it asked for it.
LEMMA AnswerRetryKeepsInv ==
    ASSUME ServiceInv, NEW w \in Workers, work[w].pc # "idle", Stored(Key(w)),
           work' = AnswerRetry(w, rows[Key(w)]), UNCHANGED <<rows, ledger, lock>>
    PROVE  ServiceInv'
<1> DEFINE row == rows[Key(w)]
           code == IF Fingerprint(row) = Fingerprint(work[w].command) THEN "REPLAYED"
                   ELSE "IDEMPOTENCY_KEY_REUSED"
<1>1. work' = Answer(w, code)
  BY DEF AnswerRetry
<1>2. code \in {OK, "REPLAYED"} => row.spec = work[w].command.spec
  BY DEF Fingerprint, OK
<1> HIDE DEF code
<1> QED BY <1>1, <1>2, RefusedKeepsInv

\* The engine opens only what is calculable and approved.
LEMMA OpenCases ==
    ASSUME NEW spec, NEW approval, NEW product
    PROVE  LET r == OpenPosition(spec, approval, product = "CALCULABLE", TRUE)
           IN  /\ r.code # "REPLAYED"
               /\ r.code = OK => Reopened(spec, approval) = Result(OK, r.position)
<1> DEFINE calculable == product = "CALCULABLE"
           r == OpenPosition(spec, approval, calculable, TRUE)
           created == [spec |-> spec, state |-> "PENDING_ENTRY", remaining |-> 0,
                       stop |-> spec.stop, filled |-> {}, entry |-> None,
                       gross |-> 0,
                       fees |-> IF spec.feePerUnit = None THEN None ELSE 0,
                       lastBar |-> None, mark |-> None, closePending |-> FALSE,
                       error |-> OK,
                       events |-> <<Event("POSITION_CREATED", spec.decision, None)>>]
           refused == {Result("PRODUCT_NOT_CALCULABLE", None), Result("RISK_NOT_ALLOWED", None),
                       Result("QUANTITY_EXCEEDS_RISK", None),
                       Result("LEVELS_NOT_EXECUTABLE", None)}
<1>1. r \in refused \/ (r = Result(OK, created) /\ Reopened(spec, approval) = r)
  <2>1. CASE calculable
    <3>1. calculable = TRUE
      BY <2>1
    <3> HIDE DEF calculable
    <3>2. r = Reopened(spec, approval)
      BY <3>1, Zenon DEF Reopened
    <3>3. Reopened(spec, approval) \in refused \/ Reopened(spec, approval) = Result(OK, created)
      BY Zenon DEF Reopened, OpenPosition
    <3> HIDE DEF r
    <3> QED BY <3>2, <3>3
  <2>2. CASE ~calculable
    <3>1. r = Result("PRODUCT_NOT_CALCULABLE", None)
      BY <2>2, Zenon DEF OpenPosition
    <3> QED BY <3>1
  <2> QED BY <2>1, <2>2
<1> HIDE DEF r, created
<1>2. \A q \in refused : q.code \notin {"REPLAYED", OK}
  BY DEF Result, OK
<1>3. Result(OK, created).code = OK /\ Result(OK, created).position = created
  BY DEF Result
<1>4. r.code # "REPLAYED" /\ (r.code = OK => Reopened(spec, approval) = Result(OK, r.position))
  <2> HIDE DEF refused
  <2> QED BY <1>1, <1>2, <1>3 DEF OK
<1> QED BY <1>4 DEF r

\* The checks of create before it writes.
LEMMA RefusalCases ==
    ASSUME NEW command, command.spec.decision \in Int, NEW now \in Int,
           NEW product, NEW sizeable
    PROVE  LET refusal == Refusal(command, now, product, sizeable)
           IN  /\ refusal # "REPLAYED"
               /\ refusal = OK => ValidSpec(command.spec) /\ command.spec.decision <= now
<1> DEFINE refusal == Refusal(command, now, product, sizeable)
           d == command.spec.decision
<1>1. d \in Int /\ (d > now \/ d <= now) /\ ~(d > now /\ d <= now)
  OBVIOUS
<1> HIDE DEF d
<1>2. \/ refusal = "DECISION_IN_FUTURE"
      \/ refusal = Resolved(product) /\ Resolved(product) # OK
      \/ refusal = Sized(sizeable) /\ Sized(sizeable) # OK
      \/ refusal = Specified(command) /\ d <= now
  BY <1>1, Zenon DEF Refusal, d
<1>3. /\ Resolved(product) # "REPLAYED" /\ Sized(sizeable) # "REPLAYED"
      /\ Specified(command) # "REPLAYED"
      /\ Specified(command) = OK => ValidSpec(command.spec)
  BY DEF Resolved, Sized, Specified, OK
<1> HIDE DEF refusal
<1>4. refusal # "REPLAYED" /\ (refusal = OK => ValidSpec(command.spec) /\ d <= now)
  BY <1>2, <1>3 DEF OK
<1> QED BY <1>4 DEF refusal, d

\* create, before it writes: a refusal, a replay, or a position the engine opened.
LEMMA FindByKeyKeepsInv ==
    ASSUME ServiceInv, NEW w \in Workers, FindByKey(w)
    PROVE  ServiceInv'
<1> DEFINE command == work[w].command
<1>1. /\ work[w].pc = "find" /\ command \in Commands /\ command.op = "CREATE"
      /\ work[w].events = <<>> /\ work[w].answer = None
  BY DEF ServiceInv, Placed, FindByKey, At
<1>2. command.spec \in PositionSpec /\ command.spec.decision \in Int
  BY <1>1, CommandsAreRequests DEF Requests, PositionSpec
<1>3. UNCHANGED <<rows, ledger, lock>>
  BY DEF FindByKey
<1>4. PICK now \in Nows, sizeable \in BOOLEAN,
           product \in {"NO_RESOLVER", "UNKNOWN", "INCALCULABLE", "CALCULABLE"} :
        work' = LET refusal == Refusal(command, now, product, sizeable)
                    opened == OpenPosition(command.spec, command.approval,
                                           product = "CALCULABLE", TRUE)
                IN  IF Stored(Key(w)) THEN AnswerRetry(w, rows[Key(w)])
                    ELSE IF refusal # OK THEN Answer(w, refusal)
                    ELSE IF opened.code # OK THEN Answer(w, opened.code)
                    ELSE [Goto(w, "insert") EXCEPT ![w].next = opened.position]
  BY DEF FindByKey
<1> DEFINE refusal == Refusal(command, now, product, sizeable)
           opened == OpenPosition(command.spec, command.approval, product = "CALCULABLE", TRUE)
<1>5. \/ Stored(Key(w)) /\ work' = AnswerRetry(w, rows[Key(w)])
      \/ refusal # OK /\ work' = Answer(w, refusal)
      \/ opened.code # OK /\ work' = Answer(w, opened.code)
      \/ /\ refusal = OK /\ opened.code = OK
         /\ work' = [Goto(w, "insert") EXCEPT ![w].next = opened.position]
  BY <1>4, Zenon
<1>6. /\ refusal # "REPLAYED"
      /\ refusal = OK => ValidSpec(command.spec) /\ command.spec.decision <= now
  <2>1. now \in Int
    BY ServiceConstants
  <2> QED BY <1>2, <2>1, RefusalCases
<1>7. /\ opened.code # "REPLAYED"
      /\ opened.code = OK =>
            Reopened(command.spec, command.approval) = Result(OK, opened.position)
  BY OpenCases
<1> HIDE DEF refusal, opened
<1>8. CASE Stored(Key(w)) /\ work' = AnswerRetry(w, rows[Key(w)])
  BY <1>1, <1>3, <1>8, AnswerRetryKeepsInv
<1>9. ASSUME NEW code, code \notin {OK, "REPLAYED"}, work' = Answer(w, code)
      PROVE  ServiceInv'
  BY <1>1, <1>3, <1>9, RefusedKeepsInv
<1>10. CASE /\ refusal = OK /\ opened.code = OK
            /\ work' = [Goto(w, "insert") EXCEPT ![w].next = opened.position]
  <2>1. /\ Went(w, "insert") /\ work'[w].next = opened.position
        /\ work'[w].events = work[w].events
    <3>1. "insert" \in Pcs
      BY DEF Pcs
    <3> QED BY <1>10, <3>1, WentOn
  <2>2. Accepted(work'[w])
    BY <1>1, <1>6, <1>7, <1>10, <2>1 DEF Accepted, Went
  <2>3. Placed(work[w])' /\ Held(w)' /\ ToldStands(w)'
    BY <1>1, <2>1, <2>2 DEF Went, Placed, Held, ToldStands, Changes, Saving, Creating
  <2>4. Committed' /\ Stores(w) /\ Grants(w)
    BY <1>3, NothingStored, UntouchedGrants
  <2> QED BY <2>1, <2>3, <2>4, StepKeepsInv DEF Went
<1> QED BY <1>5, <1>6, <1>7, <1>8, <1>9, <1>10

\* insert: the key is locked while it is free, so no row can appear under it.
LEMMA InsertKeepsInv ==
    ASSUME ServiceInv, NEW w \in Workers, Insert(w)
    PROVE  ServiceInv'
<1> DEFINE x == work[w]
           k == Key(w)
<1>1. /\ x.pc = "insert" /\ x.command \in Commands /\ x.command.op = "CREATE"
      /\ x.answer = None /\ Accepted(x)
  BY DEF ServiceInv, Placed, Held, Insert, At
<1>2. k \in Keys /\ lock[k] = None /\ UNCHANGED <<rows, ledger>>
  BY <1>1, CommandsAreRequests DEF Insert, Key
<1>3. Committed' /\ Stores(w)
  BY <1>2, NothingStored
<1>4. "find winner" \in Pcs /\ "commit" \in Pcs
  BY DEF Pcs
<1>5. CASE work' = Goto(w, "find winner") /\ UNCHANGED lock
  <2>1. Went(w, "find winner")
    BY <1>4, <1>5, WentOn
  <2>2. Placed(work[w])' /\ Held(w)' /\ ToldStands(w)'
    BY <1>1, <2>1 DEF Went, Placed, Held, ToldStands, Changes, Saving, Creating
  <2> QED BY <1>3, <1>5, <2>1, <2>2, UntouchedGrants, StepKeepsInv DEF Went
<1>6. CASE k \notin DOMAIN rows /\ work' = Goto(w, "commit") /\ lock' = [lock EXCEPT ![k] = w]
  <2>1. /\ Went(w, "commit") /\ work'[w].events = x.events /\ work'[w].next = x.next
    BY <1>4, <1>6, WentOn
  <2>2. Grants(w) /\ lock'[k] = w /\ k \notin DOMAIN rows'
    <3> HIDE DEF k
    <3> QED BY <1>2, <1>6, TakenGrants
  <2>3. Placed(work[w])'
    BY <1>1, <2>1 DEF Went, Placed
  <2>4. Accepted(work'[w])
    BY <1>1, <2>1 DEF Accepted, Went
  <2>5. Held(w)' /\ ToldStands(w)'
    BY <1>1, <2>1, <2>2, <2>4 DEF Went, Held, ToldStands, Changes, Saving, Creating, Key
  <2> QED BY <1>3, <2>1, <2>2, <2>3, <2>5, StepKeepsInv DEF Went
<1> QED BY <1>5, <1>6 DEF Insert, Stored

\* The loser of two creates is answered from the row of the winner.
LEMMA FindWinnerKeepsInv ==
    ASSUME ServiceInv, NEW w \in Workers, FindWinner(w)
    PROVE  ServiceInv'
<1>1. work[w].pc # "idle" /\ UNCHANGED <<rows, ledger, lock>>
  BY DEF FindWinner, At
<1>2. CASE work' = Answer(w, "CONCURRENT_CREATE")
  BY <1>1, <1>2, RefusedKeepsInv DEF OK
<1>3. CASE Stored(Key(w)) /\ work' = AnswerRetry(w, rows[Key(w)])
  BY <1>1, <1>3, AnswerRetryKeepsInv
<1> QED BY <1>2, <1>3 DEF FindWinner

\* The unlocked read before an upload decides nothing about the position.
LEMMA ReadToParseKeepsInv ==
    ASSUME ServiceInv, NEW w \in Workers, ReadToParse(w)
    PROVE  ServiceInv'
<1>1. /\ work[w].pc = "parse" /\ work[w].command \in Commands /\ Op(w) \in Changing
      /\ work[w].answer = None /\ UNCHANGED <<rows, ledger, lock>>
  BY DEF ServiceInv, Placed, ReadToParse, At, Op
<1>2. Op(w) # "CREATE"
  BY <1>1 DEF Changing, CommandKinds
<1>3. ASSUME NEW code, work' = Answer(w, code)
      PROVE  ServiceInv'
  BY <1>1, <1>2, <1>3, RefusedKeepsInv
<1>4. CASE work' = Goto(w, "load for update")
  <2>1. Went(w, "load for update")
    BY <1>4, WentOn DEF Pcs
  <2>2. Placed(work[w])' /\ Held(w)' /\ ToldStands(w)'
    BY <1>1, <2>1 DEF Went, Placed, Held, ToldStands, Changes, Saving, Creating, Op
  <2> QED BY <1>1, <2>1, <2>2, NothingStored, UntouchedGrants, StepKeepsInv DEF Went
<1>5. (\E code : work' = Answer(w, code)) \/ work' = Goto(w, "load for update")
  BY Zenon DEF ReadToParse
<1> QED BY <1>3, <1>4, <1>5

\* SELECT ... FOR UPDATE: the row that was read is the committed one, and stays it.
LEMMA LoadForUpdateKeepsInv ==
    ASSUME ServiceInv, NEW w \in Workers, LoadForUpdate(w)
    PROVE  ServiceInv'
<1> DEFINE k == Key(w)
<1>1. /\ work[w].pc = "load for update" /\ work[w].command \in Commands
      /\ Op(w) \in Changing /\ work[w].answer = None /\ UNCHANGED <<rows, ledger>>
  BY DEF ServiceInv, Placed, LoadForUpdate, At, Op
<1>2. Op(w) # "CREATE" /\ k \in Keys
  BY <1>1, CommandsAreRequests DEF Changing, CommandKinds, Key
<1>3. CASE work' = Answer(w, "POSITION_NOT_FOUND") /\ UNCHANGED lock
  BY <1>1, <1>2, <1>3, RefusedKeepsInv
<1>4. CASE /\ k \in DOMAIN rows /\ lock[k] = None /\ lock' = [lock EXCEPT ![k] = w]
           /\ work' = [Goto(w, "load events") EXCEPT ![w].row = rows[k]]
  <2>1. Went(w, "load events") /\ work'[w].row = rows[k]
    <3> DEFINE row == rows[k]
    <3>1. work' = [Goto(w, "load events") EXCEPT ![w].row = row] /\ "load events" \in Pcs
      BY <1>4 DEF Pcs
    <3> HIDE DEF row
    <3>2. \A r : work' = [Goto(w, "load events") EXCEPT ![w].row = r] =>
             Went(w, "load events") /\ work'[w].row = r
      BY <3>1, WentOn, ZenonT(40)
    <3>3. Went(w, "load events") /\ work'[w].row = row
      BY <3>1, <3>2, ZenonT(40)
    <3> QED BY <3>3 DEF row
  <2>2. Grants(w) /\ lock'[k] = w
    <3> HIDE DEF k
    <3> QED BY <1>2, <1>4, TakenGrants
  <2>3. Placed(work[w])'
    BY <1>1, <2>1 DEF Went, Placed, Op
  <2>4. Held(w)' /\ ToldStands(w)'
    BY <1>1, <1>4, <2>1, <2>2 DEF Went, Held, ToldStands, Changes, Saving, Creating, Key
  <2> QED BY <1>1, <2>1, <2>2, <2>3, <2>4, NothingStored, StepKeepsInv DEF Went
<1> QED BY <1>3, <1>4 DEF LoadForUpdate, Stored

\* rebuild of what is committed never diverges.
LEMMA RebuildExplained ==
    ASSUME NEW row, NEW events, NEW p, Explained(row, events, p)
    PROVE  Rebuild(row.spec, row.approval, events) = Result(OK, p)
<1>1. Replay(row.spec, row.approval, events) = Result(OK, p) /\ p.events = events
  BY DEF Explained, Reproduces
<1>2. Reproduced(events, Result(OK, p)) = Result(OK, p)
  BY <1>1 DEF Reproduced, Result
<1> QED BY <1>1, <1>2 DEF Rebuild

\* The engine starts from what is committed, and only a longer ledger is saved.
LEMMA LoadEventsKeepsInv ==
    ASSUME ServiceInv, NEW w \in Workers, LoadEvents(w)
    PROVE  ServiceInv'
<1> DEFINE x == work[w]
           k == Key(w)
<1>1. /\ x.pc = "load events" /\ x.command \in Commands /\ Op(w) \in Changing
      /\ x.answer = None /\ UNCHANGED <<rows, ledger>>
      /\ lock[k] = w /\ k \in DOMAIN rows /\ x.row = rows[k]
  BY DEF ServiceInv, Placed, Held, Changes, LoadEvents, At, Op, Key
<1>2. Op(w) # "CREATE" /\ k \in Keys
  BY <1>1, CommandsAreRequests DEF Changing, CommandKinds, Key
<1>3. Committed' /\ Stores(w)
  BY <1>1, NothingStored
<1>4. PICK p : Explained(x.row, ledger[k], p)
  BY <1>1, <1>2 DEF ServiceInv, Committed
<1>5. PICK now \in Nows :
        \E rebuilt \in {Rebuild(x.row.spec, x.row.approval, ledger[k])} :
        \E handled \in {IF rebuilt.code = OK
                        THEN Handled(x.command, rebuilt.position, now) ELSE rebuilt} :
          IF handled.code = OK /\ Len(handled.position.events) > Len(ledger[k])
          THEN /\ work' = [Goto(w, "append") EXCEPT ![w].events = ledger[k],
                                                    ![w].next = handled.position]
               /\ UNCHANGED lock
          ELSE /\ work' = [Answer(w, handled.code) EXCEPT ![w].events = ledger[k]]
               /\ lock' = Released(w)
  BY DEF LoadEvents
<1> DEFINE handled == Handled(x.command, p, now)
<1>6. \/ /\ handled.code = OK /\ Len(handled.position.events) > Len(ledger[k])
         /\ work' = [Goto(w, "append") EXCEPT ![w].events = ledger[k],
                                              ![w].next = handled.position]
         /\ UNCHANGED lock
      \/ /\ work' = [Answer(w, handled.code) EXCEPT ![w].events = ledger[k]]
         /\ lock' = Released(w)
  <2>1. Rebuild(x.row.spec, x.row.approval, ledger[k]) = Result(OK, p)
    BY <1>4, RebuildExplained
  <2>2. Result(OK, p).code = OK /\ Result(OK, p).position = p
    BY DEF Result
  <2> QED BY <1>5, <2>1, <2>2, Zenon
<1> HIDE DEF handled
<1>7. CASE /\ handled.code = OK /\ Len(handled.position.events) > Len(ledger[k])
           /\ work' = [Goto(w, "append") EXCEPT ![w].events = ledger[k],
                                                ![w].next = handled.position]
           /\ UNCHANGED lock
  <2>1. /\ Went(w, "append") /\ work'[w].row = x.row
        /\ work'[w].events = ledger[k] /\ work'[w].next = handled.position
    <3> DEFINE e == ledger[k]
               n == handled.position
    <3>1. work' = [Goto(w, "append") EXCEPT ![w].events = e, ![w].next = n] /\ "append" \in Pcs
      BY <1>7 DEF Pcs
    <3> HIDE DEF e, n
    <3>2. \A f, m : work' = [Goto(w, "append") EXCEPT ![w].events = f, ![w].next = m] =>
             /\ Went(w, "append") /\ work'[w].row = work[w].row
             /\ work'[w].events = f /\ work'[w].next = m
      BY <3>1, WentOn, ZenonT(40)
    <3>3. /\ Went(w, "append") /\ work'[w].row = work[w].row
          /\ work'[w].events = e /\ work'[w].next = n
      BY <3>1, <3>2, Zenon
    <3> QED BY <3>3 DEF e, n
  <2>2. Placed(work[w])'
    BY <1>1, <2>1 DEF Went, Placed, Op
  <2>3. Computed(work'[w], p)
    <3>1. Len(p.events) = Len(ledger[k])
      BY <1>4 DEF Explained
    <3>2. /\ Handled(work'[w].command, p, now).code = OK
          /\ Handled(work'[w].command, p, now).position = work'[w].next
      BY <1>7, <2>1 DEF Went, handled
    <3> QED BY <1>7, <2>1, <3>1, <3>2 DEF Computed
  <2>4. Held(w)'
    <3>1. /\ lock'[k] = w /\ k \in DOMAIN rows' /\ work'[w].row = rows'[k]
          /\ ledger'[k] = ledger[k] /\ work'[w].command.key = k
      BY <1>1, <1>7, <2>1 DEF Went, Key
    <3>2. \E q : Explained(work'[w].row, ledger'[k], q) /\ Computed(work'[w], q)
      BY <1>4, <2>1, <2>3, <3>1
    <3> QED BY <2>1, <3>1, <3>2 DEF Held, Changes, Saving, Creating, Went
  <2>5. ToldStands(w)'
    BY <2>1 DEF ToldStands, Went
  <2> QED BY <1>3, <1>7, <2>1, <2>2, <2>4, <2>5, UntouchedGrants, StepKeepsInv DEF Went
<1>8. CASE /\ work' = [Answer(w, handled.code) EXCEPT ![w].events = ledger[k]]
           /\ lock' = Released(w)
  <2>1. /\ Moved(w) /\ work'[w].command = x.command /\ work'[w].pc = "done"
        /\ work'[w].answer = handled.code /\ work'[w].events = ledger[k]
    <3> DEFINE e == ledger[k]
               code == handled.code
    <3>1. work' = [Answer(w, code) EXCEPT ![w].events = e]
      BY <1>8
    <3> HIDE DEF e, code
    <3>2. /\ Moved(w) /\ work'[w].command = work[w].command /\ work'[w].pc = "done"
          /\ work'[w].answer = code /\ work'[w].events = e
      BY <3>1, ReturnedWith, ZenonT(40)
    <3> QED BY <3>2 DEF e, code
  <2>2. IsLedger(ledger[k]) /\ Continues(ledger[k], ledger'[k])
    BY <1>1, <1>2, CommittedLedgers DEF ServiceInv
  <2>3. Placed(work[w])' /\ Held(w)' /\ ToldStands(w)'
    BY <1>1, <1>2, <2>1, <2>2, DoneIsSound
  <2> QED BY <1>3, <1>8, <2>1, <2>3, ReleasedGrants, StepKeepsInv
<1> QED BY <1>6, <1>7, <1>8

\* append: under the lock neither the version nor the ledger can have moved.
LEMMA AppendEventsKeepsInv ==
    ASSUME ServiceInv, NEW w \in Workers, AppendEvents(w)
    PROVE  ServiceInv'
<1> DEFINE x == work[w]
           k == Key(w)
<1>1. /\ x.pc = "append" /\ x.command \in Commands /\ Op(w) \in Changing
      /\ x.answer = None /\ UNCHANGED <<rows, ledger>>
      /\ lock[k] = w /\ k \in DOMAIN rows /\ x.row = rows[k] /\ x.events = ledger[k]
  BY DEF ServiceInv, Placed, Held, Changes, Saving, AppendEvents, At, Op, Key
<1>2. Op(w) # "CREATE" /\ k \in Keys
  BY <1>1, CommandsAreRequests DEF Changing, CommandKinds, Key
<1>3. Committed' /\ Stores(w)
  BY <1>1, NothingStored
<1>4. PICK p : Explained(x.row, ledger[k], p) /\ Computed(x, p)
  BY <1>1 DEF ServiceInv, Held, Saving, Key
<1>5. work' = Goto(w, "commit") /\ UNCHANGED lock
  BY <1>1 DEF AppendEvents
<1>6. /\ Went(w, "commit") /\ work'[w].row = x.row
      /\ work'[w].events = x.events /\ work'[w].next = x.next
  BY <1>5, WentOn DEF Pcs
<1>7. Placed(work[w])'
  BY <1>1, <1>6 DEF Went, Placed, Op
<1>8. Computed(work'[w], p)
  BY <1>4, <1>6 DEF Computed, Went
<1>9. Held(w)'
  <2>1. /\ lock'[k] = w /\ k \in DOMAIN rows' /\ work'[w].row = rows'[k]
        /\ ledger'[k] = ledger[k] /\ work'[w].command = x.command
        /\ work'[w].command.key = k /\ work'[w].command.op # "CREATE"
    BY <1>1, <1>2, <1>5, <1>6 DEF Went, Key, Op
  <2>2. \E q : Explained(work'[w].row, ledger'[k], q) /\ Computed(work'[w], q)
    BY <1>4, <1>6, <1>8, <2>1
  <2> QED BY <1>1, <1>6, <2>1, <2>2 DEF Held, Changes, Saving, Creating, Went
<1>10. ToldStands(w)'
  BY <1>6 DEF ToldStands, Went
<1> QED BY <1>3, <1>5, <1>6, <1>7, <1>9, <1>10, UntouchedGrants, StepKeepsInv DEF Went

\* get reads the row without a lock.
LEMMA ReadRowKeepsInv ==
    ASSUME ServiceInv, NEW w \in Workers, ReadRow(w)
    PROVE  ServiceInv'
<1>1. /\ work[w].pc = "read row" /\ work[w].command \in Commands /\ Op(w) = "GET"
      /\ work[w].answer = None /\ UNCHANGED <<rows, ledger, lock>>
  BY DEF ServiceInv, Placed, ReadRow, At, Op
<1>2. CASE work' = Answer(w, "POSITION_NOT_FOUND")
  BY <1>1, <1>2, RefusedKeepsInv
<1>3. CASE work' = [Goto(w, "read events") EXCEPT ![w].row = rows[Key(w)]]
  <2>1. Went(w, "read events")
    BY <1>3, WentOn DEF Pcs
  <2>2. Placed(work[w])' /\ Held(w)' /\ ToldStands(w)'
    BY <1>1, <2>1 DEF Went, Placed, Held, ToldStands, Changes, Saving, Creating, Op
  <2> QED BY <1>1, <2>1, <2>2, NothingStored, UntouchedGrants, StepKeepsInv DEF Went
<1> QED BY <1>2, <1>3 DEF ReadRow

\* get answers with events that are committed.
LEMMA ReadEventsKeepsInv ==
    ASSUME ServiceInv, NEW w \in Workers, ReadEvents(w)
    PROVE  ServiceInv'
<1> DEFINE k == Key(w)
<1>1. /\ work[w].pc = "read events" /\ work[w].command \in Commands /\ Op(w) = "GET"
      /\ UNCHANGED <<rows, ledger, lock>>
  BY DEF ServiceInv, Placed, ReadEvents, At, Op
<1>2. k \in Keys
  BY <1>1, CommandsAreRequests DEF Key
<1>3. PICK code : work' = [Answer(w, code) EXCEPT ![w].events = ledger[k]]
  BY DEF ReadEvents
<1>4. /\ Moved(w) /\ work'[w].command = work[w].command /\ work'[w].pc = "done"
      /\ work'[w].answer = code /\ work'[w].events = ledger[k]
  <2> DEFINE e == ledger[k]
  <2>1. work' = [Answer(w, code) EXCEPT ![w].events = e]
    BY <1>3
  <2> HIDE DEF e
  <2>2. /\ Moved(w) /\ work'[w].command = work[w].command /\ work'[w].pc = "done"
        /\ work'[w].answer = code /\ work'[w].events = e
    BY <2>1, ReturnedWith, ZenonT(40)
  <2> QED BY <2>2 DEF e
<1>5. IsLedger(ledger[k]) /\ Continues(ledger[k], ledger'[k])
  BY <1>1, <1>2, CommittedLedgers DEF ServiceInv
<1>6. Placed(work[w])' /\ Held(w)' /\ ToldStands(w)'
  BY <1>1, <1>4, <1>5, DoneIsSound
<1> QED BY <1>1, <1>4, <1>6, NothingStored, UntouchedGrants, StepKeepsInv

\* What create stores replays to itself under the approval it was given.
LEMMA OpenedReproduces ==
    ASSUME NEW spec \in PositionSpec, NEW approval \in Nat \cup {None}, NEW p,
           Reopened(spec, approval) = Result(OK, p)
    PROVE  Reproduces(p, approval) /\ p.spec = spec
<1>1. spec.quantity \in Int
  BY DEF PositionSpec
<1>2. approval # None /\ ~(spec.quantity > approval)
  <2> DEFINE risk == Result("RISK_NOT_ALLOWED", None)
             size == Result("QUANTITY_EXCEEDS_RISK", None)
  <2>1. approval = None => Reopened(spec, approval) = risk
    BY Zenon DEF Reopened, OpenPosition
  <2>2. approval # None /\ spec.quantity > approval => Reopened(spec, approval) = size
    BY Zenon DEF Reopened, OpenPosition
  <2>3. Result(OK, p) # risk /\ Result(OK, p) # size
    BY DEF Result, OK
  <2> QED BY <2>1, <2>2, <2>3, Zenon
<1>3. approval \in Int /\ spec.quantity <= approval
  BY <1>1, <1>2
<1>4. \E calculable, onGrid : OpenPosition(spec, approval, calculable, onGrid) = Result(OK, p)
  BY Zenon DEF Reopened
<1>5. PICK calculable, onGrid :
          OpenPosition(spec, approval, calculable, onGrid) = Result(OK, p)
  BY <1>4
<1> QED BY <1>1, <1>3, <1>5, OpenReproduces

\* The position a transaction is about to commit: what its row says of it, and
\* that its ledger goes on from the committed one.
LEMMA AboutToCommit ==
    ASSUME ServiceInv, NEW w \in Workers, At(w, "commit")
    PROVE  LET x == work[w]
               k == Key(w)
           IN  /\ k \in Keys /\ lock[k] = w /\ x.events = ledger[k]
               /\ IsLedger(x.next.events) /\ Continues(ledger[k], x.next.events)
               /\ Op(w) = "CREATE" =>
                    /\ k \notin DOMAIN rows
                    /\ Reproduces(x.next, x.command.approval) /\ x.next.spec = x.command.spec
               /\ Op(w) # "CREATE" =>
                    /\ k \in DOMAIN rows /\ x.row = rows[k] /\ DOMAIN x.row = RowFields
                    /\ Reproduces(x.next, x.row.approval) /\ x.next.spec = x.row.spec
<1> DEFINE x == work[w]
           k == Key(w)
<1>1. /\ x.pc = "commit" /\ x.command \in Commands /\ x.command \in Requests /\ k \in Keys
      /\ Op(w) = x.command.op /\ k = x.command.key
      /\ Op(w) \in Changing \cup {"CREATE"}
  BY CommandsAreRequests DEF ServiceInv, Placed, At, Op, Key
<1>2. CASE Op(w) = "CREATE"
  <2>1. Creating(x) /\ lock[k] = w /\ k \notin DOMAIN rows /\ Accepted(x)
    BY <1>1, <1>2 DEF ServiceInv, Held, Creating
  <2>2. ledger[k] = <<>> /\ x.events = <<>>
    BY <1>1, <2>1 DEF ServiceInv, Committed, Accepted
  <2>3. Reproduces(x.next, x.command.approval) /\ x.next.spec = x.command.spec
    <3> DEFINE spec == x.command.spec
               approval == x.command.approval
               p == x.next
    <3>1. spec \in PositionSpec /\ approval \in Nat \cup {None}
      BY <1>1, <1>2 DEF Requests
    <3>2. Reopened(spec, approval) = Result(OK, p)
      BY <2>1 DEF Accepted
    <3> HIDE DEF spec, approval, p
    <3>3. Reproduces(p, approval) /\ p.spec = spec
      BY <3>1, <3>2, OpenedReproduces
    <3> QED BY <3>3 DEF spec, approval, p
  <2>4. IsLedger(x.next.events) /\ Continues(<<>>, x.next.events)
    BY <2>3 DEF Reproduces, Shaped, IsLedger, Continues
  <2> QED BY <1>1, <1>2, <2>1, <2>2, <2>3, <2>4
<1>3. CASE Op(w) # "CREATE"
  <2>1. /\ Saving(x) /\ Changes(x) /\ lock[k] = w /\ k \in DOMAIN rows /\ x.row = rows[k]
        /\ x.events = ledger[k] /\ \E p : Explained(x.row, ledger[k], p) /\ Computed(x, p)
    BY <1>1, <1>3 DEF ServiceInv, Held, Changes, Saving
  <2>2. PICK p : Explained(x.row, ledger[k], p) /\ Computed(x, p)
    BY <2>1
  <2>3. PICK now \in Nows : Handled(x.command, p, now).position = x.next
    BY <2>2 DEF Computed
  <2> DEFINE approval == x.row.approval
             command == x.command
  <2>4. /\ Reproduces(p, approval) /\ p.spec = x.row.spec /\ p.events = ledger[k]
        /\ DOMAIN x.row = RowFields
    BY <2>2 DEF Explained
  <2>5. command \in Requests /\ command.op \in Changing
    BY <1>1, <1>3
  <2>6. Follows(x.next, p, approval)
    <3>1. Handled(command, p, now).position = x.next
      BY <2>3
    <3>2. Reproduces(p, approval)
      BY <2>4
    <3> HIDE DEF command, approval
    <3> QED BY <2>5, <3>1, <3>2, HandledFollows
  <2>7. /\ Reproduces(x.next, approval) /\ x.next.spec = x.row.spec
        /\ Continues(ledger[k], x.next.events) /\ IsLedger(x.next.events)
    BY <2>4, <2>6 DEF Follows, Reproduces, Shaped
  <2> QED BY <1>1, <1>3, <2>1, <2>4, <2>7
<1> QED BY <1>2, <1>3

\* A commit replaces the row and the ledger of its own key, together.
LEMMA PublishedKey ==
    ASSUME ServiceInv, NEW w \in Workers, At(w, "commit"), Published(w)
    PROVE  LET x == work[w]
               k == Key(w)
               row == IF Op(w) = "CREATE"
                      THEN [spec |-> x.command.spec, approval |-> x.command.approval,
                            version |-> 1, projection |-> Project(x.next)]
                      ELSE [x.row EXCEPT !.version = @ + 1, !.projection = Project(x.next)]
           IN  /\ rows' = With(k, row) /\ lock' = Released(w)
               /\ ledger' = [ledger EXCEPT ![k] = x.next.events]
               /\ Explained(row, x.next.events, x.next)
               /\ Op(w) = "CREATE" => row.spec = x.command.spec
               /\ Op(w) # "CREATE" => row.spec = rows[k].spec
<1> DEFINE x == work[w]
           k == Key(w)
           created == [spec |-> x.command.spec, approval |-> x.command.approval,
                       version |-> 1, projection |-> Project(x.next)]
           saved == [x.row EXCEPT !.version = @ + 1, !.projection = Project(x.next)]
           row == IF Op(w) = "CREATE" THEN created ELSE saved
<1>1. /\ k \in Keys /\ lock[k] = w /\ x.events = ledger[k]
      /\ IsLedger(x.next.events) /\ Continues(ledger[k], x.next.events)
      /\ Op(w) = "CREATE" =>
           /\ k \notin DOMAIN rows
           /\ Reproduces(x.next, x.command.approval) /\ x.next.spec = x.command.spec
      /\ Op(w) # "CREATE" =>
           /\ k \in DOMAIN rows /\ x.row = rows[k] /\ DOMAIN x.row = RowFields
           /\ Reproduces(x.next, x.row.approval) /\ x.next.spec = x.row.spec
  BY AboutToCommit
<1>2. ledger[k] \o SubSeq(x.next.events, Len(x.events) + 1, Len(x.next.events)) = x.next.events
  <2> DEFINE s == ledger[k]
             t == x.next.events
  <2>1. IsLedger(s) /\ IsLedger(t) /\ Continues(s, t) /\ x.events = s
    BY <1>1, CommittedLedgers DEF ServiceInv
  <2>2. s \o SubSeq(t, Len(s) + 1, Len(t)) = t
    <3> HIDE DEF s, t
    <3> QED BY <2>1, TailAppended
  <2> QED BY <2>1, <2>2
<1>3. ledger' = [ledger EXCEPT ![k] = x.next.events]
  <2>1. ledger' = [ledger EXCEPT ![k] =
              ledger[k] \o SubSeq(x.next.events, Len(x.events) + 1, Len(x.next.events))]
    BY DEF Published
  <2> QED BY <1>2, <2>1
<1>4. rows' = With(k, row) /\ lock' = Released(w)
  BY DEF Published
<1>5. CASE Op(w) = "CREATE"
  <2>1. row = created
    BY <1>5
  <2>2. /\ DOMAIN created = RowFields /\ created.spec = x.command.spec
        /\ created.approval = x.command.approval /\ created.projection = Project(x.next)
    BY DEF RowFields
  <2> HIDE DEF created, row
  <2>3. Explained(row, x.next.events, x.next) /\ row.spec = x.command.spec
    BY <1>1, <1>5, <2>1, <2>2 DEF Explained
  <2> QED BY <1>3, <1>4, <1>5, <2>3 DEF row, created
<1>6. CASE Op(w) # "CREATE"
  <2>1. row = saved
    BY <1>6
  <2>2. /\ DOMAIN saved = RowFields /\ saved.spec = x.row.spec
        /\ saved.approval = x.row.approval /\ saved.projection = Project(x.next)
    BY <1>1, <1>6 DEF RowFields
  <2> HIDE DEF saved, row
  <2>3. Explained(row, x.next.events, x.next) /\ row.spec = rows[k].spec
    BY <1>1, <1>6, <2>1, <2>2 DEF Explained
  <2> QED BY <1>3, <1>4, <1>6, <2>3 DEF row, saved
<1> QED BY <1>5, <1>6

\* A commit keeps every committed position explained and every ledger growing.
LEMMA PublishedStores ==
    ASSUME ServiceInv, NEW w \in Workers, At(w, "commit"), Published(w)
    PROVE  /\ Committed' /\ Stores(w) /\ Grants(w)
           /\ Key(w) \in DOMAIN rows' /\ ledger'[Key(w)] = work[w].next.events
           /\ Op(w) = "CREATE" => rows'[Key(w)].spec = work[w].command.spec
<1> DEFINE x == work[w]
           k == Key(w)
           events == x.next.events
<1>1. /\ k \in Keys /\ lock[k] = w /\ Continues(ledger[k], events)
      /\ Op(w) = "CREATE" => k \notin DOMAIN rows
  BY AboutToCommit
<1>2. PICK row : /\ rows' = With(k, row) /\ lock' = Released(w)
                 /\ ledger' = [ledger EXCEPT ![k] = events]
                 /\ Explained(row, events, x.next)
                 /\ Op(w) = "CREATE" => row.spec = x.command.spec
                 /\ Op(w) # "CREATE" => row.spec = rows[k].spec
  BY PublishedKey
<1>3. DOMAIN ledger = Keys /\ DOMAIN rows \subseteq Keys /\ Committed
  BY DEF ServiceInv, Shapes
<1>4. /\ DOMAIN ledger' = Keys /\ ledger'[k] = events
      /\ \A j \in Keys \ {k} : ledger'[j] = ledger[j]
  BY <1>1, <1>2, <1>3
<1>5. /\ DOMAIN rows' = DOMAIN rows \cup {k} /\ rows'[k] = row
      /\ \A j \in DOMAIN rows \ {k} : rows'[j] = rows[j]
  BY <1>2 DEF With
<1> HIDE DEF k, events
<1>6. Committed'
  <2> SUFFICES ASSUME NEW j \in Keys
               PROVE  IF j \in DOMAIN rows' THEN \E p : Explained(rows'[j], ledger'[j], p)
                      ELSE ledger'[j] = <<>>
    BY DEF Committed
  <2>1. CASE j = k
    BY <1>2, <1>4, <1>5, <2>1
  <2>2. CASE j # k
    BY <1>3, <1>4, <1>5, <2>2 DEF Committed
  <2> QED BY <2>1, <2>2
<1>7. Stores(w)
  <2>1. ASSUME NEW j \in Keys
        PROVE  /\ lock[j] # w => /\ j \in DOMAIN rows' => j \in DOMAIN rows
                                 /\ j \in DOMAIN rows => rows'[j] = rows[j]
                                 /\ ledger'[j] = ledger[j]
               /\ Continues(ledger[j], ledger'[j])
               /\ j \in DOMAIN rows => rows'[j].spec = rows[j].spec
    <3>1. CASE j = k
      BY <1>1, <1>2, <1>4, <1>5, <3>1
    <3>2. CASE j # k
      BY <1>3, <1>4, <1>5, <3>2, CommittedLedgers
    <3> QED BY <3>1, <3>2
  <2> QED BY <1>1, <1>3, <1>4, <1>5, <2>1 DEF Stores
<1>8. Grants(w)
  BY <1>2, ReleasedGrants
<1> QED BY <1>2, <1>4, <1>5, <1>6, <1>7, <1>8 DEF k, events

\* A commit: the client is given the ledger that became visible.
LEMMA CommitKeepsInv ==
    ASSUME ServiceInv, NEW w \in Workers, Commit(w)
    PROVE  ServiceInv'
<1> DEFINE events == work[w].next.events
<1>1. /\ Committed' /\ Stores(w) /\ Grants(w)
      /\ Key(w) \in DOMAIN rows' /\ ledger'[Key(w)] = events
      /\ Op(w) = "CREATE" => rows'[Key(w)].spec = work[w].command.spec
  BY PublishedStores DEF Commit
<1>2. IsLedger(events) /\ Continues(events, events)
  <2>1. IsLedger(events)
    BY AboutToCommit DEF Commit
  <2> HIDE DEF events
  <2> QED BY <2>1 DEF IsLedger, Continues
<1>3. /\ Moved(w) /\ work'[w].command = work[w].command /\ work'[w].pc = "done"
      /\ work'[w].answer = OK /\ work'[w].events = events
  <2>1. work' = [Answer(w, OK) EXCEPT ![w].events = events]
    BY DEF Commit
  <2> HIDE DEF events
  <2> QED BY <2>1, ReturnedWith, ZenonT(40)
<1> HIDE DEF events
<1>4. work[w].pc # "idle"
  BY DEF Commit, At
<1>5. Placed(work[w])' /\ Held(w)' /\ ToldStands(w)'
  BY <1>1, <1>2, <1>3, <1>4, DoneIsSound
<1> QED BY <1>1, <1>3, <1>5, StepKeepsInv

\* A commit that took effect unseen keeps all that a seen one does.
LEMMA CommitUnacknowledgedKeepsInv ==
    ASSUME ServiceInv, NEW w \in Workers, CommitUnacknowledged(w)
    PROVE  ServiceInv'
<1>1. Committed' /\ Stores(w) /\ Grants(w)
  BY PublishedStores DEF CommitUnacknowledged
<1>2. work[w].pc # "idle" /\ work' = Answer(w, "UNAVAILABLE")
  BY DEF CommitUnacknowledged, At
<1>3. Moved(w) /\ Placed(work[w])' /\ Held(w)' /\ ToldStands(w)'
  BY <1>1, <1>2, RefusalIsSound DEF OK
<1> QED BY <1>1, <1>3, StepKeepsInv

\* The service starts empty.
LEMMA InitServiceInv ==
    ASSUME Init
    PROVE  ServiceInv
<1>1. Shapes /\ Committed
  BY DEF Init, Shapes, Committed, Idle, WorkFields, Pcs
<1>2. ASSUME NEW w \in Workers
      PROVE  Placed(work[w]) /\ Held(w) /\ ToldStands(w)
  <2>1. work[w] = Idle
    BY DEF Init
  <2> QED BY <2>1 DEF Idle, Placed, Held, ToldStands, Changes, Saving, Creating
<1> QED BY <1>1, <1>2 DEF ServiceInv

\* Every step of the service keeps its invariant.
LEMMA NextKeepsServiceInv ==
    ASSUME ServiceInv, [Next]_vars
    PROVE  ServiceInv'
<1>1. CASE UNCHANGED vars
  BY <1>1 DEF vars, ServiceInv, Shapes, Committed, Held, ToldStands
<1>2. ASSUME NEW w \in Workers, NEW command \in Commands, Receive(w, command)
      PROVE  ServiceInv'
  BY <1>2, ReceiveKeepsInv
<1>3. ASSUME NEW w \in Workers, Step(w)
      PROVE  ServiceInv'
  BY <1>3, FindByKeyKeepsInv, InsertKeepsInv, FindWinnerKeepsInv, ReadToParseKeepsInv,
     LoadForUpdateKeepsInv, LoadEventsKeepsInv, AppendEventsKeepsInv, CommitKeepsInv,
     ReadRowKeepsInv, ReadEventsKeepsInv DEF Step
<1>4. ASSUME NEW w \in Workers,
             Respond(w) \/ CommitUnacknowledged(w) \/ ConnectionLost(w) \/ Retry(w)
      PROVE  ServiceInv'
  BY <1>4, RespondKeepsInv, CommitUnacknowledgedKeepsInv, ConnectionLostKeepsInv, RetryKeepsInv
<1> QED BY <1>1, <1>2, <1>3, <1>4 DEF Next

\* The invariant holds in every reachable state.
LEMMA ServiceInvariant == Spec => []ServiceInv
<1>1. Init => ServiceInv
  BY InitServiceInv
<1>2. ServiceInv /\ [Next]_vars => ServiceInv'
  BY NextKeepsServiceInv
<1> QED BY <1>1, <1>2, PTL DEF Spec

(***************************************************************************)
(* Whatever requests interleave, fail or are repeated, every committed     *)
(* ledger replays without divergence to the position its row summarises.   *)
(***************************************************************************)
THEOREM CommittedExplainsItself == Spec => []RowIsProjectionOfLedger
<1>1. ServiceInv => RowIsProjectionOfLedger
  <2> SUFFICES ASSUME ServiceInv, NEW k \in DOMAIN rows
               PROVE  LET rebuilt == Rebuild(rows[k].spec, rows[k].approval, ledger[k])
                      IN  /\ rebuilt.code = OK
                          /\ rows[k].projection = Project(rebuilt.position)
    BY DEF RowIsProjectionOfLedger
  <2>1. k \in Keys
    BY DEF ServiceInv, Shapes
  <2>2. PICK p : Explained(rows[k], ledger[k], p)
    BY <2>1 DEF ServiceInv, Committed
  <2>3. Rebuild(rows[k].spec, rows[k].approval, ledger[k]) = Result(OK, p)
    BY <2>2, RebuildExplained
  <2>4. Result(OK, p).code = OK /\ Result(OK, p).position = p
    BY DEF Result
  <2>5. rows[k].projection = Project(p)
    BY <2>2 DEF Explained
  <2> QED BY <2>3, <2>4, <2>5
<1> QED BY <1>1, ServiceInvariant, PTL

(***************************************************************************)
(* A client's answer is kept: the events it was given stay a prefix of the *)
(* committed ledger, and a create answered with a position, at once or on  *)
(* a repeat, was answered with the position that was asked for.            *)
(***************************************************************************)
THEOREM AnswersAreKept == Spec => []AcknowledgedIsStored
<1>1. ServiceInv => AcknowledgedIsStored
  <2> SUFFICES ASSUME ServiceInv, NEW w \in Workers
               PROVE  /\ work[w].answer = OK => IsPrefix(work[w].events, ledger[Key(w)])
                      /\ At(w, "done") /\ Op(w) = "CREATE"
                            /\ work[w].answer \in {OK, "REPLAYED"} =>
                            Stored(Key(w)) /\ rows[Key(w)].spec = work[w].command.spec
    BY DEF AcknowledgedIsStored
  <2>1. ASSUME work[w].answer = OK
        PROVE  IsPrefix(work[w].events, ledger[Key(w)])
    <3> DEFINE s == work[w].events
               t == ledger[Key(w)]
    <3>1. work[w].pc = "done" /\ work[w].command \in Commands
      BY <2>1, ServiceConstants DEF ServiceInv, Placed
    <3>2. Key(w) \in Keys
      BY <3>1, CommandsAreRequests DEF Key
    <3>3. IsLedger(s) /\ Continues(s, t)
      BY <2>1, <3>1 DEF ServiceInv, ToldStands, Key
    <3>4. IsLedger(t)
      BY <3>2, CommittedLedgers DEF ServiceInv
    <3> HIDE DEF s, t
    <3>5. IsPrefix(s, t)
      BY <3>3, <3>4, ContinuesIsPrefix
    <3> QED BY <3>5 DEF s, t
  <2>2. At(w, "done") /\ Op(w) = "CREATE" /\ work[w].answer \in {OK, "REPLAYED"} =>
            Stored(Key(w)) /\ rows[Key(w)].spec = work[w].command.spec
    BY DEF ServiceInv, ToldStands, At, Op, Key, Stored
  <2> QED BY <2>1, <2>2
<1> QED BY <1>1, ServiceInvariant, PTL

(***************************************************************************)
(* The refinement.                                                         *)
(***************************************************************************)

\* The positions a client sees, as PaperLedger has them.
Book == [k \in DOMAIN rows |->
            [spec |-> rows[k].spec, approval |-> rows[k].approval,
             version |-> rows[k].version, events |-> ledger[k]]]

\* A commit of a create is one Create of the abstract ledger.
LEMMA CommitCreates ==
    ASSUME ServiceInv, NEW w \in Workers, At(w, "commit"), Published(w), Op(w) = "CREATE",
           NEW command, command = work[w].command
    PROVE  Atomic!Create(command)
<1> DEFINE x == work[w]
           k == Key(w)
           events == x.next.events
           held == [spec |-> command.spec, approval |-> command.approval,
                    version |-> 1, events |-> events]
<1>1. /\ Accepted(x) /\ k \notin DOMAIN rows /\ k = command.key /\ command.op = "CREATE"
  BY DEF ServiceInv, Held, Creating, At, Op, Key
<1>2. events \in OpenedLedgers(command)
  <2>1. Reopened(command.spec, command.approval) = Result(OK, x.next)
    BY <1>1 DEF Accepted
  <2>2. Result(OK, x.next).code = OK /\ Result(OK, x.next).position = x.next
    BY DEF Result
  <2> QED BY <1>1, <2>1, <2>2 DEF OpenedLedgers, Accepted, Reopened
<1> DEFINE row == [spec |-> command.spec, approval |-> command.approval,
                   version |-> 1, projection |-> Project(x.next)]
<1>3. /\ rows' = With(k, row) /\ ledger' = [ledger EXCEPT ![k] = events]
      /\ row.spec = command.spec /\ row.approval = command.approval /\ row.version = 1
  BY PublishedKey
<1>4. k \in Keys /\ DOMAIN ledger = Keys /\ DOMAIN rows \subseteq Keys
  BY AboutToCommit DEF ServiceInv, Shapes
<1> HIDE DEF events, row
<1>5. Book' = [j \in DOMAIN Book \cup {k} |-> IF j = k THEN held ELSE Book[j]]
  BY <1>1, <1>3, <1>4 DEF Book, With
<1>6. DOMAIN Book = DOMAIN rows
  BY DEF Book
<1> HIDE DEF k
<1>7. /\ command.op = "CREATE" /\ command.key \notin DOMAIN Book
      /\ \E e \in OpenedLedgers(command) :
            Book' = [j \in DOMAIN Book \cup {command.key} |->
                        IF j = command.key
                        THEN [spec |-> command.spec, approval |-> command.approval,
                              version |-> 1, events |-> e]
                        ELSE Book[j]]
  BY <1>1, <1>2, <1>5, <1>6, Zenon
<1> QED BY <1>7, Zenon DEF Atomic!Create, Atomic!Holding, Book

\* A commit of a change is one Change of the abstract ledger.
LEMMA CommitChanges ==
    ASSUME ServiceInv, NEW w \in Workers, At(w, "commit"), Published(w), Op(w) # "CREATE",
           NEW command, command = work[w].command
    PROVE  Atomic!Change(command)
<1> DEFINE x == work[w]
           k == Key(w)
           events == x.next.events
           held == Book[k]
           after == [held EXCEPT !.version = @ + 1, !.events = events]
<1>1. /\ x.pc = "commit" /\ command \in Commands /\ k = command.key
      /\ command.op \in Changing /\ command.op \notin {"CREATE", "GET"}
      /\ k \in DOMAIN rows /\ x.row = rows[k]
      /\ \E p : Explained(x.row, ledger[k], p) /\ Computed(x, p)
  BY DEF ServiceInv, Placed, Held, Changes, Saving, At, Op, Key, Changing, CommandKinds
<1>2. PICK p : Explained(rows[k], ledger[k], p) /\ Computed(x, p)
  BY <1>1
<1>3. /\ held.spec = rows[k].spec /\ held.approval = rows[k].approval
      /\ held.version = rows[k].version /\ held.events = ledger[k]
      /\ held = [spec |-> rows[k].spec, approval |-> rows[k].approval,
                 version |-> rows[k].version, events |-> ledger[k]]
  BY <1>1 DEF Book
<1>4. Rebuild(held.spec, held.approval, held.events) = Result(OK, p)
  BY <1>2, <1>3, RebuildExplained
<1>5. events \in LedgersAfter(command, held) /\ events # held.events
  <2>1. PICK now \in Nows : /\ Handled(command, p, now).code = OK
                            /\ Handled(command, p, now).position = x.next
    BY <1>2 DEF Computed
  <2>2. Result(OK, p).code = OK /\ Result(OK, p).position = p
    BY DEF Result
  <2>3. events \in LedgersAfter(command, held)
    <3> HIDE DEF held
    <3> QED BY <1>4, <2>1, <2>2 DEF LedgersAfter
  <2>4. events # held.events
    <3>1. Len(events) > Len(ledger[k]) /\ Len(ledger[k]) \in Nat
      BY <1>2 DEF Computed, Explained, Reproduces, Shaped, IsLedger
    <3> HIDE DEF events
    <3> QED BY <1>3, <3>1
  <2> QED BY <2>3, <2>4
<1>6. PICK row : /\ rows' = With(k, row)
                 /\ ledger' = [ledger EXCEPT ![k] = events]
                 /\ row = [rows[k] EXCEPT !.version = @ + 1, !.projection = Project(x.next)]
  BY <1>1, PublishedKey
<1>7. /\ row.spec = held.spec /\ row.approval = held.approval
      /\ row.version = held.version + 1
  BY <1>2, <1>3, <1>6 DEF Explained, RowFields
<1>8. k \in Keys /\ DOMAIN ledger = Keys /\ DOMAIN rows \subseteq Keys
  BY AboutToCommit DEF ServiceInv, Shapes
<1>9. after = [spec |-> row.spec, approval |-> row.approval, version |-> row.version,
               events |-> events]
  <2> DEFINE a == rows[k].spec
             b == rows[k].approval
             v == rows[k].version
             e == ledger[k]
  <2>1. /\ held = [spec |-> a, approval |-> b, version |-> v, events |-> e]
        /\ row.spec = a /\ row.approval = b /\ row.version = v + 1
    BY <1>3, <1>7
  <2> HIDE DEF held, events, a, b, v, e
  <2>2. after = [spec |-> a, approval |-> b, version |-> v + 1, events |-> events]
    <3> DEFINE h == [spec |-> a, approval |-> b, version |-> v, events |-> e]
               g == [h EXCEPT !.version = @ + 1, !.events = events]
    <3>1. after = g
      BY <2>1, Zenon
    <3>2. h \in [spec : {a}, approval : {b}, version : {v}, events : {e}]
      OBVIOUS
    <3> HIDE DEF h
    <3>3. /\ h.version = v
          /\ g \in [spec : {a}, approval : {b}, version : {v + 1}, events : {events}]
      BY <3>2
    <3> HIDE DEF g
    <3>4. g = [spec |-> a, approval |-> b, version |-> v + 1, events |-> events]
      BY <3>3
    <3> QED BY <3>1, <3>4, Zenon
  <2> HIDE DEF after
  <2> QED BY <2>1, <2>2
<1>10. Book' = [j \in DOMAIN Book \cup {k} |-> IF j = k THEN after ELSE Book[j]]
  <2> HIDE DEF after, events
  <2> QED BY <1>1, <1>6, <1>8, <1>9 DEF Book, With
<1>11. DOMAIN Book = DOMAIN rows
  BY DEF Book
<1> HIDE DEF k, events
<1>12. /\ command.op \notin {"CREATE", "GET"} /\ command.key \in DOMAIN Book
       /\ \E e \in LedgersAfter(command, Book[command.key]) :
             /\ e # Book[command.key].events
             /\ Book' = [j \in DOMAIN Book \cup {command.key} |->
                            IF j = command.key
                            THEN [Book[command.key] EXCEPT !.version = @ + 1, !.events = e]
                            ELSE Book[j]]
  BY <1>1, <1>5, <1>10, <1>11, Zenon
<1> QED BY <1>12, Zenon DEF Atomic!Change, Atomic!Holding, Book

\* Every other step leaves what clients see as it is.
LEMMA StepRefines ==
    ASSUME ServiceInv, [Next]_vars
    PROVE  Atomic!Next \/ Book' = Book
<1>1. CASE UNCHANGED <<rows, ledger>>
  BY <1>1 DEF Book
<1>2. ASSUME NEW w \in Workers, At(w, "commit"), Published(w)
      PROVE  Atomic!Next
  <2>1. work[w].command \in Commands
    BY <1>2 DEF ServiceInv, Placed, At
  <2>2. PICK command \in Commands : command = work[w].command
    BY <2>1
  <2>3. Atomic!Create(command) \/ Atomic!Change(command)
    BY <1>2, <2>2, CommitCreates, CommitChanges
  <2> QED BY <2>3 DEF Atomic!Next
<1>3. \/ UNCHANGED <<rows, ledger>>
      \/ \E w \in Workers : At(w, "commit") /\ Published(w)
  BY DEF Next, vars, Step, Receive, Respond, FindByKey, Insert, FindWinner, ReadToParse,
     LoadForUpdate, LoadEvents, AppendEvents, Commit, CommitUnacknowledged, ConnectionLost,
     Retry, ReadRow, ReadEvents
<1> QED BY <1>1, <1>2, <1>3

(***************************************************************************)
(* The service implements the atomic ledger: although the statements of    *)
(* many requests interleave, connections fail and clients repeat           *)
(* themselves, what is committed changes by one whole command at a time,   *)
(* computed from what was committed before it.                             *)
(***************************************************************************)
THEOREM ServiceIsAtomic == Spec => ImplementsAtomicLedger
<1>1. Init => Atomic!Init
  BY DEF Init, Atomic!Init
<1>2. ServiceInv /\ [Next]_vars => [Atomic!Next]_Book
  BY StepRefines
<1> QED BY <1>1, <1>2, ServiceInvariant, PTL DEF Spec, ImplementsAtomicLedger, Atomic!Spec, Book
=============================================================================
