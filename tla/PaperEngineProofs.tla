------------------------- MODULE PaperEngineProofs -------------------------
(***************************************************************************)
(* Lemmas about the paper engine, for every specification, bar, interval   *)
(* and point value.  First what a bar and a command leave of a position's  *)
(* units, targets, entry and stop: the exits of a bar take exactly what    *)
(* the position still holds.  Then what they do to its ledger, and why the *)
(* ledger explains it: each call appends the event of its own input and    *)
(* then events that replay skips, so a replay of the longer ledger is the  *)
(* replay of the shorter one followed by that input.  Last what a ledger   *)
(* tells: nothing is credited after an ambiguity, and its fills add up to  *)
(* the position's units, gross and fees.                                   *)
(***************************************************************************)
EXTENDS PaperEngine, NaturalsInduction, WellFoundedInduction, TLAPS

(***************************************************************************)
(* Target units.  A specification has at most five targets, so the sums    *)
(* are sums of five terms.                                                 *)
(***************************************************************************)

\* Each target of a valid specification closes a positive number of units.
LEMMA TargetUnitsType ==
    ASSUME NEW spec \in PositionSpec, ValidSpec(spec), NEW i \in Int
    PROVE  /\ TargetUnits(spec, i) \in Nat
           /\ i \in DOMAIN spec.targets =>
                /\ TargetUnits(spec, i) = spec.targets[i].quantity
                /\ TargetUnits(spec, i) > 0
                /\ i \in 1..5
                /\ spec.targets[i] \in TargetSpec
                /\ spec.targets[i].price > 0
<1>1. spec.targets \in Seq(TargetSpec)
  BY DEF PositionSpec
<1>2. DOMAIN spec.targets = 1..Len(spec.targets) /\ Len(spec.targets) \in 1..5
  BY <1>1 DEF ValidSpec, MAX_TARGETS
<1>3. \A k \in DOMAIN spec.targets :
        /\ spec.targets[k].quantity >= 1 /\ spec.targets[k].price > 0
        /\ spec.targets[k] \in TargetSpec
  BY <1>1, <1>2 DEF ValidSpec
<1> QED
  BY <1>2, <1>3 DEF TargetUnits, TargetSpec

\* Filling one more target adds exactly its units, and never more than there are.
LEMMA UnitsOfAdd ==
    ASSUME NEW spec \in PositionSpec, ValidSpec(spec),
           NEW S \in SUBSET (DOMAIN spec.targets),
           NEW i \in DOMAIN spec.targets, i \notin S
    PROVE  /\ UnitsOf(spec, S) \in Nat
           /\ UnitsOf(spec, S \cup {i}) =
                UnitsOf(spec, S) + spec.targets[i].quantity
           /\ UnitsOf(spec, S \cup {i}) <= spec.quantity
<1> DEFINE u(k) == TargetUnits(spec, k)
           f(T, k) == IF k \in T THEN u(k) ELSE 0
<1>0. i \in 1..5 /\ u(i) = spec.targets[i].quantity
  BY TargetUnitsType DEF PositionSpec
<1>1. /\ u(1) \in Nat /\ u(2) \in Nat /\ u(3) \in Nat /\ u(4) \in Nat /\ u(5) \in Nat
  BY TargetUnitsType
<1>2. u(1) + u(2) + u(3) + u(4) + u(5) <= spec.quantity
  BY DEF ValidSpec
<1>3. \A T : UnitsOf(spec, T) = f(T, 1) + f(T, 2) + f(T, 3) + f(T, 4) + f(T, 5)
  BY DEF UnitsOf
<1>4. spec.quantity \in Int
  BY DEF PositionSpec
<1> DEFINE T == S \cup {i}
<1>5. \A k \in 1..5 : f(T, k) = f(S, k) + (IF k = i THEN u(i) ELSE 0)
  BY <1>0, <1>1
<1>6. /\ UnitsOf(spec, S) = f(S, 1) + f(S, 2) + f(S, 3) + f(S, 4) + f(S, 5)
      /\ UnitsOf(spec, T) = f(T, 1) + f(T, 2) + f(T, 3) + f(T, 4) + f(T, 5)
  BY <1>3
<1>7. \A k \in 1..5 : f(S, k) \in Nat /\ f(T, k) \in Nat /\ f(T, k) <= u(k)
  BY <1>1
<1>8. f(T, 1) + f(T, 2) + f(T, 3) + f(T, 4) + f(T, 5)
        = f(S, 1) + f(S, 2) + f(S, 3) + f(S, 4) + f(S, 5) + u(i)
  <2> HIDE DEF f, u, T
  <2> QED BY <1>0, <1>1, <1>5, <1>7
<1>9. f(T, 1) + f(T, 2) + f(T, 3) + f(T, 4) + f(T, 5) <= spec.quantity
  <2> HIDE DEF f, u, T
  <2> QED BY <1>1, <1>2, <1>4, <1>7
<1> HIDE DEF f, u
<1> QED
  BY <1>0, <1>6, <1>7, <1>8, <1>9

\* No target filled, no units closed.
LEMMA UnitsOfEmpty ==
    ASSUME NEW spec
    PROVE  UnitsOf(spec, {}) = 0
  BY DEF UnitsOf

(***************************************************************************)
(* One exit.                                                               *)
(***************************************************************************)
\* The fields an exit leaves alone.
SameButFill(p, q) ==
    /\ q.spec = p.spec /\ q.stop = p.stop /\ q.entry = p.entry
    /\ q.lastBar = p.lastBar /\ q.mark = p.mark

\* An event appended to a ledger leaves a ledger.
LEMMA AppendEvent ==
    ASSUME NEW p \in Builders, NEW type \in PaperEventTypes,
           NEW time \in Int \cup {None}, NEW data \in EventData
    PROVE  /\ Append(p.events, Event(type, time, data)) \in Seq(PaperEvent)
           /\ Emit(p, type, time, data) \in Builders
           /\ \A x \in {"spec", "state", "remaining", "stop", "filled", "entry",
                         "gross", "fees", "lastBar", "mark", "closePending", "error"} :
                Emit(p, type, time, data)[x] = p[x]
<1>1. Event(type, time, data) \in PaperEvent
  BY DEF Event, PaperEvent
<1>2. Append(p.events, Event(type, time, data)) \in Seq(PaperEvent)
  BY <1>1 DEF Builders
<1>3. QED
  BY <1>2 DEF Emit, Builders

\* Charging a fee keeps the fee total a number or unknown.
LEMMA ChargedType ==
    ASSUME NEW p \in Builders, NEW quantity \in Int
    PROVE  Charged(p, quantity) \in Int \cup {None}
<1>1. p.spec.feePerUnit \in Nat \cup {None} /\ p.fees \in Int \cup {None}
  BY DEF Builders, PositionSpec
<1> QED
  BY <1>1 DEF Charged

\* What _exit changes: units, money, the ledger and possibly the error.
LEMMA ExitFields ==
    ASSUME NEW p \in Builders, p.entry # None, NEW bar \in Bar,
           NEW type \in PaperEventTypes,
           NEW reference \in Int, NEW fill \in Int, NEW quantity \in Int
    PROVE  LET q == Exit(p, type, bar, reference, fill, quantity)
           IN  /\ q \in Builders
               /\ SameButFill(p, q)
               /\ q.state = p.state /\ q.filled = p.filled
               /\ q.closePending = p.closePending
               /\ q.remaining = p.remaining - quantity
               /\ p.error \in {OK, "FILL_NOT_POSITIVE"} /\ quantity >= 1
                     /\ quantity <= p.remaining => q.error \in {OK, "FILL_NOT_POSITIVE"}
<1> DEFINE gross == Gross(p, fill, quantity)
           error == IF p.error # OK THEN p.error
                    ELSE IF fill <= 0 THEN "FILL_NOT_POSITIVE"
                    ELSE IF quantity < 1 \/ quantity > p.remaining
                         THEN "INVALID_TRANSITION" ELSE OK
           data == [reference |-> reference, price |-> fill,
                    quantity |-> quantity, gross |-> gross]
           q == Exit(p, type, bar, reference, fill, quantity)
<1>1. p.entry \in Int /\ p.remaining \in Int /\ p.gross \in Int
  BY DEF Builders
<1>2. gross \in Int
  BY <1>1, PaperConstants DEF Gross
<1>3. data \in Fill /\ bar.time \in Int
  BY <1>2 DEF Fill, Bar
<1>4. Append(p.events, Event(type, bar.time, data)) \in Seq(PaperEvent)
  BY <1>3, AppendEvent DEF EventData
<1>5. error \in {OK, "FILL_NOT_POSITIVE", "INVALID_TRANSITION"}
  BY DEF Builders
<1>6. q = [p EXCEPT !.error = error, !.fees = Charged(p, quantity),
                    !.gross = @ + gross, !.remaining = @ - quantity,
                    !.events = Append(@, Event(type, bar.time, data))]
  BY DEF Exit
<1>7. Charged(p, quantity) \in Int \cup {None}
  BY ChargedType
<1> HIDE DEF gross, error, data, q
<1>8. q \in Builders
  <2> DEFINE ev == Append(p.events, Event(type, bar.time, data))
             fee == Charged(p, quantity)
             sum == p.gross + gross
             left == p.remaining - quantity
  <2>1. q = [p EXCEPT !.error = error, !.fees = fee, !.gross = sum,
                      !.remaining = left, !.events = ev]
    BY <1>6
  <2>2. /\ sum \in Int /\ left \in Int /\ ev \in Seq(PaperEvent)
        /\ fee \in Int \cup {None}
    BY <1>1, <1>2, <1>4, <1>7
  <2> HIDE DEF ev, fee, sum, left
  <2> QED
    BY <2>1, <2>2, <1>5 DEF Builders
<1>9. /\ SameButFill(p, q) /\ q.state = p.state /\ q.filled = p.filled
      /\ q.closePending = p.closePending
      /\ q.remaining = p.remaining - quantity /\ q.error = error
  BY <1>6 DEF Builders, SameButFill
<1>10. p.error \in {OK, "FILL_NOT_POSITIVE"} /\ quantity >= 1 /\ quantity <= p.remaining
         => error \in {OK, "FILL_NOT_POSITIVE"}
  BY <1>1 DEF error, OK
<1> QED
  BY <1>8, <1>9, <1>10 DEF q

(***************************************************************************)
(* The position while a bar is read.  Soft errors are the ones a bar can   *)
(* meet; Concluded is what every stage of the bar leaves; Holding is a     *)
(* position whose units are exactly those its targets left.                *)
(***************************************************************************)
Soft == {OK, "FILL_NOT_POSITIVE"}

Exact(p) == p.remaining = p.spec.quantity - UnitsOf(p.spec, p.filled)

Sound(p) ==
    /\ p \in Builders /\ ValidSpec(p.spec) /\ p.error \in Soft
    /\ p.filled \subseteq DOMAIN p.spec.targets
    /\ p.entry # None

Named(p) ==
    /\ p.state = "OPEN" => p.filled = {}
    /\ p.state = "PARTIALLY_CLOSED" => p.filled # {}

Concluded(p) ==
    /\ Sound(p) /\ p.state \in Exposed
    /\ p.remaining = 0 \/ (p.remaining > 0 /\ Exact(p) /\ Named(p))

Holding(p) ==
    /\ Sound(p) /\ p.state \in {"OPEN", "PARTIALLY_CLOSED"}
    /\ Exact(p) /\ p.remaining >= 0
    /\ p.remaining > 0 => Named(p)

Kept(p, q) == SameButFill(p, q) /\ q.closePending = p.closePending

\* Exiting everything that remains leaves nothing and can only fail softly.
LEMMA ExitAll ==
    ASSUME NEW p, Sound(p), p.remaining >= 1, NEW bar \in Bar,
           NEW type \in PaperEventTypes, NEW reference \in Int, NEW fill \in Int
    PROVE  LET q == Exit(p, type, bar, reference, fill, p.remaining)
           IN  /\ Sound(q) /\ Kept(p, q) /\ q.remaining = 0
               /\ q.state = p.state /\ q.filled = p.filled
<1> DEFINE q == Exit(p, type, bar, reference, fill, p.remaining)
<1>1. p \in Builders /\ p.remaining \in Int /\ p.entry # None /\ p.error \in Soft
  BY DEF Sound, Builders
<1>2. /\ q \in Builders /\ SameButFill(p, q) /\ q.state = p.state
      /\ q.filled = p.filled /\ q.closePending = p.closePending
      /\ q.remaining = p.remaining - p.remaining /\ q.error \in Soft
  BY <1>1, ExitFields DEF Soft
<1> HIDE DEF q
<1>3. q.remaining = 0
  BY <1>1, <1>2
<1>4. Sound(q)
  BY <1>2 DEF Sound, SameButFill
<1> QED
  BY <1>2, <1>3, <1>4 DEF Kept, q

\* Slippage moves a price to an integer price.
LEMMA AdverseType ==
    ASSUME NEW p \in Builders, NEW price \in Int, NEW entering \in BOOLEAN
    PROVE  AdversePrice(price, p.spec.slippage, p.spec.direction, entering) \in Int
<1>1. p.spec.slippage \in Nat
  BY DEF Builders, PositionSpec
<1> QED
  BY <1>1 DEF AdversePrice

\* A stop exit closes all that remains.
LEMMA ExitStopSettles ==
    ASSUME NEW p, Sound(p), p.state \in Exposed, p.remaining >= 1,
           NEW bar \in Bar, NEW reference \in Int
    PROVE  LET q == ExitStop(p, bar, reference)
           IN  Concluded(q) /\ Kept(p, q) /\ q.remaining = 0
<1>1. AdversePrice(reference, p.spec.slippage, p.spec.direction, FALSE) \in Int
  BY AdverseType DEF Sound
<1>2. "STOP_FILLED" \in PaperEventTypes
  BY DEF PaperEventTypes
<1> QED
  BY <1>1, <1>2, ExitAll, ZenonT(30) DEF ExitStop, Concluded

\* A manual exit closes all that remains and clears the request.
LEMMA ManualExitSettles ==
    ASSUME NEW p, Sound(p), p.state \in Exposed, p.remaining >= 1, NEW bar \in Bar
    PROVE  LET q == ManualExit(p, bar)
           IN  Concluded(q) /\ SameButFill(p, q) /\ q.remaining = 0
<1> DEFINE fill == AdversePrice(bar.open, p.spec.slippage, p.spec.direction, FALSE)
           e == Exit(p, "MANUAL_EXIT_FILLED", bar, bar.open, fill, p.remaining)
           q == ManualExit(p, bar)
<1>1. bar.open \in Int
  BY DEF Bar
<1>2. fill \in Int
  BY <1>1, AdverseType DEF Sound
<1>3. "MANUAL_EXIT_FILLED" \in PaperEventTypes
  BY DEF PaperEventTypes
<1> HIDE DEF fill
<1>4. Sound(e) /\ Kept(p, e) /\ e.remaining = 0 /\ e.state = p.state
  BY <1>1, <1>2, <1>3, ExitAll
<1>5. q = [e EXCEPT !.closePending = FALSE]
  BY DEF ManualExit, fill
<1> HIDE DEF e, q
<1>6. q \in Builders
  BY <1>4, <1>5 DEF Sound, Builders
<1>7. /\ SameButFill(p, q) /\ q.remaining = 0 /\ q.state = p.state
      /\ q.filled = e.filled /\ q.error = e.error
  BY <1>4, <1>5 DEF Sound, Builders, Kept, SameButFill
<1>8. q.spec = e.spec /\ q.entry = e.entry
  BY <1>4, <1>5 DEF Sound, Builders
<1> QED
  BY <1>4, <1>6, <1>7, <1>8 DEF Sound, Concluded, q

\* A target exit takes exactly its units: they are there, since the units of
\* the unfilled targets never exceed what remains.
LEMMA ExitTargetHolds ==
    ASSUME NEW p, Holding(p), NEW bar \in Bar, NEW reference \in Int,
           NEW i \in DOMAIN p.spec.targets, i \notin p.filled
    PROVE  LET q == ExitTarget(p, bar, i, reference)
           IN  Holding(q) /\ Kept(p, q)
<1> DEFINE target == p.spec.targets[i]
           e == Exit(p, "TARGET_FILLED", bar, reference, target.price, target.quantity)
           s == IF e.remaining > 0 /\ e.state = "OPEN" THEN "PARTIALLY_CLOSED" ELSE e.state
           q == ExitTarget(p, bar, i, reference)
<1>1. /\ p \in Builders /\ p.spec \in PositionSpec /\ ValidSpec(p.spec)
      /\ p.entry # None /\ p.error \in Soft /\ p.remaining \in Int
      /\ p.spec.quantity \in Int
      /\ p.filled \in SUBSET (DOMAIN p.spec.targets)
  BY DEF Holding, Sound, Builders, PositionSpec
<1>2. DOMAIN p.spec.targets \subseteq Int
  BY <1>1 DEF PositionSpec
<1>3. /\ target \in TargetSpec /\ target.quantity >= 1 /\ i \in 1..5
      /\ target.quantity \in Int /\ target.price \in Int
  BY <1>1, <1>2, TargetUnitsType DEF TargetSpec
<1>4. /\ UnitsOf(p.spec, p.filled) \in Nat
      /\ UnitsOf(p.spec, p.filled \cup {i}) = UnitsOf(p.spec, p.filled) + target.quantity
      /\ UnitsOf(p.spec, p.filled \cup {i}) <= p.spec.quantity
  BY <1>1, UnitsOfAdd
<1>5. target.quantity <= p.remaining
  BY <1>1, <1>3, <1>4 DEF Holding, Exact
<1>6. "TARGET_FILLED" \in PaperEventTypes
  BY DEF PaperEventTypes
<1> HIDE DEF target
<1>7. /\ e \in Builders /\ SameButFill(p, e) /\ e.state = p.state
      /\ e.filled = p.filled /\ e.closePending = p.closePending
      /\ e.remaining = p.remaining - target.quantity /\ e.error \in Soft
  BY <1>1, <1>3, <1>5, <1>6, ExitFields DEF Soft
<1>8. q = [e EXCEPT !.filled = e.filled \cup {i}, !.state = s]
  BY DEF ExitTarget, target
<1>9. s \in {"OPEN", "PARTIALLY_CLOSED"} /\ (e.remaining > 0 => s = "PARTIALLY_CLOSED")
  BY <1>7 DEF Holding
<1> HIDE DEF e, q, s
<1>10. q \in Builders
  <2>1. e.filled \cup {i} \in SUBSET (1..MAX_TARGETS)
    BY <1>3, <1>7 DEF Builders, MAX_TARGETS
  <2>2. s \in PositionStates
    BY <1>9 DEF PositionStates
  <2> QED
    BY <2>1, <2>2, <1>7, <1>8 DEF Builders
<1>11. /\ q.spec = e.spec /\ q.stop = e.stop /\ q.entry = e.entry
       /\ q.lastBar = e.lastBar /\ q.mark = e.mark /\ q.closePending = e.closePending
       /\ q.error = e.error /\ q.remaining = e.remaining
       /\ q.filled = p.filled \cup {i} /\ q.state = s
  BY <1>7, <1>8 DEF Builders
<1>12. Kept(p, q)
  BY <1>7, <1>11 DEF Kept, SameButFill
<1>13. Sound(q)
  BY <1>1, <1>7, <1>10, <1>11 DEF Sound, SameButFill
<1>14. Exact(q) /\ q.remaining >= 0
  BY <1>1, <1>3, <1>4, <1>5, <1>7, <1>11 DEF Exact, Holding, SameButFill
<1>15. q.remaining > 0 => Named(q)
  BY <1>9, <1>11 DEF Named
<1> QED
  BY <1>9, <1>11, <1>12, <1>13, <1>14, <1>15 DEF Holding, q

\* Being kept composes over the stages of a bar.
LEMMA KeptChain ==
    ASSUME NEW p, NEW q, NEW r, Kept(p, q), Kept(q, r)
    PROVE  Kept(p, r)
  BY DEF Kept, SameButFill

\* One round of at_open's loop.
LEMMA TargetAtOpenHolds ==
    ASSUME NEW p, Holding(p), NEW bar \in Bar, NEW i
    PROVE  LET q == TargetAtOpen(p, bar, i) IN Holding(q) /\ Kept(p, q)
<1>1. bar.open \in Int
  BY DEF Bar
<1>2. Kept(p, p)
  BY DEF Kept, SameButFill
<1> QED
  BY <1>1, <1>2, ExitTargetHolds DEF TargetAtOpen

\* One round of intrabar's loop, over targets that were not filled before it.
LEMMA TargetInsideHolds ==
    ASSUME NEW p, Holding(p), NEW bar \in Bar, NEW touched, NEW i,
           touched \subseteq DOMAIN p.spec.targets, i \in touched => i \notin p.filled
    PROVE  LET q == TargetInside(p, bar, touched, i)
           IN  /\ Holding(q) /\ Kept(p, q)
               /\ q.filled \subseteq p.filled \cup {i}
<1>1. Kept(p, p)
  BY DEF Kept, SameButFill
<1>2. CASE i \in touched /\ p.remaining # 0
  <2>1. i \in DOMAIN p.spec.targets /\ i \notin p.filled
    BY <1>2
  <2>2. p \in Builders /\ p.spec \in PositionSpec /\ ValidSpec(p.spec)
    BY DEF Holding, Sound, Builders
  <2>3. i \in Int
    BY <2>1, <2>2 DEF PositionSpec
  <2>4. p.spec.targets[i].price \in Int
    BY <2>1, <2>2, <2>3, TargetUnitsType DEF TargetSpec
  <2> DEFINE q == ExitTarget(p, bar, i, p.spec.targets[i].price)
  <2>5. Holding(q) /\ Kept(p, q)
    BY <2>1, <2>4, ExitTargetHolds
  <2>6. q.filled = p.filled \cup {i}
    BY <2>2 DEF ExitTarget, Exit, Builders
  <2> QED
    BY <1>2, <2>5, <2>6 DEF TargetInside
<1>3. CASE ~(i \in touched /\ p.remaining # 0)
  BY <1>1, <1>3 DEF TargetInside
<1> QED
  BY <1>2, <1>3

\* The targets reached at the open.
LEMMA TargetsAtOpenHolds ==
    ASSUME NEW p, Holding(p), NEW bar \in Bar
    PROVE  LET q == TargetsAtOpen(p, bar) IN Holding(q) /\ Kept(p, q)
<1> DEFINE p1 == TargetAtOpen(p, bar, 1)
           p2 == TargetAtOpen(p1, bar, 2)
           p3 == TargetAtOpen(p2, bar, 3)
           p4 == TargetAtOpen(p3, bar, 4)
           p5 == TargetAtOpen(p4, bar, 5)
<1>0. TargetsAtOpen(p, bar) = p5
  BY DEF TargetsAtOpen
<1>1. Holding(p1) /\ Kept(p, p1)
  BY TargetAtOpenHolds
<1> HIDE DEF p1
<1>2. Holding(p2) /\ Kept(p1, p2)
  BY <1>1, TargetAtOpenHolds
<1> HIDE DEF p2
<1>3. Holding(p3) /\ Kept(p2, p3)
  BY <1>2, TargetAtOpenHolds
<1> HIDE DEF p3
<1>4. Holding(p4) /\ Kept(p3, p4)
  BY <1>3, TargetAtOpenHolds
<1> HIDE DEF p4
<1>5. Holding(p5) /\ Kept(p4, p5)
  BY <1>4, TargetAtOpenHolds
<1> HIDE DEF p5
<1>6. Kept(p, p5)
  BY <1>1, <1>2, <1>3, <1>4, <1>5 DEF Kept, SameButFill
<1> QED
  BY <1>0, <1>5, <1>6

\* The targets touched inside the bar.
LEMMA TargetsInsideHolds ==
    ASSUME NEW p, Holding(p), NEW bar \in Bar, NEW touched,
           touched \subseteq DOMAIN p.spec.targets, touched \cap p.filled = {}
    PROVE  LET q == TargetsInside(p, bar, touched) IN Holding(q) /\ Kept(p, q)
<1> DEFINE p1 == TargetInside(p, bar, touched, 1)
           p2 == TargetInside(p1, bar, touched, 2)
           p3 == TargetInside(p2, bar, touched, 3)
           p4 == TargetInside(p3, bar, touched, 4)
           p5 == TargetInside(p4, bar, touched, 5)
<1>0. TargetsInside(p, bar, touched) = p5
  BY DEF TargetsInside
<1>1. Holding(p1) /\ Kept(p, p1) /\ p1.filled \subseteq p.filled \cup {1}
  BY TargetInsideHolds
<1> HIDE DEF p1
<1>2. Holding(p2) /\ Kept(p, p2) /\ p2.filled \subseteq p.filled \cup {1, 2}
  <2>1. p1.spec = p.spec /\ (2 \in touched => 2 \notin p1.filled)
    BY <1>1 DEF Kept, SameButFill
  <2>2. Holding(p2) /\ Kept(p1, p2) /\ p2.filled \subseteq p1.filled \cup {2}
    BY <1>1, <2>1, TargetInsideHolds
  <2> HIDE DEF p2
  <2> QED BY <1>1, <2>2, KeptChain
<1> HIDE DEF p2
<1>3. Holding(p3) /\ Kept(p, p3) /\ p3.filled \subseteq p.filled \cup {1, 2, 3}
  <2>1. p2.spec = p.spec /\ (3 \in touched => 3 \notin p2.filled)
    BY <1>2 DEF Kept, SameButFill
  <2>2. Holding(p3) /\ Kept(p2, p3) /\ p3.filled \subseteq p2.filled \cup {3}
    BY <1>2, <2>1, TargetInsideHolds
  <2> HIDE DEF p3
  <2> QED BY <1>2, <2>2, KeptChain
<1> HIDE DEF p3
<1>4. Holding(p4) /\ Kept(p, p4) /\ p4.filled \subseteq p.filled \cup {1, 2, 3, 4}
  <2>1. p3.spec = p.spec /\ (4 \in touched => 4 \notin p3.filled)
    BY <1>3 DEF Kept, SameButFill
  <2>2. Holding(p4) /\ Kept(p3, p4) /\ p4.filled \subseteq p3.filled \cup {4}
    BY <1>3, <2>1, TargetInsideHolds
  <2> HIDE DEF p4
  <2> QED BY <1>3, <2>2, KeptChain
<1> HIDE DEF p4
<1>5. Holding(p5) /\ Kept(p, p5)
  <2>1. p4.spec = p.spec /\ (5 \in touched => 5 \notin p4.filled)
    BY <1>4 DEF Kept, SameButFill
  <2>2. Holding(p5) /\ Kept(p4, p5)
    BY <1>4, <2>1, TargetInsideHolds
  <2> HIDE DEF p5
  <2> QED BY <1>4, <2>2, KeptChain
<1> QED
  BY <1>0, <1>5

\* The open of a bar: the gapped stop, or the targets already reached.
LEMMA AtOpenSettles ==
    ASSUME NEW p, Holding(p), p.remaining >= 1, NEW bar \in Bar
    PROVE  LET q == AtOpen(p, bar)
           IN  Concluded(q) /\ Kept(p, q) /\ (q.remaining > 0 => Holding(q))
<1>1. Sound(p) /\ p.state \in Exposed /\ bar.open \in Int
  BY DEF Holding, Exposed, Bar
<1>2. CASE AtStop(p, bar.open)
  BY <1>1, <1>2, ExitStopSettles DEF AtOpen
<1>3. CASE ~AtStop(p, bar.open)
  <2> DEFINE q == TargetsAtOpen(p, bar)
  <2>1. Holding(q) /\ Kept(p, q)
    BY TargetsAtOpenHolds
  <2>2. q.remaining \in Int
    BY <2>1 DEF Holding, Sound, Builders
  <2> HIDE DEF q
  <2>3. Concluded(q)
    BY <2>1, <2>2 DEF Holding, Concluded, Exposed
  <2> QED
    BY <1>3, <2>1, <2>3 DEF AtOpen, q
<1> QED
  BY <1>2, <1>3

\* The inside of a bar: the ambiguity, the stop or the targets.
LEMMA IntrabarSettles ==
    ASSUME NEW p, Holding(p), p.remaining >= 1, NEW bar \in Bar
    PROVE  LET q == Intrabar(p, bar) IN Concluded(q) /\ Kept(p, q)
<1> DEFINE noted == Emit(p, "SAME_BAR_AMBIGUITY", bar.time, None)
           halted == [noted EXCEPT !.state = "AMBIGUOUS_HALTED"]
           touched == Touched(p, bar)
<1>1. /\ Sound(p) /\ p.state \in Exposed /\ p \in Builders /\ p.stop \in Int
      /\ bar.time \in Int /\ "SAME_BAR_AMBIGUITY" \in PaperEventTypes
      /\ p.remaining \in Int
  BY DEF Holding, Exposed, Bar, Sound, Builders, PaperEventTypes
<1>2. /\ noted \in Builders
      /\ \A x \in {"spec", "state", "remaining", "stop", "filled", "entry",
                    "gross", "fees", "lastBar", "mark", "closePending", "error"} :
           noted[x] = p[x]
  BY <1>1, AppendEvent DEF EventData
<1> HIDE DEF noted
<1>3. /\ Sound(noted) /\ Kept(p, noted) /\ noted.state \in Exposed
      /\ noted.remaining >= 1 /\ Exact(noted) /\ noted.filled = p.filled
  <2>1. /\ noted.spec = p.spec /\ noted.state = p.state /\ noted.remaining = p.remaining
        /\ noted.filled = p.filled /\ noted.entry = p.entry /\ noted.error = p.error
        /\ noted.stop = p.stop /\ noted.lastBar = p.lastBar /\ noted.mark = p.mark
        /\ noted.closePending = p.closePending
    BY <1>2
  <2> QED
    BY <1>1, <1>2, <2>1 DEF Holding, Sound, Exact, Kept, SameButFill
<1>4. LET q == ExitStop(noted, bar, p.stop) IN Concluded(q) /\ Kept(p, q)
  BY <1>1, <1>3, ExitStopSettles, KeptChain
<1>5. Concluded(halted) /\ Kept(p, halted)
  <2>1. halted \in Builders
    BY <1>2 DEF Builders, PositionStates
  <2>2. /\ halted.spec = noted.spec /\ halted.stop = noted.stop
        /\ halted.entry = noted.entry /\ halted.lastBar = noted.lastBar
        /\ halted.mark = noted.mark /\ halted.closePending = noted.closePending
        /\ halted.error = noted.error /\ halted.remaining = noted.remaining
        /\ halted.filled = noted.filled /\ halted.state = "AMBIGUOUS_HALTED"
    BY <1>2 DEF Builders
  <2>3. noted.remaining \in Int
    BY <1>2 DEF Builders
  <2> HIDE DEF halted
  <2> QED
    BY <1>3, <2>1, <2>2, <2>3
    DEF Concluded, Sound, Exact, Named, Exposed, Kept, SameButFill
<1>6. LET q == ExitStop(p, bar, p.stop) IN Concluded(q) /\ Kept(p, q)
  BY <1>1, ExitStopSettles
<1>7. LET q == TargetsInside(p, bar, touched) IN Concluded(q) /\ Kept(p, q)
  <2> DEFINE q == TargetsInside(p, bar, touched)
  <2>1. touched \subseteq DOMAIN p.spec.targets /\ touched \cap p.filled = {}
    BY DEF Touched
  <2> HIDE DEF touched
  <2>2. Holding(q) /\ Kept(p, q)
    BY <2>1, TargetsInsideHolds
  <2>3. q.remaining \in Int
    BY <2>2 DEF Holding, Sound, Builders
  <2> HIDE DEF q
  <2>4. Concluded(q)
    BY <2>2, <2>3 DEF Holding, Concluded, Exposed
  <2> QED
    BY <2>2, <2>4 DEF q
<1> QED
  BY <1>4, <1>5, <1>6, <1>7 DEF Intrabar, noted

(***************************************************************************)
(* The end of a bar.  Origin is the rest of the inductive invariant: where *)
(* the stop and the entry of a position come from.                         *)
(***************************************************************************)
Origin(p) ==
    /\ p.state = "PENDING_ENTRY" => p.filled = {} /\ p.entry = None
    /\ p.stop \in {p.spec.stop, p.entry}
    /\ p.entry # None => IF p.spec.direction = "LONG" THEN p.entry > p.spec.stop
                                                      ELSE p.entry < p.spec.stop

SameTerms(p, q) == q.spec = p.spec /\ q.stop = p.stop /\ q.entry = p.entry

\* finish and build: an exposed position still holds its units.
LEMMA FinishSettles ==
    ASSUME NEW p, Concluded(p), NEW bar \in Bar
    PROVE  LET q == Build(Finish(p, bar), bar)
           IN  /\ q \in Builders /\ q.error \in Soft /\ Units(q)
               /\ SameTerms(p, q) /\ q.state # "PENDING_ENTRY"
<1> DEFINE figures == [realized |-> p.gross, charged |-> p.fees]
           noted == Emit(p, "POSITION_CLOSED", bar.time, figures)
           closed == [noted EXCEPT !.state = "CLOSED"]
           f == Finish(p, bar)
           pending == f.closePending /\ f.state \in Exposed
           q == Build(f, bar)
<1>1. /\ p \in Builders /\ bar.time \in Int /\ bar.close \in Int
      /\ "POSITION_CLOSED" \in PaperEventTypes /\ p.remaining \in Int
      /\ figures \in EventData
  BY DEF Concluded, Sound, Builders, Bar, PaperEventTypes, EventData, Closing
<1>2. /\ noted \in Builders
      /\ \A x \in {"spec", "state", "remaining", "stop", "filled", "entry",
                    "gross", "fees", "lastBar", "mark", "closePending", "error"} :
           noted[x] = p[x]
  BY <1>1, AppendEvent
<1> HIDE DEF noted
<1>3. /\ noted.spec = p.spec /\ noted.remaining = p.remaining
      /\ noted.filled = p.filled /\ noted.entry = p.entry /\ noted.error = p.error
      /\ noted.stop = p.stop
  BY <1>2
<1>4. /\ closed \in Builders /\ closed.state = "CLOSED" /\ closed.spec = p.spec
      /\ closed.remaining = p.remaining /\ closed.filled = p.filled
      /\ closed.entry = p.entry /\ closed.error = p.error /\ closed.stop = p.stop
  BY <1>2, <1>3 DEF Builders, PositionStates
<1>5. f = IF p.remaining = 0 THEN closed ELSE p
  BY DEF Finish, Concluded, noted
<1> HIDE DEF closed, f
<1>6. /\ f \in Builders /\ SameTerms(p, f) /\ f.error \in Soft
      /\ f.filled \subseteq DOMAIN f.spec.targets
      /\ f.remaining = p.remaining /\ f.filled = p.filled
      /\ f.state = IF p.remaining = 0 THEN "CLOSED" ELSE p.state
  BY <1>1, <1>4, <1>5 DEF Concluded, Sound, SameTerms
<1>7. q = [f EXCEPT !.lastBar = bar.time, !.mark = bar.close, !.closePending = pending]
  BY DEF Build
<1>8. pending \in BOOLEAN /\ (pending => f.state \in Exposed)
  BY <1>6 DEF Builders
<1> HIDE DEF q, pending
<1>9. q \in Builders
  BY <1>1, <1>6, <1>7, <1>8 DEF Builders
<1>10. /\ SameTerms(f, q) /\ q.error = f.error /\ q.state = f.state
       /\ q.remaining = f.remaining /\ q.filled = f.filled
       /\ q.mark = bar.close /\ q.closePending = pending
  BY <1>6, <1>7 DEF Builders, SameTerms
<1>11. bar.close # None
  BY <1>1, PaperConstants
<1>12. q.state \notin Exposed => q.remaining = 0
  BY <1>6, <1>10 DEF Concluded
<1>13. q.state \in Exposed => p.remaining > 0 /\ Exact(p) /\ Named(p) /\ q.state = p.state
  BY <1>6, <1>10 DEF Concluded, Exposed
<1>14. Units(q)
  <2>1. q.filled \subseteq DOMAIN q.spec.targets
    BY <1>6, <1>10 DEF SameTerms
  <2>2. q.state \in Exposed =>
          /\ q.remaining > 0 /\ q.remaining = q.spec.quantity - UnitsOf(q.spec, q.filled)
          /\ q.entry # None /\ q.mark # None
    BY <1>6, <1>10, <1>11, <1>13 DEF SameTerms, Exact, Concluded, Sound
  <2>3. (q.state = "OPEN" => q.filled = {}) /\ (q.state = "PARTIALLY_CLOSED" => q.filled # {})
    BY <1>6, <1>10, <1>13 DEF Named, Exposed
  <2>4. q.closePending => q.state \in Exposed
    BY <1>8, <1>10
  <2> QED
    BY <1>12, <2>1, <2>2, <2>3, <2>4 DEF Units
<1> QED
  BY <1>6, <1>9, <1>10, <1>14 DEF SameTerms, Concluded, Exposed, q, f

\* enter: the order is rejected, or it is filled on the winning side of the stop.
LEMMA EnterSettles ==
    ASSUME NEW p \in Builders, p.state = "PENDING_ENTRY", p.error = OK,
           ValidSpec(p.spec), p.remaining = 0, p.filled = {}, p.entry = None,
           p.stop = p.spec.stop, NEW bar \in Bar
    PROVE  LET q == Enter(p, bar)
           IN  /\ q \in Builders /\ q.spec = p.spec /\ q.stop = p.stop
               /\ \/ /\ q.state = "REJECTED" /\ q.remaining = 0
                     /\ q.filled = {} /\ q.entry = None /\ q.error = OK
                  \/ /\ q.state = "OPEN" /\ Holding(q) /\ q.remaining >= 1
                     /\ Origin(q)
<1> DEFINE fill == AdversePrice(bar.open, p.spec.slippage, p.spec.direction, TRUE)
           quantity == p.spec.quantity
           q == Enter(p, bar)
<1>1. /\ p.spec \in PositionSpec /\ bar.open \in Int /\ bar.time \in Int
      /\ quantity \in Int /\ p.spec.stop \in Int /\ quantity >= 1
  BY DEF Builders, PositionSpec, Bar, ValidSpec
<1>2. fill \in Int
  BY <1>1, AdverseType
<1>3. CASE AtStop(p, fill) \/ AtTarget(p, 1, fill)
  <2> DEFINE noted == Emit(p, "ENTRY_REJECTED", bar.time, None)
  <2>1. "ENTRY_REJECTED" \in PaperEventTypes
    BY DEF PaperEventTypes
  <2>2. /\ noted \in Builders
        /\ \A x \in {"spec", "state", "remaining", "stop", "filled", "entry",
                      "gross", "fees", "lastBar", "mark", "closePending", "error"} :
             noted[x] = p[x]
    BY <1>1, <2>1, AppendEvent DEF EventData
  <2>3. q = [noted EXCEPT !.state = "REJECTED"]
    BY <1>3 DEF Enter
  <2> HIDE DEF noted, q
  <2>4. /\ noted.spec = p.spec /\ noted.remaining = p.remaining
        /\ noted.filled = p.filled /\ noted.entry = p.entry
        /\ noted.error = p.error /\ noted.stop = p.stop
    BY <2>2
  <2>5. /\ q \in Builders /\ q.state = "REJECTED" /\ q.spec = p.spec /\ q.stop = p.stop
        /\ q.remaining = p.remaining /\ q.filled = p.filled /\ q.entry = p.entry
        /\ q.error = p.error
    BY <2>2, <2>3, <2>4, ZenonT(30) DEF Builders, PositionStates
  <2> QED
    BY <2>5 DEF q
<1>4. CASE ~(AtStop(p, fill) \/ AtTarget(p, 1, fill))
  <2> DEFINE data == [reference |-> bar.open, price |-> fill,
                      quantity |-> quantity, gross |-> 0]
             ev == Append(p.events, Event("ENTRY_FILLED", bar.time, data))
             fee == Charged(p, quantity)
             error == IF fill <= 0 THEN "FILL_NOT_POSITIVE" ELSE p.error
  <2>1. data \in Fill /\ "ENTRY_FILLED" \in PaperEventTypes
    <3> HIDE DEF fill, quantity
    <3> QED BY <1>1, <1>2 DEF Fill, PaperEventTypes
  <2>2. ev \in Seq(PaperEvent)
    <3> HIDE DEF data
    <3> QED BY <1>1, <2>1, AppendEvent DEF EventData
  <2>3. fee \in Int \cup {None}
    BY <1>1, ChargedType
  <2>4. error \in Soft
    BY DEF Soft
  <2>5. q = [p EXCEPT !.error = error, !.fees = fee, !.entry = fill,
                      !.remaining = quantity, !.state = "OPEN", !.events = ev]
    BY <1>4 DEF Enter
  <2> HIDE DEF q, ev, fee, error
  <2>6. q \in Builders
    <3> HIDE DEF fill, quantity
    <3> QED
      BY <1>1, <1>2, <2>2, <2>3, <2>4, <2>5, ZenonT(30) DEF Builders, PositionStates, Soft
  <2>7. /\ q.spec = p.spec /\ q.stop = p.stop /\ q.state = "OPEN" /\ q.filled = p.filled
        /\ q.entry = fill /\ q.remaining = quantity /\ q.error = error
    BY <2>5 DEF Builders
  <2>8. IF p.spec.direction = "LONG" THEN fill > p.spec.stop ELSE fill < p.spec.stop
    <3>1. ~AtStop(p, fill)
      BY <1>4
    <3> HIDE DEF fill
    <3> QED BY <1>1, <1>2, <3>1 DEF AtStop
  <2> HIDE DEF fill
  <2>9. fill # None
    BY <1>2, PaperConstants
  <2>10. Sound(q)
    BY <2>4, <2>6, <2>7, <2>9 DEF Sound
  <2>11. Exact(q) /\ q.remaining >= 1 /\ Named(q)
    BY <1>1, <2>7, UnitsOfEmpty DEF Exact, Named
  <2>12. Holding(q)
    BY <1>1, <2>7, <2>10, <2>11 DEF Holding
  <2>13. Origin(q)
    BY <2>7, <2>8 DEF Origin
  <2> QED
    BY <2>6, <2>7, <2>11, <2>12, <2>13 DEF q
<1> QED
  BY <1>3, <1>4

(***************************************************************************)
(* The inductive invariant, for one position.                              *)
(***************************************************************************)
Good(p) ==
    /\ p \in PaperPositions /\ ValidSpec(p.spec)
    /\ Units(p)
    /\ Origin(p)

\* One bar from a live position: units, terms and a soft error at worst.
LEMMA ProcessKeepsUnits ==
    ASSUME NEW p, Good(p), p.state \notin Terminal, NEW bar \in Bar
    PROVE  LET q == Process(p, bar)
           IN  /\ q \in Builders /\ q.error \in Soft /\ Units(q) /\ Origin(q)
               /\ q.spec = p.spec /\ q.stop = p.stop
<1> DEFINE o == Emit(p, "OBSERVATION_APPLIED", bar.time, bar)
           entered == Enter(o, bar)
           opened == AtOpen(o, bar)
           q == Process(p, bar)
           Done(r) == Build(Finish(r, bar), bar)
<1>1. /\ p \in Builders /\ p.error = OK /\ bar.time \in Int
      /\ "OBSERVATION_APPLIED" \in PaperEventTypes /\ p.remaining \in Int
  BY DEF Good, PaperPositions, Bar, PaperEventTypes, Builders
<1>2. /\ o \in Builders
      /\ \A x \in {"spec", "state", "remaining", "stop", "filled", "entry",
                    "gross", "fees", "lastBar", "mark", "closePending", "error"} :
           o[x] = p[x]
  BY <1>1, AppendEvent DEF EventData
<1>3. q = Done(IF o.state = "PENDING_ENTRY"
                 THEN IF entered.state = "OPEN" THEN Intrabar(entered, bar) ELSE entered
               ELSE IF o.closePending THEN ManualExit(o, bar)
               ELSE IF o.state = "AMBIGUOUS_HALTED" THEN o
               ELSE IF opened.remaining > 0 THEN Intrabar(opened, bar) ELSE opened)
  BY DEF Process, AfterEntry, AfterOpen
<1> HIDE DEF o, q
<1>4. /\ o.spec = p.spec /\ o.state = p.state /\ o.remaining = p.remaining
      /\ o.filled = p.filled /\ o.entry = p.entry /\ o.error = p.error
      /\ o.stop = p.stop /\ o.closePending = p.closePending
  BY <1>2
<1>5. ASSUME NEW r, Concluded(r), SameTerms(p, r) \/ (Origin(r) /\ r.spec = p.spec /\ r.stop = p.stop),
             q = Done(r)
      PROVE  /\ q \in Builders /\ q.error \in Soft /\ Units(q) /\ Origin(q)
             /\ q.spec = p.spec /\ q.stop = p.stop
  <2>1. /\ q \in Builders /\ q.error \in Soft /\ Units(q)
        /\ SameTerms(r, q) /\ q.state # "PENDING_ENTRY"
    BY <1>5, FinishSettles
  <2>2. Origin(q)
    BY <1>5, <2>1 DEF Good, Origin, SameTerms
  <2> QED
    BY <1>5, <2>1, <2>2 DEF SameTerms
<1>6. CASE p.state = "PENDING_ENTRY"
  <2>1. /\ o.state = "PENDING_ENTRY" /\ o.error = OK /\ ValidSpec(o.spec)
        /\ o.remaining = 0 /\ o.filled = {} /\ o.entry = None /\ o.stop = o.spec.stop
    <3>1. p.remaining = 0 /\ p.filled = {} /\ p.entry = None
      BY <1>6 DEF Good, Units, Origin, Exposed
    <3>2. p.stop \in Int
      BY <1>1 DEF Builders
    <3>3. p.stop = p.spec.stop
      BY <3>1, <3>2, PaperConstants DEF Good, Origin
    <3> QED
      BY <1>1, <1>4, <1>6, <3>1, <3>3 DEF Good
  <2>2. /\ entered \in Builders /\ entered.spec = o.spec /\ entered.stop = o.stop
        /\ \/ /\ entered.state = "REJECTED" /\ entered.remaining = 0
              /\ entered.filled = {} /\ entered.entry = None /\ entered.error = OK
           \/ /\ entered.state = "OPEN" /\ Holding(entered) /\ entered.remaining >= 1
              /\ Origin(entered)
    BY <1>2, <2>1, EnterSettles
  <2> HIDE DEF entered
  <2>3. CASE entered.state = "OPEN"
    <3> DEFINE r == Intrabar(entered, bar)
    <3>1. Holding(entered) /\ entered.remaining >= 1 /\ Origin(entered)
      BY <2>2, <2>3
    <3>2. Concluded(r) /\ Kept(entered, r)
      BY <3>1, IntrabarSettles
    <3>3. q = Done(r)
      BY <1>3, <2>1, <2>3
    <3> HIDE DEF r, Done
    <3>4. Origin(r) /\ r.spec = p.spec /\ r.stop = p.stop
      BY <1>4, <2>2, <3>1, <3>2 DEF Origin, Kept, SameButFill, Concluded, Exposed
    <3> QED
      BY <1>5, <3>2, <3>3, <3>4 DEF q
  <2>4. CASE entered.state = "REJECTED"
    <3> DEFINE pending == entered.closePending /\ entered.state \in Exposed
    <3>1. /\ entered.remaining = 0 /\ entered.filled = {} /\ entered.entry = None
          /\ entered.error = OK
      BY <2>2, <2>4
    <3>2. Finish(entered, bar) = entered
      BY <2>4 DEF Finish, Exposed
    <3>3. q = [entered EXCEPT !.lastBar = bar.time, !.mark = bar.close,
                              !.closePending = pending]
      BY <1>3, <2>1, <2>4, <3>2 DEF Build
    <3>4. pending = FALSE /\ bar.close \in Int
      BY <2>4 DEF Exposed, Bar
    <3> HIDE DEF pending
    <3>5. q \in Builders
      BY <1>1, <2>2, <3>3, <3>4 DEF Builders
    <3>6. /\ q.spec = entered.spec /\ q.stop = entered.stop /\ q.entry = entered.entry
          /\ q.filled = entered.filled /\ q.remaining = entered.remaining
          /\ q.error = entered.error /\ q.state = entered.state /\ q.closePending = FALSE
      BY <2>2, <3>3, <3>4 DEF Builders
    <3>7. Units(q)
      BY <2>4, <3>1, <3>6 DEF Units, Exposed
    <3>8. Origin(q)
      BY <1>4, <2>1, <2>2, <2>4, <3>1, <3>6 DEF Origin
    <3> QED
      BY <1>4, <2>2, <3>1, <3>5, <3>6, <3>7, <3>8 DEF Soft, q
  <2> QED
    BY <2>2, <2>3, <2>4
<1>7. CASE p.state # "PENDING_ENTRY"
  <2>1. p.state \in Exposed
    BY <1>1, <1>7 DEF Builders, PositionStates, Exposed, Terminal
  <2>2. Sound(o) /\ o.state \in Exposed /\ o.remaining >= 1 /\ Exact(o) /\ Named(o)
    BY <1>1, <1>2, <1>4, <2>1 DEF Good, Units, Sound, Exact, Named, Soft
  <2>3. SameTerms(p, o)
    BY <1>4 DEF SameTerms
  <2>4. CASE o.closePending
    <3> DEFINE r == ManualExit(o, bar)
    <3>1. Concluded(r) /\ SameButFill(o, r)
      BY <2>2, ManualExitSettles
    <3>2. q = Done(r)
      BY <1>3, <1>4, <1>7, <2>4
    <3> HIDE DEF r, Done
    <3>3. SameTerms(p, r)
      BY <2>3, <3>1 DEF SameTerms, SameButFill
    <3> QED
      BY <1>5, <3>1, <3>2, <3>3 DEF q
  <2>5. CASE ~o.closePending /\ o.state = "AMBIGUOUS_HALTED"
    <3>1. Concluded(o)
      BY <1>1, <1>4, <2>2 DEF Concluded
    <3>2. q = Done(o)
      BY <1>3, <1>4, <1>7, <2>5
    <3> HIDE DEF Done
    <3> QED
      BY <1>5, <2>3, <3>1, <3>2 DEF q
  <2>6. CASE ~o.closePending /\ o.state # "AMBIGUOUS_HALTED"
    <3>1. Holding(o)
      BY <1>1, <1>4, <2>2, <2>6 DEF Holding, Exposed
    <3>2. Concluded(opened) /\ Kept(o, opened) /\ (opened.remaining > 0 => Holding(opened))
      BY <2>2, <3>1, AtOpenSettles
    <3> HIDE DEF opened
    <3>3. opened.remaining \in Int
      BY <3>2 DEF Concluded, Sound, Builders
    <3>4. CASE opened.remaining > 0
      <4> DEFINE r == Intrabar(opened, bar)
      <4>1. Concluded(r) /\ Kept(opened, r)
        BY <3>2, <3>3, <3>4, IntrabarSettles
      <4>2. q = Done(r)
        BY <1>3, <1>4, <1>7, <2>6, <3>4
      <4> HIDE DEF r, Done
      <4>3. SameTerms(p, r)
        BY <2>3, <3>2, <4>1 DEF SameTerms, Kept, SameButFill
      <4> QED
        BY <1>5, <4>1, <4>2, <4>3 DEF q
    <3>5. CASE ~(opened.remaining > 0)
      <4>1. q = Done(opened)
        BY <1>3, <1>4, <1>7, <2>6, <3>5
      <4>2. SameTerms(p, opened)
        BY <2>3, <3>2 DEF SameTerms, Kept, SameButFill
      <4> HIDE DEF Done
      <4> QED
        BY <1>5, <3>2, <4>1, <4>2 DEF q
    <3> QED
      BY <3>4, <3>5
  <2> QED
    BY <2>4, <2>5, <2>6
<1> QED
  BY <1>6, <1>7 DEF q

(***************************************************************************)
(* The calls of the engine.                                                *)
(***************************************************************************)

\* open_position yields a pending order without units, entry or fills.
LEMMA OpenGood ==
    ASSUME NEW spec \in PositionSpec, ValidSpec(spec), NEW approval,
           NEW calculable \in BOOLEAN, NEW onGrid \in BOOLEAN
    PROVE  LET r == OpenPosition(spec, approval, calculable, onGrid)
           IN  /\ r.position # None => Good(r.position)
               /\ r.code = OK => Good(r.position) /\ r.position.spec = spec
<1> DEFINE event == Event("POSITION_CREATED", spec.decision, None)
           fees == IF spec.feePerUnit = None THEN None ELSE 0
           created == [spec |-> spec, state |-> "PENDING_ENTRY", remaining |-> 0,
                       stop |-> spec.stop, filled |-> {}, entry |-> None,
                       gross |-> 0, fees |-> fees,
                       lastBar |-> None, mark |-> None, closePending |-> FALSE,
                       error |-> OK, events |-> <<event>>]
           r == OpenPosition(spec, approval, calculable, onGrid)
<1>1. (r.position = None /\ r.code # OK) \/ r.position = created
  <2>1. r \in {Result("PRODUCT_NOT_CALCULABLE", None), Result("RISK_NOT_ALLOWED", None),
               Result("QUANTITY_EXCEEDS_RISK", None), Result("LEVELS_NOT_EXECUTABLE", None),
               Result(OK, created)}
    BY Zenon DEF OpenPosition
  <2> HIDE DEF created, r
  <2> QED BY <2>1 DEF Result, OK
<1>2. event \in PaperEvent
  BY DEF Event, PaperEvent, PaperEventTypes, PositionSpec, EventData
<1>3. fees \in Int \cup {None} /\ spec.stop \in Int
  BY DEF PositionSpec
<1> HIDE DEF event, fees
<1>4. created \in Builders /\ created.error = OK
  BY <1>2, <1>3 DEF Builders, PositionStates
<1>5. Units(created)
  BY DEF Units, Exposed
<1>6. Origin(created)
  BY DEF Origin
<1>7. Good(created) /\ created.spec = spec
  BY <1>4, <1>5, <1>6 DEF Good, PaperPositions
<1> HIDE DEF created
<1> QED
  BY <1>1, <1>7

\* An event and one changed field: what the commands do.
LEMMA CommandsKeepGood ==
    ASSUME NEW p, Good(p)
    PROVE  /\ Good(RequestClose(p).position)
           /\ Good(MoveStopToBreakeven(p).position)
           /\ Good(Cancel(p).position)
           /\ \A q \in {RequestClose(p).position, MoveStopToBreakeven(p).position,
                        Cancel(p).position} : q.spec = p.spec /\ Tightens(p, q)
<1>1. /\ p \in Builders /\ p.error = OK /\ p.lastBar \in Int \cup {None}
      /\ p.stop \in Int /\ p.entry \in Int \cup {None} /\ p.spec.stop \in Int
  BY DEF Good, PaperPositions, Builders, PositionSpec
<1>2. /\ "CLOSE_REQUESTED" \in PaperEventTypes
      /\ "STOP_MOVED_TO_BREAKEVEN" \in PaperEventTypes
      /\ "POSITION_CANCELLED" \in PaperEventTypes
      /\ None \in Int \cup {None} /\ None \in EventData
  BY DEF PaperEventTypes, EventData
<1> DEFINE Noted(n) ==
             /\ n \in Builders
             /\ \A x \in {"spec", "state", "remaining", "stop", "filled", "entry",
                           "gross", "fees", "lastBar", "mark", "closePending", "error"} :
                  n[x] = p[x]
<1>note. ASSUME NEW type \in PaperEventTypes, NEW time \in Int \cup {None}
      PROVE  Noted(Emit(p, type, time, None))
  BY <1>1, <1>2, AppendEvent
<1> HIDE DEF Noted
<1>3. Tightens(p, p) /\ p.spec = p.spec
  BY <1>1 DEF Tightens
<1>4. LET q == RequestClose(p).position
      IN  Good(q) /\ q.spec = p.spec /\ Tightens(p, q)
  <2> DEFINE noted == Emit(p, "CLOSE_REQUESTED", p.lastBar, None)
             q == [noted EXCEPT !.closePending = TRUE]
  <2>1. RequestClose(p).position = p
        \/ (p.state \in Exposed /\ RequestClose(p).position = q)
    BY DEF RequestClose, Result
  <2>2. Noted(noted)
    BY <1>1, <1>2, <1>note
  <2> HIDE DEF noted
  <2>3. /\ q \in Builders /\ q.spec = p.spec /\ q.state = p.state /\ q.stop = p.stop
        /\ q.remaining = p.remaining /\ q.filled = p.filled /\ q.entry = p.entry
        /\ q.error = p.error /\ q.mark = p.mark
    BY <2>2 DEF Noted, Builders
  <2> HIDE DEF q
  <2>4. p.state \in Exposed => Good(q) /\ Tightens(p, q)
    BY <1>1, <2>3 DEF Good, PaperPositions, Units, Origin, Tightens
  <2> QED
    BY <1>3, <2>1, <2>3, <2>4
<1>5. LET q == MoveStopToBreakeven(p).position
      IN  Good(q) /\ q.spec = p.spec /\ Tightens(p, q)
  <2> DEFINE noted == Emit(p, "STOP_MOVED_TO_BREAKEVEN", p.lastBar, None)
             q == [noted EXCEPT !.stop = p.entry]
  <2>1. MoveStopToBreakeven(p).position = p
        \/ /\ p.entry # None /\ p.stop # p.entry
           /\ MoveStopToBreakeven(p).position = q
    BY DEF MoveStopToBreakeven, Result
  <2>2. Noted(noted)
    BY <1>1, <1>2, <1>note
  <2> HIDE DEF noted
  <2>3. ASSUME p.entry # None
        PROVE  /\ q \in Builders /\ q.spec = p.spec /\ q.state = p.state
               /\ q.stop = p.entry /\ q.closePending = p.closePending
               /\ q.remaining = p.remaining /\ q.filled = p.filled /\ q.entry = p.entry
               /\ q.error = p.error /\ q.mark = p.mark
    BY <1>1, <2>2, <2>3 DEF Noted, Builders
  <2> HIDE DEF q
  <2>4. ASSUME p.entry # None, p.stop # p.entry
        PROVE  Good(q) /\ Tightens(p, q)
    BY <1>1, <2>3, <2>4 DEF Good, PaperPositions, Units, Origin, Tightens
  <2> QED
    BY <1>3, <2>1, <2>3, <2>4
<1>6. LET q == Cancel(p).position
      IN  Good(q) /\ q.spec = p.spec /\ Tightens(p, q)
  <2> DEFINE noted == Emit(p, "POSITION_CANCELLED", None, None)
             q == [noted EXCEPT !.state = "CANCELLED"]
  <2>1. Cancel(p).position = p
        \/ (p.state = "PENDING_ENTRY" /\ Cancel(p).position = q)
    BY DEF Cancel, Result
  <2>2. Noted(noted)
    BY <1>1, <1>2, <1>note
  <2> HIDE DEF noted
  <2>3. /\ q \in Builders /\ q.spec = p.spec /\ q.state = "CANCELLED" /\ q.stop = p.stop
        /\ q.remaining = p.remaining /\ q.filled = p.filled /\ q.entry = p.entry
        /\ q.error = p.error /\ q.closePending = p.closePending
    BY <2>2 DEF Noted, Builders, PositionStates
  <2> HIDE DEF q
  <2>4. p.state = "PENDING_ENTRY" => Good(q) /\ Tightens(p, q)
    BY <1>1, <2>3 DEF Good, PaperPositions, Units, Origin, Tightens, Exposed
  <2> QED
    BY <1>3, <2>1, <2>3, <2>4
<1> QED
  BY <1>4, <1>5, <1>6

\* apply_observation: refused, repeated, or a whole bar without an error.
LEMMA ObservationKeepsGood ==
    ASSUME NEW p, Good(p), NEW bar \in Bar
    PROVE  LET q == ApplyObservation(p, bar).position
           IN  Good(q) /\ q.spec = p.spec /\ Tightens(p, q)
<1> DEFINE q == ApplyObservation(p, bar).position
           after == Process(p, bar)
<1>1. p.stop \in Int
  BY DEF Good, PaperPositions, Builders
<1>2. q = p \/ (q = after /\ p.state \notin Terminal /\ after.error = OK)
  BY DEF ApplyObservation, AgainstRecord, Unraised, Result, OK
<1>3. ASSUME p.state \notin Terminal
      PROVE  /\ after \in Builders /\ Units(after) /\ Origin(after)
             /\ after.spec = p.spec /\ after.stop = p.stop
  BY <1>3, ProcessKeepsUnits
<1> HIDE DEF q, after
<1>4. Tightens(p, p)
  BY <1>1 DEF Tightens
<1>5. ASSUME p.state \notin Terminal, after.error = OK
      PROVE  Good(after) /\ after.spec = p.spec /\ Tightens(p, after)
  BY <1>1, <1>3, <1>5 DEF Good, PaperPositions, Tightens
<1> QED
  BY <1>2, <1>4, <1>5 DEF q

-----------------------------------------------------------------------------
(***************************************************************************)
(* Ledgers and replay.                                                     *)
(***************************************************************************)

\* Induction over the naturals for a set, which first-order provers can apply.
LEMMA SetInduction ==
    ASSUME NEW S, 0 \in S, \A n \in Nat : n \in S => n + 1 \in S
    PROVE  \A n \in Nat : n \in S
<1> DEFINE T == Nat \ S
<1> SUFFICES ASSUME T # {} PROVE FALSE
  OBVIOUS
<1>1. T \subseteq Nat
  OBVIOUS
<1>2. PICK m \in T : \A y \in T : <<y, m>> \notin OpToRel(<, Nat)
  <2> HIDE DEF T
  <2> QED BY <1>1, NatLessThanWellFounded, WFMin
<1>3. m - 1 \notin T
  <2>1. m \in Nat /\ m # 0 /\ m - 1 \in Nat /\ m - 1 < m
    OBVIOUS
  <2>2. <<m - 1, m>> \in OpToRel(<, Nat)
    BY <2>1 DEF OpToRel
  <2> HIDE DEF T
  <2> QED BY <1>2, <2>2
<1> QED
  BY <1>3

\* Where every replay starts.
Reopened(spec, approval) == OpenPosition(spec, approval, TRUE, TRUE)

\* f records the replay of the first n events, from the opening on.
IsReplay(f, spec, approval, events, n) ==
    /\ f = [i \in 0..n |-> f[i]]
    /\ f[0] = Reopened(spec, approval)
    /\ \A i \in 1..n : f[i] = ReplayEvent(f[i - 1], events[i])

\* The recursive function of Replay is defined, for ledgers of any length.
LEMMA ReplayExists ==
    ASSUME NEW spec, NEW approval, NEW events
    PROVE  \A n \in Nat : \E f : IsReplay(f, spec, approval, events, n)
<1> DEFINE S == {n \in Nat : \E f : IsReplay(f, spec, approval, events, n)}
<1>1. 0 \in S
  <2> DEFINE f == [i \in 0..0 |-> Reopened(spec, approval)]
  <2>1. IsReplay(f, spec, approval, events, 0)
    BY DEF IsReplay
  <2> QED BY <2>1
<1>2. ASSUME NEW n \in Nat, n \in S
      PROVE  n + 1 \in S
  <2>1. PICK f : IsReplay(f, spec, approval, events, n)
    BY <1>2
  <2> DEFINE g == [i \in 0..(n + 1) |-> IF i = n + 1 THEN ReplayEvent(f[n], events[n + 1])
                                        ELSE f[i]]
  <2>2. /\ f[0] = Reopened(spec, approval)
        /\ \A i \in 1..n : f[i] = ReplayEvent(f[i - 1], events[i])
    BY <2>1, Zenon DEF IsReplay
  <2>3. /\ g[n + 1] = ReplayEvent(f[n], events[n + 1])
        /\ \A i \in 0..n : g[i] = f[i]
    OBVIOUS
  <2>4. g = [i \in 0..(n + 1) |-> g[i]]
    OBVIOUS
  <2> HIDE DEF g
  <2>5. g[0] = Reopened(spec, approval)
    BY <2>2, <2>3
  <2>6. ASSUME NEW i \in 1..(n + 1)
        PROVE  g[i] = ReplayEvent(g[i - 1], events[i])
    <3>1. i - 1 \in 0..n /\ (i = n + 1 \/ i \in 1..n)
      OBVIOUS
    <3>2. g[i - 1] = f[i - 1]
      BY <2>3, <3>1
    <3>3. CASE i = n + 1
      BY <2>3, <3>2, <3>3
    <3>4. CASE i \in 1..n
      <4>1. f[i] = ReplayEvent(f[i - 1], events[i]) /\ i \in 0..n
        BY <2>2, <3>4
      <4> QED BY <2>3, <3>2, <4>1
    <3> QED BY <3>1, <3>3, <3>4
  <2>7. IsReplay(g, spec, approval, events, n + 1)
    BY <2>4, <2>5, <2>6, Zenon DEF IsReplay
  <2> QED BY <2>7
<1> HIDE DEF S
<1>3. \A n \in Nat : n \in S
  BY <1>1, <1>2, SetInduction
<1> QED
  BY <1>3 DEF S

\* What Replay returns is the last entry of that record.
LEMMA ReplayFunction ==
    ASSUME NEW spec, NEW approval, NEW events, Len(events) \in Nat
    PROVE  \E f : /\ IsReplay(f, spec, approval, events, Len(events))
                  /\ Replay(spec, approval, events) = f[Len(events)]
<1> DEFINE Body(f) == [i \in 0..Len(events) |->
                          IF i = 0 THEN Reopened(spec, approval)
                          ELSE ReplayEvent(f[i - 1], events[i])]
           a == CHOOSE f : f = Body(f)
<1>1. PICK f : IsReplay(f, spec, approval, events, Len(events))
  BY ReplayExists
<1>2. f = Body(f)
  <2>1. \A i \in 0..Len(events) : f[i] = Body(f)[i]
    BY <1>1 DEF IsReplay
  <2>2. f = [i \in 0..Len(events) |-> f[i]]
    BY <1>1 DEF IsReplay
  <2>3. Body(f) = [i \in 0..Len(events) |-> Body(f)[i]]
    OBVIOUS
  <2> HIDE DEF Body
  <2> QED BY <2>1, <2>2, <2>3, Zenon
<1>3. a = Body(a)
  <2> HIDE DEF Body
  <2> QED BY <1>2
<1>4. IsReplay(a, spec, approval, events, Len(events))
  <2> HIDE DEF a
  <2>1. a = [i \in 0..Len(events) |-> a[i]]
    <3>1. Body(a) = [i \in 0..Len(events) |-> Body(a)[i]]
      OBVIOUS
    <3> HIDE DEF Body
    <3> QED BY <1>3, <3>1
  <2>2. \A i \in 0..Len(events) : a[i] = Body(a)[i]
    <3> HIDE DEF Body
    <3> QED BY <1>3
  <2> QED BY <2>1, <2>2 DEF IsReplay
<1>5. Replay(spec, approval, events) = a[Len(events)]
  BY DEF Replay, Reopened
<1> QED
  BY <1>4, <1>5

\* Replays of ledgers that agree on their first n events agree so far.
LEMMA ReplayAgrees ==
    ASSUME NEW spec, NEW approval, NEW s, NEW t, NEW n \in Nat, NEW m \in Nat, n <= m,
           \A i \in 1..n : s[i] = t[i],
           NEW f, IsReplay(f, spec, approval, s, n),
           NEW g, IsReplay(g, spec, approval, t, m)
    PROVE  f[n] = g[n]
<1> DEFINE S == {i \in Nat : i <= n => f[i] = g[i]}
<1>1. /\ f[0] = Reopened(spec, approval)
      /\ \A i \in 1..n : f[i] = ReplayEvent(f[i - 1], s[i])
  BY Zenon DEF IsReplay
<1>2. /\ g[0] = Reopened(spec, approval)
      /\ \A i \in 1..m : g[i] = ReplayEvent(g[i - 1], t[i])
  BY Zenon DEF IsReplay
<1>3. 0 \in S
  BY <1>1, <1>2
<1>4. ASSUME NEW i \in Nat, i \in S
      PROVE  i + 1 \in S
  <2> SUFFICES ASSUME i + 1 <= n PROVE f[i + 1] = g[i + 1]
    OBVIOUS
  <2>1. i + 1 \in 1..n /\ i + 1 \in 1..m /\ (i + 1) - 1 = i
    OBVIOUS
  <2>2. f[i + 1] = ReplayEvent(f[i], s[i + 1]) /\ g[i + 1] = ReplayEvent(g[i], t[i + 1])
    BY <1>1, <1>2, <2>1
  <2> QED BY <1>4, <2>1, <2>2
<1> HIDE DEF S
<1>5. n \in S
  BY <1>3, <1>4, SetInduction
<1> QED BY <1>5 DEF S

\* t continues s.
Continues(s, t) ==
    /\ Len(s) \in Nat /\ Len(t) \in Nat /\ Len(s) <= Len(t)
    /\ \A i \in 1..Len(s) : s[i] = t[i]

\* A ledger that goes on with derived events replays to the same position.
LEMMA ReplayDerived ==
    ASSUME NEW spec, NEW approval, NEW s, NEW t, Continues(s, t),
           \A i \in (Len(s) + 1)..Len(t) : t[i].type \notin Recorded
    PROVE  Replay(spec, approval, t) = Replay(spec, approval, s)
<1>1. PICK f : /\ IsReplay(f, spec, approval, s, Len(s))
               /\ Replay(spec, approval, s) = f[Len(s)]
  BY ReplayFunction DEF Continues
<1>2. PICK g : /\ IsReplay(g, spec, approval, t, Len(t))
               /\ Replay(spec, approval, t) = g[Len(t)]
  BY ReplayFunction DEF Continues
<1>3. f[Len(s)] = g[Len(s)]
  BY <1>1, <1>2, ReplayAgrees DEF Continues
<1>4. \A i \in 1..Len(t) : g[i] = ReplayEvent(g[i - 1], t[i])
  BY <1>2, Zenon DEF IsReplay
<1> DEFINE S == {k \in Nat : Len(s) + k <= Len(t) => g[Len(s) + k] = g[Len(s)]}
<1>5. 0 \in S
  BY DEF Continues
<1>6. ASSUME NEW k \in Nat, k \in S
      PROVE  k + 1 \in S
  <2> DEFINE i == Len(s) + k + 1
  <2> SUFFICES ASSUME i <= Len(t) PROVE g[i] = g[Len(s)]
    BY DEF Continues
  <2>1. i \in 1..Len(t) /\ i \in (Len(s) + 1)..Len(t) /\ i - 1 = Len(s) + k /\ Len(s) + k <= Len(t)
    BY DEF Continues
  <2>2. g[i] = ReplayEvent(g[i - 1], t[i]) /\ t[i].type \notin Recorded
    BY <1>4, <2>1
  <2>3. g[i - 1] = g[Len(s)]
    BY <1>6, <2>1
  <2> HIDE DEF i
  <2> QED BY <2>2, <2>3 DEF ReplayEvent
<1> HIDE DEF S
<1>7. Len(t) - Len(s) \in Nat /\ Len(s) + (Len(t) - Len(s)) = Len(t)
  BY DEF Continues
<1>8. Len(t) - Len(s) \in S
  BY <1>5, <1>6, <1>7, SetInduction
<1>9. g[Len(t)] = g[Len(s)]
  BY <1>7, <1>8 DEF S, Continues
<1> QED BY <1>1, <1>2, <1>3, <1>9

\* One more event is one more step.
LEMMA ReplayOneMore ==
    ASSUME NEW spec, NEW approval, NEW s, NEW t, Continues(s, t), Len(t) = Len(s) + 1
    PROVE  Replay(spec, approval, t)
             = ReplayEvent(Replay(spec, approval, s), t[Len(t)])
<1>1. PICK f : /\ IsReplay(f, spec, approval, s, Len(s))
               /\ Replay(spec, approval, s) = f[Len(s)]
  BY ReplayFunction DEF Continues
<1>2. PICK g : /\ IsReplay(g, spec, approval, t, Len(t))
               /\ Replay(spec, approval, t) = g[Len(t)]
  BY ReplayFunction DEF Continues
<1>3. f[Len(s)] = g[Len(s)]
  BY <1>1, <1>2, ReplayAgrees DEF Continues
<1>4. \A i \in 1..Len(t) : g[i] = ReplayEvent(g[i - 1], t[i])
  BY <1>2, Zenon DEF IsReplay
<1>5. Len(t) \in 1..Len(t) /\ Len(t) - 1 = Len(s)
  BY DEF Continues
<1> QED BY <1>1, <1>2, <1>3, <1>4, <1>5

-----------------------------------------------------------------------------
(***************************************************************************)
(* What the engine's steps do to the ledger.                               *)
(***************************************************************************)
Fields == {"spec", "state", "remaining", "stop", "filled", "entry", "gross", "fees",
           "lastBar", "mark", "closePending", "error", "events"}

IsLedger(s) == \E S : s \in Seq(S)

\* A position as far as its ledger goes.
Shaped(p) == DOMAIN p = Fields /\ IsLedger(p.events)

\* q is p with events of time t and types T added to its ledger.
Extends(p, q, t, T) ==
    /\ Shaped(q) /\ q.spec = p.spec
    /\ Continues(p.events, q.events)
    /\ \A i \in (Len(p.events) + 1)..Len(q.events) :
          q.events[i].type \in T /\ q.events[i].time = t

\* A ledger with one more event continues it.
LEMMA AppendToLedger ==
    ASSUME NEW s, IsLedger(s), NEW e
    PROVE  /\ IsLedger(Append(s, e))
           /\ Continues(s, Append(s, e))
           /\ Len(Append(s, e)) = Len(s) + 1
           /\ Append(s, e)[Len(s) + 1] = e
<1>1. PICK S : s \in Seq(S)
  BY DEF IsLedger
<1> DEFINE T == S \cup {e}
<1>2. s \in Seq(T) /\ e \in T
  BY <1>1
<1>3. Append(s, e) \in Seq(T)
  BY <1>2
<1> QED
  BY <1>2, <1>3 DEF IsLedger, Continues

\* A position adds nothing to itself.
LEMMA ExtendsSelf ==
    ASSUME NEW T, NEW p, Shaped(p), NEW t
    PROVE  Extends(p, p, t, T)
<1>1. Len(p.events) \in Nat
  BY DEF Shaped, IsLedger
<1> QED BY <1>1 DEF Extends, Continues

\* A step that leaves the ledger alone, or adds one derived event to it.
LEMMA ExtendsMore ==
    ASSUME NEW T, NEW p, NEW q, NEW t, Extends(p, q, t, T),
           NEW r, DOMAIN r = Fields, r.spec = q.spec,
           \/ r.events = q.events
           \/ \E type, data : /\ type \in T
                              /\ r.events = Append(q.events, Event(type, t, data))
    PROVE  Extends(p, r, t, T)
<1>1. CASE r.events = q.events
  BY <1>1 DEF Extends, Shaped
<1>2. ASSUME NEW type, NEW data, type \in T,
             r.events = Append(q.events, Event(type, t, data))
      PROVE  Extends(p, r, t, T)
  <2> DEFINE e == Event(type, t, data)
  <2>1. e.type \in T /\ e.time = t
    BY <1>2 DEF Event
  <2>2. r.events = Append(q.events, e)
    BY <1>2
  <2> HIDE DEF e
  <2>3. /\ IsLedger(r.events) /\ Continues(q.events, r.events)
        /\ Len(r.events) = Len(q.events) + 1 /\ r.events[Len(q.events) + 1] = e
    BY <2>2, AppendToLedger DEF Extends, Shaped
  <2>4. /\ Continues(p.events, q.events)
        /\ \A i \in (Len(p.events) + 1)..Len(q.events) :
             q.events[i].type \in T /\ q.events[i].time = t
    BY DEF Extends
  <2>5. Continues(p.events, r.events)
    BY <2>3, <2>4 DEF Continues
  <2>6. ASSUME NEW i \in (Len(p.events) + 1)..Len(r.events)
        PROVE  r.events[i].type \in T /\ r.events[i].time = t
    <3>1. CASE i = Len(q.events) + 1
      BY <2>1, <2>3, <3>1
    <3>2. CASE i # Len(q.events) + 1
      <4>1. i \in (Len(p.events) + 1)..Len(q.events) /\ i \in 1..Len(q.events)
        BY <2>3, <2>4, <3>2 DEF Continues
      <4>2. r.events[i] = q.events[i]
        BY <2>3, <4>1 DEF Continues
      <4> QED BY <2>4, <4>1, <4>2
    <3> QED BY <3>1, <3>2
  <2> QED
    BY <2>3, <2>5, <2>6 DEF Extends, Shaped
<1> QED BY <1>1, <1>2

\* _exit adds its fill.
LEMMA ExitExtends ==
    ASSUME NEW T, NEW p0, NEW p, NEW bar, Extends(p0, p, bar.time, T),
           NEW type, type \in T, NEW reference, NEW fill, NEW quantity
    PROVE  Extends(p0, Exit(p, type, bar, reference, fill, quantity), bar.time, T)
<1> DEFINE q == Exit(p, type, bar, reference, fill, quantity)
           data == [reference |-> reference, price |-> fill, quantity |-> quantity,
                    gross |-> Gross(p, fill, quantity)]
<1>1. DOMAIN p = Fields
  BY DEF Extends, Shaped
<1>2. /\ DOMAIN q = Fields /\ q.spec = p.spec
      /\ q.events = Append(p.events, Event(type, bar.time, data))
  BY <1>1 DEF Exit, Fields
<1> HIDE DEF q, data
<1>3. Extends(p0, q, bar.time, T)
  BY <1>2, ExtendsMore
<1> QED BY <1>3 DEF q

\* A field other than the specification and the ledger may change freely.
LEMMA ExtendsUpdated ==
    ASSUME NEW T, NEW p0, NEW p, NEW t, Extends(p0, p, t, T),
           NEW q, DOMAIN q = DOMAIN p, q.spec = p.spec, q.events = p.events
    PROVE  Extends(p0, q, t, T)
<1>1. DOMAIN q = Fields
  BY DEF Extends, Shaped
<1> QED BY <1>1, ExtendsMore

\* _emit of a derived event of the bar.
LEMMA EmitExtends ==
    ASSUME NEW T, NEW p0, NEW p, NEW t, Extends(p0, p, t, T), NEW type, type \in T, NEW data
    PROVE  Extends(p0, Emit(p, type, t, data), t, T)
<1> DEFINE q == Emit(p, type, t, data)
<1>1. DOMAIN p = Fields
  BY DEF Extends, Shaped
<1>2. DOMAIN q = Fields /\ q.spec = p.spec /\ q.events = Append(p.events, Event(type, t, data))
  BY <1>1 DEF Emit, Fields
<1> HIDE DEF q
<1>3. Extends(p0, q, t, T)
  BY <1>2, ExtendsMore
<1> QED BY <1>3 DEF q

\* Every way out of a position adds one fill to the ledger.
LEMMA StopExtends ==
    ASSUME NEW T, "STOP_FILLED" \in T,
           NEW p0, NEW p, NEW bar, Extends(p0, p, bar.time, T), NEW reference
    PROVE  Extends(p0, ExitStop(p, bar, reference), bar.time, T)
<1> QED BY ExitExtends DEF ExitStop

\* A close that was asked for adds its fill.
LEMMA ManualExitExtends ==
    ASSUME NEW T, "MANUAL_EXIT_FILLED" \in T,
           NEW p0, NEW p, NEW bar, Extends(p0, p, bar.time, T)
    PROVE  Extends(p0, ManualExit(p, bar), bar.time, T)
<1> DEFINE fill == AdversePrice(bar.open, p.spec.slippage, p.spec.direction, FALSE)
           q == Exit(p, "MANUAL_EXIT_FILLED", bar, bar.open, fill, p.remaining)
           r == [q EXCEPT !.closePending = FALSE]
<1>2. Extends(p0, q, bar.time, T)
  <2> HIDE DEF fill
  <2> QED BY ExitExtends
<1>3. ManualExit(p, bar) = r
  BY Zenon DEF ManualExit
<1> HIDE DEF q
<1>4. DOMAIN q = Fields
  BY <1>2 DEF Extends, Shaped
<1>5. DOMAIN r = DOMAIN q /\ r.spec = q.spec /\ r.events = q.events
  BY <1>4 DEF Fields
<1> HIDE DEF r
<1>6. Extends(p0, r, bar.time, T)
  BY <1>2, <1>5, ExtendsUpdated
<1> QED BY <1>3, <1>6

\* A target adds its fill.
LEMMA TargetExtends ==
    ASSUME NEW T, "TARGET_FILLED" \in T,
           NEW p0, NEW p, NEW bar, Extends(p0, p, bar.time, T), NEW i, NEW reference
    PROVE  Extends(p0, ExitTarget(p, bar, i, reference), bar.time, T)
<1> DEFINE q == Exit(p, "TARGET_FILLED", bar, reference, p.spec.targets[i].price,
                     p.spec.targets[i].quantity)
           r == ExitTarget(p, bar, i, reference)
<1>2. Extends(p0, q, bar.time, T)
  BY ExitExtends
<1>3. r = [q EXCEPT !.filled = @ \cup {i},
                    !.state = IF q.remaining > 0 /\ @ = "OPEN" THEN "PARTIALLY_CLOSED" ELSE @]
  BY DEF ExitTarget
<1> HIDE DEF q
<1>4. DOMAIN q = Fields
  BY <1>2 DEF Extends, Shaped
<1>5. DOMAIN r = DOMAIN q /\ r.spec = q.spec /\ r.events = q.events
  BY <1>3, <1>4 DEF Fields
<1> HIDE DEF r
<1>6. Extends(p0, r, bar.time, T)
  BY <1>2, <1>5, ExtendsUpdated
<1> QED BY <1>6 DEF r

\* The loops over the targets, at the open and inside the bar.
LEMMA TargetsExtend ==
    ASSUME NEW T, "TARGET_FILLED" \in T, NEW p0, NEW bar
    PROVE  /\ \A p : Extends(p0, p, bar.time, T) =>
                 Extends(p0, TargetsAtOpen(p, bar), bar.time, T)
           /\ \A p, touched : Extends(p0, p, bar.time, T) =>
                 Extends(p0, TargetsInside(p, bar, touched), bar.time, T)
<1>1. ASSUME NEW p, Extends(p0, p, bar.time, T), NEW i
      PROVE  Extends(p0, TargetAtOpen(p, bar, i), bar.time, T)
  BY <1>1, TargetExtends DEF TargetAtOpen
<1>2. ASSUME NEW p, Extends(p0, p, bar.time, T), NEW touched, NEW i
      PROVE  Extends(p0, TargetInside(p, bar, touched, i), bar.time, T)
  BY <1>2, TargetExtends DEF TargetInside
<1>3. ASSUME NEW p, Extends(p0, p, bar.time, T)
      PROVE  Extends(p0, TargetsAtOpen(p, bar), bar.time, T)
  BY <1>1, <1>3 DEF TargetsAtOpen
<1>4. ASSUME NEW p, Extends(p0, p, bar.time, T), NEW touched
      PROVE  Extends(p0, TargetsInside(p, bar, touched), bar.time, T)
  BY <1>2, <1>4 DEF TargetsInside
<1> QED BY <1>3, <1>4

\* at_open adds fills of the stop or of targets.
LEMMA AtOpenExtends ==
    ASSUME NEW T, "TARGET_FILLED" \in T, "STOP_FILLED" \in T,
           NEW p0, NEW p, NEW bar, Extends(p0, p, bar.time, T)
    PROVE  Extends(p0, AtOpen(p, bar), bar.time, T)
BY StopExtends, TargetsExtend DEF AtOpen

\* intrabar adds fills, and the note of an ambiguous bar.
LEMMA IntrabarExtends ==
    ASSUME NEW T, "TARGET_FILLED" \in T, "STOP_FILLED" \in T, "SAME_BAR_AMBIGUITY" \in T,
           NEW p0, NEW p, NEW bar, Extends(p0, p, bar.time, T)
    PROVE  Extends(p0, Intrabar(p, bar), bar.time, T)
<1> DEFINE noted == Emit(p, "SAME_BAR_AMBIGUITY", bar.time, None)
           halted == [noted EXCEPT !.state = "AMBIGUOUS_HALTED"]
<1>1. Extends(p0, noted, bar.time, T)
  BY EmitExtends
<1>2. Extends(p0, halted, bar.time, T)
  <2> HIDE DEF noted
  <2>1. DOMAIN noted = Fields
    BY <1>1 DEF Extends, Shaped
  <2>2. DOMAIN halted = DOMAIN noted /\ halted.spec = noted.spec /\ halted.events = noted.events
    BY <2>1 DEF Fields
  <2> HIDE DEF halted
  <2> QED BY <1>1, <2>2, ExtendsUpdated
<1>3. Extends(p0, ExitStop(noted, bar, p.stop), bar.time, T)
  <2> HIDE DEF noted
  <2> QED BY <1>1, StopExtends
<1>4. /\ Extends(p0, ExitStop(p, bar, p.stop), bar.time, T)
      /\ Extends(p0, TargetsInside(p, bar, Touched(p, bar)), bar.time, T)
  BY StopExtends, TargetsExtend
<1>5. Intrabar(p, bar) \in {halted, ExitStop(noted, bar, p.stop), ExitStop(p, bar, p.stop),
                            TargetsInside(p, bar, Touched(p, bar))}
  BY Zenon DEF Intrabar
<1> HIDE DEF noted, halted
<1> QED BY <1>2, <1>3, <1>4, <1>5

\* enter adds the entry or its rejection.
LEMMA EnterExtends ==
    ASSUME NEW T, "ENTRY_REJECTED" \in T, "ENTRY_FILLED" \in T,
           NEW p0, NEW p, NEW bar, Extends(p0, p, bar.time, T)
    PROVE  Extends(p0, Enter(p, bar), bar.time, T)
<1> DEFINE fill == AdversePrice(bar.open, p.spec.slippage, p.spec.direction, TRUE)
           noted == Emit(p, "ENTRY_REJECTED", bar.time, None)
           rejected == [noted EXCEPT !.state = "REJECTED"]
           data == [reference |-> bar.open, price |-> fill,
                    quantity |-> p.spec.quantity, gross |-> 0]
           entered == [p EXCEPT !.error = IF fill <= 0 THEN "FILL_NOT_POSITIVE" ELSE @,
                                !.fees = Charged(p, p.spec.quantity),
                                !.entry = fill,
                                !.remaining = p.spec.quantity,
                                !.state = "OPEN",
                                !.events = Append(@, Event("ENTRY_FILLED", bar.time, data))]
<1>2. Enter(p, bar) = rejected \/ Enter(p, bar) = entered
  BY Zenon DEF Enter
<1>3. Extends(p0, noted, bar.time, T)
  BY EmitExtends
<1>4. Extends(p0, rejected, bar.time, T)
  <2> HIDE DEF noted
  <2>1. DOMAIN noted = Fields
    BY <1>3 DEF Extends, Shaped
  <2>2. /\ DOMAIN rejected = DOMAIN noted /\ rejected.spec = noted.spec
        /\ rejected.events = noted.events
    BY <2>1 DEF Fields
  <2> HIDE DEF rejected
  <2> QED BY <1>3, <2>2, ExtendsUpdated
<1>5. Extends(p0, entered, bar.time, T)
  <2> HIDE DEF fill, data
  <2>1. DOMAIN p = Fields
    BY DEF Extends, Shaped
  <2>2. /\ DOMAIN entered = Fields /\ entered.spec = p.spec
        /\ entered.events = Append(p.events, Event("ENTRY_FILLED", bar.time, data))
    BY <2>1 DEF Fields
  <2> HIDE DEF entered
  <2> QED BY <2>2, ExtendsMore
<1> HIDE DEF rejected, entered
<1> QED BY <1>2, <1>4, <1>5

\* finish adds the close of a position with nothing left.
LEMMA FinishExtends ==
    ASSUME NEW T, "POSITION_CLOSED" \in T,
           NEW p0, NEW p, NEW bar, Extends(p0, p, bar.time, T)
    PROVE  Extends(p0, Finish(p, bar), bar.time, T)
<1> DEFINE data == [realized |-> p.gross, charged |-> p.fees]
           noted == Emit(p, "POSITION_CLOSED", bar.time, data)
           closed == [noted EXCEPT !.state = "CLOSED"]
<1>2. Finish(p, bar) = closed \/ Finish(p, bar) = p
  BY Zenon DEF Finish
<1>3. Extends(p0, noted, bar.time, T)
  <2> HIDE DEF data
  <2> QED BY EmitExtends
<1>4. Extends(p0, closed, bar.time, T)
  <2> HIDE DEF noted
  <2>1. DOMAIN noted = Fields
    BY <1>3 DEF Extends, Shaped
  <2>2. DOMAIN closed = DOMAIN noted /\ closed.spec = noted.spec /\ closed.events = noted.events
    BY <2>1 DEF Fields
  <2> HIDE DEF closed
  <2> QED BY <1>3, <2>2, ExtendsUpdated
<1> HIDE DEF closed
<1> QED BY <1>2, <1>4

\* build adds nothing.
LEMMA BuildExtends ==
    ASSUME NEW T, NEW p0, NEW p, NEW bar, Extends(p0, p, bar.time, T)
    PROVE  Extends(p0, Build(p, bar), bar.time, T)
<1> DEFINE q == Build(p, bar)
<1>1. DOMAIN p = Fields
  BY DEF Extends, Shaped
<1>2. DOMAIN q = DOMAIN p /\ q.spec = p.spec /\ q.events = p.events
  BY <1>1 DEF Fields, Build
<1> HIDE DEF q
<1>3. Extends(p0, q, bar.time, T)
  BY <1>2, ExtendsUpdated
<1> QED BY <1>3 DEF q

\* The types of the events the engine derives from a bar.
Derived == {"ENTRY_FILLED", "ENTRY_REJECTED", "TARGET_FILLED", "STOP_FILLED",
            "SAME_BAR_AMBIGUITY", "MANUAL_EXIT_FILLED", "POSITION_CLOSED"}

\* A builder that has noted the bar only gains events the engine derives from it.
LEMMA ProcessFollows ==
    ASSUME NEW p0, NEW p, NEW bar, NEW T, Derived \subseteq T,
           Extends(p0, Emit(p, "OBSERVATION_APPLIED", bar.time, bar), bar.time, T)
    PROVE  /\ Extends(p0, Process(p, bar), bar.time, T)
           /\ Process(p, bar).lastBar = bar.time
<1> DEFINE noted == Emit(p, "OBSERVATION_APPLIED", bar.time, bar)
           read == IF noted.state = "PENDING_ENTRY" THEN AfterEntry(Enter(noted, bar), bar)
                   ELSE IF noted.closePending THEN ManualExit(noted, bar)
                   ELSE IF noted.state = "AMBIGUOUS_HALTED" THEN noted
                   ELSE AfterOpen(AtOpen(noted, bar), bar)
<1>1. /\ "ENTRY_FILLED" \in T /\ "ENTRY_REJECTED" \in T /\ "TARGET_FILLED" \in T
      /\ "STOP_FILLED" \in T /\ "SAME_BAR_AMBIGUITY" \in T
      /\ "MANUAL_EXIT_FILLED" \in T /\ "POSITION_CLOSED" \in T
  BY DEF Derived
<1>2. Process(p, bar) = Build(Finish(read, bar), bar)
  BY Zenon DEF Process
<1>3. Extends(p0, noted, bar.time, T)
  OBVIOUS
<1> HIDE DEF noted
<1>4. Extends(p0, read, bar.time, T)
  <2>1. Extends(p0, AfterEntry(Enter(noted, bar), bar), bar.time, T)
    BY <1>1, <1>3, EnterExtends, IntrabarExtends DEF AfterEntry
  <2>2. Extends(p0, ManualExit(noted, bar), bar.time, T)
    BY <1>1, <1>3, ManualExitExtends
  <2>3. Extends(p0, AfterOpen(AtOpen(noted, bar), bar), bar.time, T)
    BY <1>1, <1>3, AtOpenExtends, IntrabarExtends DEF AfterOpen
  <2> QED BY <1>3, <2>1, <2>2, <2>3, Zenon
<1> HIDE DEF read
<1> DEFINE done == Finish(read, bar)
<1>5. Extends(p0, done, bar.time, T)
  BY <1>1, <1>4, FinishExtends
<1> HIDE DEF done
<1>6. Extends(p0, Build(done, bar), bar.time, T)
  BY <1>5, BuildExtends
<1>7. Build(done, bar).lastBar = bar.time
  <2>1. DOMAIN done = Fields
    BY <1>5 DEF Extends, Shaped
  <2> QED BY <2>1 DEF Build, Fields
<1> QED BY <1>2, <1>6, <1>7 DEF done

\* Everything the engine adds after the bar it records is derived from it.
LEMMA ProcessExtends ==
    ASSUME NEW p, Shaped(p), NEW bar
    PROVE  LET noted == Emit(p, "OBSERVATION_APPLIED", bar.time, bar)
           IN  /\ Shaped(noted) /\ noted.spec = p.spec
               /\ noted.events = Append(p.events, Event("OBSERVATION_APPLIED", bar.time, bar))
               /\ Extends(noted, Process(p, bar), bar.time, Derived)
<1> DEFINE e == Event("OBSERVATION_APPLIED", bar.time, bar)
           noted == Emit(p, "OBSERVATION_APPLIED", bar.time, bar)
<1>1. DOMAIN noted = Fields /\ noted.spec = p.spec /\ noted.events = Append(p.events, e)
  BY DEF Shaped, Fields, Emit
<1>2. Shaped(noted)
  <2> HIDE DEF noted, e
  <2> QED BY <1>1, AppendToLedger DEF Shaped
<1>3. Extends(noted, noted, bar.time, Derived)
  <2> HIDE DEF noted
  <2> QED BY <1>2, ExtendsSelf
<1>4. Extends(noted, Process(p, bar), bar.time, Derived)
  BY <1>3, ProcessFollows
<1> QED BY <1>1, <1>2, <1>4

\* What a processed bar adds, the bar itself included, is dated by the bar.
Processed == Derived \cup {"OBSERVATION_APPLIED"}

\* A bar adds its own record and what the engine derives from it.
LEMMA ProcessAdds ==
    ASSUME NEW p, Shaped(p), NEW bar
    PROVE  /\ Extends(p, Process(p, bar), bar.time, Processed)
           /\ Process(p, bar).lastBar = bar.time
<1>1. "OBSERVATION_APPLIED" \in Processed /\ Derived \subseteq Processed
  BY DEF Processed
<1>2. Extends(p, Emit(p, "OBSERVATION_APPLIED", bar.time, bar), bar.time, Processed)
  BY <1>1, ExtendsSelf, EmitExtends
<1> QED BY <1>1, <1>2, ProcessFollows

\* A bar is refused or repeated, or it is later than every bar before it.
LEMMA ObservationCases ==
    ASSUME NEW p, NEW bar
    PROVE  \/ ApplyObservation(p, bar).position = p
           \/ /\ ApplyObservation(p, bar) = Result(OK, Process(p, bar))
              /\ ValidBar(bar) /\ p.state \notin Terminal /\ ~(bar.time < p.spec.decision)
              /\ p.lastBar # None => ~(bar.time <= p.lastBar)
              /\ Process(p, bar).error = OK
<1> DEFINE built == Process(p, bar)
<1>1. \/ ApplyObservation(p, bar).position = p
      \/ /\ ApplyObservation(p, bar) = Unraised(p, built)
         /\ ValidBar(bar) /\ p.state \notin Terminal /\ ~(bar.time < p.spec.decision)
         /\ p.lastBar # None => ~(bar.time <= p.lastBar)
  BY DEF ApplyObservation, AgainstRecord, Result
<1> HIDE DEF built
<1>2. \/ Unraised(p, built).position = p
      \/ Unraised(p, built) = Result(OK, built) /\ built.error = OK
  BY DEF Unraised, Result
<1> QED BY <1>1, <1>2 DEF built

CommandKinds == {"CLOSE", "BREAKEVEN", "CANCEL"}

\* q is p with one event of a command added and at most its state, its stop or
\* its pending close changed.
Told(p, q, type, t) ==
    /\ Shaped(q) /\ q.events = Append(p.events, Event(type, t, None))
    /\ q.spec = p.spec /\ q.lastBar = p.lastBar /\ q.remaining = p.remaining
    /\ q.gross = p.gross /\ q.fees = p.fees

\* A command changes nothing, or is recorded by one event of its own.
LEMMA CommandCases ==
    ASSUME NEW p, Shaped(p), NEW kind \in CommandKinds
    PROVE  LET q == ApplyCommand(p, kind).position
           IN  \/ q = p
               \/ /\ ApplyCommand(p, kind) = Result(OK, q)
                  /\ \/ /\ kind = "CLOSE" /\ Told(p, q, "CLOSE_REQUESTED", p.lastBar)
                        /\ p.state \in Exposed /\ q.state = p.state
                     \/ /\ kind = "BREAKEVEN"
                        /\ Told(p, q, "STOP_MOVED_TO_BREAKEVEN", p.lastBar)
                        /\ p.state \in {"OPEN", "PARTIALLY_CLOSED"} /\ q.state = p.state
                     \/ /\ kind = "CANCEL" /\ Told(p, q, "POSITION_CANCELLED", None)
                        /\ p.state = "PENDING_ENTRY" /\ q.state = "CANCELLED"
<1> DEFINE q == ApplyCommand(p, kind).position
<1>1. DOMAIN p = Fields /\ IsLedger(p.events)
  BY DEF Shaped
<1>2. ASSUME NEW e PROVE IsLedger(Append(p.events, e))
  BY <1>1, AppendToLedger
<1>3. CASE kind = "CLOSE"
  <2> DEFINE r == [Emit(p, "CLOSE_REQUESTED", p.lastBar, None) EXCEPT !.closePending = TRUE]
  <2>1. ApplyCommand(p, kind) = RequestClose(p)
    BY <1>3, Zenon DEF ApplyCommand
  <2>2. \/ RequestClose(p).position = p
        \/ p.state \in Exposed /\ RequestClose(p) = Result(OK, r) /\ q = r
    BY <2>1 DEF RequestClose, Result
  <2>3. DOMAIN r = Fields /\ r.events = Append(p.events, Event("CLOSE_REQUESTED", p.lastBar, None))
          /\ r.spec = p.spec /\ r.lastBar = p.lastBar /\ r.remaining = p.remaining
          /\ r.gross = p.gross /\ r.fees = p.fees /\ r.state = p.state
    BY <1>1 DEF Emit, Fields
  <2> HIDE DEF r
  <2>4. Told(p, r, "CLOSE_REQUESTED", p.lastBar)
    BY <1>2, <2>3 DEF Told, Shaped
  <2> QED BY <1>3, <2>1, <2>2, <2>3, <2>4
<1>4. CASE kind = "BREAKEVEN"
  <2> DEFINE r == [Emit(p, "STOP_MOVED_TO_BREAKEVEN", p.lastBar, None) EXCEPT !.stop = p.entry]
  <2>1. ApplyCommand(p, kind) = MoveStopToBreakeven(p)
    BY <1>4 DEF ApplyCommand
  <2>2. \/ MoveStopToBreakeven(p).position = p
        \/ /\ p.state \in {"OPEN", "PARTIALLY_CLOSED"}
           /\ MoveStopToBreakeven(p) = Result(OK, r) /\ q = r
    BY <2>1 DEF MoveStopToBreakeven, Result
  <2>3. DOMAIN r = Fields
          /\ r.events = Append(p.events, Event("STOP_MOVED_TO_BREAKEVEN", p.lastBar, None))
          /\ r.spec = p.spec /\ r.lastBar = p.lastBar /\ r.remaining = p.remaining
          /\ r.gross = p.gross /\ r.fees = p.fees /\ r.state = p.state
    BY <1>1 DEF Emit, Fields
  <2> HIDE DEF r
  <2>4. Told(p, r, "STOP_MOVED_TO_BREAKEVEN", p.lastBar)
    BY <1>2, <2>3 DEF Told, Shaped
  <2> QED BY <1>4, <2>1, <2>2, <2>3, <2>4
<1>5. CASE kind = "CANCEL"
  <2> DEFINE r == [Emit(p, "POSITION_CANCELLED", None, None) EXCEPT !.state = "CANCELLED"]
  <2>1. ApplyCommand(p, kind) = Cancel(p)
    BY <1>5 DEF ApplyCommand
  <2>2. \/ Cancel(p).position = p
        \/ p.state = "PENDING_ENTRY" /\ Cancel(p) = Result(OK, r) /\ q = r
    BY <2>1 DEF Cancel, Result
  <2>3. DOMAIN r = Fields /\ r.events = Append(p.events, Event("POSITION_CANCELLED", None, None))
          /\ r.spec = p.spec /\ r.lastBar = p.lastBar /\ r.remaining = p.remaining
          /\ r.gross = p.gross /\ r.fees = p.fees /\ r.state = "CANCELLED"
    BY <1>1 DEF Emit, Fields
  <2> HIDE DEF r
  <2>4. Told(p, r, "POSITION_CANCELLED", None)
    BY <1>2, <2>3 DEF Told, Shaped
  <2> QED BY <1>5, <2>1, <2>2, <2>3, <2>4
<1> QED BY <1>3, <1>4, <1>5 DEF CommandKinds

-----------------------------------------------------------------------------
(***************************************************************************)
(* Replay fidelity of one engine call.                                     *)
(***************************************************************************)

\* The ledger of p replays to p.
Reproduces(p, approval) ==
    Shaped(p) /\ Replay(p.spec, approval, p.events) = Result(OK, p)

\* q is p after a call the ledger records: the call's own event, then derived ones.
LEMMA RecordedReproduces ==
    ASSUME NEW p, NEW approval, Reproduces(p, approval),
           NEW e, e.type \in Recorded,
           NEW q, ApplyInput(p, InputOf(e)) = Result(OK, q),
           NEW noted, Shaped(noted), noted.spec = p.spec, noted.events = Append(p.events, e),
           NEW t, Extends(noted, q, t, Derived)
    PROVE  Reproduces(q, approval) /\ Continues(p.events, q.events)
              /\ Len(q.events) > Len(p.events)
<1>1. /\ Continues(p.events, noted.events) /\ Len(noted.events) = Len(p.events) + 1
      /\ noted.events[Len(noted.events)] = e
  BY AppendToLedger DEF Reproduces, Shaped
<1>2. Replay(p.spec, approval, noted.events)
        = ReplayEvent(Replay(p.spec, approval, p.events), e)
  <2> DEFINE spec == p.spec
             s == p.events
             t1 == noted.events
  <2>1. Continues(s, t1) /\ Len(t1) = Len(s) + 1 /\ t1[Len(t1)] = e
    BY <1>1
  <2> HIDE DEF spec, s, t1
  <2>2. Replay(spec, approval, t1) = ReplayEvent(Replay(spec, approval, s), t1[Len(t1)])
    BY <2>1, ReplayOneMore
  <2> QED BY <2>1, <2>2 DEF spec, s, t1
<1>3. ReplayEvent(Result(OK, p), e) = Result(OK, q)
  BY DEF ReplayEvent, Result
<1>4. Replay(p.spec, approval, q.events) = Replay(p.spec, approval, noted.events)
  <2> DEFINE spec == p.spec
             s == noted.events
             u == q.events
  <2>1. Continues(s, u) /\ \A i \in (Len(s) + 1)..Len(u) : u[i].type \notin Recorded
    BY DEF Extends, Derived, Recorded, InputEventTypes
  <2> HIDE DEF spec, s, u
  <2>2. Replay(spec, approval, u) = Replay(spec, approval, s)
    BY <2>1, ReplayDerived
  <2> QED BY <2>2 DEF spec, s, u
<1>5. q.spec = p.spec /\ Shaped(q) /\ Continues(noted.events, q.events)
  BY DEF Extends
<1>6. Continues(p.events, q.events) /\ Len(q.events) > Len(p.events)
  BY <1>1, <1>5 DEF Continues
<1> QED BY <1>2, <1>3, <1>4, <1>5, <1>6 DEF Reproduces

\* What open_position returns replays to itself, under any approval that allows it.
LEMMA OpenReproduces ==
    ASSUME NEW spec, NEW approval, NEW calculable, NEW onGrid, NEW p,
           OpenPosition(spec, approval, calculable, onGrid) = Result(OK, p),
           NEW stored \in Int, spec.quantity \in Int, spec.quantity <= stored
    PROVE  /\ Reproduces(p, stored) /\ p.spec = spec
           /\ p.events = <<Event("POSITION_CREATED", spec.decision, None)>>
<1> DEFINE created == [spec |-> spec, state |-> "PENDING_ENTRY", remaining |-> 0,
                       stop |-> spec.stop, filled |-> {}, entry |-> None,
                       gross |-> 0,
                       fees |-> IF spec.feePerUnit = None THEN None ELSE 0,
                       lastBar |-> None, mark |-> None, closePending |-> FALSE,
                       error |-> OK,
                       events |-> <<Event("POSITION_CREATED", spec.decision, None)>>]
           s == <<Event("POSITION_CREATED", spec.decision, None)>>
<1>1. p = created
  <2>1. OpenPosition(spec, approval, calculable, onGrid)
           \in {Result("PRODUCT_NOT_CALCULABLE", None), Result("RISK_NOT_ALLOWED", None),
               Result("QUANTITY_EXCEEDS_RISK", None), Result("LEVELS_NOT_EXECUTABLE", None),
               Result(OK, created)}
    BY Zenon DEF OpenPosition
  <2> HIDE DEF created
  <2> QED BY <2>1 DEF Result, OK
<1>2. Reopened(spec, stored) = Result(OK, created)
  <2>1. stored # None /\ ~(spec.quantity > stored) /\ spec.quantity <= stored
    BY PaperConstants
  <2> QED BY <2>1, Zenon DEF Reopened, OpenPosition
<1>3. /\ created.spec = spec /\ created.events = s /\ DOMAIN created = Fields
  BY DEF Fields
<1> HIDE DEF created
<1>4. Len(s) = 1 /\ s[1].type \notin Recorded /\ IsLedger(s)
  <2>1. s \in Seq({s[1]})
    OBVIOUS
  <2> QED BY <2>1 DEF Event, Recorded, InputEventTypes, IsLedger
<1> HIDE DEF s
<1>5. Replay(spec, stored, s) = Result(OK, created)
  <2>1. PICK f : /\ IsReplay(f, spec, stored, s, Len(s))
                 /\ Replay(spec, stored, s) = f[Len(s)]
    <3>1. Len(s) \in Nat
      BY <1>4
    <3> QED BY <3>1, ReplayFunction, Zenon
  <2>2. f[0] = Reopened(spec, stored) /\ \A i \in 1..Len(s) : f[i] = ReplayEvent(f[i - 1], s[i])
    BY <2>1, Zenon DEF IsReplay
  <2>3. f[1] = ReplayEvent(f[0], s[1])
    BY <1>4, <2>2
  <2> QED BY <1>2, <1>4, <2>1, <2>2, <2>3 DEF ReplayEvent
<1> QED
  BY <1>1, <1>3, <1>4, <1>5 DEF Reproduces, Shaped, s

\* An accepted bar is replayed to the position it led to; a repeat changes nothing.
LEMMA ObservationReproduces ==
    ASSUME NEW p, NEW approval, Reproduces(p, approval), NEW bar,
           NEW q, q = ApplyObservation(p, bar).position
    PROVE  Reproduces(q, approval) /\ q.spec = p.spec /\ Continues(p.events, q.events)
              /\ (q = p \/ Len(q.events) > Len(p.events))
<1> DEFINE built == Process(p, bar)
           e == Event("OBSERVATION_APPLIED", bar.time, bar)
           noted == Emit(p, "OBSERVATION_APPLIED", bar.time, bar)
<1>1. Shaped(p) /\ Continues(p.events, p.events)
  BY DEF Reproduces, Shaped, IsLedger, Continues
<1>2. q = p \/ (q = built /\ ApplyObservation(p, bar) = Result(OK, built))
  BY ObservationCases DEF Result
<1>3. CASE q = p
  BY <1>1, <1>3
<1>4. CASE q = built /\ ApplyObservation(p, bar) = Result(OK, built)
  <2>1. /\ Shaped(noted) /\ noted.spec = p.spec /\ noted.events = Append(p.events, e)
        /\ Extends(noted, built, bar.time, Derived)
    BY <1>1, ProcessExtends
  <2> HIDE DEF built, noted
  <2>2. e.type \in Recorded /\ InputOf(e) = BarInput(bar)
    BY DEF Event, Recorded, InputEventTypes, InputOf
  <2>3. ApplyInput(p, InputOf(e)) = Result(OK, built)
    BY <1>4, <2>2 DEF ApplyInput, BarInput
  <2> HIDE DEF e
  <2>4. Reproduces(built, approval) /\ Continues(p.events, built.events)
           /\ Len(built.events) > Len(p.events)
    BY <2>1, <2>2, <2>3, RecordedReproduces
  <2> QED BY <1>4, <2>1, <2>4 DEF Extends
<1> QED BY <1>2, <1>3, <1>4

\* A command the ledger records is replayed to the position it led to.
LEMMA CommandReproduces ==
    ASSUME NEW p, NEW approval, Reproduces(p, approval), NEW kind \in CommandKinds,
           NEW q, q = ApplyCommand(p, kind).position
    PROVE  Reproduces(q, approval) /\ q.spec = p.spec /\ Continues(p.events, q.events)
              /\ (q = p \/ Len(q.events) > Len(p.events))
<1>1. Shaped(p) /\ Continues(p.events, p.events)
  BY DEF Reproduces, Shaped, IsLedger, Continues
<1>2. ASSUME NEW type, NEW t, type \in Recorded,
             InputOf(Event(type, t, None)) = Command(kind),
             ApplyCommand(p, kind) = Result(OK, q), Told(p, q, type, t)
      PROVE  Reproduces(q, approval) /\ Continues(p.events, q.events)
                /\ Len(q.events) > Len(p.events) /\ q.spec = p.spec
  <2> DEFINE e == Event(type, t, None)
             input == InputOf(e)
  <2>1. e.type \in Recorded
    BY <1>2 DEF Event
  <2>2. /\ q.events = Append(p.events, e) /\ Shaped(q) /\ q.spec = p.spec
        /\ input = Command(kind)
    BY <1>2 DEF Told
  <2> HIDE DEF e, input
  <2>3. ApplyInput(p, input) = Result(OK, q)
    <3>1. input.kind = kind /\ kind # "BAR"
      BY <2>2 DEF Command, CommandKinds
    <3>2. ApplyCommand(p, kind) = Result(OK, q)
      BY <1>2
    <3> QED BY <3>1, <3>2 DEF ApplyInput
  <2>4. Extends(q, q, t, Derived)
    BY <2>2, ExtendsSelf
  <2> QED BY <2>1, <2>2, <2>3, <2>4, RecordedReproduces DEF input
<1>3. ASSUME NEW t
      PROVE  /\ InputOf(Event("CLOSE_REQUESTED", t, None)) = Command("CLOSE")
             /\ InputOf(Event("STOP_MOVED_TO_BREAKEVEN", t, None)) = Command("BREAKEVEN")
             /\ InputOf(Event("POSITION_CANCELLED", t, None)) = Command("CANCEL")
  BY DEF InputOf, Event
<1>4. {"CLOSE_REQUESTED", "STOP_MOVED_TO_BREAKEVEN", "POSITION_CANCELLED"} \subseteq Recorded
  BY DEF Recorded, InputEventTypes
<1>5. CASE q = p
  BY <1>1, <1>5
<1>6. CASE q # p
  BY <1>1, <1>2, <1>3, <1>4, <1>6, CommandCases
<1> QED BY <1>5, <1>6

\* A position that was opened is the one OpenPosition returns with OK.
LEMMA OpenedPosition ==
    ASSUME NEW spec, NEW approval, NEW calculable, NEW onGrid, NEW p,
           p = OpenPosition(spec, approval, calculable, onGrid).position, p # None
    PROVE  OpenPosition(spec, approval, calculable, onGrid) = Result(OK, p)
BY DEF OpenPosition, Result

-----------------------------------------------------------------------------
\* The latest market time a position knows of: its last bar, or its decision.
Known(p) == IF p.lastBar = None THEN p.spec.decision ELSE p.lastBar

\* A well-formed position has the fields and the ledger of one.
LEMMA GoodShape ==
    ASSUME NEW p, Good(p)
    PROVE  /\ Shaped(p) /\ p.lastBar \in Int \cup {None} /\ p.spec.decision \in Int
           /\ Known(p) \in Int /\ p.spec.quantity \in Int
<1>1. p \in Builders
  BY DEF Good, PaperPositions
<1>2. DOMAIN p = Fields /\ p.events \in Seq(PaperEvent)
  BY <1>1 DEF Builders, Fields
<1>3. p.lastBar \in Int \cup {None} /\ p.spec \in PositionSpec
  BY <1>1 DEF Builders
<1>4. p.spec.decision \in Int /\ p.spec.quantity \in Int
  BY <1>3 DEF PositionSpec
<1> QED BY <1>2, <1>3, <1>4 DEF Shaped, IsLedger, Known

-----------------------------------------------------------------------------
(***************************************************************************)
(* The stages of a bar.  r is what the builder holds when the bar has been *)
(* read, before finish and build.                                          *)
(***************************************************************************)
Noted(p, bar) == Emit(p, "OBSERVATION_APPLIED", bar.time, bar)

Stages(o, bar, r) ==
    \/ /\ o.state = "PENDING_ENTRY" /\ o.remaining = 0
       /\ r = Enter(o, bar) /\ r.state = "REJECTED" /\ r.remaining = 0
    \/ /\ o.state = "PENDING_ENTRY" /\ o.remaining = 0
       /\ Enter(o, bar).state = "OPEN" /\ Enter(o, bar).remaining >= 1
       /\ Holding(Enter(o, bar)) /\ r = Intrabar(Enter(o, bar), bar)
    \/ /\ Sound(o) /\ o.state \in Exposed /\ o.remaining >= 1
       /\ r = ManualExit(o, bar)
    \/ o.state = "AMBIGUOUS_HALTED" /\ r = o
    \/ /\ Holding(o) /\ o.remaining >= 1 /\ r = AtOpen(o, bar)
    \/ /\ Holding(o) /\ o.remaining >= 1
       /\ Holding(AtOpen(o, bar)) /\ AtOpen(o, bar).remaining >= 1
       /\ r = Intrabar(AtOpen(o, bar), bar)

\* Every bar a live position accepts goes through one of them.
LEMMA ProcessStages ==
    ASSUME NEW p, Good(p), p.state \notin Terminal, NEW bar \in Bar
    PROVE  LET o == Noted(p, bar)
           IN  /\ o \in Builders
               /\ o.events = Append(p.events, Event("OBSERVATION_APPLIED", bar.time, bar))
               /\ \A x \in {"spec", "state", "remaining", "stop", "filled", "entry",
                             "gross", "fees", "lastBar", "mark", "closePending", "error"} :
                    o[x] = p[x]
               /\ \E r : Stages(o, bar, r) /\ Process(p, bar) = Build(Finish(r, bar), bar)
<1> DEFINE o == Noted(p, bar)
           entered == Enter(o, bar)
           opened == AtOpen(o, bar)
           r == IF o.state = "PENDING_ENTRY" THEN AfterEntry(entered, bar)
                ELSE IF o.closePending THEN ManualExit(o, bar)
                ELSE IF o.state = "AMBIGUOUS_HALTED" THEN o
                ELSE AfterOpen(opened, bar)
<1>1. /\ p \in Builders /\ p.error = OK /\ bar.time \in Int
      /\ "OBSERVATION_APPLIED" \in PaperEventTypes /\ p.remaining \in Int
  BY DEF Good, PaperPositions, Bar, PaperEventTypes, Builders
<1>2. /\ o \in Builders
      /\ \A x \in {"spec", "state", "remaining", "stop", "filled", "entry",
                    "gross", "fees", "lastBar", "mark", "closePending", "error"} :
           o[x] = p[x]
  BY <1>1, AppendEvent DEF EventData, Noted
<1>3. o.events = Append(p.events, Event("OBSERVATION_APPLIED", bar.time, bar))
  BY <1>1 DEF Noted, Emit, Builders
<1>4. Process(p, bar) = Build(Finish(r, bar), bar)
  BY Zenon DEF Process, Noted
<1> HIDE DEF o
<1>5. /\ o.spec = p.spec /\ o.state = p.state /\ o.remaining = p.remaining
      /\ o.filled = p.filled /\ o.entry = p.entry /\ o.error = p.error
      /\ o.stop = p.stop /\ o.closePending = p.closePending
  BY <1>2
<1>6. CASE o.state = "PENDING_ENTRY"
  <2>1. p.remaining = 0 /\ p.filled = {} /\ p.entry = None
    BY <1>5, <1>6 DEF Good, Units, Origin, Exposed
  <2>2. p.stop \in Int
    BY <1>1 DEF Builders
  <2>3. p.stop = p.spec.stop
    BY <2>1, <2>2, PaperConstants DEF Good, Origin
  <2>4. \/ /\ entered.state = "REJECTED" /\ entered.remaining = 0
        \/ /\ entered.state = "OPEN" /\ Holding(entered) /\ entered.remaining >= 1
    BY <1>1, <1>2, <1>5, <1>6, <2>1, <2>3, EnterSettles DEF Good
  <2>5. r = AfterEntry(entered, bar)
    BY <1>6
  <2> HIDE DEF r, entered
  <2>6. Stages(o, bar, r)
    <3>1. CASE entered.state = "REJECTED"
      BY <1>5, <1>6, <2>1, <2>4, <2>5, <3>1 DEF AfterEntry, Stages, entered
    <3>2. CASE entered.state = "OPEN"
      BY <1>5, <1>6, <2>1, <2>4, <2>5, <3>2 DEF AfterEntry, Stages, entered
    <3> QED BY <2>4, <3>1, <3>2
  <2> QED BY <1>2, <1>3, <1>4, <2>6 DEF o
<1>7. CASE o.state # "PENDING_ENTRY"
  <2>1. p.state \in Exposed
    BY <1>1, <1>5, <1>7 DEF Builders, PositionStates, Exposed, Terminal
  <2>2. Sound(o) /\ o.state \in Exposed /\ o.remaining >= 1 /\ Exact(o) /\ Named(o)
    BY <1>1, <1>2, <1>5, <2>1 DEF Good, Units, Sound, Exact, Named, Soft
  <2>3. CASE o.closePending
    <3>1. r = ManualExit(o, bar)
      BY <1>7, <2>3
    <3> HIDE DEF r
    <3>2. Stages(o, bar, r)
      BY <2>2, <3>1 DEF Stages
    <3> QED BY <1>2, <1>3, <1>4, <3>2 DEF o
  <2>4. CASE ~o.closePending /\ o.state = "AMBIGUOUS_HALTED"
    <3>1. r = o
      BY <1>7, <2>4
    <3> HIDE DEF r
    <3>2. Stages(o, bar, r)
      BY <2>4, <3>1 DEF Stages
    <3> QED BY <1>2, <1>3, <1>4, <3>2 DEF o
  <2>5. CASE ~o.closePending /\ o.state # "AMBIGUOUS_HALTED"
    <3>1. Holding(o)
      BY <1>1, <1>5, <2>2, <2>5 DEF Holding, Exposed
    <3>2. Concluded(opened) /\ (opened.remaining > 0 => Holding(opened))
      BY <2>2, <3>1, AtOpenSettles
    <3>3. r = AfterOpen(opened, bar)
      BY <1>7, <2>5
    <3> HIDE DEF r, opened
    <3>4. opened.remaining \in Int
      BY <3>2 DEF Concluded, Sound, Builders
    <3>5. Stages(o, bar, r)
      BY <2>2, <3>1, <3>2, <3>3, <3>4 DEF AfterOpen, Stages, opened
    <3> QED BY <1>2, <1>3, <1>4, <3>5 DEF o
  <2> QED BY <2>3, <2>4, <2>5
<1> QED BY <1>6, <1>7

-----------------------------------------------------------------------------
(***************************************************************************)
(* Ambiguous bars.  While no bar was ambiguous anything may follow; after  *)
(* one the position is halted or closed and stays so.                      *)
(***************************************************************************)
Forbidden(spec) ==
    {"TARGET_FILLED", "STOP_MOVED_TO_BREAKEVEN"} \cup
        (IF spec.sameBar = "HALT" THEN {"STOP_FILLED"} ELSE {})

Clear(p) == \A i \in 1..Len(p.events) : p.events[i].type # "SAME_BAR_AMBIGUITY"

Uncredited(p) ==
    \A i, j \in 1..Len(p.events) :
        i < j /\ p.events[i].type = "SAME_BAR_AMBIGUITY" =>
            p.events[j].type \notin Forbidden(p.spec)

Silent(p) == Uncredited(p) /\ (Clear(p) \/ p.state \in {"AMBIGUOUS_HALTED", "CLOSED"})

\* A builder has the fields and the ledger of a position.
LEMMA BuilderShape ==
    ASSUME NEW p \in Builders
    PROVE  Shaped(p)
<1>1. DOMAIN p = Fields /\ p.events \in Seq(PaperEvent)
  BY DEF Builders, Fields
<1> QED BY <1>1 DEF Shaped, IsLedger

\* Without an ambiguity there is nothing to credit.
LEMMA ClearUncredited ==
    ASSUME NEW p, Clear(p)
    PROVE  Uncredited(p)
BY DEF Clear, Uncredited

\* Events of other types leave a clear ledger clear.
LEMMA ClearExtended ==
    ASSUME NEW p, Clear(p), NEW q, NEW t, NEW T, Extends(p, q, t, T),
           "SAME_BAR_AMBIGUITY" \notin T
    PROVE  Clear(q)
<1> SUFFICES ASSUME NEW i \in 1..Len(q.events)
             PROVE  q.events[i].type # "SAME_BAR_AMBIGUITY"
  BY DEF Clear
<1>1. /\ Len(p.events) \in Nat /\ Len(q.events) \in Nat
      /\ \A k \in 1..Len(p.events) : p.events[k] = q.events[k]
      /\ \A k \in (Len(p.events) + 1)..Len(q.events) : q.events[k].type \in T
  BY DEF Extends, Continues
<1>2. CASE i \in 1..Len(p.events)
  <2>1. p.events[i].type # "SAME_BAR_AMBIGUITY"
    BY <1>2 DEF Clear
  <2> QED BY <1>1, <1>2, <2>1
<1>3. CASE i \notin 1..Len(p.events)
  <2>1. i \in (Len(p.events) + 1)..Len(q.events)
    BY <1>1, <1>3
  <2>2. q.events[i].type \in T
    BY <1>1, <2>1
  <2> QED BY <2>2
<1> QED BY <1>2, <1>3

\* Events that credit nothing leave an uncredited ledger uncredited.
LEMMA UncreditedExtended ==
    ASSUME NEW p, Uncredited(p), NEW q, NEW t, NEW T, Extends(p, q, t, T),
           T \cap Forbidden(p.spec) = {}
    PROVE  Uncredited(q)
<1> SUFFICES ASSUME NEW i \in 1..Len(q.events), NEW j \in 1..Len(q.events),
                    i < j, q.events[i].type = "SAME_BAR_AMBIGUITY"
             PROVE  q.events[j].type \notin Forbidden(q.spec)
  BY DEF Uncredited
<1>1. /\ Len(p.events) \in Nat /\ Len(q.events) \in Nat /\ q.spec = p.spec
      /\ \A k \in 1..Len(p.events) : p.events[k] = q.events[k]
      /\ \A k \in (Len(p.events) + 1)..Len(q.events) : q.events[k].type \in T
  BY DEF Extends, Continues
<1>2. CASE j \in 1..Len(p.events)
  <2>1. i \in 1..Len(p.events) /\ p.events[i] = q.events[i] /\ p.events[j] = q.events[j]
    BY <1>1, <1>2
  <2> QED BY <1>1, <1>2, <2>1 DEF Uncredited
<1>3. CASE j \notin 1..Len(p.events)
  <2>1. j \in (Len(p.events) + 1)..Len(q.events)
    BY <1>1, <1>3
  <2>2. q.events[j].type \in T
    BY <1>1, <2>1
  <2> QED BY <1>1, <2>2
<1> QED BY <1>2, <1>3

\* intrabar: an ambiguous bar halts the position or closes it at its stop.
LEMMA IntrabarSilent ==
    ASSUME NEW p, Holding(p), p.remaining >= 1, Clear(p), NEW bar \in Bar
    PROVE  LET q == Intrabar(p, bar)
           IN  \/ Clear(q)
               \/ /\ Uncredited(q)
                  /\ \/ q.state = "AMBIGUOUS_HALTED"
                     \/ q.state \in Exposed /\ q.remaining = 0
<1> DEFINE noted == Emit(p, "SAME_BAR_AMBIGUITY", bar.time, None)
           halted == [noted EXCEPT !.state = "AMBIGUOUS_HALTED"]
           stopped == ExitStop(noted, bar, p.stop)
           touched == Touched(p, bar)
           t == bar.time
<1>1. p \in Builders /\ Sound(p) /\ p.state \in Exposed /\ p.stop \in Int
  BY DEF Holding, Sound, Exposed, Builders
<1>2. Shaped(p) /\ Extends(p, p, t, {}) /\ DOMAIN p = Fields
  BY <1>1, BuilderShape, ExtendsSelf DEF Shaped
<1>3. /\ noted \in Builders
      /\ \A x \in {"spec", "state", "remaining", "stop", "filled", "entry",
                    "gross", "fees", "lastBar", "mark", "closePending", "error"} :
           noted[x] = p[x]
  <2>1. "SAME_BAR_AMBIGUITY" \in PaperEventTypes /\ bar.time \in Int /\ None \in EventData
    BY DEF PaperEventTypes, Bar, EventData
  <2> QED BY <1>1, <2>1, AppendEvent
<1>4. Uncredited(noted)
  <2> DEFINE e == Event("SAME_BAR_AMBIGUITY", bar.time, None)
  <2>1. noted.events = Append(p.events, e)
    BY <1>1 DEF Emit, Builders
  <2> HIDE DEF noted, e
  <2>2. Continues(p.events, noted.events) /\ Len(noted.events) = Len(p.events) + 1
    BY <1>2, <2>1, AppendToLedger DEF Shaped
  <2> SUFFICES ASSUME NEW i \in 1..Len(noted.events), NEW j \in 1..Len(noted.events), i < j,
                      noted.events[i].type = "SAME_BAR_AMBIGUITY"
               PROVE  FALSE
    BY DEF Uncredited
  <2>3. i \in 1..Len(p.events)
    BY <2>2 DEF Continues
  <2> QED BY <2>2, <2>3 DEF Clear, Continues
<1>5. /\ Uncredited(halted) /\ halted.state = "AMBIGUOUS_HALTED"
  <2> HIDE DEF noted
  <2>1. halted.spec = noted.spec /\ halted.events = noted.events
        /\ halted.state = "AMBIGUOUS_HALTED"
    BY <1>3 DEF Builders
  <2> HIDE DEF halted
  <2> QED BY <1>4, <2>1 DEF Uncredited
<1>6. ASSUME p.spec.sameBar = "STOP_FIRST"
      PROVE  Uncredited(stopped) /\ stopped.state \in Exposed /\ stopped.remaining = 0
  <2> HIDE DEF noted
  <2>1. Sound(noted) /\ noted.state \in Exposed /\ noted.remaining >= 1 /\ noted.spec = p.spec
    BY <1>1, <1>3 DEF Sound
  <2>2. Concluded(stopped) /\ stopped.remaining = 0
    BY <1>1, <2>1, ExitStopSettles
  <2>3. Extends(noted, noted, t, {"STOP_FILLED"})
    BY <1>3, BuilderShape, ExtendsSelf
  <2>4. Extends(noted, stopped, t, {"STOP_FILLED"})
    BY <2>3, StopExtends
  <2>5. {"STOP_FILLED"} \cap Forbidden(noted.spec) = {}
    BY <1>6, <2>1 DEF Forbidden
  <2> HIDE DEF stopped
  <2>6. Uncredited(stopped)
    BY <1>4, <2>4, <2>5, UncreditedExtended
  <2> QED BY <2>2, <2>6 DEF Concluded
<1>7. Clear(ExitStop(p, bar, p.stop)) /\ Clear(TargetsInside(p, bar, touched))
  <2> DEFINE T == {"STOP_FILLED", "TARGET_FILLED"}
  <2>1. "STOP_FILLED" \in T /\ "TARGET_FILLED" \in T /\ "SAME_BAR_AMBIGUITY" \notin T
    OBVIOUS
  <2> HIDE DEF T, touched
  <2>2. Extends(p, p, bar.time, T)
    BY <1>2, ExtendsSelf
  <2>3. /\ Extends(p, ExitStop(p, bar, p.stop), bar.time, T)
        /\ Extends(p, TargetsInside(p, bar, touched), bar.time, T)
    BY <2>1, <2>2, StopExtends, TargetsExtend
  <2> QED BY <2>1, <2>3, ClearExtended
<1>8. \/ Intrabar(p, bar) = halted
      \/ p.spec.sameBar = "STOP_FIRST" /\ Intrabar(p, bar) = stopped
      \/ Intrabar(p, bar) = ExitStop(p, bar, p.stop)
      \/ Intrabar(p, bar) = TargetsInside(p, bar, touched)
  BY Zenon DEF Intrabar
<1> HIDE DEF halted, stopped, noted, touched
<1> QED BY <1>5, <1>6, <1>7, <1>8

\* finish and build, as far as the ledger and the state go.
LEMMA FinishBuild ==
    ASSUME NEW r, Shaped(r), NEW bar
    PROVE  LET q == Build(Finish(r, bar), bar)
           IN  /\ Extends(r, q, bar.time, {"POSITION_CLOSED"})
               /\ q.state = IF r.state \in Exposed /\ r.remaining = 0 THEN "CLOSED"
                            ELSE r.state
<1> DEFINE done == Finish(r, bar)
           T == {"POSITION_CLOSED"}
<1>1. Extends(r, r, bar.time, T)
  BY ExtendsSelf
<1>2. Extends(r, done, bar.time, T)
  BY <1>1, FinishExtends
<1>3. done.state = IF r.state \in Exposed /\ r.remaining = 0 THEN "CLOSED" ELSE r.state
  BY DEF Finish, Emit, Shaped, Fields
<1> HIDE DEF done
<1>4. Extends(r, Build(done, bar), bar.time, T)
  BY <1>2, BuildExtends
<1>5. Build(done, bar).state = done.state
  BY <1>2 DEF Build, Extends, Shaped, Fields
<1> QED BY <1>3, <1>4, <1>5 DEF done

\* One bar keeps a ledger silent about the ambiguous bars before it.
LEMMA ProcessSilent ==
    ASSUME NEW p, Good(p), Silent(p), p.state \notin Terminal, NEW bar \in Bar
    PROVE  Silent(Process(p, bar))
<1> DEFINE o == Noted(p, bar)
           q == Process(p, bar)
           t == bar.time
<1>1. /\ o \in Builders
      /\ \A x \in {"spec", "state", "remaining", "stop", "filled", "entry",
                    "gross", "fees", "lastBar", "mark", "closePending", "error"} :
           o[x] = p[x]
      /\ \E r : Stages(o, bar, r) /\ q = Build(Finish(r, bar), bar)
  BY ProcessStages
<1>2. PICK r : Stages(o, bar, r) /\ q = Build(Finish(r, bar), bar)
  BY <1>1
<1>3. Shaped(p) /\ Shaped(o) /\ o.spec = p.spec /\ o.state = p.state
  BY <1>1, GoodShape, BuilderShape
<1>4. Extends(p, o, t, {"OBSERVATION_APPLIED"})
  <2>1. Extends(p, p, t, {"OBSERVATION_APPLIED"})
    BY <1>3, ExtendsSelf
  <2> QED BY <2>1, EmitExtends DEF Noted
<1>5. \A spec : {"OBSERVATION_APPLIED"} \cap Forbidden(spec) = {}
              /\ {"POSITION_CLOSED"} \cap Forbidden(spec) = {}
              /\ {"MANUAL_EXIT_FILLED"} \cap Forbidden(spec) = {}
  BY DEF Forbidden
<1>6. Uncredited(o) /\ (Clear(p) => Clear(o))
  <2>1. Uncredited(p)
    BY DEF Silent
  <2> HIDE DEF o
  <2> QED BY <1>4, <1>5, <2>1, UncreditedExtended, ClearExtended
<1> SUFFICES Silent(q)
  OBVIOUS
<1> HIDE DEF o, q
\* it is enough that the builder is silent, or closed by the bar
<1>7. ASSUME Shaped(r), Uncredited(r),
             \/ Clear(r)
             \/ r.state = "AMBIGUOUS_HALTED"
             \/ r.state \in Exposed /\ r.remaining = 0
      PROVE  Silent(q)
  <2>1. /\ Extends(r, q, t, {"POSITION_CLOSED"})
        /\ q.state = IF r.state \in Exposed /\ r.remaining = 0 THEN "CLOSED" ELSE r.state
    BY <1>2, <1>7, FinishBuild
  <2>2. Uncredited(q)
    BY <1>5, <1>7, <2>1, UncreditedExtended
  <2>3. Clear(r) => Clear(q)
    BY <2>1, ClearExtended
  <2> QED BY <1>7, <2>1, <2>2, <2>3 DEF Silent
<1>8. CASE o.state = "AMBIGUOUS_HALTED"
  <2>1. r = o \/ r = ManualExit(o, bar)
    BY <1>2, <1>8 DEF Stages, Holding
  <2>2. CASE r = o
    BY <1>3, <1>6, <1>7, <1>8, <2>2
  <2>3. CASE r = ManualExit(o, bar) /\ r # o
    <3>1. Sound(o) /\ o.state \in Exposed /\ o.remaining >= 1
      BY <1>2, <1>8, <2>3 DEF Stages, Holding
    <3>2. Concluded(r) /\ r.remaining = 0
      BY <2>3, <3>1, ManualExitSettles
    <3>3. Extends(o, r, t, {"MANUAL_EXIT_FILLED"})
      <4>1. Extends(o, o, t, {"MANUAL_EXIT_FILLED"})
        BY <1>3, ExtendsSelf
      <4> QED BY <2>3, <4>1, ManualExitExtends
    <3>4. Uncredited(r) /\ Shaped(r)
      BY <1>5, <1>6, <3>3, UncreditedExtended DEF Extends
    <3> QED BY <1>7, <3>2, <3>4 DEF Concluded
  <2> QED BY <2>1, <2>2, <2>3
<1>9. CASE o.state # "AMBIGUOUS_HALTED"
  <2>1. Clear(o)
    BY <1>3, <1>6, <1>9 DEF Silent, Terminal
  <2> DEFINE T == {"ENTRY_FILLED", "ENTRY_REJECTED", "TARGET_FILLED", "STOP_FILLED",
                   "MANUAL_EXIT_FILLED"}
  <2>2. /\ "ENTRY_FILLED" \in T /\ "ENTRY_REJECTED" \in T /\ "TARGET_FILLED" \in T
        /\ "STOP_FILLED" \in T /\ "MANUAL_EXIT_FILLED" \in T
        /\ "SAME_BAR_AMBIGUITY" \notin T
    OBVIOUS
  <2> HIDE DEF T
  <2>3. Extends(o, o, t, T)
    BY <1>3, ExtendsSelf
  <2>4. /\ Extends(o, Enter(o, bar), t, T) /\ Extends(o, ManualExit(o, bar), t, T)
        /\ Extends(o, AtOpen(o, bar), t, T)
    BY <2>2, <2>3, EnterExtends, ManualExitExtends, AtOpenExtends
  <2>5. /\ Clear(Enter(o, bar)) /\ Clear(ManualExit(o, bar)) /\ Clear(AtOpen(o, bar))
        /\ Shaped(Enter(o, bar)) /\ Shaped(ManualExit(o, bar)) /\ Shaped(AtOpen(o, bar))
    BY <2>1, <2>2, <2>4, ClearExtended DEF Extends
  <2>6. CASE r \in {Enter(o, bar), ManualExit(o, bar), AtOpen(o, bar)}
    BY <1>7, <2>5, <2>6, ClearUncredited
  <2>7. ASSUME NEW s, Holding(s), s.remaining >= 1, Clear(s), r = Intrabar(s, bar)
        PROVE  Silent(q)
    <3>1. \/ Clear(r)
          \/ /\ Uncredited(r)
             /\ r.state = "AMBIGUOUS_HALTED" \/ (r.state \in Exposed /\ r.remaining = 0)
      BY <2>7, IntrabarSilent
    <3>2. Shaped(r)
      <4>1. Concluded(r)
        BY <2>7, IntrabarSettles
      <4> QED BY <4>1, BuilderShape DEF Concluded, Sound
    <3> QED BY <1>7, <3>1, <3>2, ClearUncredited
  <2> QED BY <1>2, <1>9, <2>5, <2>6, <2>7 DEF Stages
<1> QED BY <1>8, <1>9

\* An event of a command extends the ledger.
LEMMA ToldExtends ==
    ASSUME NEW p, Shaped(p), NEW q, NEW type, NEW t, Told(p, q, type, t)
    PROVE  Extends(p, q, t, {type})
<1>1. Extends(p, p, t, {type})
  BY ExtendsSelf
<1> QED BY <1>1, ExtendsMore DEF Told, Shaped

\* A position just opened has met no ambiguous bar.
LEMMA OpenSilent ==
    ASSUME NEW spec \in PositionSpec, NEW approval, NEW calculable, NEW onGrid,
           NEW q, q # None, q = OpenPosition(spec, approval, calculable, onGrid).position
    PROVE  Silent(q)
<1>1. OpenPosition(spec, approval, calculable, onGrid) = Result(OK, q)
  BY OpenedPosition
<1>2. spec.quantity \in Int /\ spec.quantity <= spec.quantity
  BY DEF PositionSpec
<1>3. q.events = <<Event("POSITION_CREATED", spec.decision, None)>>
  BY ONLY <1>1, <1>2, OpenReproduces
<1>4. Clear(q)
  BY <1>3 DEF Clear, Event
<1> QED BY <1>4, ClearUncredited DEF Silent

\* A bar that is accepted is processed, another changes nothing.
LEMMA ObservationKeepsSilent ==
    ASSUME NEW p, Good(p), Silent(p), NEW bar \in Bar
    PROVE  Silent(ApplyObservation(p, bar).position)
<1> DEFINE q == ApplyObservation(p, bar).position
<1>1. q = p \/ (q = Process(p, bar) /\ p.state \notin Terminal)
  BY ObservationCases DEF Result
<1> QED BY <1>1, ProcessSilent

\* No command credits anything, and after a halt none but a close request acts.
LEMMA CommandKeepsSilent ==
    ASSUME NEW p, Good(p), Silent(p), NEW kind \in CommandKinds
    PROVE  Silent(ApplyCommand(p, kind).position)
<1> DEFINE q == ApplyCommand(p, kind).position
<1>1. Shaped(p)
  BY GoodShape
<1>2. \/ q = p
      \/ /\ q.state = p.state
         /\ \/ Told(p, q, "CLOSE_REQUESTED", p.lastBar)
            \/ /\ Told(p, q, "STOP_MOVED_TO_BREAKEVEN", p.lastBar)
               /\ p.state \in {"OPEN", "PARTIALLY_CLOSED"}
      \/ Told(p, q, "POSITION_CANCELLED", None) /\ p.state = "PENDING_ENTRY"
  BY <1>1, CommandCases
<1> SUFFICES Silent(q)
  OBVIOUS
<1> HIDE DEF q
<1>3. CASE Told(p, q, "CLOSE_REQUESTED", p.lastBar) /\ q.state = p.state
  <2>1. Extends(p, q, p.lastBar, {"CLOSE_REQUESTED"})
    BY <1>1, <1>3, ToldExtends
  <2>2. {"CLOSE_REQUESTED"} \cap Forbidden(p.spec) = {}
    BY DEF Forbidden
  <2>3. Uncredited(q)
    BY <2>1, <2>2, UncreditedExtended DEF Silent
  <2>4. Clear(p) => Clear(q)
    BY <2>1, ClearExtended
  <2> QED BY <1>3, <2>3, <2>4 DEF Silent
<1>4. ASSUME NEW type \in {"STOP_MOVED_TO_BREAKEVEN", "POSITION_CANCELLED"}, NEW t,
             Told(p, q, type, t), p.state \notin {"AMBIGUOUS_HALTED", "CLOSED"}
      PROVE  Silent(q)
  <2>1. Clear(p) /\ "SAME_BAR_AMBIGUITY" \notin {type}
    BY <1>4 DEF Silent
  <2>2. Extends(p, q, t, {type})
    BY <1>1, <1>4, ToldExtends
  <2>3. Clear(q)
    BY <2>1, <2>2, ClearExtended
  <2> QED BY <2>3, ClearUncredited DEF Silent
<1> QED BY <1>2, <1>3, <1>4

-----------------------------------------------------------------------------
(***************************************************************************)
(* Double entry.  SumOver is a function of the length of the ledger; what  *)
(* one more event does to it is all the proofs below use.                  *)
(***************************************************************************)
Term(e, types, field) == IF e.type \in types THEN e.data[field] ELSE 0

\* f records the partial sums over the first n events.
IsSum(f, s, types, field, n) ==
    /\ f = [i \in 0..n |-> f[i]]
    /\ f[0] = 0
    /\ \A i \in 1..n : f[i] = f[i - 1] + Term(s[i], types, field)

\* Partial sums exist for every length.
LEMMA PartialSumsExist ==
    ASSUME NEW s, NEW types, NEW field
    PROVE  \A n \in Nat : \E f : IsSum(f, s, types, field, n)
<1> DEFINE S == {n \in Nat : \E f : IsSum(f, s, types, field, n)}
<1>1. 0 \in S
  <2> DEFINE f == [i \in 0..0 |-> 0]
  <2>1. IsSum(f, s, types, field, 0)
    BY DEF IsSum
  <2> QED BY <2>1
<1>2. ASSUME NEW n \in Nat, n \in S
      PROVE  n + 1 \in S
  <2>1. PICK f : IsSum(f, s, types, field, n)
    BY <1>2
  <2> DEFINE g == [i \in 0..(n + 1) |-> IF i = n + 1 THEN f[n] + Term(s[n + 1], types, field)
                                        ELSE f[i]]
  <2>2. /\ f[0] = 0
        /\ \A i \in 1..n : f[i] = f[i - 1] + Term(s[i], types, field)
    BY <2>1, Zenon DEF IsSum
  <2>3. /\ g[n + 1] = f[n] + Term(s[n + 1], types, field)
        /\ \A i \in 0..n : g[i] = f[i]
    OBVIOUS
  <2>4. g = [i \in 0..(n + 1) |-> g[i]]
    OBVIOUS
  <2> HIDE DEF g
  <2>5. g[0] = 0
    BY <2>2, <2>3
  <2>6. ASSUME NEW i \in 1..(n + 1)
        PROVE  g[i] = g[i - 1] + Term(s[i], types, field)
    <3>1. i - 1 \in 0..n /\ (i = n + 1 \/ i \in 1..n)
      OBVIOUS
    <3>2. g[i - 1] = f[i - 1]
      BY <2>3, <3>1
    <3>3. CASE i = n + 1
      BY <2>3, <3>2, <3>3
    <3>4. CASE i \in 1..n
      <4>1. f[i] = f[i - 1] + Term(s[i], types, field) /\ i \in 0..n
        BY <2>2, <3>4
      <4> QED BY <2>3, <3>2, <4>1
    <3> QED BY <3>1, <3>3, <3>4
  <2>7. IsSum(g, s, types, field, n + 1)
    BY <2>4, <2>5, <2>6, Zenon DEF IsSum
  <2> QED BY <2>7
<1> HIDE DEF S
<1>3. \A n \in Nat : n \in S
  BY <1>1, <1>2, SetInduction
<1> QED
  BY <1>3 DEF S

\* SumOver is the last of them.
LEMMA SumIsLast ==
    ASSUME NEW s, NEW types, NEW field, Len(s) \in Nat
    PROVE  \E f : /\ IsSum(f, s, types, field, Len(s))
                  /\ SumOver(s, types, field) = f[Len(s)]
<1> DEFINE Body(f) == [i \in 0..Len(s) |->
                          IF i = 0 THEN 0 ELSE f[i - 1] + Term(s[i], types, field)]
           a == CHOOSE f : f = Body(f)
<1>1. PICK f : IsSum(f, s, types, field, Len(s))
  BY PartialSumsExist
<1>2. f = Body(f)
  <2>1. \A i \in 0..Len(s) : f[i] = Body(f)[i]
    BY <1>1 DEF IsSum
  <2>2. f = [i \in 0..Len(s) |-> f[i]]
    BY <1>1 DEF IsSum
  <2>3. Body(f) = [i \in 0..Len(s) |-> Body(f)[i]]
    OBVIOUS
  <2> HIDE DEF Body
  <2> QED BY <2>1, <2>2, <2>3, Zenon
<1>3. a = Body(a)
  <2> HIDE DEF Body
  <2> QED BY <1>2
<1>4. IsSum(a, s, types, field, Len(s))
  <2> HIDE DEF a
  <2>1. a = [i \in 0..Len(s) |-> a[i]]
    <3>1. Body(a) = [i \in 0..Len(s) |-> Body(a)[i]]
      OBVIOUS
    <3> HIDE DEF Body
    <3> QED BY <1>3, <3>1
  <2>2. \A i \in 0..Len(s) : a[i] = Body(a)[i]
    <3> HIDE DEF Body
    <3> QED BY <1>3
  <2> QED BY <2>1, <2>2 DEF IsSum
<1>5. SumOver(s, types, field) = a[Len(s)]
  BY DEF SumOver, Term
<1> QED
  BY <1>4, <1>5

\* One more event is one more term.
LEMMA SumOneMore ==
    ASSUME NEW s, NEW e, NEW types, NEW field, IsLedger(s)
    PROVE  SumOver(Append(s, e), types, field)
             = SumOver(s, types, field) + Term(e, types, field)
<1> DEFINE t == Append(s, e)
<1>1. Continues(s, t) /\ Len(t) = Len(s) + 1 /\ t[Len(s) + 1] = e
  BY AppendToLedger
<1> HIDE DEF t
<1>2. Len(s) \in Nat /\ Len(t) \in Nat /\ \A i \in 1..Len(s) : s[i] = t[i]
  BY <1>1 DEF Continues
<1>3. PICK f : IsSum(f, s, types, field, Len(s)) /\ SumOver(s, types, field) = f[Len(s)]
  BY <1>2, SumIsLast
<1>4. PICK g : IsSum(g, t, types, field, Len(t)) /\ SumOver(t, types, field) = g[Len(t)]
  BY <1>2, SumIsLast
<1>5. f[0] = 0 /\ \A i \in 1..Len(s) : f[i] = f[i - 1] + Term(s[i], types, field)
  BY <1>3, Zenon DEF IsSum
<1>6. g[0] = 0 /\ \A i \in 1..Len(t) : g[i] = g[i - 1] + Term(t[i], types, field)
  BY <1>4, Zenon DEF IsSum
<1> DEFINE S == {i \in Nat : i <= Len(s) => f[i] = g[i]}
<1>7. 0 \in S
  BY <1>5, <1>6
<1>8. ASSUME NEW i \in Nat, i \in S
      PROVE  i + 1 \in S
  <2> SUFFICES ASSUME i + 1 <= Len(s) PROVE f[i + 1] = g[i + 1]
    OBVIOUS
  <2>1. i + 1 \in 1..Len(s) /\ i + 1 \in 1..Len(t) /\ (i + 1) - 1 = i
    BY <1>1, <1>2
  <2>2. /\ f[i + 1] = f[i] + Term(s[i + 1], types, field)
        /\ g[i + 1] = g[i] + Term(t[i + 1], types, field)
        /\ s[i + 1] = t[i + 1]
    BY <1>2, <1>5, <1>6, <2>1
  <2>3. f[i] = g[i]
    BY <1>2, <1>8, <2>1
  <2> QED BY <2>2, <2>3
<1> HIDE DEF S
<1>9. Len(s) \in S
  BY <1>2, <1>7, <1>8, SetInduction
<1>10. f[Len(s)] = g[Len(s)]
  BY <1>2, <1>9 DEF S
<1>11. g[Len(s) + 1] = g[Len(s)] + Term(t[Len(s) + 1], types, field)
  <2>1. Len(s) + 1 \in 1..Len(t) /\ (Len(s) + 1) - 1 = Len(s)
    BY <1>1, <1>2
  <2> QED BY <1>6, <2>1
<1> QED
  BY <1>1, <1>3, <1>4, <1>10, <1>11 DEF t

Entered(s) == SumOver(s, {"ENTRY_FILLED"}, "quantity")
Exited(s) == SumOver(s, FillTypes, "quantity")
Realized(s) == SumOver(s, FillTypes, "gross")

Balanced(p) ==
    /\ Entered(p.events) \in Int /\ Exited(p.events) \in Int /\ Realized(p.events) \in Int
    /\ Entered(p.events) = Exited(p.events) + p.remaining
    /\ p.gross = Realized(p.events)
    /\ p.fees = IF p.spec.feePerUnit = None THEN None
                ELSE p.spec.feePerUnit * (Entered(p.events) + Exited(p.events))

\* What one more event does to the three sums.
LEMMA SumsOneMore ==
    ASSUME NEW s, IsLedger(s), NEW type, NEW t, NEW data
    PROVE  LET u == Append(s, Event(type, t, data))
           IN  /\ Entered(u) = Entered(s) + (IF type = "ENTRY_FILLED" THEN data.quantity ELSE 0)
               /\ Exited(u) = Exited(s) + (IF type \in FillTypes THEN data.quantity ELSE 0)
               /\ Realized(u) = Realized(s) + (IF type \in FillTypes THEN data.gross ELSE 0)
<1> DEFINE e == Event(type, t, data)
<1>1. e.type = type /\ e.data = data
  BY DEF Event
<1> HIDE DEF e
<1>2. ASSUME NEW types, NEW field
      PROVE  SumOver(Append(s, e), types, field)
               = SumOver(s, types, field) + Term(e, types, field)
  BY SumOneMore
<1>3. /\ Entered(Append(s, e)) = Entered(s) + (IF type = "ENTRY_FILLED" THEN data.quantity ELSE 0)
      /\ Exited(Append(s, e)) = Exited(s) + (IF type \in FillTypes THEN data.quantity ELSE 0)
      /\ Realized(Append(s, e)) = Realized(s) + (IF type \in FillTypes THEN data.gross ELSE 0)
  BY <1>1, <1>2 DEF Entered, Exited, Realized, Term
<1> QED BY <1>3 DEF e

\* An event that fills nothing, and a step that moves no money, keep the balance.
LEMMA NeutralBalanced ==
    ASSUME NEW p, Shaped(p), Balanced(p), NEW q, q.spec = p.spec,
           q.remaining = p.remaining, q.gross = p.gross, q.fees = p.fees,
           \/ q.events = p.events
           \/ \E type, t, data : /\ type \notin FillTypes \cup {"ENTRY_FILLED"}
                                 /\ q.events = Append(p.events, Event(type, t, data))
    PROVE  Balanced(q)
<1>1. CASE q.events = p.events
  BY <1>1 DEF Balanced
<1>2. ASSUME NEW type, NEW t, NEW data, type \notin FillTypes \cup {"ENTRY_FILLED"},
             q.events = Append(p.events, Event(type, t, data))
      PROVE  Balanced(q)
  <2>1. /\ Entered(q.events) = Entered(p.events) + 0
        /\ Exited(q.events) = Exited(p.events) + 0
        /\ Realized(q.events) = Realized(p.events) + 0
    BY <1>2, SumsOneMore DEF Shaped
  <2>2. /\ Entered(q.events) = Entered(p.events) /\ Exited(q.events) = Exited(p.events)
        /\ Realized(q.events) = Realized(p.events)
    BY <2>1 DEF Balanced
  <2> QED BY <2>2 DEF Balanced
<1> QED BY <1>1, <1>2

\* Charging a fill of n units, from fees already charged for m of them.
LEMMA ChargedBalanced ==
    ASSUME NEW p \in Builders, NEW m \in Int, NEW n \in Int,
           p.fees = IF p.spec.feePerUnit = None THEN None ELSE p.spec.feePerUnit * m
    PROVE  Charged(p, n) = IF p.spec.feePerUnit = None THEN None
                           ELSE p.spec.feePerUnit * (m + n)
<1>1. p.spec.feePerUnit \in Nat \cup {None} /\ None \notin Int
  BY PaperConstants DEF Builders, PositionSpec
<1>2. CASE p.spec.feePerUnit = None
  BY <1>2 DEF Charged
<1>3. CASE p.spec.feePerUnit # None
  <2> DEFINE c == p.spec.feePerUnit
  <2>1. c \in Int /\ c # None
    BY <1>1, <1>3
  <2>2. p.fees = c * m
    BY <1>3
  <2>3. Charged(p, n) = (IF p.fees = None THEN 0 ELSE p.fees) + c * n
    BY <1>3 DEF Charged
  <2> HIDE DEF c
  <2>4. p.fees \in Int /\ p.fees # None
    BY <1>1, <2>1, <2>2
  <2>5. Charged(p, n) = c * m + c * n
    BY <2>2, <2>3, <2>4
  <2>6. c * m + c * n = c * (m + n)
    BY <2>1
  <2> QED BY <1>3, <2>5, <2>6 DEF c
<1> QED BY <1>2, <1>3

\* _exit moves units from what remains to what was exited, with their money.
LEMMA ExitBalanced ==
    ASSUME NEW p \in Builders, p.entry # None, Balanced(p), NEW bar \in Bar,
           NEW type \in FillTypes, NEW reference \in Int, NEW fill \in Int,
           NEW quantity \in Int
    PROVE  Balanced(Exit(p, type, bar, reference, fill, quantity))
<1> DEFINE q == Exit(p, type, bar, reference, fill, quantity)
           gross == Gross(p, fill, quantity)
           data == [reference |-> reference, price |-> fill, quantity |-> quantity,
                    gross |-> gross]
           s == p.events
           u == q.events
<1>1. /\ p.entry \in Int /\ p.gross \in Int /\ p.remaining \in Int /\ PointValue \in Int
      /\ Shaped(p) /\ DOMAIN p = Fields
  BY PaperConstants, BuilderShape DEF Builders, Shaped
<1>2. gross \in Int
  BY <1>1 DEF Gross
<1>3. data.quantity = quantity /\ data.gross = gross
  OBVIOUS
<1>4. /\ u = Append(s, Event(type, bar.time, data))
      /\ q.spec = p.spec /\ q.remaining = p.remaining - quantity
      /\ q.gross = p.gross + gross /\ q.fees = Charged(p, quantity)
  BY <1>1 DEF Exit, Fields
<1> HIDE DEF q, data, gross
<1>5. /\ Entered(u) = Entered(s) + 0
      /\ Exited(u) = Exited(s) + quantity
      /\ Realized(u) = Realized(s) + gross
  <2>1. type # "ENTRY_FILLED" /\ IsLedger(s)
    BY <1>1 DEF FillTypes, Shaped
  <2> HIDE DEF s, u
  <2> QED BY <1>3, <1>4, <2>1, SumsOneMore
<1>6. /\ Entered(s) \in Int /\ Exited(s) \in Int /\ Realized(s) \in Int
      /\ Entered(s) = Exited(s) + p.remaining /\ p.gross = Realized(s)
      /\ p.fees = IF p.spec.feePerUnit = None THEN None
                  ELSE p.spec.feePerUnit * (Entered(s) + Exited(s))
  BY DEF Balanced
<1> HIDE DEF s, u
<1>7. Charged(p, quantity) = IF p.spec.feePerUnit = None THEN None
                             ELSE p.spec.feePerUnit * ((Entered(s) + Exited(s)) + quantity)
  <2>1. Entered(s) + Exited(s) \in Int
    BY <1>6
  <2> QED BY <1>6, <2>1, ChargedBalanced
<1>8. /\ Entered(u) \in Int /\ Exited(u) \in Int /\ Realized(u) \in Int
      /\ Entered(u) = Exited(u) + q.remaining /\ q.gross = Realized(u)
      /\ (Entered(s) + Exited(s)) + quantity = Entered(u) + Exited(u)
  <2> DEFINE a == Entered(s)
             b == Exited(s)
             c == Realized(s)
             a1 == Entered(u)
             b1 == Exited(u)
             c1 == Realized(u)
             m == p.remaining
             m1 == q.remaining
             g == p.gross
             g1 == q.gross
  <2>1. a \in Int /\ b \in Int /\ c \in Int /\ m \in Int /\ g \in Int
    BY <1>1, <1>6
  <2>2. a1 = a + 0 /\ b1 = b + quantity /\ c1 = c + gross
    BY <1>5
  <2>3. m1 = m - quantity /\ g1 = g + gross /\ a = b + m /\ g = c
    BY <1>4, <1>6
  <2> HIDE DEF a, b, c, a1, b1, c1, m, m1, g, g1
  <2>4. /\ a1 \in Int /\ b1 \in Int /\ c1 \in Int /\ a1 = b1 + m1 /\ g1 = c1
        /\ (a + b) + quantity = a1 + b1
    BY <1>2, <2>1, <2>2, <2>3
  <2> QED BY <2>4 DEF a, b, c, a1, b1, c1, m1, g1
<1>9. q.fees = IF q.spec.feePerUnit = None THEN None
               ELSE q.spec.feePerUnit * (Entered(u) + Exited(u))
  BY <1>4, <1>7, <1>8
<1>10. Balanced(q)
  BY <1>8, <1>9 DEF Balanced, u
<1> QED BY <1>10 DEF q

\* enter: the units bought are all held; a rejected order moves none.
LEMMA EnterBalanced ==
    ASSUME NEW p \in Builders, Balanced(p), p.remaining = 0, NEW bar \in Bar
    PROVE  Balanced(Enter(p, bar))
<1> DEFINE fill == AdversePrice(bar.open, p.spec.slippage, p.spec.direction, TRUE)
           n == p.spec.quantity
           noted == Emit(p, "ENTRY_REJECTED", bar.time, None)
           rejected == [noted EXCEPT !.state = "REJECTED"]
           data == [reference |-> bar.open, price |-> fill, quantity |-> n, gross |-> 0]
           entered == [p EXCEPT !.error = IF fill <= 0 THEN "FILL_NOT_POSITIVE" ELSE @,
                                !.fees = Charged(p, n),
                                !.entry = fill,
                                !.remaining = n,
                                !.state = "OPEN",
                                !.events = Append(@, Event("ENTRY_FILLED", bar.time, data))]
           s == p.events
           u == entered.events
<1>1. Shaped(p) /\ DOMAIN p = Fields /\ n \in Int
  BY BuilderShape DEF Builders, Shaped, PositionSpec
<1>2. Enter(p, bar) = rejected \/ Enter(p, bar) = entered
  BY Zenon DEF Enter
<1>3. Balanced(rejected)
  <2>1. /\ rejected.spec = p.spec /\ rejected.remaining = p.remaining
        /\ rejected.gross = p.gross /\ rejected.fees = p.fees
        /\ rejected.events = Append(p.events, Event("ENTRY_REJECTED", bar.time, None))
    BY <1>1 DEF Emit, Fields
  <2>2. "ENTRY_REJECTED" \notin FillTypes \cup {"ENTRY_FILLED"}
    BY DEF FillTypes
  <2> HIDE DEF rejected
  <2> QED BY <1>1, <2>1, <2>2, NeutralBalanced
<1>4. Balanced(entered)
  <2> HIDE DEF fill
  <2>1. data.quantity = n
    OBVIOUS
  <2> HIDE DEF data
  <2>2. /\ u = Append(s, Event("ENTRY_FILLED", bar.time, data))
        /\ entered.spec = p.spec /\ entered.remaining = n
        /\ entered.gross = p.gross /\ entered.fees = Charged(p, n)
    BY <1>1 DEF Fields
  <2> HIDE DEF entered
  <2>3. /\ Entered(u) = Entered(s) + n
        /\ Exited(u) = Exited(s) + 0
        /\ Realized(u) = Realized(s) + 0
    <3>1. "ENTRY_FILLED" \notin FillTypes /\ IsLedger(s)
      BY <1>1 DEF FillTypes, Shaped
    <3> HIDE DEF s, u
    <3> QED BY <2>1, <2>2, <3>1, SumsOneMore
  <2>4. /\ Entered(s) \in Int /\ Exited(s) \in Int /\ Realized(s) \in Int
        /\ Entered(s) = Exited(s) + p.remaining /\ p.gross = Realized(s)
        /\ p.fees = IF p.spec.feePerUnit = None THEN None
                    ELSE p.spec.feePerUnit * (Entered(s) + Exited(s))
    BY DEF Balanced
  <2> HIDE DEF s, u, n
  <2>5. Charged(p, n) = IF p.spec.feePerUnit = None THEN None
                        ELSE p.spec.feePerUnit * ((Entered(s) + Exited(s)) + n)
    <3>1. Entered(s) + Exited(s) \in Int
      BY <2>4
    <3> QED BY <1>1, <2>4, <3>1, ChargedBalanced
  <2>6. /\ Entered(u) \in Int /\ Exited(u) \in Int /\ Realized(u) \in Int
        /\ Entered(u) = Exited(u) + entered.remaining /\ entered.gross = Realized(u)
        /\ (Entered(s) + Exited(s)) + n = Entered(u) + Exited(u)
    BY <1>1, <2>2, <2>3, <2>4
  <2>7. entered.fees = IF entered.spec.feePerUnit = None THEN None
                       ELSE entered.spec.feePerUnit * (Entered(u) + Exited(u))
    BY <2>2, <2>5, <2>6
  <2> QED BY <2>6, <2>7 DEF Balanced, u
<1> HIDE DEF rejected, entered
<1> QED BY <1>2, <1>3, <1>4

\* A stop exit and a manual exit are exits of all that remains.
LEMMA WholeExitBalanced ==
    ASSUME NEW p, Sound(p), Balanced(p), NEW bar \in Bar
    PROVE  /\ \A reference \in Int : Balanced(ExitStop(p, bar, reference))
           /\ Balanced(ManualExit(p, bar))
<1>1. /\ p \in Builders /\ p.entry # None /\ p.remaining \in Int /\ bar.open \in Int
      /\ "STOP_FILLED" \in FillTypes /\ "MANUAL_EXIT_FILLED" \in FillTypes
  BY DEF Sound, Builders, Bar, FillTypes
<1>2. \A price \in Int :
        AdversePrice(price, p.spec.slippage, p.spec.direction, FALSE) \in Int
  BY <1>1, AdverseType
<1>3. \A reference \in Int : Balanced(ExitStop(p, bar, reference))
  BY <1>1, <1>2, ExitBalanced DEF ExitStop
<1> DEFINE fill == AdversePrice(bar.open, p.spec.slippage, p.spec.direction, FALSE)
           e == Exit(p, "MANUAL_EXIT_FILLED", bar, bar.open, fill, p.remaining)
           q == [e EXCEPT !.closePending = FALSE]
<1>4. ManualExit(p, bar) = q
  BY Zenon DEF ManualExit
<1>5. fill \in Int
  BY <1>1, <1>2
<1>6. Balanced(e) /\ e \in Builders
  <2> HIDE DEF fill
  <2>1. "MANUAL_EXIT_FILLED" \in PaperEventTypes
    BY DEF PaperEventTypes
  <2> QED BY <1>1, <1>5, <2>1, ExitBalanced, ExitFields
<1> HIDE DEF e
<1>7. /\ q.spec = e.spec /\ q.remaining = e.remaining /\ q.gross = e.gross
      /\ q.fees = e.fees /\ q.events = e.events
  BY <1>6 DEF Builders
<1>8. Shaped(e)
  BY <1>6, BuilderShape
<1> HIDE DEF q
<1>9. Balanced(q)
  BY <1>6, <1>7, <1>8, NeutralBalanced
<1> QED BY <1>3, <1>4, <1>9

\* A target exit is an exit of the target's units.
LEMMA TargetBalanced ==
    ASSUME NEW p, Holding(p), Balanced(p), NEW bar \in Bar, NEW reference \in Int,
           NEW i \in DOMAIN p.spec.targets
    PROVE  Balanced(ExitTarget(p, bar, i, reference))
<1> DEFINE target == p.spec.targets[i]
           e == Exit(p, "TARGET_FILLED", bar, reference, target.price, target.quantity)
           q == ExitTarget(p, bar, i, reference)
<1>1. /\ p \in Builders /\ p.entry # None /\ p.spec \in PositionSpec /\ ValidSpec(p.spec)
      /\ "TARGET_FILLED" \in FillTypes /\ "TARGET_FILLED" \in PaperEventTypes
  BY DEF Holding, Sound, Builders, FillTypes, PaperEventTypes
<1>2. i \in Int
  BY <1>1 DEF PositionSpec
<1>3. target.quantity \in Int /\ target.price \in Int
  BY <1>1, <1>2, TargetUnitsType DEF TargetSpec
<1> HIDE DEF target
<1>4. Balanced(e) /\ e \in Builders
  BY <1>1, <1>3, ExitBalanced, ExitFields
<1>5. q = [e EXCEPT !.filled = @ \cup {i},
                    !.state = IF e.remaining > 0 /\ @ = "OPEN" THEN "PARTIALLY_CLOSED" ELSE @]
  BY DEF ExitTarget, target
<1> HIDE DEF e, q
<1>6. /\ q.spec = e.spec /\ q.remaining = e.remaining /\ q.gross = e.gross
      /\ q.fees = e.fees /\ q.events = e.events
  BY <1>4, <1>5 DEF Builders
<1>7. Shaped(e)
  BY <1>4, BuilderShape
<1>8. Balanced(q)
  BY <1>4, <1>6, <1>7, NeutralBalanced
<1> QED BY <1>8 DEF q

\* The targets reached at the open, one round after the other.
LEMMA TargetsAtOpenBalanced ==
    ASSUME NEW p, Holding(p), Balanced(p), NEW bar \in Bar
    PROVE  Balanced(TargetsAtOpen(p, bar))
<1>1. ASSUME NEW r, Holding(r), Balanced(r), NEW i
      PROVE  Holding(TargetAtOpen(r, bar, i)) /\ Balanced(TargetAtOpen(r, bar, i))
  <2>1. bar.open \in Int
    BY DEF Bar
  <2>2. Holding(TargetAtOpen(r, bar, i))
    BY <1>1, TargetAtOpenHolds
  <2>3. Balanced(TargetAtOpen(r, bar, i))
    BY <1>1, <2>1, TargetBalanced DEF TargetAtOpen
  <2> QED BY <2>2, <2>3
<1> QED BY <1>1 DEF TargetsAtOpen

\* The targets touched inside the bar, one round after the other.
LEMMA TargetsInsideBalanced ==
    ASSUME NEW p, Holding(p), Balanced(p), NEW bar \in Bar, NEW touched,
           touched \subseteq DOMAIN p.spec.targets, touched \cap p.filled = {}
    PROVE  Balanced(TargetsInside(p, bar, touched))
<1> DEFINE Round(r, n) == /\ Holding(r) /\ Balanced(r) /\ r.spec = p.spec
                          /\ r.filled \subseteq p.filled \cup 1..n
<1>1. ASSUME NEW r, NEW n \in Nat, Round(r, n)
      PROVE  Round(TargetInside(r, bar, touched, n + 1), n + 1)
  <2> DEFINE q == TargetInside(r, bar, touched, n + 1)
  <2>1. /\ touched \subseteq DOMAIN r.spec.targets
        /\ n + 1 \in touched => n + 1 \notin r.filled
    BY <1>1
  <2>2. Holding(q) /\ Kept(r, q) /\ q.filled \subseteq r.filled \cup {n + 1}
    BY <1>1, <2>1, TargetInsideHolds
  <2>3. Balanced(q)
    <3>1. CASE n + 1 \in touched /\ r.remaining # 0
      <4>1. n + 1 \in DOMAIN r.spec.targets
        BY <2>1, <3>1
      <4>2. r.spec \in PositionSpec /\ ValidSpec(r.spec)
        BY <1>1 DEF Holding, Sound, Builders
      <4>3. r.spec.targets[n + 1].price \in Int
        BY <4>1, <4>2, TargetUnitsType DEF TargetSpec
      <4> QED BY <1>1, <3>1, <4>1, <4>3, TargetBalanced DEF TargetInside
    <3>2. CASE ~(n + 1 \in touched /\ r.remaining # 0)
      BY <1>1, <3>2 DEF TargetInside
    <3> QED BY <3>1, <3>2
  <2> HIDE DEF q
  <2>4. q.spec = p.spec /\ q.filled \subseteq p.filled \cup 1..(n + 1)
    BY <1>1, <2>2 DEF Kept, SameButFill
  <2>5. Round(q, n + 1)
    BY <2>2, <2>3, <2>4
  <2> HIDE DEF Round
  <2> QED BY <2>5 DEF q
<1> DEFINE p1 == TargetInside(p, bar, touched, 1)
           p2 == TargetInside(p1, bar, touched, 2)
           p3 == TargetInside(p2, bar, touched, 3)
           p4 == TargetInside(p3, bar, touched, 4)
           p5 == TargetInside(p4, bar, touched, 5)
<1>2. TargetsInside(p, bar, touched) = p5
  BY DEF TargetsInside
<1>3. Round(p, 0)
  OBVIOUS
<1> HIDE DEF Round
<1>4. Round(p1, 1)
  <2>1. 0 \in Nat /\ 0 + 1 = 1
    OBVIOUS
  <2>2. Round(TargetInside(p, bar, touched, 0 + 1), 0 + 1)
    BY <1>1, <1>3, <2>1, Zenon
  <2> QED BY <2>1, <2>2
<1> HIDE DEF p1
<1>5. Round(p2, 2)
  <2>1. 1 \in Nat /\ 1 + 1 = 2
    OBVIOUS
  <2>2. Round(TargetInside(p1, bar, touched, 1 + 1), 1 + 1)
    BY <1>1, <1>4, <2>1, Zenon
  <2> QED BY <2>1, <2>2
<1> HIDE DEF p2
<1>6. Round(p3, 3)
  <2>1. 2 \in Nat /\ 2 + 1 = 3
    OBVIOUS
  <2>2. Round(TargetInside(p2, bar, touched, 2 + 1), 2 + 1)
    BY <1>1, <1>5, <2>1, Zenon
  <2> QED BY <2>1, <2>2
<1> HIDE DEF p3
<1>7. Round(p4, 4)
  <2>1. 3 \in Nat /\ 3 + 1 = 4
    OBVIOUS
  <2>2. Round(TargetInside(p3, bar, touched, 3 + 1), 3 + 1)
    BY <1>1, <1>6, <2>1, Zenon
  <2> QED BY <2>1, <2>2
<1> HIDE DEF p4
<1>8. Round(p5, 5)
  <2>1. 4 \in Nat /\ 4 + 1 = 5
    OBVIOUS
  <2>2. Round(TargetInside(p4, bar, touched, 4 + 1), 4 + 1)
    BY <1>1, <1>7, <2>1, Zenon
  <2> QED BY <2>1, <2>2
<1> HIDE DEF p5
<1> QED BY <1>2, <1>8 DEF Round

\* The open of a bar.
LEMMA AtOpenBalanced ==
    ASSUME NEW p, Holding(p), Balanced(p), NEW bar \in Bar
    PROVE  Balanced(AtOpen(p, bar))
<1>1. Sound(p) /\ bar.open \in Int
  BY DEF Holding, Bar
<1> QED BY <1>1, WholeExitBalanced, TargetsAtOpenBalanced DEF AtOpen

\* The inside of a bar.
LEMMA IntrabarBalanced ==
    ASSUME NEW p, Holding(p), Balanced(p), NEW bar \in Bar
    PROVE  Balanced(Intrabar(p, bar))
<1> DEFINE noted == Emit(p, "SAME_BAR_AMBIGUITY", bar.time, None)
           halted == [noted EXCEPT !.state = "AMBIGUOUS_HALTED"]
           touched == Touched(p, bar)
<1>1. p \in Builders /\ Sound(p) /\ p.stop \in Int /\ Shaped(p)
  BY BuilderShape DEF Holding, Sound, Builders
<1>2. /\ noted \in Builders
      /\ \A x \in {"spec", "state", "remaining", "stop", "filled", "entry",
                    "gross", "fees", "lastBar", "mark", "closePending", "error"} :
           noted[x] = p[x]
  <2>1. "SAME_BAR_AMBIGUITY" \in PaperEventTypes /\ bar.time \in Int /\ None \in EventData
    BY DEF PaperEventTypes, Bar, EventData
  <2> QED BY <1>1, <2>1, AppendEvent
<1>3. Balanced(noted)
  <2>1. noted.events = Append(p.events, Event("SAME_BAR_AMBIGUITY", bar.time, None))
    BY <1>1 DEF Emit, Builders
  <2>2. "SAME_BAR_AMBIGUITY" \notin FillTypes \cup {"ENTRY_FILLED"}
    BY DEF FillTypes
  <2> HIDE DEF noted
  <2>3. /\ noted.spec = p.spec /\ noted.remaining = p.remaining
        /\ noted.gross = p.gross /\ noted.fees = p.fees
    BY <1>2
  <2> QED BY <1>1, <2>1, <2>2, <2>3, NeutralBalanced
<1>4. Balanced(halted)
  <2> HIDE DEF noted
  <2>1. /\ halted.spec = noted.spec /\ halted.remaining = noted.remaining
        /\ halted.gross = noted.gross /\ halted.fees = noted.fees
        /\ halted.events = noted.events
    BY <1>2 DEF Builders
  <2> HIDE DEF halted
  <2> QED BY <1>2, <1>3, <2>1, BuilderShape, NeutralBalanced
<1>5. Balanced(ExitStop(noted, bar, p.stop)) /\ Balanced(ExitStop(p, bar, p.stop))
  <2> HIDE DEF noted
  <2>1. Sound(noted)
    BY <1>1, <1>2 DEF Sound
  <2> QED BY <1>1, <1>3, <2>1, WholeExitBalanced
<1>6. Balanced(TargetsInside(p, bar, touched))
  <2>1. touched \subseteq DOMAIN p.spec.targets /\ touched \cap p.filled = {}
    BY DEF Touched
  <2> HIDE DEF touched
  <2> QED BY <2>1, TargetsInsideBalanced
<1>7. Intrabar(p, bar) \in {halted, ExitStop(noted, bar, p.stop), ExitStop(p, bar, p.stop),
                            TargetsInside(p, bar, touched)}
  BY Zenon DEF Intrabar
<1> HIDE DEF noted, halted, touched
<1> QED BY <1>4, <1>5, <1>6, <1>7

\* finish and build move no money.
LEMMA FinishBalanced ==
    ASSUME NEW r, Shaped(r), Balanced(r), NEW bar
    PROVE  Balanced(Build(Finish(r, bar), bar))
<1> DEFINE data == [realized |-> r.gross, charged |-> r.fees]
           closed == [Emit(r, "POSITION_CLOSED", bar.time, data) EXCEPT !.state = "CLOSED"]
           done == Finish(r, bar)
           q == Build(done, bar)
<1>1. done = closed \/ done = r
  BY Zenon DEF Finish
<1>2. Balanced(closed)
  <2> HIDE DEF data
  <2>1. /\ closed.spec = r.spec /\ closed.remaining = r.remaining
        /\ closed.gross = r.gross /\ closed.fees = r.fees
        /\ closed.events = Append(r.events, Event("POSITION_CLOSED", bar.time, data))
    BY DEF Emit, Shaped, Fields
  <2>2. "POSITION_CLOSED" \notin FillTypes \cup {"ENTRY_FILLED"}
    BY DEF FillTypes
  <2> HIDE DEF closed
  <2> QED BY <2>1, <2>2, NeutralBalanced
<1>3. Balanced(done) /\ Shaped(done)
  <2>1. Extends(r, r, bar.time, {"POSITION_CLOSED"})
    BY ExtendsSelf
  <2>2. Extends(r, done, bar.time, {"POSITION_CLOSED"})
    BY <2>1, FinishExtends
  <2> HIDE DEF done, closed
  <2> QED BY <1>1, <1>2, <2>2 DEF Extends
<1> HIDE DEF done
<1>4. /\ q.spec = done.spec /\ q.remaining = done.remaining /\ q.gross = done.gross
      /\ q.fees = done.fees /\ q.events = done.events
  BY <1>3 DEF Build, Shaped, Fields
<1> HIDE DEF q
<1>5. Balanced(q)
  BY <1>3, <1>4, NeutralBalanced
<1> QED BY <1>5 DEF q, done

\* One bar keeps the ledger balanced.
LEMMA ProcessBalanced ==
    ASSUME NEW p, Good(p), Balanced(p), p.state \notin Terminal, NEW bar \in Bar
    PROVE  Balanced(Process(p, bar))
<1> DEFINE o == Noted(p, bar)
<1>1. /\ o \in Builders
      /\ o.events = Append(p.events, Event("OBSERVATION_APPLIED", bar.time, bar))
      /\ \A x \in {"spec", "state", "remaining", "stop", "filled", "entry",
                    "gross", "fees", "lastBar", "mark", "closePending", "error"} :
           o[x] = p[x]
      /\ \E r : Stages(o, bar, r) /\ Process(p, bar) = Build(Finish(r, bar), bar)
  BY ProcessStages
<1>2. PICK r : Stages(o, bar, r) /\ Process(p, bar) = Build(Finish(r, bar), bar)
  BY <1>1
<1> HIDE DEF o
<1>3. Balanced(o) /\ Shaped(o)
  <2>1. Shaped(p) /\ Shaped(o)
    BY <1>1, GoodShape, BuilderShape
  <2>2. /\ o.spec = p.spec /\ o.remaining = p.remaining /\ o.gross = p.gross
        /\ o.fees = p.fees
    BY <1>1
  <2>3. "OBSERVATION_APPLIED" \notin FillTypes \cup {"ENTRY_FILLED"}
    BY DEF FillTypes
  <2> QED BY <1>1, <2>1, <2>2, <2>3, NeutralBalanced
<1>4. Balanced(r)
  <2>1. CASE o.remaining = 0 /\ r = Enter(o, bar)
    BY <1>1, <1>3, <2>1, EnterBalanced
  <2>2. CASE o.remaining = 0 /\ Holding(Enter(o, bar)) /\ r = Intrabar(Enter(o, bar), bar)
    BY <1>1, <1>3, <2>2, EnterBalanced, IntrabarBalanced
  <2>3. CASE Sound(o) /\ r = ManualExit(o, bar)
    BY <1>3, <2>3, WholeExitBalanced
  <2>4. CASE r = o
    BY <1>3, <2>4
  <2>5. CASE Holding(o) /\ r = AtOpen(o, bar)
    BY <1>3, <2>5, AtOpenBalanced
  <2>6. CASE Holding(o) /\ Holding(AtOpen(o, bar)) /\ r = Intrabar(AtOpen(o, bar), bar)
    BY <1>3, <2>6, AtOpenBalanced, IntrabarBalanced
  <2> QED BY <1>2, <2>1, <2>2, <2>3, <2>4, <2>5, <2>6 DEF Stages
<1>5. Shaped(r)
  <2> DEFINE T == Derived
  <2>1. /\ "ENTRY_FILLED" \in T /\ "ENTRY_REJECTED" \in T /\ "TARGET_FILLED" \in T
        /\ "STOP_FILLED" \in T /\ "MANUAL_EXIT_FILLED" \in T /\ "SAME_BAR_AMBIGUITY" \in T
    BY DEF Derived
  <2> HIDE DEF T
  <2>2. Extends(o, o, bar.time, T)
    BY <1>3, ExtendsSelf
  <2>3. /\ Extends(o, Enter(o, bar), bar.time, T) /\ Extends(o, ManualExit(o, bar), bar.time, T)
        /\ Extends(o, AtOpen(o, bar), bar.time, T)
    BY <2>1, <2>2, EnterExtends, ManualExitExtends, AtOpenExtends
  <2>4. /\ Extends(o, Intrabar(Enter(o, bar), bar), bar.time, T)
        /\ Extends(o, Intrabar(AtOpen(o, bar), bar), bar.time, T)
    BY <2>1, <2>3, IntrabarExtends
  <2> QED BY <1>2, <1>3, <2>3, <2>4 DEF Stages, Extends
<1>6. Balanced(Build(Finish(r, bar), bar))
  BY <1>4, <1>5, FinishBalanced
<1> QED BY <1>2, <1>6

\* A ledger without an event of some types sums to nothing over them.
LEMMA SumOfNone ==
    ASSUME NEW s, Len(s) \in Nat, NEW types, NEW field,
           \A i \in 1..Len(s) : s[i].type \notin types
    PROVE  SumOver(s, types, field) = 0
<1>1. PICK f : IsSum(f, s, types, field, Len(s)) /\ SumOver(s, types, field) = f[Len(s)]
  BY SumIsLast, Zenon
<1>2. f[0] = 0 /\ \A i \in 1..Len(s) : f[i] = f[i - 1] + Term(s[i], types, field)
  BY <1>1, Zenon DEF IsSum
<1> DEFINE S == {i \in Nat : i <= Len(s) => f[i] = 0}
<1>3. 0 \in S
  BY <1>2
<1>4. ASSUME NEW i \in Nat, i \in S
      PROVE  i + 1 \in S
  <2> SUFFICES ASSUME i + 1 <= Len(s) PROVE f[i + 1] = 0
    OBVIOUS
  <2>1. i + 1 \in 1..Len(s) /\ (i + 1) - 1 = i /\ f[i] = 0
    BY <1>4
  <2>2. f[i + 1] = f[i] + Term(s[i + 1], types, field)
    BY <1>2, <2>1
  <2>3. Term(s[i + 1], types, field) = 0
    BY <2>1 DEF Term
  <2> QED BY <2>1, <2>2, <2>3
<1> HIDE DEF S
<1>5. Len(s) \in S
  BY <1>3, <1>4, SetInduction
<1> QED BY <1>1, <1>5 DEF S

\* A position just opened has moved no money.
LEMMA OpenBalanced ==
    ASSUME NEW spec \in PositionSpec, NEW approval, NEW calculable, NEW onGrid,
           NEW q, q # None, q = OpenPosition(spec, approval, calculable, onGrid).position
    PROVE  Balanced(q)
<1> DEFINE e == Event("POSITION_CREATED", spec.decision, None)
<1>1. OpenPosition(spec, approval, calculable, onGrid) = Result(OK, q)
  BY OpenedPosition
<1>2. spec.quantity \in Int /\ spec.quantity <= spec.quantity
        /\ spec.feePerUnit \in Nat \cup {None}
  BY DEF PositionSpec
<1>3. q.events = <<e>> /\ q.spec = spec
  BY ONLY <1>1, <1>2, OpenReproduces
<1>4. q.remaining = 0 /\ q.gross = 0 /\ q.fees = IF spec.feePerUnit = None THEN None ELSE 0
  BY DEF OpenPosition, Result
<1>5. Len(q.events) = 1 /\ \A i \in 1..1 : q.events[i].type = "POSITION_CREATED"
  BY <1>3 DEF Event
<1>6. Entered(q.events) = 0 /\ Exited(q.events) = 0 /\ Realized(q.events) = 0
  BY <1>5, SumOfNone DEF Entered, Exited, Realized, FillTypes
<1>7. spec.feePerUnit # None => spec.feePerUnit * (0 + 0) = 0
  BY <1>2
<1> QED BY <1>3, <1>4, <1>6, <1>7 DEF Balanced

\* A bar that is accepted is processed, another changes nothing.
LEMMA ObservationKeepsBalance ==
    ASSUME NEW p, Good(p), Balanced(p), NEW bar \in Bar
    PROVE  Balanced(ApplyObservation(p, bar).position)
<1> DEFINE q == ApplyObservation(p, bar).position
<1>1. q = p \/ (q = Process(p, bar) /\ p.state \notin Terminal)
  BY ObservationCases DEF Result
<1> QED BY <1>1, ProcessBalanced

\* No command moves money.
LEMMA CommandKeepsBalance ==
    ASSUME NEW p, Good(p), Balanced(p), NEW kind \in CommandKinds
    PROVE  Balanced(ApplyCommand(p, kind).position)
<1> DEFINE q == ApplyCommand(p, kind).position
           types == {"CLOSE_REQUESTED", "STOP_MOVED_TO_BREAKEVEN", "POSITION_CANCELLED"}
<1>1. Shaped(p)
  BY GoodShape
<1>2. q = p \/ \E type \in types : \E t \in {p.lastBar, None} : Told(p, q, type, t)
  BY <1>1, CommandCases
<1> SUFFICES Balanced(q)
  OBVIOUS
<1> HIDE DEF q
<1>3. ASSUME NEW type \in types, NEW t \in {p.lastBar, None}, Told(p, q, type, t)
      PROVE  Balanced(q)
  <2>1. type \notin FillTypes \cup {"ENTRY_FILLED"}
    BY DEF FillTypes
  <2> QED BY <1>1, <1>3, <2>1, NeutralBalanced DEF Told
<1> HIDE DEF types
<1> QED BY <1>2, <1>3
=============================================================================
