--------------------------- MODULE BacktestProofs ---------------------------
(***************************************************************************)
(* Proofs about Backtest, for every configuration, any number of workers   *)
(* and people who abandon, and every bound: no stored position risks more  *)
(* than its budget, and the end of a run is changed by its racers only.    *)
(* And about Performance, for any positions and number of editors: no      *)
(* journal edit is lost, and a folded ledger tells what the engine did.    *)
(***************************************************************************)
EXTENDS Backtest, Performance, PaperEngineProofs

-----------------------------------------------------------------------------
(***************************************************************************)
(* Sizing.                                                                 *)
(***************************************************************************)

\* The loss at the stop and the margin of a specification are within what the
\* configuration allows.
WithinBudget(c, spec) ==
    LET distance == IF spec.direction = "LONG" THEN spec.entry - spec.stop
                                               ELSE spec.stop - spec.entry
    IN  /\ spec.quantity * distance * c.product.multiplier.value
              * Risk!Denominator(c.policy) <= Risk!RiskAmount(c.policy, c.account.equity)
        /\ spec.quantity * c.product.margin.value <= Risk!AvailableForNew(c.account)

\* A configuration that run accepts.
Runnable(c) == ValidConfig(c) /\ c.dataset # None /\ c.product # None

\* Units no more than a quotient cost no more than the amount divided.
LEMMA QuotientBounds ==
    ASSUME NEW n \in Int, NEW d \in Int, d > 0, NEW q \in Int, q <= n \div d
    PROVE  q * d <= n
<1> DEFINE m == n \div d
<1>1. m \in Int /\ m * d <= n
  OBVIOUS
<1>2. q * d <= m * d
  <2>1. m - q \in Nat
    BY <1>1
  <2> HIDE DEF m
  <2>2. (m - q) * d >= 0
    BY <2>1
  <2>3. (m - q) * d = m * d - q * d
    BY <1>1
  <2> QED
    BY <1>1, <2>2, <2>3
<1>3. q * d \in Int /\ m * d \in Int
  BY <1>1
<1> HIDE DEF m
<1> QED
  BY <1>1, <1>2, <1>3

\* What an ALLOWED sizing says: the least of its bounds, among them what the
\* budget and the free margin pay for.
LEMMA AllowedBounds ==
    ASSUME NEW product, NEW tick, NEW byRisk \in Int, NEW byMargin, NEW cap,
           byMargin = None \/ byMargin \in Int, cap = None \/ cap \in Int,
           NEW sizing, sizing = Risk!SizeKnown(product, tick, byRisk, byMargin, cap),
           sizing.outcome = "ALLOWED"
    PROVE  /\ byMargin # None /\ sizing.allowed \in Int
           /\ sizing.allowed <= byRisk /\ sizing.allowed <= byMargin
<1> DEFINE bounds == {byRisk, byMargin} \cup (IF cap = None THEN {} ELSE {cap})
<1>1. byMargin # None /\ sizing.allowed = Risk!Min(bounds)
  BY DEF Risk!SizeKnown, Risk!Sizing
<1>2. bounds \subseteq Int /\ byRisk \in bounds /\ byMargin \in bounds
  BY <1>1
<1>3. \E x \in bounds : \A y \in bounds : x <= y
  <2> DEFINE low == IF byRisk <= byMargin THEN byRisk ELSE byMargin
  <2>1. low \in bounds /\ low \in Int /\ low <= byRisk /\ low <= byMargin
    BY <1>1
  <2>2. CASE cap = None
    BY <2>1, <2>2
  <2>3. CASE cap # None /\ low <= cap
    BY <2>1, <2>3
  <2>4. CASE cap # None /\ ~(low <= cap)
    <3>1. cap \in bounds /\ cap \in Int /\ cap <= byRisk /\ cap <= byMargin
      BY <1>1, <2>1, <2>4
    <3> QED
      BY <2>4, <3>1
  <2> QED
    BY <2>2, <2>3, <2>4
<1> HIDE DEF bounds
<1>4. Risk!Min(bounds) \in bounds /\ \A y \in bounds : Risk!Min(bounds) <= y
  BY <1>3 DEF Risk!Min
<1> QED
  BY <1>1, <1>2, <1>4

\* A specification of at most the allowed units is within its budget.
LEMMA SizedWithin ==
    ASSUME NEW c, Runnable(c), NEW direction, NEW entry \in Int, NEW stop \in Int,
           NEW sizing, sizing = Risk!SizeForProduct(direction, entry, stop, c.product,
                                                    c.account, c.policy),
           sizing.outcome = "ALLOWED"
    PROVE  /\ sizing.allowed \in Int
           /\ \A spec : /\ spec.direction = direction /\ spec.entry = entry /\ spec.stop = stop
                       /\ spec.quantity \in Int /\ spec.quantity <= sizing.allowed
                       => WithinBudget(c, spec)
<1> DEFINE distance == Risk!StopDistance(direction, entry, stop)
           tick == Risk!TickFeasibility(c.product, entry, stop)
           budget == Risk!RiskAmount(c.policy, c.account.equity)
           unit == distance * c.product.multiplier.value * Risk!Denominator(c.policy)
           byRisk == Risk!FloorDivide(budget, unit)
           byMargin == IF Risk!MarginFeasibility(c.product) = "KNOWN"
                       THEN Risk!MarginCapacity(c.product, c.account) ELSE None
           free == Risk!AvailableForNew(c.account)
<1>1. /\ direction \in {"LONG", "SHORT"} /\ distance # None
      /\ sizing = Risk!SizeKnown(c.product, tick, byRisk, byMargin, c.policy.cap)
  <2>1. Risk!Invalid.outcome # "ALLOWED"
    BY DEF Risk!Invalid, Risk!Sizing
  <2> QED
    BY <2>1 DEF Risk!SizeForProduct
<1>2. /\ distance \in Int /\ distance > 0
      /\ distance = IF direction = "LONG" THEN entry - stop ELSE stop - entry
  <2>1. distance # None /\ direction \in {"LONG", "SHORT"}
    BY <1>1
  <2>2. CASE direction = "LONG"
    <3>1. stop < entry /\ distance = entry - stop
      BY <2>1, <2>2 DEF Risk!StopDistance
    <3> HIDE DEF distance
    <3>2. distance \in Int /\ distance > 0
      BY <3>1
    <3> QED
      BY <2>2, <3>1, <3>2
  <2>3. CASE direction = "SHORT"
    <3>1. stop > entry /\ distance = stop - entry
      BY <2>1, <2>3 DEF Risk!StopDistance
    <3> HIDE DEF distance
    <3>2. distance \in Int /\ distance > 0
      BY <3>1
    <3> QED
      BY <2>3, <3>1, <3>2
  <2> QED
    BY <2>1, <2>2, <2>3
<1>3. /\ c.product.multiplier.value \in Int /\ c.product.multiplier.value > 0
      /\ c.product.margin # None => c.product.margin.value \in Int /\ c.product.margin.value > 0
  BY DEF Runnable, ValidConfig, ValidProduct, Risk!ValidContract
<1>4. /\ Risk!Denominator(c.policy) \in Int /\ Risk!Denominator(c.policy) > 0
      /\ budget \in Int /\ free \in Int /\ (c.policy.cap = None \/ c.policy.cap \in Int)
  BY DEF Runnable, ValidConfig, ValidPolicy, Risk!ValidPolicy, Risk!Denominator,
         Risk!RiskAmount, Risk!AvailableForNew, Risk!FreeMargin
<1>5. unit \in Int /\ unit > 0
  <2> HIDE DEF distance
  <2> QED
    BY <1>2, <1>3, <1>4
<1> HIDE DEF distance, tick, budget, free
<1>6. byRisk = budget \div unit /\ byRisk \in Int
  BY <1>4, <1>5 DEF Risk!FloorDivide
<1>7. byMargin # None => /\ c.product.margin # None
                         /\ byMargin = free \div c.product.margin.value /\ byMargin \in Int
  BY <1>3, <1>4 DEF Risk!MarginCapacity, Risk!MarginFeasibility, Risk!FloorDivide, free
<1> HIDE DEF byRisk, byMargin, unit
<1>8. /\ byMargin # None /\ sizing.allowed \in Int
      /\ sizing.allowed <= byRisk /\ sizing.allowed <= byMargin
  BY <1>1, <1>4, <1>6, <1>7, AllowedBounds
<1>9. ASSUME NEW spec, spec.direction = direction, spec.entry = entry, spec.stop = stop,
             spec.quantity \in Int, spec.quantity <= sizing.allowed
      PROVE  WithinBudget(c, spec)
  <2>1. spec.quantity * unit <= budget
    <3>1. spec.quantity <= budget \div unit
      BY <1>6, <1>8, <1>9
    <3> QED
      BY <1>4, <1>5, <1>9, <3>1, QuotientBounds
  <2>2. spec.quantity * c.product.margin.value <= free
    <3>1. spec.quantity <= free \div c.product.margin.value
      BY <1>7, <1>8, <1>9
    <3> QED
      BY <1>3, <1>4, <1>7, <1>8, <1>9, <3>1, QuotientBounds
  <2>3. spec.quantity * distance * c.product.multiplier.value * Risk!Denominator(c.policy)
          <= budget
    BY <1>2, <1>3, <1>4, <1>9, <2>1 DEF unit
  <2> QED
    BY <1>1, <1>2, <1>9, <2>2, <2>3 DEF WithinBudget, budget, free
<1> QED
  BY <1>8, <1>9

-----------------------------------------------------------------------------
(***************************************************************************)
(* The walk.                                                               *)
(***************************************************************************)

\* The positions of a walk are a sequence, and each is within the budget.
GoodPositions(c, ps) ==
    /\ IsLedger(ps)
    /\ \A k \in DOMAIN ps : /\ DOMAIN ps[k] = {"spec", "approval", "events"}
                            /\ WithinBudget(c, ps[k].spec)

GoodWalk(c, walk) ==
    /\ DOMAIN walk = {"decisions", "positions", "open", "error"}
    /\ GoodPositions(c, walk.positions)

\* A walk that differs in its trace, its open position or its error.
LEMMA SamePositions ==
    ASSUME NEW c, NEW walk, GoodWalk(c, walk), NEW x
    PROVE  /\ GoodWalk(c, [walk EXCEPT !.decisions = x])
           /\ GoodWalk(c, [walk EXCEPT !.open = x])
           /\ GoodWalk(c, [walk EXCEPT !.error = x])
BY DEF GoodWalk

\* Recording a decision and raising an error leave the positions alone.
LEMMA RecordGood ==
    ASSUME NEW c, NEW walk, GoodWalk(c, walk),
           NEW boundary, NEW outcome, NEW position, NEW direction, NEW code
    PROVE  /\ GoodWalk(c, Record(walk, boundary, outcome, position, direction))
           /\ Record(walk, boundary, outcome, position, direction).positions = walk.positions
           /\ GoodWalk(c, Raised(walk, code))
<1> DEFINE d == Append(walk.decisions, [asOf |-> boundary, outcome |-> outcome,
                                        position |-> position, direction |-> direction])
<1>1. Record(walk, boundary, outcome, position, direction) = [walk EXCEPT !.decisions = d]
  BY Zenon DEF Record
<1> HIDE DEF d
<1>2. [walk EXCEPT !.decisions = d].positions = walk.positions
  BY DEF GoodWalk
<1>3. GoodWalk(c, [walk EXCEPT !.decisions = d])
  BY SamePositions, Zenon
<1>4. GoodWalk(c, Raised(walk, code))
  BY SamePositions, Zenon DEF Raised
<1> QED
  BY <1>1, <1>2, <1>3, <1>4, Zenon

\* Freezing a ledger changes no specification.
LEMMA FrozenGood ==
    ASSUME NEW c, NEW walk, GoodWalk(c, walk), NEW position
    PROVE  GoodWalk(c, Frozen(walk, position))
<1> DEFINE ps == walk.positions
           n == Len(ps)
           e == position.events
           qs == [ps EXCEPT ![n].events = e]
<1>1. Frozen(walk, position) = [walk EXCEPT !.positions = qs]
  BY Zenon DEF Frozen
<1>2. PICK S : ps \in Seq(S)
  BY DEF GoodWalk, GoodPositions, IsLedger
<1>3. n \in Nat /\ DOMAIN ps = 1..n
  BY <1>2
<1>4. \A k \in DOMAIN ps : DOMAIN ps[k] = {"spec", "approval", "events"} /\ WithinBudget(c, ps[k].spec)
  BY DEF GoodWalk, GoodPositions
<1> HIDE DEF ps, n, e
<1>5. DOMAIN qs = DOMAIN ps
  OBVIOUS
<1>6. ASSUME NEW k \in DOMAIN ps
      PROVE  DOMAIN qs[k] = {"spec", "approval", "events"} /\ qs[k].spec = ps[k].spec
  <2>1. CASE k # n
    <3>1. qs[k] = ps[k]
      BY <2>1
    <3> HIDE DEF qs
    <3> QED
      BY <1>4, <3>1
  <2>2. CASE k = n
    <3>1. qs[k] = [ps[k] EXCEPT !.events = e]
      BY <2>2
    <3> QED
      BY <1>4, <3>1
  <2> QED
    BY <2>1, <2>2
<1>7. IsLedger(qs)
  <2> DEFINE T == {qs[k] : k \in 1..n}
  <2>1. qs \in [1..n -> T]
    BY <1>3, <1>5
  <2>2. qs \in Seq(T)
    <3> HIDE DEF qs, T
    <3> QED
      BY <1>3, <2>1
  <2> QED
    BY <2>2 DEF IsLedger
<1> HIDE DEF qs
<1>8. GoodPositions(c, qs)
  BY <1>4, <1>5, <1>6, <1>7 DEF GoodPositions
<1> QED
  BY <1>1, <1>8 DEF GoodWalk

\* A position that ends, or stays open, changes no specification.
LEMMA SettledGood ==
    ASSUME NEW c, NEW walk, GoodWalk(c, walk), NEW position
    PROVE  GoodWalk(c, Settled(walk, position))
BY FrozenGood, SamePositions DEF Settled

\* An accepted position joins the others with the specification it was sized by.
LEMMA OpenedGood ==
    ASSUME NEW c, NEW walk, GoodWalk(c, walk), NEW boundary, NEW spec, WithinBudget(c, spec),
           NEW allowed, NEW product
    PROVE  GoodWalk(c, Opened(walk, boundary, spec, allowed, product))
<1> DEFINE tick == Risk!Authoritative(product.tick)
           onGrid == tick # None => /\ Risk!OnGrid(spec.stop, tick)
                                    /\ Risk!OnGrid(spec.targets[1].price, tick)
           opened == OpenPosition(spec, allowed, TRUE, onGrid)
           noted == Record(walk, boundary, "ENTERED", Len(walk.positions) + 1, spec.direction)
           p == [spec |-> spec, approval |-> allowed, events |-> opened.position.events]
           qs == Append(walk.positions, p)
           grown == [noted EXCEPT !.open = opened.position, !.positions = qs]
<1> HIDE DEF tick
<1>1. \/ Opened(walk, boundary, spec, allowed, product)
           = Record(walk, boundary, "REFUSED_BY_ENGINE", None, spec.direction)
      \/ Opened(walk, boundary, spec, allowed, product) = Raised(walk, "RESOURCE_LIMIT")
      \/ Opened(walk, boundary, spec, allowed, product)
           = [noted EXCEPT !.open = opened.position, !.positions = Append(@, p)]
  BY Zenon DEF Opened, tick
<1>2. DOMAIN p = {"spec", "approval", "events"} /\ p.spec = spec
  OBVIOUS
<1> HIDE DEF opened, noted, p
<1>3. GoodWalk(c, noted) /\ noted.positions = walk.positions
  BY RecordGood DEF noted
<1>4. [noted EXCEPT !.open = opened.position, !.positions = Append(@, p)] = grown
  BY <1>3 DEF GoodWalk
<1>5. GoodPositions(c, qs)
  <2> DEFINE ps == walk.positions
  <2>1. IsLedger(ps) /\ \A k \in DOMAIN ps : /\ DOMAIN ps[k] = {"spec", "approval", "events"}
                                             /\ WithinBudget(c, ps[k].spec)
    BY DEF GoodWalk, GoodPositions
  <2>2. IsLedger(qs)
    BY <2>1, AppendToLedger
  <2>3. PICK S : ps \in Seq(S)
    BY <2>1 DEF IsLedger
  <2> HIDE DEF ps
  <2>4. /\ DOMAIN Append(ps, p) = 1..(Len(ps) + 1) /\ DOMAIN ps = 1..Len(ps) /\ Len(ps) \in Nat
        /\ \A k \in DOMAIN ps : Append(ps, p)[k] = ps[k]
        /\ Append(ps, p)[Len(ps) + 1] = p
    BY <2>3
  <2>5. ASSUME NEW k \in DOMAIN Append(ps, p)
        PROVE  /\ DOMAIN Append(ps, p)[k] = {"spec", "approval", "events"}
               /\ WithinBudget(c, Append(ps, p)[k].spec)
    <3>1. k \in DOMAIN ps \/ k = Len(ps) + 1
      BY <2>4
    <3>2. CASE k \in DOMAIN ps
      BY <2>1, <2>4, <3>2
    <3>3. CASE k = Len(ps) + 1
      BY <1>2, <2>4, <3>3
    <3> QED
      BY <3>1, <3>2, <3>3
  <2> QED
    BY <2>2, <2>5 DEF GoodPositions, ps
<1> HIDE DEF qs
<1>6. GoodWalk(c, grown)
  <2>1. DOMAIN grown = DOMAIN noted /\ grown.positions = qs
    BY <1>3 DEF GoodWalk
  <2> HIDE DEF grown
  <2> QED
    BY <1>3, <1>5, <2>1 DEF GoodWalk
<1>7. /\ GoodWalk(c, Record(walk, boundary, "REFUSED_BY_ENGINE", None, spec.direction))
      /\ GoodWalk(c, Raised(walk, "RESOURCE_LIMIT"))
  BY RecordGood, Zenon
<1> HIDE DEF grown
<1> QED
  BY <1>1, <1>4, <1>6, <1>7, Zenon

\* Levels of integers stay integers, whatever the grid.
LEMMA AlignedType ==
    ASSUME NEW intent, DOMAIN intent = {"direction", "entry", "quantity", "stop", "target"},
           intent.entry \in Int, intent.stop \in Int, intent.quantity \in Int,
           NEW product, product.tick.value \in Int, product.tick.value > 0
    PROVE  LET aligned == Aligned(intent, product)
           IN  /\ aligned.entry \in Int /\ aligned.stop \in Int /\ aligned.quantity \in Int
<1> DEFINE tick == product.tick.value
           aligned == Aligned(intent, product)
<1>1. CASE Risk!Authoritative(product.tick) = None
  <2>1. aligned = intent
    BY <1>1 DEF Aligned
  <2> QED
    BY <2>1
<1>2. CASE Risk!Authoritative(product.tick) # None
  <2>1. aligned = AlignIntent(intent, tick)
    BY <1>2 DEF Aligned, Risk!Authoritative
  <2> DEFINE stop == AwayFrom(intent.entry, intent.stop, tick)
             target == AwayFrom(intent.entry, intent.target, tick)
  <2>2. stop \in Int
    <3>1. intent.stop % tick \in Int
      OBVIOUS
    <3> QED
      BY <3>1 DEF AwayFrom
  <2>3. aligned = [intent EXCEPT !.stop = stop, !.target = target]
    BY <2>1, Zenon DEF AlignIntent
  <2> HIDE DEF stop, target, aligned
  <2>4. aligned.entry = intent.entry /\ aligned.stop = stop
          /\ aligned.quantity = intent.quantity
    BY <2>3
  <2> QED
    BY <2>2, <2>4 DEF aligned
<1> QED
  BY <1>1, <1>2

\* An entry the rule proposes has whole levels and a whole quantity.
LEMMA DecideType ==
    ASSUME NEW c, Runnable(c), NEW i \in DOMAIN c.dataset.bars, NEW holding,
           Decide(c, i, holding).kind = "ENTRY_INTENT"
    PROVE  LET intent == Decide(c, i, holding).entry
           IN  /\ DOMAIN intent = {"direction", "entry", "quantity", "stop", "target"}
               /\ intent.entry \in Int /\ intent.stop \in Int /\ intent.quantity \in Int
<1> DEFINE s == c.strategy
           current == c.dataset.readings[i]
           previous == IF i > 1 THEN c.dataset.readings[i - 1] ELSE NoReadings
           crossed == Crossing(previous, current)
           close == c.dataset.bars[i].close
           intent == EntryIntent(s, crossed, close, current.atr)
           decided == Decide(c, i, holding)
<1>1. /\ close \in Int /\ current.atr \in Int \cup {None}
      /\ s.stopMultiple \in Int /\ s.quantity \in Int
  <2>1. /\ c.dataset.bars \in Seq(Bar)
        /\ \A j \in DOMAIN c.dataset.bars : c.dataset.readings[j].atr \in Int \cup {None}
    BY DEF Runnable, ValidConfig, ValidDataset
  <2>2. c.dataset.bars[i] \in Bar
    BY <2>1
  <2>3. {s.stopMultiple, s.targetMultiple, s.quantity} \subseteq Int
    BY DEF Runnable, ValidConfig
  <2> QED
    BY <2>1, <2>2, <2>3 DEF Bar
<1>2. /\ Said("WAIT").kind # "ENTRY_INTENT"
      /\ Said("NO_SIGNAL").kind # "ENTRY_INTENT"
      /\ Said("EXIT_INTENT").kind # "ENTRY_INTENT"
  BY DEF Said
<1>3. decided = [kind |-> "ENTRY_INTENT", entry |-> intent] /\ Usable(current, s)
  <2> HIDE DEF s, current, previous, crossed, intent
  <2>1. \/ decided \in {Said("WAIT"), Said("NO_SIGNAL"), Said("EXIT_INTENT")}
        \/ decided = [kind |-> "ENTRY_INTENT", entry |-> intent] /\ Usable(current, s)
    BY DEF Decide, s, current, previous, crossed, intent
  <2> QED
    BY <1>2, <2>1
<1>4. current.atr \in Int
  BY <1>1, <1>3 DEF Usable
<1> HIDE DEF decided, s, current, close, crossed
<1>5. /\ DOMAIN intent = {"direction", "entry", "quantity", "stop", "target"}
      /\ intent.entry = close /\ intent.quantity = s.quantity
      /\ intent.stop = close - (IF crossed = "LONG" THEN 1 ELSE -1) * current.atr * s.stopMultiple
  BY DEF EntryIntent
<1>6. intent.stop \in Int
  <2> DEFINE side == IF crossed = "LONG" THEN 1 ELSE -1
  <2>1. side \in Int
    OBVIOUS
  <2> HIDE DEF side, intent
  <2>2. intent.stop = close - side * current.atr * s.stopMultiple
    BY <1>5 DEF side
  <2>3. side * current.atr \in Int
    BY <1>4, <2>1
  <2>4. side * current.atr * s.stopMultiple \in Int
    BY <1>1, <2>3
  <2> QED
    BY <1>1, <2>2, <2>4
<1> HIDE DEF intent
<1>7. decided.entry = intent
  BY <1>3
<1> QED
  BY <1>1, <1>5, <1>6, <1>7 DEF decided

\* grid, then risk, then the engine: what is entered is within the budget
LEMMA AttemptGood ==
    ASSUME NEW c, Runnable(c), NEW walk, GoodWalk(c, walk), NEW boundary, NEW proposed,
           DOMAIN proposed = {"direction", "entry", "quantity", "stop", "target"},
           proposed.entry \in Int, proposed.stop \in Int, proposed.quantity \in Int
    PROVE  GoodWalk(c, AttemptEntry(walk, c, boundary, proposed))
<1> DEFINE intent == Aligned(proposed, c.product)
           sizing == Risk!SizeForProduct(intent.direction, intent.entry, intent.stop,
                                         c.product, c.account, c.policy)
           units == Least(intent.quantity, sizing.allowed)
           spec == SpecOf(c, intent, units, boundary)
           next == AttemptEntry(walk, c, boundary, proposed)
<1>1. /\ intent.entry \in Int /\ intent.stop \in Int /\ intent.quantity \in Int
  <2>1. c.product.tick.value \in Int /\ c.product.tick.value > 0
    BY DEF Runnable, ValidConfig, ValidProduct, Risk!ValidContract
  <2> QED
    BY <2>1, AlignedType
<1>2. \/ next = Raised(walk, "INTERNAL_ERROR")
      \/ next = Record(walk, boundary, "REFUSED_BY_RISK", None, intent.direction)
      \/ /\ sizing.outcome = "ALLOWED"
         /\ next = Opened(walk, boundary, spec, sizing.allowed, c.product)
  BY Zenon DEF AttemptEntry
<1> HIDE DEF next, intent
<1>3. ASSUME sizing.outcome = "ALLOWED" PROVE WithinBudget(c, spec)
  <2>1. sizing.allowed \in Int
    BY <1>1, <1>3, SizedWithin
  <2>2. units \in Int /\ units <= sizing.allowed
    <3> HIDE DEF sizing
    <3> QED
      BY <1>1, <2>1 DEF Least
  <2> HIDE DEF units
  <2>3. /\ spec.direction = intent.direction /\ spec.entry = intent.entry
        /\ spec.stop = intent.stop /\ spec.quantity = units
    BY DEF SpecOf
  <2> HIDE DEF spec
  <2> QED
    BY <1>1, <1>3, <2>2, <2>3, SizedWithin
<1> HIDE DEF spec, sizing
<1>4. GoodWalk(c, next)
  <2>1. CASE /\ sizing.outcome = "ALLOWED"
             /\ next = Opened(walk, boundary, spec, sizing.allowed, c.product)
    BY <1>3, <2>1, OpenedGood, Zenon
  <2>2. CASE next = Raised(walk, "INTERNAL_ERROR")
    BY <2>2, RecordGood, Zenon
  <2>3. CASE next = Record(walk, boundary, "REFUSED_BY_RISK", None, intent.direction)
    BY <2>3, RecordGood, Zenon
  <2> QED
    BY <1>2, <2>1, <2>2, <2>3
<1> QED
  BY <1>4 DEF next

\* One boundary: the bar, then the decision.
LEMMA VisitGood ==
    ASSUME NEW c, Runnable(c), NEW i \in DOMAIN c.dataset.bars, NEW walk, GoodWalk(c, walk)
    PROVE  GoodWalk(c, Visit(walk, c, i))
<1> DEFINE bar == c.dataset.bars[i]
           given == GiveBar(walk, bar)
           boundary == CoverageEnd(bar)
           holding == given.open # None
           decision == Decide(c, i, holding)
           next == Visit(walk, c, i)
<1>1. GoodWalk(c, given)
  <2> DEFINE g == ApplyObservation(walk.open, bar)
  <2>1. \/ given = walk
        \/ given = Raised(walk, g.code)
        \/ given = Settled(walk, g.position)
    BY Zenon DEF GiveBar
  <2> HIDE DEF given, g
  <2> QED
    BY <2>1, RecordGood, SettledGood, Zenon
<1>2. \/ next \in {walk, given}
      \/ next = HandleOpen(given, boundary, decision)
      \/ next = HandleFlat(given, c, boundary, decision)
  BY Zenon DEF Visit, Handled
<1> HIDE DEF next, given, boundary
<1>3. GoodWalk(c, HandleOpen(given, boundary, decision))
  <2> HIDE DEF decision
  <2> DEFINE asks == decision.kind = "EXIT_INTENT" /\ ~given.open.closePending
             outcome == IF asks THEN "EXIT_REQUESTED" ELSE "HOLDING"
             noted == Record(given, boundary, outcome, Len(given.positions), None)
             closing == RequestClose(given.open)
             answered == HandleOpen(given, boundary, decision)
  <2>1. \/ answered = noted
        \/ answered = Raised(given, closing.code)
        \/ answered = Settled(noted, closing.position)
    BY Zenon DEF HandleOpen
  <2> HIDE DEF outcome, closing
  <2>2. GoodWalk(c, noted)
    BY <1>1, RecordGood, Zenon
  <2> HIDE DEF noted, answered
  <2>3. GoodWalk(c, answered)
    BY <1>1, <2>1, <2>2, RecordGood, SettledGood, Zenon
  <2> QED
    BY <2>3 DEF answered
<1>4. GoodWalk(c, HandleFlat(given, c, boundary, decision))
  <2> DEFINE answered == HandleFlat(given, c, boundary, decision)
  <2>1. \/ answered = Record(given, boundary, "WAIT", None, None)
        \/ answered = Record(given, boundary, "NO_SIGNAL", None, None)
        \/ /\ decision.kind = "ENTRY_INTENT"
           /\ answered = AttemptEntry(given, c, boundary, decision.entry)
    BY Zenon DEF HandleFlat
  <2> HIDE DEF answered, holding
  <2>2. ASSUME decision.kind = "ENTRY_INTENT"
        PROVE  GoodWalk(c, AttemptEntry(given, c, boundary, decision.entry))
    <3> DEFINE intent == decision.entry
    <3>1. /\ DOMAIN intent = {"direction", "entry", "quantity", "stop", "target"}
          /\ intent.entry \in Int /\ intent.stop \in Int /\ intent.quantity \in Int
      BY <2>2, DecideType
    <3> HIDE DEF intent
    <3>2. GoodWalk(c, AttemptEntry(given, c, boundary, intent))
      BY <1>1, <3>1, AttemptGood
    <3> QED
      BY <3>2 DEF intent
  <2> HIDE DEF decision
  <2>3. GoodWalk(c, answered)
    BY <1>1, <2>1, <2>2, RecordGood, Zenon
  <2> QED
    BY <2>3 DEF answered
<1> HIDE DEF decision
<1>5. GoodWalk(c, next)
  BY <1>1, <1>2, <1>3, <1>4, Zenon
<1> QED
  BY <1>5 DEF next

\* What one bar of the dataset does to a walk.
Stepped(walk, c, i) == IF i \in Boundaries(c) THEN Visit(walk, c, i) ELSE walk

\* f records the walk over the first n bars.
IsWalk(f, c, n) ==
    /\ f = [i \in 0..n |-> f[i]]
    /\ f[0] = StartOfWalk
    /\ \A i \in 1..n : f[i] = Stepped(f[i - 1], c, i)

\* The recursive function of Walk is defined, for a dataset of any length.
LEMMA WalkExists ==
    ASSUME NEW c
    PROVE  \A n \in Nat : \E f : IsWalk(f, c, n)
<1> DEFINE S == {n \in Nat : \E f : IsWalk(f, c, n)}
<1>1. 0 \in S
  <2> DEFINE f == [i \in 0..0 |-> StartOfWalk]
  <2>1. IsWalk(f, c, 0)
    BY DEF IsWalk
  <2> QED
    BY <2>1
<1>2. ASSUME NEW n \in Nat, n \in S
      PROVE  n + 1 \in S
  <2>1. PICK f : IsWalk(f, c, n)
    BY <1>2
  <2> DEFINE g == [i \in 0..(n + 1) |-> IF i = n + 1 THEN Stepped(f[n], c, n + 1) ELSE f[i]]
  <2>2. f[0] = StartOfWalk /\ \A i \in 1..n : f[i] = Stepped(f[i - 1], c, i)
    BY <2>1, Zenon DEF IsWalk
  <2>3. g[n + 1] = Stepped(f[n], c, n + 1) /\ \A i \in 0..n : g[i] = f[i]
    OBVIOUS
  <2>4. g = [i \in 0..(n + 1) |-> g[i]]
    OBVIOUS
  <2> HIDE DEF g
  <2>5. g[0] = StartOfWalk
    BY <2>2, <2>3
  <2>6. ASSUME NEW i \in 1..(n + 1)
        PROVE  g[i] = Stepped(g[i - 1], c, i)
    <3>1. i - 1 \in 0..n /\ (i = n + 1 \/ i \in 1..n)
      OBVIOUS
    <3>2. g[i - 1] = f[i - 1]
      BY <2>3, <3>1
    <3>3. CASE i = n + 1
      BY <2>3, <3>2, <3>3
    <3>4. CASE i \in 1..n
      <4>1. f[i] = Stepped(f[i - 1], c, i) /\ i \in 0..n
        BY <2>2, <3>4
      <4> QED
        BY <2>3, <3>2, <4>1
    <3> QED
      BY <3>1, <3>3, <3>4
  <2>7. IsWalk(g, c, n + 1)
    BY <2>4, <2>5, <2>6, Zenon DEF IsWalk
  <2> QED
    BY <2>7
<1> HIDE DEF S
<1>3. \A n \in Nat : n \in S
  BY <1>1, <1>2, SetInduction
<1> QED
  BY <1>3 DEF S

\* What Walk returns is the last entry of that record.
LEMMA WalkFunction ==
    ASSUME NEW c, Len(c.dataset.bars) \in Nat
    PROVE  \E f : IsWalk(f, c, Len(c.dataset.bars)) /\ Walk(c) = f[Len(c.dataset.bars)]
<1> DEFINE n == Len(c.dataset.bars)
           Body(f) == [i \in 0..n |-> IF i = 0 THEN StartOfWalk ELSE Stepped(f[i - 1], c, i)]
           a == CHOOSE f : f = Body(f)
<1>1. PICK f : IsWalk(f, c, n)
  BY WalkExists
<1>2. f = Body(f)
  <2>1. \A i \in 0..n : f[i] = Body(f)[i]
    <3>1. f[0] = StartOfWalk /\ \A i \in 1..n : f[i] = Stepped(f[i - 1], c, i)
      BY <1>1, Zenon DEF IsWalk
    <3> QED
      BY <3>1
  <2>2. f = [i \in 0..n |-> f[i]]
    BY <1>1, Zenon DEF IsWalk
  <2>3. Body(f) = [i \in 0..n |-> Body(f)[i]]
    OBVIOUS
  <2> HIDE DEF Body
  <2> QED
    BY <2>1, <2>2, <2>3, Zenon
<1>3. a = Body(a)
  <2> HIDE DEF Body
  <2> QED
    BY <1>2
<1>4. IsWalk(a, c, n)
  <2> HIDE DEF a
  <2>1. a = [i \in 0..n |-> a[i]]
    <3>1. Body(a) = [i \in 0..n |-> Body(a)[i]]
      OBVIOUS
    <3> HIDE DEF Body
    <3> QED
      BY <1>3, <3>1
  <2>2. \A i \in 0..n : a[i] = Body(a)[i]
    <3> HIDE DEF Body
    <3> QED
      BY <1>3
  <2>3. a[0] = StartOfWalk /\ \A i \in 1..n : a[i] = Stepped(a[i - 1], c, i)
    <3>1. 0 \in 0..n /\ \A i \in 1..n : i \in 0..n /\ i # 0
      OBVIOUS
    <3>2. \A i \in 0..n : a[i] = IF i = 0 THEN StartOfWalk ELSE Stepped(a[i - 1], c, i)
      BY <2>2
    <3> QED
      BY <3>1, <3>2
  <2> QED
    BY <2>1, <2>3, Zenon DEF IsWalk
<1>5. Walk(c) = a[n]
  BY DEF Walk, Stepped
<1> QED
  BY <1>4, <1>5

\* _evaluate sizes everything it enters.
LEMMA EvaluateGood ==
    ASSUME NEW c, Runnable(c)
    PROVE  GoodWalk(c, Evaluate(c))
<1> DEFINE bars == c.dataset.bars
           n == Len(bars)
<1>1. bars \in Seq(Bar) /\ n \in Nat /\ DOMAIN bars = 1..n
  BY DEF Runnable, ValidConfig, ValidDataset
<1>2. GoodWalk(c, StartOfWalk)
  <2>1. /\ StartOfWalk.positions = <<>>
        /\ DOMAIN StartOfWalk = {"decisions", "positions", "open", "error"}
    BY DEF StartOfWalk
  <2>2. GoodPositions(c, <<>>)
    BY DEF GoodPositions, IsLedger
  <2> QED
    BY <2>1, <2>2 DEF GoodWalk
<1>3. PICK f : IsWalk(f, c, n) /\ Walk(c) = f[n]
  BY <1>1, WalkFunction
<1>4. f[0] = StartOfWalk /\ \A i \in 1..n : f[i] = Stepped(f[i - 1], c, i)
  BY <1>3, Zenon DEF IsWalk
<1> DEFINE S == {k \in Nat : k <= n => GoodWalk(c, f[k])}
<1>5. 0 \in S
  BY <1>2, <1>4
<1>6. ASSUME NEW k \in Nat, k \in S PROVE k + 1 \in S
  <2> SUFFICES ASSUME k + 1 <= n PROVE GoodWalk(c, f[k + 1])
    OBVIOUS
  <2>1. k + 1 \in 1..n /\ k <= n /\ (k + 1) - 1 = k
    BY <1>1
  <2>2. GoodWalk(c, f[k])
    BY <1>6, <2>1
  <2>3. f[k + 1] = Stepped(f[k], c, k + 1)
    BY <1>4, <2>1
  <2> DEFINE i == k + 1
  <2>4. i \in DOMAIN bars
    BY <1>1, <2>1
  <2> HIDE DEF i
  <2>5. GoodWalk(c, Visit(f[k], c, i))
    BY <2>2, <2>4, VisitGood
  <2>6. GoodWalk(c, Stepped(f[k], c, i))
    BY <2>2, <2>5, Zenon DEF Stepped
  <2> QED
    BY <2>3, <2>6 DEF i
<1>7. GoodWalk(c, Walk(c))
  <2> HIDE DEF S, n
  <2>1. n \in S
    BY <1>1, <1>5, <1>6, SetInduction
  <2> QED
    BY <1>1, <1>3, <2>1 DEF S
<1>8. GoodWalk(c, Ended(Walk(c)))
  BY <1>7, FrozenGood, Zenon DEF Ended
<1>9. /\ GoodWalk(c, Raised(StartOfWalk, "INTERVAL_EMPTY"))
      /\ GoodWalk(c, Raised(StartOfWalk, "RESOURCE_LIMIT"))
  BY <1>2, RecordGood, Zenon
<1> QED
  BY <1>8, <1>9, Zenon DEF Evaluate

-----------------------------------------------------------------------------
(***************************************************************************)
(* The runs: what every actor may rely on at its program counter.          *)
(***************************************************************************)
Held == {"pc", "key", "walk", "code", "answer"}

\* A worker past validation has a runnable configuration; once it created its
\* run the row carries that configuration; what it publishes is a good walk.
WorkerOk(x, r, d) ==
    /\ DOMAIN x = Held
    /\ x.pc \notin {"validate", "done"} => Refusal(r.config) = OK
    /\ x.pc \in {"evaluate", "to publish", "publish", "to fail", "fail"}
          => r.key \in DOMAIN d /\ d[r.key].config = r.config
    /\ x.pc \in {"to publish", "publish"} => GoodWalk(r.config, x.walk)

\* Whoever abandons a run chose one that is stored.
AbandonerOk(x, d) ==
    /\ DOMAIN x = Held
    /\ x.pc \in {"choose", "to fail", "fail", "done"}
    /\ x.pc \in {"to fail", "fail"} => x.key \in DOMAIN d

\* A row: its status, and the positions of its result within its own budget.
RowOk(row) ==
    /\ DOMAIN row = {"config", "status", "failure", "result"}
    /\ row.status \in {"PENDING", "FAILED", "COMPLETED"}
    /\ row.result # None =>
          \A k \in DOMAIN row.result.positions : WithinBudget(row.config, row.result.positions[k].spec)

RunInv ==
    /\ asked \in Scenarios
    /\ DOMAIN work = Workers \cup Abandoners
    /\ \A w \in Workers : WorkerOk(work[w], asked[w], db)
    /\ \A a \in Abandoners : AbandonerOk(work[a], db)
    /\ \A key \in DOMAIN db : RowOk(db[key])

\* No run is removed, and none changes its configuration.
Keeps(d, e) == DOMAIN d \subseteq DOMAIN e /\ \A k \in DOMAIN d : e[k].config = d[k].config

\* What run accepted can be evaluated.
LEMMA AcceptedRunnable ==
    ASSUME NEW c, ValidConfig(c), Refusal(c) = OK
    PROVE  Runnable(c)
<1>1. /\ "DATASET_NOT_FOUND" # OK /\ "PRODUCT_METADATA_UNAVAILABLE" # OK
      /\ "STRATEGY_UNSUPPORTED" # OK /\ "DRIVER_TIMEFRAME_MISSING" # OK
  BY DEF OK
<1>2. c.dataset # None /\ c.product # None
  BY <1>1 DEF Refusal
<1> QED
  BY <1>2 DEF Runnable

\* One actor moves, and the table only grows: everybody else is undisturbed.
LEMMA ActorMoves ==
    ASSUME RunInv, asked' = asked, NEW d, d = db', Keeps(db, d),
           NEW a \in Workers \cup Abandoners, NEW x, work' = [work EXCEPT ![a] = x],
           a \in Workers => WorkerOk(x, asked[a], d),
           a \in Abandoners => AbandonerOk(x, d),
           \A key \in DOMAIN d : RowOk(d[key])
    PROVE  RunInv'
<1>1. /\ DOMAIN work' = Workers \cup Abandoners /\ work'[a] = x
      /\ \A b \in Workers \cup Abandoners : b # a => work'[b] = work[b]
  BY DEF RunInv
<1>2. ASSUME NEW w \in Workers PROVE WorkerOk(work'[w], asked[w], d)
  <2>1. CASE w = a
    BY <1>1, <2>1
  <2>2. CASE w # a
    <3>1. WorkerOk(work[w], asked[w], db) /\ work'[w] = work[w]
      BY <1>1, <2>2 DEF RunInv
    <3>2. WorkerOk(work[w], asked[w], d)
      BY <3>1 DEF WorkerOk, Keeps
    <3> QED
      BY <3>1, <3>2
  <2> QED
    BY <2>1, <2>2
<1>3. ASSUME NEW b \in Abandoners PROVE AbandonerOk(work'[b], d)
  <2>1. CASE b = a
    BY <1>1, <2>1
  <2>2. CASE b # a
    <3>1. AbandonerOk(work[b], db) /\ work'[b] = work[b]
      BY <1>1, <2>2 DEF RunInv
    <3>2. AbandonerOk(work[b], d)
      BY <3>1 DEF AbandonerOk, Keeps
    <3> QED
      BY <3>1, <3>2
  <2> QED
    BY <2>1, <2>2
<1> QED
  BY <1>1, <1>2, <1>3 DEF RunInv

\* What an answer and a step of the program counter leave in the actor.
LEMMA Moved ==
    ASSUME NEW x, DOMAIN x = Held, NEW pc, NEW code, NEW row
    PROVE  /\ DOMAIN [x EXCEPT !.pc = pc] = Held /\ [x EXCEPT !.pc = pc].pc = pc
           /\ [x EXCEPT !.pc = pc].walk = x.walk /\ [x EXCEPT !.pc = pc].key = x.key
           /\ DOMAIN [x EXCEPT !.pc = "done", !.code = code, !.answer = row] = Held
           /\ [x EXCEPT !.pc = "done", !.code = code, !.answer = row].pc = "done"
BY DEF Held

\* An answer disturbs nobody.
LEMMA AnswerKeeps ==
    ASSUME RunInv, asked' = asked, NEW d, d = db', Keeps(db, d),
           \A key \in DOMAIN d : RowOk(d[key]),
           NEW a \in Workers \cup Abandoners, NEW code, NEW row, Answer(a, code, row)
    PROVE  RunInv'
<1> DEFINE x == [work[a] EXCEPT !.pc = "done", !.code = code, !.answer = row]
<1>1. DOMAIN work[a] = Held
  BY DEF RunInv, WorkerOk, AbandonerOk
<1>2. DOMAIN x = Held /\ x.pc = "done"
  BY <1>1, Moved
<1>3. work' = [work EXCEPT ![a] = x]
  BY Zenon DEF Answer
<1> HIDE DEF x
<1>4. WorkerOk(x, asked[a], d) /\ AbandonerOk(x, d)
  BY <1>2 DEF WorkerOk, AbandonerOk
<1> QED
  BY <1>3, <1>4, ActorMoves

\* A step of the program counter that the worker is ready for.
LEMMA GotoKeeps ==
    ASSUME RunInv, asked' = asked, NEW d, d = db', Keeps(db, d),
           \A key \in DOMAIN d : RowOk(d[key]),
           NEW a \in Workers \cup Abandoners, NEW pc, Goto(a, pc),
           a \in Workers => WorkerOk([work[a] EXCEPT !.pc = pc], asked[a], d),
           a \in Abandoners => AbandonerOk([work[a] EXCEPT !.pc = pc], d)
    PROVE  RunInv'
<1> DEFINE x == [work[a] EXCEPT !.pc = pc]
<1>1. work' = [work EXCEPT ![a] = x]
  BY Zenon DEF Goto
<1> HIDE DEF x
<1>2. /\ a \in Workers => WorkerOk(x, asked[a], d)
      /\ a \in Abandoners => AbandonerOk(x, d)
  BY DEF x
<1> QED
  BY <1>1, <1>2, ActorMoves

\* A step that leaves the table alone.
LEMMA SameTable ==
    ASSUME RunInv, db' = db
    PROVE  Keeps(db, db') /\ \A key \in DOMAIN db' : RowOk(db'[key])
BY DEF RunInv, Keeps

\* The rows after one of them changed its status, its failure or its result.
LEMMA RowChanges ==
    ASSUME RunInv, NEW key \in DOMAIN db, NEW row, RowOk(row), row.config = db[key].config
    PROVE  /\ Keeps(db, [db EXCEPT ![key] = row])
           /\ \A k \in DOMAIN [db EXCEPT ![key] = row] : RowOk([db EXCEPT ![key] = row][k])
BY DEF RunInv, Keeps

\* The requests stay what the scenario says.
LEMMA AskedValid ==
    ASSUME RunInv, NEW w \in Workers
    PROVE  ValidConfig(asked[w].config) /\ w \notin Abandoners
BY BacktestBounds DEF RunInv

\* Initially nobody moved and nothing is stored.
LEMMA RunInit ==
    ASSUME Init
    PROVE  RunInv
<1>1. DOMAIN work = Workers \cup Abandoners /\ db = [key \in {} |-> None] /\ asked \in Scenarios
  BY DEF Init
<1>2. ASSUME NEW w \in Workers PROVE WorkerOk(work[w], asked[w], db)
  <2>1. work[w] = Idle("validate")
    BY DEF Init
  <2>2. DOMAIN Idle("validate") = Held /\ Idle("validate").pc = "validate"
    BY DEF Idle, Held
  <2> QED
    BY <2>1, <2>2 DEF WorkerOk
<1>3. ASSUME NEW a \in Abandoners PROVE AbandonerOk(work[a], db)
  <2>1. a \notin Workers /\ work[a] = Idle("choose")
    BY BacktestBounds DEF Init
  <2>2. DOMAIN Idle("choose") = Held /\ Idle("choose").pc = "choose"
    BY DEF Idle, Held
  <2> QED
    BY <2>1, <2>2 DEF AbandonerOk
<1>4. \A key \in DOMAIN db : RowOk(db[key])
  BY <1>1
<1> QED
  BY <1>1, <1>2, <1>3, <1>4 DEF RunInv

\* What the operations of run before the walk keep.
LEMMA RequestSteps ==
    ASSUME RunInv, NEW w \in Workers,
           Validate(w) \/ FindByAttempt(w) \/ CreateRun(w) \/ FindWinner(w)
    PROVE  RunInv'
<1> DEFINE config == asked[w].config
           key == asked[w].key
<1>1. WorkerOk(work[w], asked[w], db) /\ DOMAIN work[w] = Held
  BY DEF RunInv, WorkerOk
<1>2. ASSUME NEW pc
      PROVE  DOMAIN [work[w] EXCEPT !.pc = pc] = Held /\ [work[w] EXCEPT !.pc = pc].pc = pc
  BY <1>1, Moved
<1>3. w \notin Abandoners
  BY AskedValid
<1>4. CASE Validate(w)
  <2>1. asked' = asked /\ db' = db
    BY <1>4 DEF Validate
  <2>2. Keeps(db, db') /\ \A k \in DOMAIN db' : RowOk(db'[k])
    BY <2>1, SameTable
  <2>3. CASE Refusal(config) = OK
    <3>1. Goto(w, "find")
      BY <1>4, <2>3 DEF Validate
    <3>2. WorkerOk([work[w] EXCEPT !.pc = "find"], asked[w], db')
      BY <1>2, <2>3 DEF WorkerOk
    <3> QED
      BY <1>3, <2>1, <2>2, <3>1, <3>2, GotoKeeps
  <2>4. CASE Refusal(config) # OK
    <3>1. Answer(w, Refusal(config), None)
      BY <1>4, <2>4 DEF Validate
    <3> QED
      BY <2>1, <2>2, <3>1, AnswerKeeps
  <2> QED
    BY <2>3, <2>4
<1>5. CASE FindByAttempt(w)
  <2>1. asked' = asked /\ db' = db /\ work[w].pc = "find"
    BY <1>5 DEF FindByAttempt
  <2>2. Keeps(db, db') /\ \A k \in DOMAIN db' : RowOk(db'[k])
    BY <2>1, SameTable
  <2>3. Goto(w, "create") \/ Answer(w, "ATTEMPT_KEY_REUSED", None) \/ Answer(w, OK, db[key])
    BY <1>5, Zenon DEF FindByAttempt
  <2>4. CASE Goto(w, "create")
    <3>1. WorkerOk([work[w] EXCEPT !.pc = "create"], asked[w], db')
      BY <1>1, <1>2, <2>1 DEF WorkerOk
    <3> QED
      BY <1>3, <2>1, <2>2, <2>4, <3>1, GotoKeeps
  <2>5. CASE Answer(w, "ATTEMPT_KEY_REUSED", None)
    BY <2>1, <2>2, <2>5, AnswerKeeps
  <2>6. CASE Answer(w, OK, db[key])
    BY <2>1, <2>2, <2>6, AnswerKeeps
  <2> QED
    BY <2>3, <2>4, <2>5, <2>6
<1>6. CASE CreateRun(w)
  <2>1. asked' = asked /\ work[w].pc = "create"
    BY <1>6 DEF CreateRun
  <2>2. CASE key \notin DOMAIN db
    <3> DEFINE row == PendingRun(config)
    <3>1. db' = Extended(db, key, row) /\ Goto(w, "evaluate")
      BY <1>6, <2>2 DEF CreateRun, Stored
    <3>2. RowOk(row) /\ row.config = config
      BY DEF RowOk, PendingRun
    <3> HIDE DEF row
    <3>3. /\ DOMAIN db' = DOMAIN db \cup {key} /\ db'[key] = row
          /\ \A k \in DOMAIN db : db'[k] = db[k]
      BY <2>2, <3>1 DEF Extended
    <3>4. Keeps(db, db') /\ \A k \in DOMAIN db' : RowOk(db'[k])
      BY <3>2, <3>3 DEF Keeps, RunInv
    <3>5. WorkerOk([work[w] EXCEPT !.pc = "evaluate"], asked[w], db')
      BY <1>1, <1>2, <2>1, <3>2, <3>3 DEF WorkerOk
    <3> QED
      BY <1>3, <2>1, <3>1, <3>4, <3>5, GotoKeeps
  <2>3. CASE key \in DOMAIN db
    <3>1. db' = db /\ Goto(w, "winner")
      BY <1>6, <2>3 DEF CreateRun, Stored
    <3>2. Keeps(db, db') /\ \A k \in DOMAIN db' : RowOk(db'[k])
      BY <3>1, SameTable
    <3>3. WorkerOk([work[w] EXCEPT !.pc = "winner"], asked[w], db')
      BY <1>1, <1>2, <2>1 DEF WorkerOk
    <3> QED
      BY <1>3, <2>1, <3>1, <3>2, <3>3, GotoKeeps
  <2> QED
    BY <2>2, <2>3
<1>7. CASE FindWinner(w)
  <2>1. asked' = asked /\ db' = db /\ Answer(w, OK, db[key])
    BY <1>7 DEF FindWinner
  <2>2. Keeps(db, db') /\ \A k \in DOMAIN db' : RowOk(db'[k])
    BY <2>1, SameTable
  <2> QED
    BY <2>1, <2>2, AnswerKeeps
<1> QED
  BY <1>4, <1>5, <1>6, <1>7

\* What the walk, its publication and the death of a worker keep.
LEMMA PublishSteps ==
    ASSUME RunInv, NEW w \in Workers,
           EvaluateRun(w) \/ BeginPublish(w) \/ Publish(w) \/ Dies(w)
    PROVE  RunInv'
<1> DEFINE config == asked[w].config
           key == asked[w].key
<1>1. WorkerOk(work[w], asked[w], db) /\ DOMAIN work[w] = Held
  BY DEF RunInv, WorkerOk
<1>2. w \notin Abandoners /\ ValidConfig(config)
  BY AskedValid
<1>3. CASE EvaluateRun(w)
  <2> DEFINE walk == Evaluate(config)
             pc == IF walk.error = OK THEN "to publish" ELSE "to fail"
             x == [work[w] EXCEPT !.walk = walk, !.code = walk.error, !.pc = pc]
  <2>1. asked' = asked /\ db' = db /\ work[w].pc = "evaluate"
    BY <1>3 DEF EvaluateRun
  <2>2. Keeps(db, db') /\ \A k \in DOMAIN db' : RowOk(db'[k])
    BY <2>1, SameTable
  <2>3. /\ Refusal(config) = OK
        /\ key \in DOMAIN db /\ db[key].config = config
    BY <1>1, <2>1 DEF WorkerOk
  <2>4. GoodWalk(config, walk)
    BY <1>2, <2>3, AcceptedRunnable, EvaluateGood
  <2>5. work' = [work EXCEPT ![w] = x]
    BY <1>3, Zenon DEF EvaluateRun
  <2>6. DOMAIN x = Held /\ x.walk = walk /\ x.pc = pc
    <3> HIDE DEF walk, pc
    <3> QED
      BY <1>1 DEF Held
  <2>7. pc \in {"to publish", "to fail"}
    OBVIOUS
  <2> HIDE DEF walk, pc, x
  <2>8. WorkerOk(x, asked[w], db')
    BY <2>1, <2>3, <2>4, <2>6, <2>7 DEF WorkerOk
  <2> QED
    BY <1>2, <2>1, <2>2, <2>5, <2>8, ActorMoves
<1>4. CASE BeginPublish(w)
  <2>1. asked' = asked /\ db' = db /\ work[w].pc = "to publish"
    BY <1>4 DEF BeginPublish
  <2>2. Keeps(db, db') /\ \A k \in DOMAIN db' : RowOk(db'[k])
    BY <2>1, SameTable
  <2>3. Goto(w, "publish") \/ Answer(w, "RUN_ALREADY_TERMINAL", None)
    BY <1>4, Zenon DEF BeginPublish
  <2>4. CASE Goto(w, "publish")
    <3> DEFINE x == [work[w] EXCEPT !.pc = "publish"]
    <3>1. DOMAIN x = Held /\ x.pc = "publish" /\ x.walk = work[w].walk
      BY <1>1, Moved
    <3> HIDE DEF x
    <3>2. WorkerOk(x, asked[w], db')
      BY <1>1, <2>1, <3>1 DEF WorkerOk
    <3> QED
      BY <1>2, <2>1, <2>2, <2>4, <3>2, GotoKeeps DEF x
  <2>5. CASE Answer(w, "RUN_ALREADY_TERMINAL", None)
    BY <2>1, <2>2, <2>5, AnswerKeeps
  <2> QED
    BY <2>3, <2>4, <2>5
<1>5. CASE Publish(w)
  <2> DEFINE row == Published(db[key], work[w].walk)
  <2>1. /\ asked' = asked /\ work[w].pc = "publish"
        /\ db' = [db EXCEPT ![key] = row] /\ Answer(w, OK, row)
    BY <1>5 DEF Publish
  <2>2. /\ key \in DOMAIN db /\ db[key].config = config
        /\ GoodWalk(config, work[w].walk)
    BY <1>1, <2>1 DEF WorkerOk
  <2>3. RowOk(db[key])
    BY <2>2 DEF RunInv
  <2>4. /\ DOMAIN row = {"config", "status", "failure", "result"}
        /\ row.config = config /\ row.status = "COMPLETED"
        /\ row.result.positions = work[w].walk.positions
    BY <2>2, <2>3 DEF RowOk, Published
  <2> HIDE DEF row
  <2>5. RowOk(row)
    <3>1. \A k \in DOMAIN work[w].walk.positions : WithinBudget(config, work[w].walk.positions[k].spec)
      BY <2>2, Zenon DEF GoodWalk, GoodPositions
    <3>2. \A k \in DOMAIN row.result.positions : WithinBudget(row.config, row.result.positions[k].spec)
      BY <2>4, <3>1
    <3> QED
      BY <2>4, <3>2 DEF RowOk
  <2>6. Keeps(db, db') /\ \A k \in DOMAIN db' : RowOk(db'[k])
    <3>1. row.config = db[key].config
      BY <2>2, <2>4
    <3> QED
      BY <2>1, <2>2, <2>5, <3>1, RowChanges
  <2> QED
    BY <2>1, <2>6, AnswerKeeps
<1>6. CASE Dies(w)
  <2>1. asked' = asked /\ db' = db /\ Goto(w, "died") /\ Refusal(config) = OK
    BY <1>1, <1>6 DEF Dies, WorkerOk
  <2>2. Keeps(db, db') /\ \A k \in DOMAIN db' : RowOk(db'[k])
    BY <2>1, SameTable
  <2>3. WorkerOk([work[w] EXCEPT !.pc = "died"], asked[w], db')
    <3> DEFINE x == [work[w] EXCEPT !.pc = "died"]
    <3>1. DOMAIN x = Held /\ x.pc = "died"
      BY <1>1, Moved
    <3> HIDE DEF x
    <3> QED
      BY <2>1, <3>1 DEF WorkerOk, x
  <2> QED
    BY <1>2, <2>1, <2>2, <2>3, GotoKeeps
<1> QED
  BY <1>3, <1>4, <1>5, <1>6

\* The run an actor at fail names is stored.
LEMMA NamesStored ==
    ASSUME RunInv, NEW a \in Workers \cup Abandoners, work[a].pc \in {"to fail", "fail"}
    PROVE  KeyOf(a) \in DOMAIN db
BY BacktestBounds DEF RunInv, WorkerOk, AbandonerOk, KeyOf

\* What failing and abandoning a run keep.
LEMMA FailSteps ==
    ASSUME RunInv, NEW a \in Workers \cup Abandoners, NEW key,
           BeginFail(a) \/ Fail(a) \/ (a \in Abandoners /\ Abandon(a, key))
    PROVE  RunInv'
<1>1. /\ DOMAIN work[a] = Held
      /\ a \in Workers => WorkerOk(work[a], asked[a], db)
      /\ a \in Abandoners => AbandonerOk(work[a], db)
  BY DEF RunInv, WorkerOk, AbandonerOk
<1>2. CASE BeginFail(a)
  <2>1. asked' = asked /\ db' = db /\ work[a].pc = "to fail"
    BY <1>2 DEF BeginFail
  <2>2. Keeps(db, db') /\ \A k \in DOMAIN db' : RowOk(db'[k])
    BY <2>1, SameTable
  <2>3. Goto(a, "fail") \/ \E code : Answer(a, code, None)
    BY <1>2, Zenon DEF BeginFail
  <2>4. CASE Goto(a, "fail")
    <3> DEFINE x == [work[a] EXCEPT !.pc = "fail"]
    <3>1. DOMAIN x = Held /\ x.pc = "fail" /\ x.key = work[a].key
      BY <1>1, Moved
    <3> HIDE DEF x
    <3>2. a \in Workers => WorkerOk(x, asked[a], db')
      BY <1>1, <2>1, <3>1 DEF WorkerOk
    <3>3. a \in Abandoners => AbandonerOk(x, db')
      BY <1>1, <2>1, <3>1 DEF AbandonerOk
    <3> QED
      BY <2>1, <2>2, <2>4, <3>2, <3>3, GotoKeeps DEF x
  <2>5. CASE \E code : Answer(a, code, None)
    BY <2>1, <2>2, <2>5, AnswerKeeps
  <2> QED
    BY <2>3, <2>4, <2>5
<1>3. CASE Fail(a)
  <2> DEFINE k == KeyOf(a)
             row == [db[k] EXCEPT !.status = "FAILED", !.failure = work[a].code]
  <2>1. /\ asked' = asked /\ work[a].pc = "fail" /\ Answer(a, work[a].code, None)
        /\ db' = [db EXCEPT ![k].status = "FAILED", ![k].failure = work[a].code]
    BY <1>3 DEF Fail
  <2>2. k \in DOMAIN db /\ RowOk(db[k])
    BY <2>1, NamesStored DEF RunInv
  <2> HIDE DEF k
  <2>3. db' = [db EXCEPT ![k] = row]
    BY <2>1, <2>2
  <2>4. RowOk(row) /\ row.config = db[k].config
    BY <2>2 DEF RowOk
  <2> HIDE DEF row
  <2>5. Keeps(db, db') /\ \A j \in DOMAIN db' : RowOk(db'[j])
    BY <2>2, <2>3, <2>4, RowChanges
  <2> QED
    BY <2>1, <2>5, AnswerKeeps
<1>4. CASE a \in Abandoners /\ Abandon(a, key)
  <2> DEFINE x == [work[a] EXCEPT !.pc = "to fail", !.key = key, !.code = "INTERRUPTED"]
  <2>1. asked' = asked /\ db' = db /\ key \in DOMAIN db
    BY <1>4 DEF Abandon, Stored
  <2>2. Keeps(db, db') /\ \A k \in DOMAIN db' : RowOk(db'[k])
    BY <2>1, SameTable
  <2>3. \/ \E code, row : Answer(a, code, row)
        \/ work' = [work EXCEPT ![a] = x]
    BY <1>4, Zenon DEF Abandon
  <2>4. CASE \E code, row : Answer(a, code, row)
    BY <2>1, <2>2, <2>4, AnswerKeeps
  <2>5. CASE work' = [work EXCEPT ![a] = x]
    <3>1. DOMAIN x = Held /\ x.pc = "to fail" /\ x.key = key
      BY <1>1 DEF Held
    <3> HIDE DEF x
    <3>2. AbandonerOk(x, db')
      BY <2>1, <3>1 DEF AbandonerOk
    <3>3. a \notin Workers
      BY <1>4, BacktestBounds
    <3> QED
      BY <2>1, <2>2, <2>5, <3>2, <3>3, ActorMoves
  <2> QED
    BY <2>3, <2>4, <2>5
<1> QED
  BY <1>2, <1>3, <1>4

\* Every step keeps the invariant of the runs.
LEMMA RunStep ==
    ASSUME RunInv, [Next]_vars
    PROVE  RunInv'
<1>1. CASE UNCHANGED vars
  BY <1>1 DEF vars, RunInv
<1>2. CASE Next
  BY <1>1, <1>2, RequestSteps, PublishSteps, FailSteps DEF Next, Finished
<1> QED
  BY <1>1, <1>2

\* RunInv holds of every behaviour, for every scenario of valid requests.
LEMMA RunsHold == Spec => []RunInv
<1>1. Init => RunInv
  BY RunInit
<1>2. RunInv /\ [Next]_vars => RunInv'
  BY RunStep
<1> QED
  BY <1>1, <1>2, PTL DEF Spec

\* Sizing, for every configuration, grid, account and policy: no stored
\* position can lose more at its stop than the run's budget, and none needs
\* more margin than the account had free.
THEOREM BudgetIsKept == Spec => []RiskWithinBudget
<1>1. RunInv => RiskWithinBudget
  BY DEF RunInv, RowOk, WithinBudget, RiskWithinBudget
<1> QED
  BY <1>1, RunsHold, PTL

-----------------------------------------------------------------------------
(***************************************************************************)
(* The first end stands against everybody who looks after it.              *)
(***************************************************************************)
Writing == {"publish", "fail"}
Ends == {"FAILED", "COMPLETED"}

\* The end e still is what the row says, or a transaction that raced it is over.
Decided(e, status, over) == status = e.status \/ e.racing \cap over # {}

Over == {a \in Workers \cup Abandoners : work[a].pc = "done"}

\* Where the end of a run is known, the row shows an end; it is the first one unless
\* a racer committed; who is about to publish raced it; and who is about to fail did,
\* or writes what the first end was, or comes after another racer.
EndInv ==
    /\ \A key \in DOMAIN first :
          /\ key \in DOMAIN db /\ db[key].status \in Ends
          /\ Decided(first[key], db[key].status, Over)
    /\ \A a \in Workers \cup Abandoners :
          /\ work[a].pc = "publish" => a \in Workers
          /\ work[a].pc \in Writing /\ KeyOf(a) \in DOMAIN first =>
                LET e == first[KeyOf(a)]
                IN  \/ a \in e.racing
                    \/ work[a].pc = "fail" /\ Decided(e, "FAILED", Over)

\* A step that commits nothing: the actor does not begin to write, or is entitled to.
LEMMA ActorEnds ==
    ASSUME RunInv, EndInv, asked' = asked, first' = first,
           NEW a \in Workers \cup Abandoners, NEW x, work' = [work EXCEPT ![a] = x],
           work[a].pc # "done",
           DOMAIN db \subseteq DOMAIN db', \A k \in DOMAIN db : db'[k].status = db[k].status,
           x.pc = "publish" => a \in Workers,
           NEW key, key = IF a \in Workers THEN asked[a].key ELSE x.key,
           x.pc \in Writing /\ key \in DOMAIN first =>
               a \in first[key].racing \/ (x.pc = "fail" /\ Decided(first[key], "FAILED", Over))
    PROVE  EndInv'
<1>1. /\ work'[a] = x
      /\ \A b \in Workers \cup Abandoners : b # a => work'[b] = work[b]
  BY DEF RunInv
<1>2. Over \subseteq Over'
  BY <1>1 DEF Over
<1>3. \A e, status : Decided(e, status, Over) => Decided(e, status, Over')
  BY <1>2 DEF Decided
<1>4. ASSUME NEW k \in DOMAIN first'
      PROVE  /\ k \in DOMAIN db' /\ db'[k].status \in Ends
             /\ Decided(first'[k], db'[k].status, Over')
  BY <1>3, <1>4 DEF EndInv
<1>5. ASSUME NEW b \in Workers \cup Abandoners
      PROVE  /\ work'[b].pc = "publish" => b \in Workers
             /\ work'[b].pc \in Writing /\ KeyOf(b)' \in DOMAIN first' =>
                   \/ b \in first'[KeyOf(b)'].racing
                   \/ work'[b].pc = "fail" /\ Decided(first'[KeyOf(b)'], "FAILED", Over')
  <2>1. CASE b = a
    <3>1. KeyOf(a)' = key
      BY <1>1 DEF KeyOf
    <3> QED
      BY <1>1, <1>3, <2>1, <3>1
  <2>2. CASE b # a
    <3>1. work'[b] = work[b] /\ KeyOf(b)' = KeyOf(b)
      BY <1>1, <2>2 DEF KeyOf
    <3>2. /\ work[b].pc = "publish" => b \in Workers
          /\ work[b].pc \in Writing /\ KeyOf(b) \in DOMAIN first =>
                \/ b \in first[KeyOf(b)].racing
                \/ work[b].pc = "fail" /\ Decided(first[KeyOf(b)], "FAILED", Over)
      BY DEF EndInv
    <3> QED
      BY <1>3, <3>1, <3>2
  <2> QED
    BY <2>1, <2>2
<1> QED
  BY <1>4, <1>5 DEF EndInv

\* An answer, and a step of the program counter to anything but a write.
LEMMA AnswerReadsNothing ==
    ASSUME RunInv, EndInv, asked' = asked, first' = first,
           NEW a \in Workers \cup Abandoners, NEW pc, NEW code, NEW row,
           work[a].pc # "done",
           Answer(a, code, row) \/ (Goto(a, pc) /\ pc \notin Writing),
           DOMAIN db \subseteq DOMAIN db', \A k \in DOMAIN db : db'[k].status = db[k].status
    PROVE  EndInv'
<1> DEFINE x == [work[a] EXCEPT !.pc = "done", !.code = code, !.answer = row]
           y == [work[a] EXCEPT !.pc = pc]
<1>1. DOMAIN work[a] = Held
  BY DEF RunInv, WorkerOk, AbandonerOk
<1>2. x.pc = "done" /\ y.pc = pc
  BY <1>1, Moved
<1>3. \/ work' = [work EXCEPT ![a] = x]
      \/ work' = [work EXCEPT ![a] = y] /\ pc \notin Writing
  BY Zenon DEF Answer, Goto
<1> HIDE DEF x, y
<1>4. x.pc \notin Writing
  BY <1>2 DEF Writing
<1>5. CASE work' = [work EXCEPT ![a] = x]
  BY <1>4, <1>5, ActorEnds DEF Writing
<1>6. CASE work' = [work EXCEPT ![a] = y] /\ pc \notin Writing
  BY <1>2, <1>6, ActorEnds DEF Writing
<1> QED
  BY <1>3, <1>5, <1>6

\* A read that leads to a write of its key.
LEMMA ReadsEnds ==
    ASSUME RunInv, EndInv, asked' = asked, first' = first, db' = db,
           NEW a \in Workers \cup Abandoners, NEW pc, Goto(a, pc), work[a].pc # "done",
           pc = "publish" => a \in Workers,
           KeyOf(a) \in DOMAIN first =>
               pc = "fail" /\ Decided(first[KeyOf(a)], "FAILED", Over)
    PROVE  EndInv'
<1> DEFINE x == [work[a] EXCEPT !.pc = pc]
<1>1. DOMAIN work[a] = Held
  BY DEF RunInv, WorkerOk, AbandonerOk
<1>2. x.pc = pc /\ x.key = work[a].key
  BY <1>1, Moved
<1>3. work' = [work EXCEPT ![a] = x]
  BY Zenon DEF Goto
<1> HIDE DEF x
<1>4. KeyOf(a) = IF a \in Workers THEN asked[a].key ELSE x.key
  BY <1>2 DEF KeyOf
<1> QED
  BY <1>2, <1>3, <1>4, ActorEnds

\* A commit: the run's first end, or that of a transaction that raced it, or one
\* that writes FAILED where FAILED is no news.
LEMMA CommitEnds ==
    ASSUME RunInv, EndInv, asked' = asked,
           NEW a \in Workers \cup Abandoners, NEW code, NEW answer, Answer(a, code, answer),
           NEW key, key = KeyOf(a), key \in DOMAIN db,
           NEW row, db' = [db EXCEPT ![key] = row],
           \/ work[a].pc = "publish" /\ row.status = "COMPLETED"
           \/ work[a].pc = "fail" /\ row.status = "FAILED",
           Became(a, row.status)
    PROVE  EndInv'
<1> DEFINE x == [work[a] EXCEPT !.pc = "done", !.code = code, !.answer = answer]
<1>1. DOMAIN work[a] = Held /\ DOMAIN work = Workers \cup Abandoners
  BY DEF RunInv, WorkerOk, AbandonerOk
<1>2. x.pc = "done"
  BY <1>1, Moved
<1>3. work' = [work EXCEPT ![a] = x]
  BY Zenon DEF Answer
<1> HIDE DEF x
<1>4. /\ work'[a].pc = "done"
      /\ \A b \in Workers \cup Abandoners : b # a => work'[b] = work[b]
  BY <1>1, <1>2, <1>3
<1>5. Over \subseteq Over' /\ a \in Over'
  BY <1>4 DEF Over
<1>6. \A e, status : Decided(e, status, Over) => Decided(e, status, Over')
  BY <1>5 DEF Decided
<1>7. /\ DOMAIN db' = DOMAIN db /\ db'[key] = row /\ row.status \in Ends
      /\ \A k \in DOMAIN db : k # key => db'[k] = db[k]
  BY DEF Ends
<1>8. ASSUME NEW b \in Workers \cup Abandoners, work'[b].pc \in Writing
      PROVE  b # a /\ work'[b] = work[b] /\ KeyOf(b)' = KeyOf(b)
  <2>1. b # a
    BY <1>4, <1>8 DEF Writing
  <2> QED
    BY <1>4, <2>1 DEF KeyOf
<1>9. ASSUME NEW b \in Workers \cup Abandoners
      PROVE  /\ work[b].pc = "publish" => b \in Workers
             /\ work[b].pc \in Writing /\ KeyOf(b) \in DOMAIN first =>
                   \/ b \in first[KeyOf(b)].racing
                   \/ work[b].pc = "fail" /\ Decided(first[KeyOf(b)], "FAILED", Over)
  BY DEF EndInv
<1>10. CASE key \in DOMAIN first
  <2>1. first' = first
    BY <1>10 DEF Became
  <2>2. Decided(first[key], row.status, Over')
    <3>1. \/ a \in first[key].racing
          \/ work[a].pc = "fail" /\ Decided(first[key], "FAILED", Over)
      BY <1>9, <1>10 DEF Writing
    <3>2. CASE a \in first[key].racing
      BY <1>5, <3>2 DEF Decided
    <3>3. CASE work[a].pc = "fail" /\ Decided(first[key], "FAILED", Over)
      BY <1>6, <3>3
    <3> QED
      BY <3>1, <3>2, <3>3
  <2>3. ASSUME NEW k \in DOMAIN first'
        PROVE  /\ k \in DOMAIN db' /\ db'[k].status \in Ends
               /\ Decided(first'[k], db'[k].status, Over')
    BY <1>6, <1>7, <2>1, <2>2, <2>3 DEF EndInv
  <2>4. ASSUME NEW b \in Workers \cup Abandoners, work'[b].pc \in Writing
        PROVE  /\ work'[b].pc = "publish" => b \in Workers
               /\ KeyOf(b)' \in DOMAIN first' =>
                     \/ b \in first'[KeyOf(b)'].racing
                     \/ work'[b].pc = "fail" /\ Decided(first'[KeyOf(b)'], "FAILED", Over')
    BY <1>6, <1>8, <1>9, <2>1, <2>4
  <2> QED
    BY <2>3, <2>4 DEF EndInv, Writing
<1>11. CASE key \notin DOMAIN first
  <2> DEFINE end == [status |-> row.status, racing |-> Racing(key) \ {a}]
  <2>1. first' = Extended(first, key, end)
    BY <1>11 DEF Became
  <2>2. end.status = row.status /\ end.racing = Racing(key) \ {a}
    OBVIOUS
  <2> HIDE DEF end
  <2>3. /\ DOMAIN first' = DOMAIN first \cup {key} /\ first'[key] = end
        /\ \A k \in DOMAIN first : k # key /\ first'[k] = first[k]
    BY <1>11, <2>1 DEF Extended
  <2>4. ASSUME NEW k \in DOMAIN first'
        PROVE  /\ k \in DOMAIN db' /\ db'[k].status \in Ends
               /\ Decided(first'[k], db'[k].status, Over')
    <3>1. CASE k = key
      BY <1>7, <2>2, <2>3, <3>1 DEF Decided
    <3>2. CASE k # key
      BY <1>6, <1>7, <2>3, <3>2 DEF EndInv
    <3> QED
      BY <3>1, <3>2
  <2>5. ASSUME NEW b \in Workers \cup Abandoners, work'[b].pc \in Writing
        PROVE  /\ work'[b].pc = "publish" => b \in Workers
               /\ KeyOf(b)' \in DOMAIN first' =>
                     \/ b \in first'[KeyOf(b)'].racing
                     \/ work'[b].pc = "fail" /\ Decided(first'[KeyOf(b)'], "FAILED", Over')
    <3>1. CASE KeyOf(b) = key
      <4>1. b \in Racing(key) /\ b # a
        BY <1>1, <1>8, <2>5, <3>1 DEF Racing, Writing
      <4> QED
        BY <1>8, <1>9, <2>2, <2>3, <2>5, <3>1, <4>1
    <3>2. CASE KeyOf(b) # key
      BY <1>6, <1>8, <1>9, <2>3, <2>5, <3>2
    <3> QED
      BY <3>1, <3>2
  <2> QED
    BY <2>4, <2>5 DEF EndInv, Writing
<1> QED
  BY <1>10, <1>11

\* Every step keeps it.
LEMMA EndStep ==
    ASSUME RunInv, EndInv, [Next]_vars
    PROVE  EndInv'
<1>1. CASE UNCHANGED vars
  BY <1>1 DEF vars, EndInv, KeyOf, Over
<1>2. ASSUME NEW w \in Workers, Validate(w) PROVE EndInv'
  <2>1. /\ asked' = asked /\ db' = db /\ first' = first
        /\ Goto(w, "find") \/ \E code : Answer(w, code, None)
        /\ work[w].pc # "done"
    BY <1>2, Zenon DEF Validate
  <2> QED
    BY <2>1, AnswerReadsNothing DEF Writing
<1>3. ASSUME NEW w \in Workers, FindByAttempt(w) PROVE EndInv'
  <2>1. /\ asked' = asked /\ db' = db /\ first' = first
        /\ Goto(w, "create") \/ \E code, row : Answer(w, code, row)
        /\ work[w].pc # "done"
    BY <1>3, Zenon DEF FindByAttempt
  <2> QED
    BY <2>1, AnswerReadsNothing DEF Writing
<1>4. ASSUME NEW w \in Workers, CreateRun(w) PROVE EndInv'
  <2>1. /\ asked' = asked /\ first' = first
        /\ DOMAIN db \subseteq DOMAIN db' /\ \A k \in DOMAIN db : db'[k].status = db[k].status
    BY <1>4 DEF CreateRun, Extended, Stored
  <2>2. (Goto(w, "evaluate") \/ Goto(w, "winner")) /\ work[w].pc # "done"
    BY <1>4, Zenon DEF CreateRun
  <2> QED
    BY <2>1, <2>2, AnswerReadsNothing DEF Writing
<1>5. ASSUME NEW w \in Workers, FindWinner(w) \/ Dies(w) PROVE EndInv'
  <2>1. /\ asked' = asked /\ db' = db /\ first' = first /\ work[w].pc # "done"
        /\ Goto(w, "died") \/ \E code, row : Answer(w, code, row)
    BY <1>5, Zenon DEF FindWinner, Dies
  <2> QED
    BY <2>1, AnswerReadsNothing DEF Writing
<1>6. ASSUME NEW w \in Workers, EvaluateRun(w) PROVE EndInv'
  <2> DEFINE walk == Evaluate(asked[w].config)
             pc == IF walk.error = OK THEN "to publish" ELSE "to fail"
             x == [work[w] EXCEPT !.walk = walk, !.code = walk.error, !.pc = pc]
  <2>1. asked' = asked /\ db' = db /\ first' = first /\ work' = [work EXCEPT ![w] = x]
    BY <1>6, Zenon DEF EvaluateRun
  <2>2. DOMAIN work[w] = Held /\ work[w].pc # "done"
    BY <1>6 DEF RunInv, WorkerOk, EvaluateRun
  <2>3. pc \notin Writing /\ pc # "publish"
    BY DEF Writing
  <2>4. x.pc = pc
    <3> HIDE DEF walk, pc
    <3> QED
      BY <2>2 DEF Held
  <2> HIDE DEF pc, walk, x
  <2> QED
    BY <2>1, <2>2, <2>3, <2>4, ActorEnds
<1>7. ASSUME NEW w \in Workers, BeginPublish(w) PROVE EndInv'
  <2>1. /\ asked' = asked /\ db' = db /\ first' = first /\ work[w].pc # "done"
        /\ \/ Answer(w, "RUN_ALREADY_TERMINAL", None)
           \/ /\ db[asked[w].key].status \notin {"FAILED", "COMPLETED"}
              /\ Goto(w, "publish")
    BY <1>7, Zenon DEF BeginPublish
  <2>2. CASE Answer(w, "RUN_ALREADY_TERMINAL", None)
    BY <2>1, <2>2, AnswerReadsNothing
  <2>3. CASE /\ db[asked[w].key].status \notin {"FAILED", "COMPLETED"}
             /\ Goto(w, "publish")
    <3>1. KeyOf(w) \notin DOMAIN first
      BY <2>3 DEF EndInv, KeyOf, Ends
    <3> QED
      BY <2>1, <2>3, <3>1, ReadsEnds
  <2> QED
    BY <2>1, <2>2, <2>3
<1>8. ASSUME NEW w \in Workers, Publish(w) PROVE EndInv'
  <2> DEFINE key == asked[w].key
             row == Published(db[key], work[w].walk)
  <2>1. /\ asked' = asked /\ work[w].pc = "publish" /\ Answer(w, OK, row)
        /\ db' = [db EXCEPT ![key] = row] /\ Became(w, "COMPLETED")
    BY <1>8 DEF Publish
  <2>2. key \in DOMAIN db /\ key = KeyOf(w)
    BY <2>1 DEF RunInv, WorkerOk, KeyOf
  <2>3. DOMAIN db[key] = {"config", "status", "failure", "result"}
    BY <2>2 DEF RunInv, RowOk
  <2>4. row.status = "COMPLETED"
    BY <2>3 DEF Published
  <2> HIDE DEF row, key
  <2> QED
    BY <2>1, <2>2, <2>4, CommitEnds
<1>9. ASSUME NEW a \in Workers \cup Abandoners, BeginFail(a) PROVE EndInv'
  <2>1. /\ asked' = asked /\ db' = db /\ first' = first /\ work[a].pc # "done"
        /\ \/ \E code : Answer(a, code, None)
           \/ MayFail(db[KeyOf(a)]) /\ Goto(a, "fail")
    BY <1>9, Zenon DEF BeginFail
  <2>2. CASE \E code : Answer(a, code, None)
    BY <2>1, <2>2, AnswerReadsNothing
  <2>3. CASE MayFail(db[KeyOf(a)]) /\ Goto(a, "fail")
    <3>1. db[KeyOf(a)].status # "COMPLETED"
      BY <2>3 DEF MayFail
    <3>2. KeyOf(a) \in DOMAIN first => Decided(first[KeyOf(a)], "FAILED", Over)
      BY <3>1 DEF EndInv, Ends
    <3> QED
      BY <2>1, <2>3, <3>2, ReadsEnds
  <2> QED
    BY <2>1, <2>2, <2>3
<1>10. ASSUME NEW a \in Workers \cup Abandoners, Fail(a) PROVE EndInv'
  <2> DEFINE key == KeyOf(a)
             row == [db[key] EXCEPT !.status = "FAILED", !.failure = work[a].code]
  <2>1. /\ asked' = asked /\ work[a].pc = "fail" /\ Answer(a, work[a].code, None)
        /\ db' = [db EXCEPT ![key].status = "FAILED", ![key].failure = work[a].code]
        /\ Became(a, "FAILED")
    BY <1>10 DEF Fail
  <2>2. key \in DOMAIN db
    BY <2>1, NamesStored
  <2>3. DOMAIN db[key] = {"config", "status", "failure", "result"}
    BY <2>2 DEF RunInv, RowOk
  <2> HIDE DEF key
  <2>4. db' = [db EXCEPT ![key] = row] /\ row.status = "FAILED"
    BY <2>1, <2>2, <2>3
  <2> HIDE DEF row
  <2>5. Became(a, row.status) /\ \E code : Answer(a, code, None)
    BY <2>1, <2>4, Zenon
  <2> QED
    BY <2>1, <2>2, <2>4, <2>5, CommitEnds DEF key
<1>11. ASSUME NEW a \in Abandoners, NEW key, Abandon(a, key) PROVE EndInv'
  <2> DEFINE x == [work[a] EXCEPT !.pc = "to fail", !.key = key, !.code = "INTERRUPTED"]
  <2>1. /\ asked' = asked /\ db' = db /\ first' = first /\ work[a].pc # "done"
        /\ (\E code, row : Answer(a, code, row)) \/ work' = [work EXCEPT ![a] = x]
    BY <1>11, Zenon DEF Abandon
  <2>2. DOMAIN work[a] = Held
    BY DEF RunInv, AbandonerOk
  <2>3. x.pc = "to fail"
    BY <2>2 DEF Held
  <2> HIDE DEF x
  <2>4. x.pc \notin Writing /\ x.pc # "publish"
    BY <2>3 DEF Writing
  <2>5. CASE \E code, row : Answer(a, code, row)
    BY <2>1, <2>5, AnswerReadsNothing
  <2>6. CASE work' = [work EXCEPT ![a] = x]
    BY <2>1, <2>4, <2>6, ActorEnds
  <2> QED
    BY <2>1, <2>5, <2>6
<1> QED
  BY <1>1, <1>2, <1>3, <1>4, <1>5, <1>6, <1>7, <1>8, <1>9, <1>10, <1>11 DEF Next, Finished

\* The end a run was first given is changed only by a transaction that had read the
\* row before that end was committed, for any number of workers and people who
\* abandon, and however their transactions overlap.
THEOREM OverwritesAreRaced == Spec => []OnlyRacersOverwrite
<1>1. Init => EndInv
  <2> SUFFICES ASSUME Init PROVE EndInv
    OBVIOUS
  <2>1. \A a \in Workers \cup Abandoners : work[a].pc \in {"validate", "choose"}
    <3>1. \A pc : Idle(pc).pc = pc
      BY DEF Idle
    <3>2. \A a \in Workers \cup Abandoners :
             work[a] = Idle("validate") \/ work[a] = Idle("choose")
      BY DEF Init
    <3> QED
      BY <3>1, <3>2
  <2>2. DOMAIN first = {}
    BY DEF Init
  <2> QED
    BY <2>1, <2>2 DEF EndInv, Writing
<1>2. RunInv /\ EndInv /\ [Next]_vars => EndInv'
  BY EndStep
<1>3. EndInv => OnlyRacersOverwrite
  BY DEF EndInv, OnlyRacersOverwrite, Stored, Decided, Over, Committed
<1> QED
  BY <1>1, <1>2, <1>3, RunsHold, PTL DEF Spec

-----------------------------------------------------------------------------
(***************************************************************************)
(* Journal notes.  The store's note is the last save, and an editor whose  *)
(* version is still the current one has read exactly that note.            *)
(***************************************************************************)
NoteTexts == {None} \cup (Editors \X Int)
NoteRows == [version : Nat, note : NoteTexts, tag : {None, "tag"}]
EditRows == [pc : {"idle", "editing"}, id : Positions \cup {None}, seen : NoteRows,
             left : Int, code : {OK, "POSITION_NOT_FOUND", "JOURNAL_VERSION_CONFLICT"}]

JournalType ==
    /\ notes \in [Positions -> NoteRows]
    /\ saves \in [Positions -> Seq([over : NoteTexts, note : NoteTexts])]
    /\ edits \in [Editors -> EditRows]

\* what a history of saves leaves in the row, and what each save was made over
HistoryOk(row, history) ==
    /\ row.version = Len(history)
    /\ row.note = IF Len(history) = 0 THEN None ELSE history[Len(history)].note
    /\ \A i \in DOMAIN history :
          history[i].over = IF i = 1 THEN None ELSE history[i - 1].note

\* an editor who has read a row no later save has replaced knows its note
SeenOk(edit, row) ==
    /\ edit.seen.version <= row.version
    /\ edit.seen.version = row.version => edit.seen.note = row.note

JournalInv ==
    /\ JournalType
    /\ \A id \in Positions : HistoryOk(notes[id], saves[id])
    /\ \A e \in Editors : edits[e].pc = "editing" =>
          /\ edits[e].id \in Positions
          /\ SeenOk(edits[e], notes[edits[e].id])

\* Reading a note: the editor knows what the store holds.
LEMMA ReadAnnotationKeeps ==
    ASSUME JournalInv, NEW e \in Editors, NEW id \in Positions, ReadAnnotation(e, id)
    PROVE  JournalInv'
<1>1. /\ notes' = notes /\ saves' = saves
      /\ edits' = IF Exists(id)
                  THEN [edits EXCEPT ![e].pc = "editing", ![e].id = id,
                                     ![e].seen = notes[id], ![e].code = OK]
                  ELSE [edits EXCEPT ![e].left = @ - 1, ![e].code = "POSITION_NOT_FOUND"]
      /\ edits[e].pc = "idle"
  BY DEF ReadAnnotation
<1>2. edits[e] \in EditRows /\ notes[id] \in NoteRows
  BY DEF JournalInv, JournalType
<1>3. CASE Exists(id)
  <2>1. edits' = [edits EXCEPT ![e] = [edits[e] EXCEPT !.pc = "editing", !.id = id,
                                                       !.seen = notes[id], !.code = OK]]
    BY <1>1, <1>3, <1>2 DEF JournalInv, JournalType, EditRows
  <2>2. [edits[e] EXCEPT !.pc = "editing", !.id = id, !.seen = notes[id], !.code = OK]
            \in EditRows
    BY <1>2 DEF EditRows
  <2>3. JournalType'
    BY <1>1, <2>1, <2>2 DEF JournalInv, JournalType
  <2>4. ASSUME NEW f \in Editors, edits'[f].pc = "editing"
        PROVE  edits'[f].id \in Positions /\ SeenOk(edits'[f], notes[edits'[f].id])
    <3>1. CASE f = e
      <4>1. edits'[e].id = id /\ edits'[e].seen = notes[id]
        BY <1>2, <2>1 DEF JournalInv, JournalType, EditRows
      <4>2. notes[id].version \in Nat
        BY <1>2 DEF NoteRows
      <4> QED BY <3>1, <4>1, <4>2 DEF SeenOk
    <3>2. CASE f # e
      BY <3>2, <2>1, <2>4 DEF JournalInv, JournalType
    <3> QED BY <3>1, <3>2
  <2> QED BY <1>1, <2>3, <2>4 DEF JournalInv
<1>4. CASE ~Exists(id)
  <2>1. edits' = [edits EXCEPT ![e] = [edits[e] EXCEPT !.left = edits[e].left - 1,
                                                       !.code = "POSITION_NOT_FOUND"]]
    BY <1>1, <1>4, <1>2 DEF JournalInv, JournalType, EditRows
  <2>0. edits[e].left \in Int
    BY <1>2 DEF EditRows
  <2> DEFINE left == edits[e].left - 1
  <2>5. left \in Int
    BY <2>0
  <2>2. [edits[e] EXCEPT !.left = left, !.code = "POSITION_NOT_FOUND"] \in EditRows
    <3> HIDE DEF left
    <3> QED BY <1>2, <2>5 DEF EditRows
  <2>3. JournalType'
    BY <1>1, <2>1, <2>2 DEF JournalInv, JournalType
  <2>4. ASSUME NEW f \in Editors, edits'[f].pc = "editing"
        PROVE  f # e /\ edits'[f] = edits[f]
    BY <1>1, <1>2, <2>1, <2>4 DEF JournalInv, JournalType, EditRows
  <2> QED BY <1>1, <2>3, <2>4 DEF JournalInv
<1> QED BY <1>3, <1>4

\* A save that matches the version: the history grows by what was known.
LEMMA SaveKeepsHistory ==
    ASSUME NEW row \in NoteRows, NEW history \in Seq([over : NoteTexts, note : NoteTexts]),
           HistoryOk(row, history), NEW note \in NoteTexts, NEW tag \in {None, "tag"}
    PROVE  LET saved == [version |-> row.version + 1, note |-> note, tag |-> tag]
               grown == Append(history, [over |-> row.note, note |-> note])
           IN  /\ saved \in NoteRows
               /\ grown \in Seq([over : NoteTexts, note : NoteTexts])
               /\ HistoryOk(saved, grown)
<1> DEFINE save == [over |-> row.note, note |-> note]
           grown == Append(history, save)
           saved == [version |-> row.version + 1, note |-> note, tag |-> tag]
<1>1. saved \in NoteRows /\ save \in [over : NoteTexts, note : NoteTexts]
  BY DEF NoteRows
<1>2. /\ grown \in Seq([over : NoteTexts, note : NoteTexts])
      /\ Len(grown) = Len(history) + 1 /\ Len(history) \in Nat
      /\ DOMAIN grown = 1 .. Len(history) + 1 /\ DOMAIN history = 1 .. Len(history)
      /\ \A i \in 1 .. Len(history) : grown[i] = history[i]
      /\ grown[Len(history) + 1] = save
  BY <1>1
<1> HIDE DEF grown
<1>3. saved.version = Len(grown) /\ saved.note = grown[Len(grown)].note
  BY <1>2 DEF HistoryOk
<1>4. ASSUME NEW i \in DOMAIN grown
      PROVE  grown[i].over = IF i = 1 THEN None ELSE grown[i - 1].note
  <2>1. CASE i \in DOMAIN history
    <3>1. i = 1 \/ i - 1 \in 1 .. Len(history)
      BY <1>2, <2>1
    <3>2. grown[i].over = IF i = 1 THEN None ELSE history[i - 1].note
      BY <1>2, <2>1 DEF HistoryOk
    <3> QED BY <1>2, <3>1, <3>2
  <2>2. CASE i = Len(history) + 1
    <3>1. i # 1 => Len(history) \in 1 .. Len(history)
      BY <1>2, <2>2
    <3>2. grown[i].over = row.note /\ i - 1 = Len(history)
      BY <1>2, <2>2
    <3>3. row.note = IF Len(history) = 0 THEN None ELSE history[Len(history)].note
      BY DEF HistoryOk
    <3> QED BY <1>2, <2>2, <3>1, <3>2, <3>3
  <2> QED BY <1>2, <2>1, <2>2
<1>5. HistoryOk(saved, grown)
  BY <1>2, <1>3, <1>4 DEF HistoryOk
<1> QED BY <1>1, <1>2, <1>5 DEF grown

\* Writing a note: saved over what its author had read, or refused.
LEMMA WriteAnnotationKeeps ==
    ASSUME JournalInv, NEW e \in Editors, NEW note \in NoteTexts, NEW tag \in {None, "tag"},
           WriteAnnotation(e, note, tag)
    PROVE  JournalInv'
<1> DEFINE id == edits[e].id
           done(code) == [edits[e] EXCEPT !.pc = "idle", !.id = None, !.seen = NoNote,
                                          !.left = @ - 1, !.code = code]
<1>1. /\ edits[e] \in EditRows /\ edits[e].pc = "editing"
      /\ id \in Positions /\ SeenOk(edits[e], notes[id])
      /\ notes[id] \in NoteRows
      /\ saves[id] \in Seq([over : NoteTexts, note : NoteTexts])
      /\ HistoryOk(notes[id], saves[id])
  BY DEF JournalInv, JournalType, WriteAnnotation
<1>2. ASSUME NEW code \in {OK, "JOURNAL_VERSION_CONFLICT"}, edits' = [edits EXCEPT ![e] = done(code)]
      PROVE  /\ edits' \in [Editors -> EditRows]
             /\ \A f \in Editors : edits'[f].pc = "editing" => f # e /\ edits'[f] = edits[f]
  <2>1. NoNote \in NoteRows
    BY DEF NoNote, NoteRows, NoteTexts
  <2> DEFINE left == edits[e].left - 1
  <2>3. left \in Int
    BY <1>1 DEF EditRows
  <2>4. done(code) = [edits[e] EXCEPT !.pc = "idle", !.id = None, !.seen = NoNote,
                                      !.left = left, !.code = code]
    OBVIOUS
  <2>5. [edits[e] EXCEPT !.pc = "idle", !.id = None, !.seen = NoNote,
                         !.left = left, !.code = code] \in EditRows
    <3> HIDE DEF left, done
    <3> QED BY <1>1, <2>1, <2>3 DEF EditRows
  <2>6. [edits[e] EXCEPT !.pc = "idle", !.id = None, !.seen = NoNote,
                         !.left = left, !.code = code].pc = "idle"
    <3> HIDE DEF left, done
    <3> QED BY <1>1 DEF EditRows
  <2>2. done(code) \in EditRows /\ done(code).pc = "idle"
    BY <2>4, <2>5, <2>6
  <2> HIDE DEF done
  <2> QED BY <1>2, <2>2 DEF JournalInv, JournalType
<1>3. CASE notes[id].version = edits[e].seen.version
  <2> DEFINE saved == [version |-> notes[id].version + 1, note |-> note, tag |-> tag]
             grown == Append(saves[id], [over |-> notes[id].note, note |-> note])
  <2>1. /\ notes' = [notes EXCEPT ![id] = saved]
        /\ saves' = [saves EXCEPT ![id] = grown]
        /\ edits' = [edits EXCEPT ![e] = done(OK)]
    <3>1. edits[e].seen.note = notes[id].note
      BY <1>1, <1>3 DEF SeenOk
    <3> QED BY <1>3, <3>1 DEF WriteAnnotation, VersionMatches
  <2>2. /\ saved \in NoteRows
        /\ grown \in Seq([over : NoteTexts, note : NoteTexts])
        /\ HistoryOk(saved, grown)
    BY <1>1, SaveKeepsHistory
  <2>3. edits' \in [Editors -> EditRows]
        /\ \A f \in Editors : edits'[f].pc = "editing" => f # e /\ edits'[f] = edits[f]
    BY <2>1, <1>2
  <2>4. notes[id].version \in Nat /\ saved.version = notes[id].version + 1
    BY <1>1 DEF NoteRows
  <2> HIDE DEF saved, grown, done
  <2>5. JournalType'
    BY <1>1, <2>1, <2>2, <2>3 DEF JournalInv, JournalType
  <2>6. \A other \in Positions : HistoryOk(notes'[other], saves'[other])
    BY <1>1, <2>1, <2>2 DEF JournalInv, JournalType
  <2>7. ASSUME NEW f \in Editors, edits'[f].pc = "editing"
        PROVE  edits'[f].id \in Positions /\ SeenOk(edits'[f], notes'[edits'[f].id])
    <3>1. edits'[f] = edits[f] /\ edits[f].id \in Positions /\ SeenOk(edits[f], notes[edits[f].id])
      BY <2>3, <2>7 DEF JournalInv
    <3>2. CASE edits[f].id = id
      <4>1. edits[f].seen.version \in Nat
        BY DEF JournalInv, JournalType, EditRows, NoteRows
      <4>2. notes'[id] = saved
        BY <1>1, <2>1 DEF JournalInv, JournalType
      <4>3. edits[f].seen.version <= notes[id].version
        BY <3>1, <3>2 DEF SeenOk
      <4> QED BY <2>4, <3>1, <3>2, <4>1, <4>2, <4>3 DEF SeenOk
    <3>3. CASE edits[f].id # id
      BY <2>1, <3>1, <3>3 DEF JournalInv, JournalType
    <3> QED BY <3>2, <3>3
  <2> QED BY <2>5, <2>6, <2>7 DEF JournalInv
<1>4. CASE notes[id].version # edits[e].seen.version
  <2>1. notes' = notes /\ saves' = saves
        /\ edits' = [edits EXCEPT ![e] = done("JOURNAL_VERSION_CONFLICT")]
    BY <1>4 DEF WriteAnnotation, VersionMatches
  <2>2. edits' \in [Editors -> EditRows]
        /\ \A f \in Editors : edits'[f].pc = "editing" => f # e /\ edits'[f] = edits[f]
    BY <2>1, <1>2
  <2> QED BY <2>1, <2>2 DEF JournalInv, JournalType
<1> QED BY <1>3, <1>4

\* Every step of the endpoints keeps the history of every note.
LEMMA JournalInvariant == PerformanceSpec => []JournalInv
<1>1. PerformanceInit => JournalInv
  <2> SUFFICES ASSUME PerformanceInit PROVE JournalInv
    OBVIOUS
  <2>1. NoNote \in NoteRows /\ NoNote.version = 0 /\ NoNote.note = None
    BY DEF NoNote, NoteRows, NoteTexts
  <2>2. /\ notes = [id \in Positions |-> NoNote]
        /\ saves = [id \in Positions |-> <<>>]
        /\ \A e \in Editors : edits[e].pc = "idle"
    BY DEF PerformanceInit
  <2>3. edits \in [Editors -> EditRows]
    BY <2>1, PerformanceInputs DEF PerformanceInit, EditRows
  <2>4. JournalType
    BY <2>1, <2>2, <2>3 DEF JournalType
  <2>5. \A id \in Positions : HistoryOk(notes[id], saves[id])
    BY <2>1, <2>2 DEF HistoryOk
  <2> QED BY <2>2, <2>4, <2>5 DEF JournalInv
<1>2. JournalInv /\ [PerformanceNext]_performanceVars => JournalInv'
  <2> SUFFICES ASSUME JournalInv, [PerformanceNext]_performanceVars PROVE JournalInv'
    OBVIOUS
  <2>1. ASSUME NEW e \in Editors, NEW id \in Positions, ReadAnnotation(e, id)
        PROVE  JournalInv'
    BY <2>1, ReadAnnotationKeeps
  <2>2. ASSUME NEW e \in Editors, NEW tag \in {None, "tag"},
               WriteAnnotation(e, <<e, edits[e].left>>, tag)
        PROVE  JournalInv'
    <3>1. edits[e].left \in Int
      BY DEF JournalInv, JournalType, EditRows
    <3>2. <<e, edits[e].left>> \in NoteTexts
      BY <3>1 DEF NoteTexts
    <3> QED BY <2>2, <3>2, WriteAnnotationKeeps
  <2>3. CASE UNCHANGED <<notes, saves, edits>>
    BY <2>3 DEF JournalInv, JournalType
  <2>4. \/ \E e \in Editors, id \in Positions : ReadAnnotation(e, id)
        \/ \E e \in Editors, tag \in {None, "tag"} :
              WriteAnnotation(e, <<e, edits[e].left>>, tag)
        \/ UNCHANGED <<notes, saves, edits>>
    BY DEF PerformanceNext, performanceVars, Open, Commit, Ask, CountMatching, SelectAll, SelectPage, Fold,
           Annotate, ReadRows, ReadEvents
  <2> QED BY <2>1, <2>2, <2>3, <2>4
<1> QED BY <1>1, <1>2, PTL DEF PerformanceSpec

\* Whoever edits the journal and however the requests interleave, a save is accepted
\* only over the note its author had read (journal_store.save, the version column).
THEOREM EditsAreKept == PerformanceSpec => []NoJournalEditLost
<1>1. JournalInv => NoJournalEditLost
  BY DEF JournalInv, HistoryOk, NoJournalEditLost
<1> QED BY <1>1, JournalInvariant, PTL

-----------------------------------------------------------------------------
(***************************************************************************)
(* What a ledger tells of its position's state.  Tells says which events   *)
(* it has; Marked relates them to the state the engine keeps, also in the  *)
(* middle of a bar, where a position may have spent its units and not yet  *)
(* be closed.                                                              *)
(***************************************************************************)
Tells(p, type) == \E i \in 1..Len(p.events) : p.events[i].type = type

TellsExit(p) == \E i \in 1..Len(p.events) : p.events[i].type \in EXIT_EVENTS

Thawing == EXIT_EVENTS \cup {"POSITION_CLOSED", "SAME_BAR_AMBIGUITY"}

Suspended(p) ==
    /\ p.spec.sameBar = "HALT"
    /\ \E i \in 1..Len(p.events) :
        /\ p.events[i].type = "SAME_BAR_AMBIGUITY"
        /\ \A j \in 1..Len(p.events) : j > i => p.events[j].type \notin Thawing

Marked(p) ==
    /\ Tells(p, "ENTRY_REJECTED") <=> p.state = "REJECTED"
    /\ Tells(p, "POSITION_CANCELLED") <=> p.state = "CANCELLED"
    /\ Tells(p, "POSITION_CLOSED") <=> p.state = "CLOSED"
    /\ Tells(p, "ENTRY_FILLED") <=> p.state \in Exposed \cup {"CLOSED"}
    /\ p.state = "PENDING_ENTRY" => ~TellsExit(p)
    /\ p.state \in {"OPEN", "PARTIALLY_CLOSED"} /\ p.remaining # 0 =>
          (TellsExit(p) <=> p.state = "PARTIALLY_CLOSED")
    /\ p.state = "AMBIGUOUS_HALTED" /\ p.remaining # 0 => Suspended(p)

\* a closed position's ledger ends with its closing figures, and has no others
Sealed(p) ==
    p.state = "CLOSED" =>
        LET n == Len(p.events)
        IN  /\ n >= 1 /\ p.events[n].type = "POSITION_CLOSED"
            /\ p.events[n].data = [realized |-> p.gross, charged |-> p.fees]
            /\ \A i \in 1..(n - 1) : p.events[i].type # "POSITION_CLOSED"

\* the events that may change what a ledger tells
Deciding == {"ENTRY_REJECTED", "POSITION_CANCELLED", "ENTRY_FILLED"} \cup Thawing

\* A longer ledger tells what the shorter one told and what was added to it.
LEMMA TellsExtended ==
    ASSUME NEW p, NEW q, NEW t, NEW T, Extends(p, q, t, T)
    PROVE  /\ \A type : Tells(p, type) => Tells(q, type)
           /\ \A type : Tells(q, type) => Tells(p, type) \/ type \in T
           /\ TellsExit(p) => TellsExit(q)
           /\ TellsExit(q) => TellsExit(p) \/ T \cap EXIT_EVENTS # {}
           /\ Suspended(p) /\ T \cap Thawing = {} => Suspended(q)
<1> DEFINE m == Len(p.events)
           n == Len(q.events)
<1>1. /\ m \in Nat /\ n \in Nat /\ m <= n /\ q.spec = p.spec
      /\ \A k \in 1..m : p.events[k] = q.events[k]
      /\ \A k \in (m + 1)..n : q.events[k].type \in T
  BY DEF Extends, Continues
<1> HIDE DEF m, n
<1>2. \A k \in 1..n : k \in 1..m \/ k \in (m + 1)..n
  BY <1>1
<1>3. \A k \in 1..m : k \in 1..n
  BY <1>1
<1>4. \A type : Tells(p, type) => Tells(q, type)
  BY <1>1, <1>3 DEF Tells, m, n
<1>5. \A type : Tells(q, type) => Tells(p, type) \/ type \in T
  BY <1>1, <1>2 DEF Tells, m, n
<1>6. TellsExit(p) => TellsExit(q)
  BY <1>1, <1>3 DEF TellsExit, m, n
<1>7. TellsExit(q) => TellsExit(p) \/ T \cap EXIT_EVENTS # {}
  BY <1>1, <1>2 DEF TellsExit, m, n
<1>8. ASSUME Suspended(p), T \cap Thawing = {}
      PROVE  Suspended(q)
  <2>1. PICK i \in 1..m :
            /\ p.events[i].type = "SAME_BAR_AMBIGUITY"
            /\ \A j \in 1..m : j > i => p.events[j].type \notin Thawing
    BY <1>8 DEF Suspended, m
  <2>2. i \in 1..n /\ q.events[i].type = "SAME_BAR_AMBIGUITY"
    BY <1>1, <1>3, <2>1
  <2>3. \A j \in 1..n : j > i => q.events[j].type \notin Thawing
    BY <1>1, <1>2, <1>8, <2>1
  <2> QED BY <1>1, <1>8, <2>2, <2>3 DEF Suspended, n
<1> QED BY <1>4, <1>5, <1>6, <1>7, <1>8

\* The event just appended is told.
LEMMA TellsAppended ==
    ASSUME NEW s, IsLedger(s), NEW q, NEW e, q.events = Append(s, e)
    PROVE  /\ Tells(q, e.type)
           /\ e.type \in EXIT_EVENTS => TellsExit(q)
           /\ e.type = "SAME_BAR_AMBIGUITY" /\ q.spec.sameBar = "HALT" => Suspended(q)
<1>1. /\ Len(q.events) = Len(s) + 1 /\ Len(s) \in Nat /\ q.events[Len(s) + 1] = e
  BY AppendToLedger DEF IsLedger
<1>2. Len(q.events) \in 1..Len(q.events) /\ q.events[Len(q.events)] = e
      /\ ~\E j \in 1..Len(q.events) : j > Len(q.events)
  BY <1>1
<1> QED BY <1>2 DEF Tells, TellsExit, Suspended

\* Events that decide nothing leave a position marked.
LEMMA MarkedSame ==
    ASSUME NEW p, Marked(p), NEW q, NEW t, NEW T, Extends(p, q, t, T),
           T \cap Deciding = {}, q.state = p.state, q.remaining = p.remaining
    PROVE  Marked(q)
<1>1. /\ "ENTRY_REJECTED" \notin T /\ "POSITION_CANCELLED" \notin T
      /\ "POSITION_CLOSED" \notin T /\ "ENTRY_FILLED" \notin T
      /\ T \cap EXIT_EVENTS = {} /\ T \cap Thawing = {}
  BY DEF Deciding, Thawing
<1>2. /\ \A type \in {"ENTRY_REJECTED", "POSITION_CANCELLED", "POSITION_CLOSED",
                      "ENTRY_FILLED"} : Tells(q, type) <=> Tells(p, type)
      /\ TellsExit(q) <=> TellsExit(p)
      /\ Suspended(p) => Suspended(q)
  BY <1>1, TellsExtended
<1> QED BY <1>2 DEF Marked

\* An exposed position that spent its units is marked until it is closed.
LEMMA MarkedSpent ==
    ASSUME NEW p, Marked(p), p.state \in Exposed,
           NEW q, NEW t, NEW T, Extends(p, q, t, T),
           T \cap {"ENTRY_REJECTED", "POSITION_CANCELLED", "POSITION_CLOSED"} = {},
           q.state \in Exposed, q.remaining = 0
    PROVE  Marked(q)
<1>1. /\ \A type \in {"ENTRY_REJECTED", "POSITION_CANCELLED", "POSITION_CLOSED"} :
            Tells(q, type) => Tells(p, type)
      /\ Tells(p, "ENTRY_FILLED") => Tells(q, "ENTRY_FILLED")
  BY TellsExtended
<1>2. /\ q.state \notin {"REJECTED", "CANCELLED", "CLOSED", "PENDING_ENTRY"}
      /\ p.state \notin {"REJECTED", "CANCELLED", "CLOSED"}
  BY DEF Exposed
<1> QED BY <1>1, <1>2 DEF Marked

\* A fill of a target marks the position as partly closed while it holds units.
LEMMA TargetMarked ==
    ASSUME NEW p, Holding(p), Marked(p), NEW bar \in Bar, NEW reference, NEW i,
           Holding(ExitTarget(p, bar, i, reference))
    PROVE  Marked(ExitTarget(p, bar, i, reference))
<1> DEFINE q == ExitTarget(p, bar, i, reference)
           e == Exit(p, "TARGET_FILLED", bar, reference, p.spec.targets[i].price,
                     p.spec.targets[i].quantity)
           T == {"TARGET_FILLED"}
<1>1. Shaped(p) /\ DOMAIN p = Fields /\ p.state \in {"OPEN", "PARTIALLY_CLOSED"}
  BY BuilderShape DEF Holding, Sound, Shaped
<1>2. /\ e.state = p.state /\ DOMAIN e = Fields
      /\ \E data : e.events = Append(p.events, Event("TARGET_FILLED", bar.time, data))
  BY <1>1 DEF Exit, Fields
<1>3. q = [e EXCEPT !.filled = @ \cup {i},
                    !.state = IF e.remaining > 0 /\ @ = "OPEN" THEN "PARTIALLY_CLOSED" ELSE @]
  BY DEF ExitTarget
<1>4. Extends(p, q, bar.time, T)
  <2>1. Extends(p, p, bar.time, T)
    BY <1>1, ExtendsSelf
  <2> QED BY <2>1, TargetExtends
<1> HIDE DEF e
<1>5. /\ q.state = IF q.remaining > 0 /\ p.state = "OPEN" THEN "PARTIALLY_CLOSED" ELSE p.state
      /\ \E data : q.events = Append(p.events, Event("TARGET_FILLED", bar.time, data))
  BY <1>2, <1>3 DEF Fields
<1>6. q.remaining \in Int /\ q.remaining >= 0 /\ q.state \in {"OPEN", "PARTIALLY_CLOSED"}
  BY DEF Holding, Sound, Builders
<1> SUFFICES Marked(q)
  OBVIOUS
<1> HIDE DEF q
<1>7. TellsExit(q)
  <2>1. PICK data : q.events = Append(p.events, Event("TARGET_FILLED", bar.time, data))
    BY <1>5
  <2>2. Event("TARGET_FILLED", bar.time, data).type \in EXIT_EVENTS
    BY DEF Event, EXIT_EVENTS
  <2> QED BY <1>1, <2>1, <2>2, TellsAppended DEF Shaped
<1>8. \A type \in {"ENTRY_REJECTED", "POSITION_CANCELLED", "POSITION_CLOSED", "ENTRY_FILLED"} :
        Tells(q, type) <=> Tells(p, type)
  BY <1>4, TellsExtended
<1>9. q.state \in Exposed /\ p.state \in Exposed
  BY <1>1, <1>6 DEF Exposed
<1>10. q.remaining # 0 => q.state = "PARTIALLY_CLOSED"
  BY <1>1, <1>5, <1>6
<1> QED BY <1>1, <1>6, <1>7, <1>8, <1>9, <1>10 DEF Marked, Exposed

\* The targets reached at the open, one round after the other.
LEMMA TargetsAtOpenMarked ==
    ASSUME NEW p, Holding(p), Marked(p), NEW bar \in Bar
    PROVE  Marked(TargetsAtOpen(p, bar))
<1>1. ASSUME NEW r, Holding(r), Marked(r), NEW i
      PROVE  Holding(TargetAtOpen(r, bar, i)) /\ Marked(TargetAtOpen(r, bar, i))
  <2>1. Holding(TargetAtOpen(r, bar, i))
    BY <1>1, TargetAtOpenHolds
  <2>2. TargetAtOpen(r, bar, i) \in {r, ExitTarget(r, bar, i, bar.open)}
    BY Zenon DEF TargetAtOpen
  <2>3. Marked(TargetAtOpen(r, bar, i))
    BY <1>1, <2>1, <2>2, TargetMarked
  <2> QED BY <2>1, <2>3
<1> QED BY <1>1 DEF TargetsAtOpen

\* The targets touched inside the bar, one round after the other.
LEMMA TargetsInsideMarked ==
    ASSUME NEW p, Holding(p), Marked(p), NEW bar \in Bar, NEW touched,
           touched \subseteq DOMAIN p.spec.targets, touched \cap p.filled = {}
    PROVE  Marked(TargetsInside(p, bar, touched))
<1> DEFINE Round(r, n) == /\ Holding(r) /\ Marked(r) /\ r.spec = p.spec
                          /\ r.filled \subseteq p.filled \cup 1..n
<1>1. ASSUME NEW r, NEW n \in Nat, Round(r, n)
      PROVE  Round(TargetInside(r, bar, touched, n + 1), n + 1)
  <2> DEFINE q == TargetInside(r, bar, touched, n + 1)
  <2>1. /\ touched \subseteq DOMAIN r.spec.targets
        /\ n + 1 \in touched => n + 1 \notin r.filled
    BY <1>1
  <2>2. Holding(q) /\ Kept(r, q) /\ q.filled \subseteq r.filled \cup {n + 1}
    BY <1>1, <2>1, TargetInsideHolds
  <2>3. q \in {r, ExitTarget(r, bar, n + 1, r.spec.targets[n + 1].price)}
    BY Zenon DEF TargetInside
  <2> HIDE DEF q
  <2>4. Marked(q)
    BY <1>1, <2>2, <2>3, TargetMarked
  <2>5. q.spec = p.spec /\ q.filled \subseteq p.filled \cup 1..(n + 1)
    BY <1>1, <2>2 DEF Kept, SameButFill
  <2>6. Round(q, n + 1)
    BY <2>2, <2>4, <2>5
  <2> HIDE DEF Round
  <2> QED BY <2>6 DEF q
<1> DEFINE p1 == TargetInside(p, bar, touched, 1)
           p2 == TargetInside(p1, bar, touched, 2)
           p3 == TargetInside(p2, bar, touched, 3)
           p4 == TargetInside(p3, bar, touched, 4)
           p5 == TargetInside(p4, bar, touched, 5)
<1>2. TargetsInside(p, bar, touched) = p5
  BY DEF TargetsInside
<1>3. Round(p, 0)
  OBVIOUS
<1>4. /\ 0 \in Nat /\ 1 \in Nat /\ 2 \in Nat /\ 3 \in Nat /\ 4 \in Nat
      /\ 0 + 1 = 1 /\ 1 + 1 = 2 /\ 2 + 1 = 3 /\ 3 + 1 = 4 /\ 4 + 1 = 5
  OBVIOUS
<1> HIDE DEF Round
<1>5. Round(p1, 1)
  <2>1. Round(TargetInside(p, bar, touched, 0 + 1), 0 + 1)
    BY <1>1, <1>3, <1>4, Zenon
  <2> QED BY <1>4, <2>1
<1> HIDE DEF p1
<1>6. Round(p2, 2)
  <2>1. Round(TargetInside(p1, bar, touched, 1 + 1), 1 + 1)
    BY <1>1, <1>5, <1>4, Zenon
  <2> QED BY <1>4, <2>1
<1> HIDE DEF p2
<1>7. Round(p3, 3)
  <2>1. Round(TargetInside(p2, bar, touched, 2 + 1), 2 + 1)
    BY <1>1, <1>6, <1>4, Zenon
  <2> QED BY <1>4, <2>1
<1> HIDE DEF p3
<1>8. Round(p4, 4)
  <2>1. Round(TargetInside(p3, bar, touched, 3 + 1), 3 + 1)
    BY <1>1, <1>7, <1>4, Zenon
  <2> QED BY <1>4, <2>1
<1> HIDE DEF p4
<1>9. Round(p5, 5)
  <2>1. Round(TargetInside(p4, bar, touched, 4 + 1), 4 + 1)
    BY <1>1, <1>8, <1>4, Zenon
  <2> QED BY <1>4, <2>1
<1> HIDE DEF p5
<1> QED BY <1>2, <1>9 DEF Round

\* Exiting at the stop or by hand spends every unit.
LEMMA WholeExitMarked ==
    ASSUME NEW p, Sound(p), p.state \in Exposed, p.remaining >= 1, Marked(p), NEW bar \in Bar
    PROVE  /\ \A reference \in Int : Marked(ExitStop(p, bar, reference))
           /\ Marked(ManualExit(p, bar))
<1> DEFINE T == {"STOP_FILLED", "MANUAL_EXIT_FILLED"}
<1>1. "STOP_FILLED" \in T /\ "MANUAL_EXIT_FILLED" \in T
      /\ T \cap {"ENTRY_REJECTED", "POSITION_CANCELLED", "POSITION_CLOSED"} = {}
  OBVIOUS
<1> HIDE DEF T
<1>2. Extends(p, p, bar.time, T)
  BY BuilderShape, ExtendsSelf DEF Sound
<1>3. Extends(p, ManualExit(p, bar), bar.time, T)
      /\ \A reference \in Int : Extends(p, ExitStop(p, bar, reference), bar.time, T)
  BY <1>1, <1>2, ManualExitExtends, StopExtends
<1>4. /\ ManualExit(p, bar).state \in Exposed /\ ManualExit(p, bar).remaining = 0
      /\ \A reference \in Int : /\ ExitStop(p, bar, reference).state \in Exposed
                                /\ ExitStop(p, bar, reference).remaining = 0
  BY ManualExitSettles, ExitStopSettles DEF Concluded
<1> QED BY <1>1, <1>3, <1>4, MarkedSpent

\* The open of a bar.
LEMMA AtOpenMarked ==
    ASSUME NEW p, Holding(p), p.remaining >= 1, Marked(p), NEW bar \in Bar
    PROVE  Marked(AtOpen(p, bar))
<1>1. Sound(p) /\ bar.open \in Int /\ p.state \in Exposed
  BY DEF Holding, Bar, Exposed
<1>2. Marked(ExitStop(p, bar, bar.open)) /\ Marked(TargetsAtOpen(p, bar))
  BY <1>1, WholeExitMarked, TargetsAtOpenMarked
<1> QED BY <1>2 DEF AtOpen

\* The inside of a bar: an ambiguous one freezes the position or ends it.
LEMMA IntrabarMarked ==
    ASSUME NEW p, Holding(p), p.remaining >= 1, Marked(p), NEW bar \in Bar
    PROVE  Marked(Intrabar(p, bar))
<1> DEFINE noted == Emit(p, "SAME_BAR_AMBIGUITY", bar.time, None)
           halted == [noted EXCEPT !.state = "AMBIGUOUS_HALTED"]
           touched == Touched(p, bar)
           e == Event("SAME_BAR_AMBIGUITY", bar.time, None)
           T == {"SAME_BAR_AMBIGUITY"}
<1>1. p \in Builders /\ Sound(p) /\ p.stop \in Int /\ Shaped(p) /\ p.state \in Exposed
  BY BuilderShape DEF Holding, Sound, Builders, Exposed
<1>2. /\ noted \in Builders
      /\ \A x \in {"spec", "state", "remaining", "stop", "filled", "entry",
                    "gross", "fees", "lastBar", "mark", "closePending", "error"} :
           noted[x] = p[x]
  <2>1. "SAME_BAR_AMBIGUITY" \in PaperEventTypes /\ bar.time \in Int /\ None \in EventData
    BY DEF PaperEventTypes, Bar, EventData
  <2> QED BY <1>1, <2>1, AppendEvent
<1>3. Extends(p, noted, bar.time, T) /\ noted.events = Append(p.events, e)
  <2>1. Extends(p, p, bar.time, T)
    BY <1>1, ExtendsSelf
  <2>2. noted.events = Append(p.events, e)
    BY <1>1 DEF Emit, Shaped, Fields
  <2> HIDE DEF e
  <2> QED BY <2>1, <2>2, EmitExtends
<1>4. /\ \A type \in {"ENTRY_REJECTED", "POSITION_CANCELLED", "POSITION_CLOSED", "ENTRY_FILLED"} :
            Tells(noted, type) <=> Tells(p, type)
      /\ TellsExit(noted) <=> TellsExit(p)
  <2>1. T \cap EXIT_EVENTS = {}
    BY DEF EXIT_EVENTS
  <2> HIDE DEF noted
  <2> QED BY <1>3, <2>1, TellsExtended
<1>5. Marked(noted) /\ Sound(noted) /\ noted.state \in Exposed /\ noted.remaining >= 1
      /\ noted.spec = p.spec
  <2> HIDE DEF noted
  <2>1. noted.state = p.state /\ noted.spec = p.spec /\ noted.remaining = p.remaining
        /\ noted.error = p.error /\ noted.filled = p.filled /\ noted.entry = p.entry
        /\ noted.state # "AMBIGUOUS_HALTED"
    BY <1>2 DEF Holding
  <2> QED BY <1>1, <1>2, <1>4, <2>1 DEF Marked, Sound
<1>6. ASSUME p.spec.sameBar = "HALT"
      PROVE  Marked(halted)
  <2>1. halted.spec = p.spec /\ halted.events = Append(p.events, e)
        /\ halted.state = "AMBIGUOUS_HALTED" /\ halted.events = noted.events
    BY <1>2, <1>3 DEF Builders
  <2> HIDE DEF halted, noted
  <2>2. e.type = "SAME_BAR_AMBIGUITY"
    BY DEF Event
  <2> HIDE DEF e
  <2>3. Suspended(halted)
    BY <1>1, <1>6, <2>1, <2>2, TellsAppended DEF Shaped
  <2>4. /\ \A type : Tells(halted, type) <=> Tells(noted, type)
        /\ TellsExit(halted) <=> TellsExit(noted)
    BY <2>1 DEF Tells, TellsExit
  <2> QED BY <1>1, <1>4, <1>5, <2>1, <2>3, <2>4 DEF Marked, Exposed
<1>7. /\ Marked(ExitStop(noted, bar, p.stop)) /\ Marked(ExitStop(p, bar, p.stop))
  <2> HIDE DEF noted
  <2> QED BY <1>1, <1>5, WholeExitMarked
<1>8. Marked(TargetsInside(p, bar, touched))
  <2>1. touched \subseteq DOMAIN p.spec.targets /\ touched \cap p.filled = {}
    BY DEF Touched
  <2> HIDE DEF touched
  <2> QED BY <2>1, TargetsInsideMarked
<1>9. \/ Intrabar(p, bar) = halted /\ p.spec.sameBar # "STOP_FIRST"
      \/ Intrabar(p, bar) = ExitStop(noted, bar, p.stop)
      \/ Intrabar(p, bar) = ExitStop(p, bar, p.stop)
      \/ Intrabar(p, bar) = TargetsInside(p, bar, touched)
  BY Zenon DEF Intrabar
<1>10. p.spec.sameBar \in {"STOP_FIRST", "HALT"}
  BY <1>1 DEF Builders, PositionSpec
<1> HIDE DEF noted, halted, touched
<1> QED BY <1>6, <1>7, <1>8, <1>9, <1>10

\* The entry: rejected, or filled in whole.
LEMMA EnterMarked ==
    ASSUME NEW p \in Builders, p.state = "PENDING_ENTRY", Marked(p), NEW bar \in Bar
    PROVE  Marked(Enter(p, bar))
<1> DEFINE fill == AdversePrice(bar.open, p.spec.slippage, p.spec.direction, TRUE)
           noted == Emit(p, "ENTRY_REJECTED", bar.time, None)
           rejected == [noted EXCEPT !.state = "REJECTED"]
           data == [reference |-> bar.open, price |-> fill,
                    quantity |-> p.spec.quantity, gross |-> 0]
           entered == [p EXCEPT !.error = IF fill <= 0 THEN "FILL_NOT_POSITIVE" ELSE @,
                                !.fees = Charged(p, p.spec.quantity),
                                !.entry = fill,
                                !.remaining = p.spec.quantity,
                                !.state = "OPEN",
                                !.events = Append(@, Event("ENTRY_FILLED", bar.time, data))]
<1>1. Shaped(p) /\ DOMAIN p = Fields
  BY BuilderShape DEF Shaped
<1>2. Enter(p, bar) = rejected \/ Enter(p, bar) = entered
  BY Zenon DEF Enter
<1>3. ASSUME NEW q, DOMAIN q = Fields, q.spec = p.spec, NEW type, NEW d,
             q.events = Append(p.events, Event(type, bar.time, d))
      PROVE  Extends(p, q, bar.time, {type}) /\ Tells(q, type)
  <2>1. Extends(p, p, bar.time, {type})
    BY <1>1, ExtendsSelf
  <2>2. Extends(p, q, bar.time, {type})
    BY <1>3, <2>1, ExtendsMore
  <2>3. Event(type, bar.time, d).type = type
    BY DEF Event
  <2>4. Tells(q, type)
    BY <1>1, <1>3, <2>3, TellsAppended DEF Shaped
  <2> QED BY <2>2, <2>4
<1>4. Marked(rejected)
  <2>1. DOMAIN rejected = Fields /\ rejected.spec = p.spec /\ rejected.state = "REJECTED"
        /\ rejected.events = Append(p.events, Event("ENTRY_REJECTED", bar.time, None))
    BY <1>1 DEF Emit, Fields
  <2> HIDE DEF rejected
  <2>2. Extends(p, rejected, bar.time, {"ENTRY_REJECTED"}) /\ Tells(rejected, "ENTRY_REJECTED")
    BY <1>3, <2>1
  <2>3. \A type \in {"POSITION_CANCELLED", "POSITION_CLOSED", "ENTRY_FILLED"} :
          ~Tells(rejected, type)
    BY <2>2, TellsExtended DEF Marked, Exposed
  <2> QED BY <2>1, <2>2, <2>3 DEF Marked, Exposed
<1>5. Marked(entered)
  <2> HIDE DEF fill, data
  <2>1. DOMAIN entered = Fields /\ entered.spec = p.spec /\ entered.state = "OPEN"
        /\ entered.events = Append(p.events, Event("ENTRY_FILLED", bar.time, data))
    BY <1>1 DEF Fields
  <2> HIDE DEF entered
  <2>2. Extends(p, entered, bar.time, {"ENTRY_FILLED"}) /\ Tells(entered, "ENTRY_FILLED")
    BY <1>3, <2>1
  <2>3. \A type \in {"POSITION_CANCELLED", "POSITION_CLOSED", "ENTRY_REJECTED"} :
          ~Tells(entered, type)
    BY <2>2, TellsExtended DEF Marked
  <2>4. ~TellsExit(entered)
    <3>1. {"ENTRY_FILLED"} \cap EXIT_EVENTS = {}
      BY DEF EXIT_EVENTS
    <3> QED BY <2>2, <3>1, TellsExtended DEF Marked
  <2> QED BY <2>1, <2>2, <2>3, <2>4 DEF Marked, Exposed
<1> HIDE DEF rejected, entered
<1> QED BY <1>2, <1>4, <1>5

\* finish closes a position that spent its units and records its figures.
LEMMA FinishMarked ==
    ASSUME NEW r, Shaped(r), Marked(r), r.state # "CLOSED", NEW bar
    PROVE  LET q == Build(Finish(r, bar), bar) IN Marked(q) /\ Sealed(q)
<1> DEFINE data == [realized |-> r.gross, charged |-> r.fees]
           e == Event("POSITION_CLOSED", bar.time, data)
           closed == [Emit(r, "POSITION_CLOSED", bar.time, data) EXCEPT !.state = "CLOSED"]
           done == Finish(r, bar)
           q == Build(done, bar)
<1>1. \/ done = closed /\ r.state \in Exposed
      \/ done = r
  BY Zenon DEF Finish
<1>2. /\ DOMAIN closed = Fields /\ closed.spec = r.spec /\ closed.state = "CLOSED"
      /\ closed.gross = r.gross /\ closed.fees = r.fees
      /\ closed.events = Append(r.events, e)
  BY DEF Emit, Shaped, Fields
<1>3. e.type = "POSITION_CLOSED" /\ e.data = data
  BY DEF Event
<1>4. DOMAIN done = Fields
  <2> HIDE DEF closed, done
  <2> QED BY <1>1, <1>2 DEF Shaped
<1>5. /\ q.spec = done.spec /\ q.state = done.state /\ q.events = done.events
      /\ q.gross = done.gross /\ q.fees = done.fees /\ q.remaining = done.remaining
  <2> HIDE DEF done
  <2> QED BY <1>4 DEF Build, Fields
<1> SUFFICES Marked(q) /\ Sealed(q)
  OBVIOUS
<1> HIDE DEF q, done, closed
<1>6. CASE done = r
  <2>1. /\ \A type : Tells(q, type) <=> Tells(r, type)
        /\ TellsExit(q) <=> TellsExit(r)
        /\ Suspended(q) <=> Suspended(r)
    BY <1>5, <1>6 DEF Tells, TellsExit, Suspended
  <2> QED BY <1>5, <1>6, <2>1 DEF Marked, Sealed
<1>7. CASE done = closed /\ r.state \in Exposed
  <2> DEFINE T == {"POSITION_CLOSED"}
  <2>1. /\ q.spec = r.spec /\ q.state = "CLOSED" /\ q.gross = r.gross /\ q.fees = r.fees
        /\ q.events = Append(r.events, e)
    BY <1>2, <1>5, <1>7
  <2>2. Extends(r, closed, bar.time, T)
    <3>1. Extends(r, r, bar.time, T)
      BY ExtendsSelf
    <3> HIDE DEF e, data
    <3>2. \E type, d : type \in T /\ closed.events = Append(r.events, Event(type, bar.time, d))
      BY <1>2 DEF e
    <3> HIDE DEF T
    <3> QED BY <1>2, <3>1, <3>2, ExtendsMore
  <2>3. q.events = closed.events /\ q.spec = closed.spec
    BY <1>5, <1>7
  <2>4. /\ \A type : Tells(q, type) <=> Tells(closed, type)
        /\ TellsExit(q) <=> TellsExit(closed)
    BY <2>3 DEF Tells, TellsExit
  <2>5. Tells(q, "POSITION_CLOSED")
    BY <1>3, <2>1, TellsAppended DEF Shaped
  <2>6. /\ Tells(q, "ENTRY_FILLED")
        /\ ~Tells(q, "ENTRY_REJECTED") /\ ~Tells(q, "POSITION_CANCELLED")
    <3>1. r.state \notin {"REJECTED", "CANCELLED"}
      BY <1>7 DEF Exposed
    <3> QED BY <1>7, <2>2, <2>4, <3>1, TellsExtended DEF Marked
  <2>7. Marked(q)
    BY <2>1, <2>5, <2>6 DEF Marked
  <2>8. Sealed(q)
    <3>1. /\ Len(q.events) = Len(r.events) + 1 /\ Len(r.events) \in Nat
          /\ q.events[Len(r.events) + 1] = e
          /\ \A i \in 1..Len(r.events) : q.events[i] = r.events[i]
      BY <2>1, AppendToLedger DEF Shaped, Continues
    <3>2. \A i \in 1..Len(r.events) : r.events[i].type # "POSITION_CLOSED"
      BY DEF Marked, Tells
    <3> HIDE DEF e
    <3> QED BY <1>3, <2>1, <3>1, <3>2 DEF Sealed
  <2> QED BY <2>7, <2>8
<1> QED BY <1>1, <1>6, <1>7

\* One bar keeps a position marked, and ends the ledger of one it closes.
LEMMA ProcessMarked ==
    ASSUME NEW p, Good(p), Marked(p), p.state \notin Terminal, NEW bar \in Bar
    PROVE  Marked(Process(p, bar)) /\ Sealed(Process(p, bar))
<1> DEFINE o == Noted(p, bar)
<1>1. /\ o \in Builders
      /\ o.events = Append(p.events, Event("OBSERVATION_APPLIED", bar.time, bar))
      /\ \A x \in {"spec", "state", "remaining", "stop", "filled", "entry",
                    "gross", "fees", "lastBar", "mark", "closePending", "error"} :
           o[x] = p[x]
      /\ \E r : Stages(o, bar, r) /\ Process(p, bar) = Build(Finish(r, bar), bar)
  BY ProcessStages
<1>2. PICK r : Stages(o, bar, r) /\ Process(p, bar) = Build(Finish(r, bar), bar)
  BY <1>1
<1>3. Extends(p, o, bar.time, {"OBSERVATION_APPLIED"})
  <2>1. Extends(p, p, bar.time, {"OBSERVATION_APPLIED"})
    BY GoodShape, ExtendsSelf
  <2> QED BY <2>1, EmitExtends DEF Noted
<1> HIDE DEF o
<1>4. Marked(o) /\ Shaped(o)
  <2>1. {"OBSERVATION_APPLIED"} \cap Deciding = {}
    BY DEF Deciding, Thawing, EXIT_EVENTS
  <2>2. o.state = p.state /\ o.remaining = p.remaining
    BY <1>1
  <2> QED BY <1>1, <1>3, <2>1, <2>2, MarkedSame, BuilderShape
<1>5. Marked(r) /\ Shaped(r) /\ r.state # "CLOSED"
  <2>1. CASE /\ o.state = "PENDING_ENTRY" /\ r = Enter(o, bar) /\ r.state = "REJECTED"
    <3>1. Marked(r)
      BY <1>1, <1>4, <2>1, EnterMarked
    <3>2. Extends(o, r, bar.time, Derived)
      <4>1. Extends(o, o, bar.time, Derived)
        BY <1>4, ExtendsSelf
      <4>2. "ENTRY_FILLED" \in Derived /\ "ENTRY_REJECTED" \in Derived
        BY DEF Derived
      <4> QED BY <2>1, <4>1, <4>2, EnterExtends
    <3> QED BY <2>1, <3>1, <3>2 DEF Extends
  <2>2. CASE /\ o.state = "PENDING_ENTRY" /\ Enter(o, bar).remaining >= 1
             /\ Holding(Enter(o, bar)) /\ r = Intrabar(Enter(o, bar), bar)
    <3>1. Marked(Enter(o, bar))
      BY <1>1, <1>4, <2>2, EnterMarked
    <3>2. Marked(r) /\ Concluded(r)
      BY <2>2, <3>1, IntrabarMarked, IntrabarSettles
    <3> QED BY <3>2, BuilderShape DEF Concluded, Sound, Exposed
  <2>3. CASE /\ Sound(o) /\ o.state \in Exposed /\ o.remaining >= 1
             /\ r = ManualExit(o, bar)
    <3>1. Marked(r) /\ Concluded(r)
      BY <1>4, <2>3, WholeExitMarked, ManualExitSettles
    <3> QED BY <3>1, BuilderShape DEF Concluded, Sound, Exposed
  <2>4. CASE o.state = "AMBIGUOUS_HALTED" /\ r = o
    BY <1>4, <2>4
  <2>5. CASE Holding(o) /\ o.remaining >= 1 /\ r = AtOpen(o, bar)
    <3>1. Marked(r) /\ Concluded(r)
      BY <1>4, <2>5, AtOpenMarked, AtOpenSettles
    <3> QED BY <3>1, BuilderShape DEF Concluded, Sound, Exposed
  <2>6. CASE /\ Holding(o) /\ o.remaining >= 1
             /\ Holding(AtOpen(o, bar)) /\ AtOpen(o, bar).remaining >= 1
             /\ r = Intrabar(AtOpen(o, bar), bar)
    <3>1. Marked(AtOpen(o, bar))
      BY <1>4, <2>6, AtOpenMarked
    <3>2. Marked(r) /\ Concluded(r)
      BY <2>6, <3>1, IntrabarMarked, IntrabarSettles
    <3> QED BY <3>2, BuilderShape DEF Concluded, Sound, Exposed
  <2> QED BY <1>2, <2>1, <2>2, <2>3, <2>4, <2>5, <2>6 DEF Stages
<1> QED BY <1>2, <1>5, FinishMarked

\* What a stored position's ledger can be relied on to tell.
Readable(p) == Good(p) /\ Silent(p) /\ Balanced(p) /\ Marked(p) /\ Sealed(p)

\* The ledger of a position just opened tells only that.
LEMMA OpenReadable ==
    ASSUME NEW spec \in PositionSpec, ValidSpec(spec), NEW approval, approval \in Nat \cup {None},
           NEW calculable \in BOOLEAN, NEW onGrid \in BOOLEAN,
           NEW q, q # None, q = OpenPosition(spec, approval, calculable, onGrid).position
    PROVE  Readable(q)
<1>1. OpenPosition(spec, approval, calculable, onGrid) = Result(OK, q)
  BY OpenedPosition
<1>2. Good(q) /\ Silent(q) /\ Balanced(q)
  BY OpenGood, OpenSilent, OpenBalanced
<1>3. spec.quantity \in Int /\ spec.quantity <= spec.quantity
  BY DEF PositionSpec
<1>4. q.events = <<Event("POSITION_CREATED", spec.decision, None)>>
  BY ONLY <1>1, <1>3, OpenReproduces
<1>5. Len(q.events) = 1 /\ \A i \in 1..1 : q.events[i].type = "POSITION_CREATED"
  BY <1>4 DEF Event
<1>6. q.state = "PENDING_ENTRY"
  BY <1>1 DEF OpenPosition, Result
<1>7. /\ \A type : Tells(q, type) => type = "POSITION_CREATED"
      /\ ~TellsExit(q)
  BY <1>5 DEF Tells, TellsExit, EXIT_EVENTS
<1>8. Marked(q) /\ Sealed(q)
  BY <1>6, <1>7 DEF Marked, Sealed, Exposed
<1> QED BY <1>2, <1>8 DEF Readable

\* A bar that is accepted is processed, another changes nothing.
LEMMA ObservationReadable ==
    ASSUME NEW p, Readable(p), NEW bar \in Bar
    PROVE  Readable(ApplyObservation(p, bar).position)
<1> DEFINE q == ApplyObservation(p, bar).position
<1>1. Good(q) /\ Silent(q) /\ Balanced(q)
  BY ObservationKeepsGood, ObservationKeepsSilent, ObservationKeepsBalance DEF Readable
<1>2. q = p \/ (q = Process(p, bar) /\ p.state \notin Terminal)
  BY ObservationCases DEF Result
<1> HIDE DEF q
<1>3. Marked(q) /\ Sealed(q)
  BY <1>2, ProcessMarked DEF Readable
<1>4. Readable(q)
  BY <1>1, <1>3 DEF Readable
<1> QED BY <1>4 DEF q

\* A command changes nothing, or is told by an event of its own.
LEMMA CommandReadable ==
    ASSUME NEW p, Readable(p), NEW kind \in CommandKinds
    PROVE  Readable(ApplyCommand(p, kind).position)
<1> DEFINE q == ApplyCommand(p, kind).position
<1>1. Good(p) /\ Shaped(p) /\ Marked(p) /\ Sealed(p)
  BY GoodShape DEF Readable
<1>2. Good(q) /\ Silent(q) /\ Balanced(q)
  <2>1. Silent(q) /\ Balanced(q)
    BY CommandKeepsSilent, CommandKeepsBalance DEF Readable
  <2>2. q \in {RequestClose(p).position, MoveStopToBreakeven(p).position, Cancel(p).position}
    BY DEF ApplyCommand, CommandKinds
  <2>3. Good(q)
    BY <1>1, <2>2, CommandsKeepGood
  <2> QED BY <2>1, <2>3
<1>3. \/ q = p
      \/ /\ q.state = p.state /\ p.state \in Exposed
         /\ \/ Told(p, q, "CLOSE_REQUESTED", p.lastBar)
            \/ Told(p, q, "STOP_MOVED_TO_BREAKEVEN", p.lastBar)
      \/ /\ Told(p, q, "POSITION_CANCELLED", None)
         /\ p.state = "PENDING_ENTRY" /\ q.state = "CANCELLED"
  BY <1>1, CommandCases DEF Exposed
<1> HIDE DEF q
<1>4. ASSUME NEW type \in {"CLOSE_REQUESTED", "STOP_MOVED_TO_BREAKEVEN"}, NEW t,
             Told(p, q, type, t), q.state = p.state, p.state \in Exposed
      PROVE  Marked(q) /\ Sealed(q)
  <2>1. Extends(p, q, t, {type})
    BY <1>1, <1>4, ToldExtends
  <2>2. {type} \cap Deciding = {}
    BY DEF Deciding, Thawing, EXIT_EVENTS
  <2>3. q.remaining = p.remaining
    BY <1>4 DEF Told
  <2>4. Marked(q)
    BY <1>1, <1>4, <2>1, <2>2, <2>3, MarkedSame
  <2> QED BY <1>4, <2>4 DEF Sealed, Exposed
<1>5. ASSUME Told(p, q, "POSITION_CANCELLED", None), p.state = "PENDING_ENTRY",
             q.state = "CANCELLED"
      PROVE  Marked(q) /\ Sealed(q)
  <2>1. Extends(p, q, None, {"POSITION_CANCELLED"})
    BY <1>1, <1>5, ToldExtends
  <2>2. Event("POSITION_CANCELLED", None, None).type = "POSITION_CANCELLED"
    BY DEF Event
  <2>3. Tells(q, "POSITION_CANCELLED")
    BY <1>1, <1>5, <2>2, TellsAppended DEF Told, Shaped
  <2>4. \A type \in {"ENTRY_REJECTED", "POSITION_CLOSED", "ENTRY_FILLED"} : ~Tells(q, type)
    BY <1>1, <1>5, <2>1, TellsExtended DEF Marked, Exposed
  <2> QED BY <1>5, <2>3, <2>4 DEF Marked, Sealed, Exposed
<1>6. Readable(q)
  BY <1>1, <1>2, <1>3, <1>4, <1>5 DEF Readable
<1> QED BY <1>6 DEF q

\* A choice list gives the value of its first condition that holds.
LEMMA FirstIs ==
    ASSUME NEW n \in Nat, NEW choices, DOMAIN choices = 1..n, NEW k \in 1..n,
           choices[k][1], \A j \in 1..(k - 1) : ~choices[j][1]
    PROVE  FirstOf(choices) = choices[k][2]
<1> DEFINE First(i) == choices[i][1] /\ \A j \in 1..(i - 1) : ~choices[j][1]
<1>1. First(k)
  OBVIOUS
<1>2. ASSUME NEW i \in 1..n, First(i)
      PROVE  i = k
  <2>1. ~(i < k)
    BY <1>2
  <2>2. ~(k < i)
    BY <1>2
  <2> QED BY <2>1, <2>2
<1> DEFINE c == CHOOSE i \in 1..n : First(i)
<1>3. c \in 1..n /\ First(c)
  <2> HIDE DEF First
  <2> QED BY <1>1
<1>4. c = k
  <2> HIDE DEF c
  <2> QED BY <1>2, <1>3
<1>5. FirstOf(choices) = choices[c][2]
  BY DEF FirstOf
<1> QED BY <1>4, <1>5

\* The population of a ledger, one case after the other.
LEMMA PopulationIs ==
    ASSUME NEW spec, NEW events
    PROVE  LET kinds == {events[i].type : i \in DOMAIN events}
           IN  PopulationOf(spec, events) =
               IF "ENTRY_REJECTED" \in kinds THEN "REJECTED"
               ELSE IF "POSITION_CANCELLED" \in kinds THEN "CANCELLED"
               ELSE IF "POSITION_CLOSED" \in kinds THEN "CLOSED"
               ELSE IF "ENTRY_FILLED" \notin kinds THEN "PENDING_ENTRY"
               ELSE IF Halted(spec, events) THEN "AMBIGUOUS_HALTED"
               ELSE IF kinds \cap EXIT_EVENTS # {} THEN "PARTIALLY_CLOSED"
               ELSE "OPEN"
<1> DEFINE kinds == {events[i].type : i \in DOMAIN events}
           rejected == "ENTRY_REJECTED" \in kinds
           cancelled == "POSITION_CANCELLED" \in kinds
           closed == "POSITION_CLOSED" \in kinds
           unfilled == "ENTRY_FILLED" \notin kinds
           halted == Halted(spec, events)
           exited == kinds \cap EXIT_EVENTS # {}
           c == << <<rejected, "REJECTED">>, <<cancelled, "CANCELLED">>, <<closed, "CLOSED">>,
                   <<unfilled, "PENDING_ENTRY">>, <<halted, "AMBIGUOUS_HALTED">>,
                   <<exited, "PARTIALLY_CLOSED">>, <<TRUE, "OPEN">> >>
<1>1. PopulationOf(spec, events) = FirstOf(c)
  BY DEF PopulationOf
<1>2. /\ rejected \in BOOLEAN /\ cancelled \in BOOLEAN /\ closed \in BOOLEAN
      /\ unfilled \in BOOLEAN /\ halted \in BOOLEAN /\ exited \in BOOLEAN
  BY DEF Halted
<1> HIDE DEF rejected, cancelled, closed, unfilled, halted, exited
<1>3. /\ DOMAIN c = 1..7 /\ c[1] = <<rejected, "REJECTED">> /\ c[2] = <<cancelled, "CANCELLED">> /\ c[3] = <<closed, "CLOSED">>
      /\ c[4] = <<unfilled, "PENDING_ENTRY">> /\ c[5] = <<halted, "AMBIGUOUS_HALTED">>
      /\ c[6] = <<exited, "PARTIALLY_CLOSED">> /\ c[7] = <<TRUE, "OPEN">>
  <2>1. DOMAIN c = 1..7
    BY Z3
  <2>2. c[1] = <<rejected, "REJECTED">> /\ c[2] = <<cancelled, "CANCELLED">> /\ c[3] = <<closed, "CLOSED">>
    BY Zenon
  <2>3. /\ c[4] = <<unfilled, "PENDING_ENTRY">> /\ c[5] = <<halted, "AMBIGUOUS_HALTED">>
        /\ c[6] = <<exited, "PARTIALLY_CLOSED">> /\ c[7] = <<TRUE, "OPEN">>
    BY Zenon
  <2> QED BY <2>1, <2>2, <2>3
<1>4. /\ c[1][1] <=> rejected
      /\ c[2][1] <=> cancelled
      /\ c[3][1] <=> closed
      /\ c[4][1] <=> unfilled
      /\ c[5][1] <=> halted
      /\ c[6][1] <=> exited
      /\ c[7][1]
  BY <1>2, <1>3
<1>5. /\ c[1][2] = "REJECTED" /\ c[2][2] = "CANCELLED" /\ c[3][2] = "CLOSED"
      /\ c[4][2] = "PENDING_ENTRY" /\ c[5][2] = "AMBIGUOUS_HALTED"
      /\ c[6][2] = "PARTIALLY_CLOSED" /\ c[7][2] = "OPEN"
  BY <1>3
<1> HIDE DEF c
<1>6. FirstOf(c) = IF rejected THEN "REJECTED" ELSE IF cancelled THEN "CANCELLED" ELSE IF closed THEN "CLOSED"
       ELSE IF unfilled THEN "PENDING_ENTRY" ELSE IF halted THEN "AMBIGUOUS_HALTED"
       ELSE IF exited THEN "PARTIALLY_CLOSED" ELSE "OPEN"
  <2>1. \A j : (j \in 1..0 => FALSE) /\ (j \in 1..1 => j = 1) /\ (j \in 1..2 => j = 1 \/ j = 2)
    OBVIOUS
  <2>2. /\ \A j \in 1..3 : j \in {1, 2, 3}
        /\ \A j \in 1..4 : j \in {1, 2, 3, 4}
        /\ \A j \in 1..5 : j \in {1, 2, 3, 4, 5}
        /\ \A j \in 1..6 : j \in {1, 2, 3, 4, 5, 6}
    OBVIOUS
  <2>3. \A k \in 1..7 : c[k][1] /\ (\A j \in 1..(k - 1) : ~c[j][1]) => FirstOf(c) = c[k][2]
    BY <1>3, FirstIs
  <2>4. CASE rejected
    <3>1. FirstOf(c) = c[1][2]
      BY <1>4, <2>1, <2>3, <2>4
    <3> QED BY <1>5, <2>4, <3>1
  <2>5. CASE ~rejected /\ cancelled
    <3>1. FirstOf(c) = c[2][2]
      BY <1>4, <2>1, <2>3, <2>5
    <3> QED BY <1>5, <2>5, <3>1
  <2>6. CASE ~rejected /\ ~cancelled /\ closed
    <3>1. FirstOf(c) = c[3][2]
      BY <1>4, <2>1, <2>3, <2>6
    <3> QED BY <1>5, <2>6, <3>1
  <2>7. CASE ~rejected /\ ~cancelled /\ ~closed /\ unfilled
    <3>1. FirstOf(c) = c[4][2]
      BY <1>4, <2>2, <2>3, <2>7
    <3> QED BY <1>5, <2>7, <3>1
  <2>8. CASE ~rejected /\ ~cancelled /\ ~closed /\ ~unfilled /\ halted
    <3>1. FirstOf(c) = c[5][2]
      BY <1>4, <2>2, <2>3, <2>8
    <3> QED BY <1>5, <2>8, <3>1
  <2>9. CASE ~rejected /\ ~cancelled /\ ~closed /\ ~unfilled /\ ~halted /\ exited
    <3>1. FirstOf(c) = c[6][2]
      BY <1>4, <2>2, <2>3, <2>9
    <3> QED BY <1>5, <2>9, <3>1
  <2>10. CASE ~rejected /\ ~cancelled /\ ~closed /\ ~unfilled /\ ~halted /\ ~exited
    <3>1. FirstOf(c) = c[7][2]
      BY <1>4, <2>2, <2>3, <2>10
    <3> QED BY <1>5, <2>10, <3>1
  <2> QED BY <2>4, <2>5, <2>6, <2>7, <2>8, <2>9, <2>10
<1> QED BY <1>1, <1>6 DEF rejected, cancelled, closed, unfilled, halted, exited

\* What the folding reads: the financial events, and of them the closings.
FinancialIn(s) == {i \in DOMAIN s : s[i].type \in FINANCIAL_EVENTS}

Financial(s) == [i \in FinancialIn(s) |-> s[i]]

Closings(s) == {i \in FinancialIn(s) : s[i].type = "POSITION_CLOSED"}

\* The folding takes its figures of the only closing, or sums the exits.
LEMMA FoldIs ==
    ASSUME NEW spec, NEW s
    PROVE  LET read == Financial(s)
               C == Closings(s)
               record == FoldLedger(spec, s)
           IN  /\ record.population = PopulationOf(spec, read)
               /\ spec.feePerUnit = None => record.fees = None
               /\ C = {} =>
                     /\ record.gross = SumOver(s, EXIT_EVENTS, "gross")
                     /\ spec.feePerUnit # None =>
                           record.fees = spec.feePerUnit * SumOver(s, EXIT_EVENTS, "quantity")
               /\ \A n \in Nat : C = {n} =>
                     /\ record.gross = s[n].data.realized
                     /\ spec.feePerUnit # None => record.fees = s[n].data.charged
<1> DEFINE D == FinancialIn(s)
           read == Financial(s)
           C == Closings(s)
           R == {i \in DOMAIN read : read[i].type = "POSITION_CLOSED"}
           closing == read[Min(R)]
           gross == IF R # {} THEN closing.data.realized ELSE SumOver(s, EXIT_EVENTS, "gross")
           fees == IF spec.feePerUnit = None THEN None
                   ELSE IF R # {} THEN closing.data.charged
                   ELSE spec.feePerUnit * SumOver(s, EXIT_EVENTS, "quantity")
<1>1. Restrict(s, D) = read
  BY DEF Restrict, Financial
<1>2. R = C
  BY DEF Financial, Closings
<1>3. /\ FoldLedger(spec, s).population = PopulationOf(spec, read)
      /\ FoldLedger(spec, s).gross = gross
      /\ FoldLedger(spec, s).fees = fees
  BY <1>1 DEF FoldLedger, FinancialIn
<1>4. ASSUME NEW n \in Nat, C = {n}
      PROVE  closing = s[n]
  <2>1. Min({n}) = n
    BY DEF Min
  <2>2. n \in D
    BY <1>4 DEF Closings
  <2> QED BY <1>2, <1>4, <2>1, <2>2 DEF Financial
<1> HIDE DEF read, R, C, closing
<1>5. \A n : C = {n} => C # {}
  OBVIOUS
<1> QED BY <1>2, <1>3, <1>4, <1>5 DEF read, C

\* The cheap path gives the engine's own figures on every readable ledger.
LEMMA FoldReads ==
    ASSUME NEW p, Readable(p)
    PROVE  LET record == FoldLedger(p.spec, p.events)
           IN  /\ record.population = p.state
               /\ record.gross = p.gross
               /\ p.state \in Terminal => record.fees = p.fees
<1> DEFINE D == FinancialIn(p.events)
           read == Financial(p.events)
           C == Closings(p.events)
           kinds == {read[i].type : i \in DOMAIN read}
           record == FoldLedger(p.spec, p.events)
<1>1. /\ Good(p) /\ Silent(p) /\ Balanced(p) /\ Marked(p) /\ Sealed(p)
      /\ Len(p.events) \in Nat /\ DOMAIN p.events = 1..Len(p.events)
  BY GoodShape DEF Readable, Shaped, IsLedger
<1>2. EXIT_EVENTS = FillTypes
  BY DEF EXIT_EVENTS, FillTypes
<1>3. \A type \in FINANCIAL_EVENTS : type \in kinds <=> Tells(p, type)
  BY <1>1 DEF Tells, Financial, FinancialIn
<1>4. (kinds \cap EXIT_EVENTS # {}) <=> TellsExit(p)
  <2>1. EXIT_EVENTS \subseteq FINANCIAL_EVENTS
    BY DEF FINANCIAL_EVENTS
  <2> QED BY <1>1, <2>1 DEF TellsExit, Financial, FinancialIn
<1>5. Halted(p.spec, read) <=> Suspended(p)
  <2>1. Thawing \subseteq FINANCIAL_EVENTS /\ "SAME_BAR_AMBIGUITY" \in FINANCIAL_EVENTS
    BY DEF FINANCIAL_EVENTS, Thawing
  <2>2. DOMAIN read = D /\ \A i \in D : read[i] = p.events[i]
    BY DEF Financial
  <2>3. \A i \in 1..Len(p.events) : i \in D <=> p.events[i].type \in FINANCIAL_EVENTS
    BY <1>1 DEF FinancialIn
  <2>4. D \subseteq 1..Len(p.events)
    BY <1>1 DEF FinancialIn
  <2> HIDE DEF read, D
  <2>5. Halted(p.spec, read) => Suspended(p)
    BY <2>1, <2>2, <2>3, <2>4 DEF Halted, Suspended, Thawing
  <2>6. Suspended(p) => Halted(p.spec, read)
    BY <2>1, <2>2, <2>3, <2>4 DEF Halted, Suspended, Thawing
  <2> QED BY <2>5, <2>6
<1>6. p.state \in PositionStates /\ (p.state \in Exposed => p.remaining # 0)
  BY <1>1 DEF Good, Units, PaperPositions, Builders
<1>7. p.state \in {"OPEN", "PARTIALLY_CLOSED"} => ~Suspended(p)
  BY <1>1 DEF Silent, Clear, Suspended
<1>8. PopulationOf(p.spec, read) = p.state
  <2>1. {"ENTRY_REJECTED", "POSITION_CANCELLED", "POSITION_CLOSED", "ENTRY_FILLED"}
          \subseteq FINANCIAL_EVENTS
    BY DEF FINANCIAL_EVENTS
  <2>2. /\ "ENTRY_REJECTED" \in kinds <=> p.state = "REJECTED"
        /\ "POSITION_CANCELLED" \in kinds <=> p.state = "CANCELLED"
        /\ "POSITION_CLOSED" \in kinds <=> p.state = "CLOSED"
        /\ "ENTRY_FILLED" \in kinds <=> p.state \in Exposed \cup {"CLOSED"}
    BY <1>1, <1>3, <2>1 DEF Marked
  <2>3. /\ p.state \in {"OPEN", "PARTIALLY_CLOSED"} =>
             (kinds \cap EXIT_EVENTS # {} <=> p.state = "PARTIALLY_CLOSED")
        /\ Halted(p.spec, read) <=> Suspended(p)
        /\ p.state = "AMBIGUOUS_HALTED" => Suspended(p)
    BY <1>1, <1>4, <1>5, <1>6 DEF Marked, Exposed
  <2> HIDE DEF read
  <2>4. PopulationOf(p.spec, read) =
          IF "ENTRY_REJECTED" \in kinds THEN "REJECTED"
          ELSE IF "POSITION_CANCELLED" \in kinds THEN "CANCELLED"
          ELSE IF "POSITION_CLOSED" \in kinds THEN "CLOSED"
          ELSE IF "ENTRY_FILLED" \notin kinds THEN "PENDING_ENTRY"
          ELSE IF Halted(p.spec, read) THEN "AMBIGUOUS_HALTED"
          ELSE IF kinds \cap EXIT_EVENTS # {} THEN "PARTIALLY_CLOSED"
          ELSE "OPEN"
    BY PopulationIs
  <2> HIDE DEF kinds
  <2> QED BY <1>6, <1>7, <2>2, <2>3, <2>4 DEF PositionStates, Exposed
<1>9. /\ record.population = PopulationOf(p.spec, read)
      /\ p.spec.feePerUnit = None => record.fees = None
      /\ C = {} =>
            /\ record.gross = SumOver(p.events, EXIT_EVENTS, "gross")
            /\ p.spec.feePerUnit # None =>
                  record.fees = p.spec.feePerUnit * SumOver(p.events, EXIT_EVENTS, "quantity")
      /\ \A n \in Nat : C = {n} =>
            /\ record.gross = p.events[n].data.realized
            /\ p.spec.feePerUnit # None => record.fees = p.events[n].data.charged
  BY FoldIs
<1>10. CASE p.state = "CLOSED"
  <2> DEFINE n == Len(p.events)
  <2>1. /\ n \in Nat /\ n >= 1 /\ p.events[n].type = "POSITION_CLOSED"
        /\ p.events[n].data = [realized |-> p.gross, charged |-> p.fees]
        /\ \A i \in 1..(n - 1) : p.events[i].type # "POSITION_CLOSED"
    BY <1>1, <1>10 DEF Sealed
  <2>2. "POSITION_CLOSED" \in FINANCIAL_EVENTS
    BY DEF FINANCIAL_EVENTS
  <2> HIDE DEF n
  <2>3. C = {n}
    BY <1>1, <2>1, <2>2 DEF n, Closings, FinancialIn
  <2>4. p.events[n].data.realized = p.gross /\ p.events[n].data.charged = p.fees
    BY <2>1
  <2>5. p.spec.feePerUnit = None => p.fees = None
    BY <1>1 DEF Balanced
  <2> HIDE DEF record, read, C
  <2> QED BY <1>8, <1>9, <2>1, <2>3, <2>4, <2>5 DEF record
<1>11. CASE p.state # "CLOSED"
  <2>1. C = {}
    BY <1>1, <1>11 DEF Marked, Tells, Closings, FinancialIn
  <2>2. /\ p.gross = SumOver(p.events, EXIT_EVENTS, "gross")
        /\ Exited(p.events) = SumOver(p.events, EXIT_EVENTS, "quantity")
    BY <1>1, <1>2 DEF Balanced, Realized, Exited
  <2>3. ASSUME p.state \in Terminal
        PROVE  p.fees = IF p.spec.feePerUnit = None THEN None
                        ELSE p.spec.feePerUnit * Exited(p.events)
    <3>1. \A i \in 1..Len(p.events) : p.events[i].type \notin {"ENTRY_FILLED"}
      BY <1>1, <1>11, <2>3 DEF Marked, Tells, Terminal, Exposed
    <3>2. Entered(p.events) = 0
      BY <1>1, <3>1, SumOfNone DEF Entered
    <3>3. 0 + Exited(p.events) = Exited(p.events)
      BY <1>1 DEF Balanced
    <3> QED BY <1>1, <3>2, <3>3 DEF Balanced
  <2> HIDE DEF record, read, C
  <2> QED BY <1>8, <1>9, <2>1, <2>2, <2>3 DEF record
<1> QED BY <1>10, <1>11

(***************************************************************************)
(* Every stored position is readable: opening, bars and commands are all   *)
(* the ledger ever sees.                                                   *)
(***************************************************************************)
LedgersInv ==
    /\ DOMAIN rows = Positions
    /\ \A id \in Positions : Exists(id) => Readable(rows[id])

\* A position opens readable.
LEMMA OpenKeepsLedgers ==
    ASSUME LedgersInv, NEW id \in Positions, Open(id)
    PROVE  LedgersInv'
<1> DEFINE q == OpenPosition(Specs[id], Specs[id].quantity, TRUE, TRUE).position
<1>1. Specs[id] \in PositionSpec /\ ValidSpec(Specs[id]) /\ Specs[id].quantity \in Nat \cup {None}
  BY PerformanceLedgers DEF PositionSpec, ValidSpec
<1>2. q # None => Readable(q)
  <2>1. TRUE \in BOOLEAN
    OBVIOUS
  <2> QED BY <1>1, <2>1, OpenReadable
<1>3. rows' = [rows EXCEPT ![id] = q]
  BY DEF Open
<1> HIDE DEF q
<1> QED BY <1>2, <1>3 DEF LedgersInv, Exists

\* An input the engine accepts leaves a position readable.
LEMMA CommitKeepsLedgers ==
    ASSUME LedgersInv, NEW id \in Positions, NEW input \in Inputs[id], Commit(id, input)
    PROVE  LedgersInv'
<1> DEFINE q == ApplyInput(rows[id], input).position
<1>1. Readable(rows[id])
  BY DEF Commit, LedgersInv
<1>2. Readable(q)
  <2>1. CASE input.kind = "BAR" /\ input.bar \in Bar
    <3>1. q = ApplyObservation(rows[id], input.bar).position
      BY <2>1 DEF ApplyInput
    <3> QED BY <1>1, <2>1, <3>1, ObservationReadable
  <2>2. CASE input.kind \in CommandKinds
    <3>1. q = ApplyCommand(rows[id], input.kind).position
      BY <2>2 DEF ApplyInput, CommandKinds
    <3> QED BY <1>1, <2>2, <3>1, CommandReadable
  <2> QED BY <2>1, <2>2, PerformanceLedgers DEF CommandKinds
<1>3. rows' = [rows EXCEPT ![id] = q]
  BY DEF Commit
<1> HIDE DEF q
<1> QED BY <1>2, <1>3 DEF LedgersInv, Exists

\* Whatever is asked, annotated or refused, every stored position is readable.
LEMMA LedgersInvariant == PerformanceSpec => []LedgersInv
<1>1. PerformanceInit => LedgersInv
  BY DEF PerformanceInit, LedgersInv, Exists
<1>2. LedgersInv /\ [PerformanceNext]_performanceVars => LedgersInv'
  <2> SUFFICES ASSUME LedgersInv, [PerformanceNext]_performanceVars PROVE LedgersInv'
    OBVIOUS
  <2>1. ASSUME rows' = rows
        PROVE  LedgersInv'
    BY <2>1 DEF LedgersInv, Exists
  <2>2. \/ \E id \in Positions : Open(id) \/ \E input \in Inputs[id] : Commit(id, input)
        \/ rows' = rows
    BY DEF PerformanceNext, performanceVars, ReadAnnotation, Ask, CountMatching, SelectAll,
           SelectPage, Fold, Annotate, ReadRows, ReadEvents, WriteAnnotation
  <2> QED BY <2>1, <2>2, OpenKeepsLedgers, CommitKeepsLedgers
<1> QED BY <1>1, <1>2, PTL DEF PerformanceSpec

\* The population, the gross and, once a position is over, the fees folded from
\* its financial events are the engine's own, after every history.
THEOREM FoldsAgree == PerformanceSpec => []FoldMatchesEngine
<1>1. LedgersInv => FoldMatchesEngine
  BY FoldReads DEF LedgersInv, FoldMatchesEngine
<1> QED BY <1>1, LedgersInvariant, PTL
=============================================================================
