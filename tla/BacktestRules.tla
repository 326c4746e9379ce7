--------------------------- MODULE BacktestRules ---------------------------
(***************************************************************************)
(* The causal walk of a backtest: one strategy decision per closed driver  *)
(* candle, the risk engine's answer and the paper engine's fills, in       *)
(* memory (backend/app/application/backtest/service.py and                 *)
(* backend/app/domain/backtest).  Nothing here is stored.                  *)
(*                                                                         *)
(* A configuration holds everything the fingerprint covers.  dataset.bars  *)
(* is the driver series; dataset.readings the indicator values the one     *)
(* technical engine computed for each bar, None while an indicator warms   *)
(* up.  The higher timeframes are left out: the one shipped strategy does  *)
(* not read them.                                                          *)
(***************************************************************************)
EXTENDS PaperEngine

Risk == INSTANCE RiskRules

CONSTANTS
    MaxBoundaries,      \* RunBounds.max_boundaries
    MaxPositions,       \* RunBounds.max_positions
    MaxWarmUp           \* RunBounds.max_warm_up_bars

Least(a, b) == IF a < b THEN a ELSE b

DecisionOutcomes == {"NO_SIGNAL", "WAIT", "ENTERED", "REFUSED_BY_RISK",
                     "REFUSED_BY_ENGINE", "EXIT_REQUESTED", "HOLDING"}

CoverageEnd(bar) == bar.time + Interval

NoReadings == [fast |-> None, slow |-> None, atr |-> None, adx |-> None]

(***************************************************************************)
(* The strategy.                                                           *)
(***************************************************************************)
WarmUpBars(strategy) == strategy.slowPeriod + 1

Usable(r, strategy) ==
    /\ r.fast # None /\ r.slow # None /\ r.atr # None
    /\ strategy.adxMinimum # None => r.adx # None

\* Which way the fast average crossed the slow one between two readings.
Crossing(previous, current) ==
    IF previous.fast <= previous.slow /\ current.fast > current.slow THEN "LONG"
    ELSE IF previous.fast >= previous.slow /\ current.fast < current.slow THEN "SHORT"
    ELSE None

Said(kind) == [kind |-> kind, entry |-> None]

\* The entry the rule proposes: levels from the ATR, a whole quantity.
EntryIntent(strategy, direction, close, atr) ==
    LET side == IF direction = "LONG" THEN 1 ELSE -1
    IN  [direction |-> direction, entry |-> close, quantity |-> strategy.quantity,
         stop |-> close - side * atr * strategy.stopMultiple,
         target |-> close + side * atr * strategy.targetMultiple]

\* decide, for the bar i of the dataset
Decide(c, i, holding) ==
    LET s == c.strategy
        current == c.dataset.readings[i]
        previous == IF i > 1 THEN c.dataset.readings[i - 1] ELSE NoReadings
        crossed == Crossing(previous, current)
        intent == EntryIntent(s, crossed, c.dataset.bars[i].close, current.atr)
    IN  IF i < WarmUpBars(s) \/ ~Usable(current, s) \/ ~Usable(previous, s)
        THEN Said("WAIT")
        ELSE IF holding
        THEN Said(IF crossed = None THEN "NO_SIGNAL" ELSE "EXIT_INTENT")
        ELSE IF \/ crossed = None
                \/ crossed = "LONG" /\ ~s.allowLong
                \/ crossed = "SHORT" /\ ~s.allowShort
                \/ s.adxMinimum # None /\ current.adx < s.adxMinimum
        THEN Said("NO_SIGNAL")
        ELSE IF current.atr <= 0 THEN Said("WAIT")
        ELSE IF intent.stop <= 0 \/ intent.target <= 0 THEN Said("WAIT")
        ELSE [kind |-> "ENTRY_INTENT", entry |-> intent]

(***************************************************************************)
(* Derived levels are moved onto the verified grid, away from the entry.   *)
(***************************************************************************)
AwayFrom(entry, price, tick) ==
    LET lower == price - (price % tick)
    IN  IF price % tick = 0 \/ price = entry THEN price
        ELSE IF price < entry THEN lower ELSE lower + tick

AlignIntent(intent, tick) ==
    [intent EXCEPT !.stop = AwayFrom(intent.entry, @, tick),
                   !.target = AwayFrom(intent.entry, @, tick)]

\* _aligned: an unverified grid moves nothing
Aligned(intent, product) ==
    LET tick == Risk!Authoritative(product.tick)
    IN  IF tick = None THEN intent ELSE AlignIntent(intent, tick)

(***************************************************************************)
(* The walk.  Its state is the trace, the positions with their ledgers,    *)
(* the position that is open and the exception that ended it.              *)
(***************************************************************************)
StartOfWalk == [decisions |-> <<>>, positions |-> <<>>, open |-> None, error |-> OK]

Raised(walk, code) == [walk EXCEPT !.error = code]

Record(walk, boundary, outcome, position, direction) ==
    [walk EXCEPT !.decisions =
        Append(@, [asOf |-> boundary, outcome |-> outcome,
                   position |-> position, direction |-> direction])]

\* _frozen: the ledger of the last position as it now stands
Frozen(walk, position) ==
    [walk EXCEPT !.positions[Len(walk.positions)].events = position.events]

\* The closed position gives its place up; an open one stays.
Settled(walk, position) ==
    IF position.state \in Terminal
    THEN [Frozen(walk, position) EXCEPT !.open = None]
    ELSE [walk EXCEPT !.open = position]

\* The bar that just closed goes to the open position first.
GiveBar(walk, bar) ==
    IF walk.open = None THEN walk
    ELSE LET given == ApplyObservation(walk.open, bar)
         IN  IF given.code # OK THEN Raised(walk, given.code)
             ELSE Settled(walk, given.position)

\* _handle_open: only an exit that is not already pending acts
HandleOpen(walk, boundary, decision) ==
    LET asks == decision.kind = "EXIT_INTENT" /\ ~walk.open.closePending
        noted == Record(walk, boundary, IF asks THEN "EXIT_REQUESTED" ELSE "HOLDING",
                        Len(walk.positions), None)
        closing == RequestClose(walk.open)
    IN  IF ~asks THEN noted
        ELSE IF closing.code # OK THEN Raised(walk, closing.code)
        ELSE Settled(noted, closing.position)

\* The specification _attempt_entry builds from an aligned intent.
SpecOf(c, intent, units, boundary) ==
    [direction |-> intent.direction, quantity |-> units, entry |-> intent.entry,
     stop |-> intent.stop,
     targets |-> <<[price |-> intent.target, quantity |-> Least(intent.quantity, units)]>>,
     decision |-> boundary, sameBar |-> c.simulation.sameBar,
     slippage |-> c.simulation.slippage, feePerUnit |-> c.simulation.feePerUnit]

\* open_position, its refusal recorded, its acceptance bounded and appended
Opened(walk, boundary, spec, allowed, product) ==
    LET tick == Risk!Authoritative(product.tick)
        onGrid == tick # None => /\ Risk!OnGrid(spec.stop, tick)
                                 /\ Risk!OnGrid(spec.targets[1].price, tick)
        opened == OpenPosition(spec, allowed, TRUE, onGrid)
    IN  IF opened.code # OK
        THEN Record(walk, boundary, "REFUSED_BY_ENGINE", None, spec.direction)
        ELSE IF Len(walk.positions) + 1 > MaxPositions
        THEN Raised(walk, "RESOURCE_LIMIT")
        ELSE [Record(walk, boundary, "ENTERED", Len(walk.positions) + 1, spec.direction)
                EXCEPT !.open = opened.position,
                       !.positions = Append(@, [spec |-> spec, approval |-> allowed,
                                                events |-> opened.position.events])]

\* Mutant: the position takes what the rule asked for.
AttemptEntryUnsized(walk, c, boundary, proposed) ==
    LET intent == Aligned(proposed, c.product)
    IN  Opened(walk, boundary, SpecOf(c, intent, intent.quantity, boundary),
               intent.quantity, c.product)

\* _attempt_entry: grid, then risk, then the engine.  A level the grid moved
\* to zero, a product whose metadata contradicts itself and a specification
\* that cannot be built are exceptions nobody handles.
AttemptEntry(walk, c, boundary, proposed) ==
    LET intent == Aligned(proposed, c.product)
        sizing == Risk!SizeForProduct(intent.direction, intent.entry, intent.stop,
                                      c.product, c.account, c.policy)
        spec == SpecOf(c, intent, Least(intent.quantity, sizing.allowed), boundary)
    IN  IF intent.stop <= 0 \/ ~Risk!Calculable(c.product)
        THEN Raised(walk, "INTERNAL_ERROR")
        ELSE IF sizing.outcome # "ALLOWED"
        THEN Record(walk, boundary, "REFUSED_BY_RISK", None, intent.direction)
        ELSE IF ~ValidSpec(spec) THEN Raised(walk, "INTERNAL_ERROR")
        ELSE Opened(walk, boundary, spec, sizing.allowed, c.product)

\* What the decision about a flat book does.
HandleFlat(walk, c, boundary, decision) ==
    IF decision.kind = "WAIT" THEN Record(walk, boundary, "WAIT", None, None)
    ELSE IF decision.kind # "ENTRY_INTENT"
    THEN Record(walk, boundary, "NO_SIGNAL", None, None)
    ELSE AttemptEntry(walk, c, boundary, decision.entry)

Handled(walk, c, boundary, decision) ==
    IF walk.open # None THEN HandleOpen(walk, boundary, decision)
    ELSE HandleFlat(walk, c, boundary, decision)

\* Mutant: the rule answers first, and its position sees the bar afterwards.
VisitAskedFirst(walk, c, i) ==
    IF walk.error # OK THEN walk
    ELSE LET answered == Handled(walk, c, CoverageEnd(c.dataset.bars[i]),
                                 Decide(c, i, walk.open # None))
         IN  IF answered.error # OK \/ walk.open = None THEN answered
             ELSE GiveBar(answered, c.dataset.bars[i])

\* One boundary of _evaluate.
Visit(walk, c, i) ==
    IF walk.error # OK THEN walk
    ELSE LET given == GiveBar(walk, c.dataset.bars[i])
         IN  IF given.error # OK THEN given
             ELSE Handled(given, c, CoverageEnd(c.dataset.bars[i]),
                          Decide(c, i, given.open # None))

\* _boundaries_in: the bars whose coverage ends inside the requested window
Boundaries(c) ==
    {i \in 1..Len(c.dataset.bars) : /\ c.start <= CoverageEnd(c.dataset.bars[i])
                                    /\ CoverageEnd(c.dataset.bars[i]) <= c.end}

\* The walk over them in order; what lies outside the window is never visited.
Walk(c) ==
    LET after[i \in 0..Len(c.dataset.bars)] ==
            IF i = 0 THEN StartOfWalk
            ELSE IF i \in Boundaries(c) THEN Visit(after[i - 1], c, i) ELSE after[i - 1]
    IN  after[Len(c.dataset.bars)]

\* A position still open at the end of the data stays open in its ledger.
Ended(walk) == IF walk.open = None THEN walk ELSE Frozen(walk, walk.open)

\* _evaluate: the refusals, the walk, and what the last bar left open
Evaluate(c) ==
    IF Boundaries(c) = {} THEN Raised(StartOfWalk, "INTERVAL_EMPTY")
    ELSE IF Cardinality(Boundaries(c)) > MaxBoundaries \/ WarmUpBars(c.strategy) > MaxWarmUp
    THEN Raised(StartOfWalk, "RESOURCE_LIMIT")
    ELSE Ended(Walk(c))

(***************************************************************************)
(* What a configuration holds: the constructors of its parts have checked  *)
(* the contract, the account and the policy before run sees them.          *)
(***************************************************************************)
ValidDataset(d) ==
    /\ d.bars \in Seq(Bar)
    /\ \A i \in DOMAIN d.bars : d.readings[i].atr \in Int \cup {None}

ValidProduct(p) ==
    /\ p.multiplier.value \in Int /\ p.tick.value \in Int
    /\ p.margin # None => p.margin.value \in Int
    /\ Risk!ValidContract(p)

ValidPolicy(p) ==
    /\ IF p.mode = "FIXED" THEN p.fixed \in Int ELSE p.fraction \in Int \X Int
    /\ p.cap \in Int \cup {None}
    /\ Risk!ValidPolicy(p)

ValidConfig(c) ==
    /\ c.dataset # None => ValidDataset(c.dataset)
    /\ c.product # None => ValidProduct(c.product)
    /\ c.account.equity \in Int /\ c.account.used \in Int /\ Risk!ValidAccount(c.account)
    /\ ValidPolicy(c.policy)
    /\ {c.strategy.stopMultiple, c.strategy.targetMultiple, c.strategy.quantity} \subseteq Int

(***************************************************************************)
(* What run refuses before anything is stored.                             *)
(***************************************************************************)
\* _require_dataset_on_grid: only a verified grid convicts a price
DatasetOnGrid(c) ==
    LET tick == Risk!Authoritative(c.product.tick)
    IN  tick = None \/ \A i \in DOMAIN c.dataset.bars :
            LET bar == c.dataset.bars[i]
            IN  \A price \in {bar.open, bar.high, bar.low, bar.close} :
                    Risk!OnGrid(price, tick)

SlippageOnGrid(c) ==
    LET tick == Risk!Authoritative(c.product.tick)
    IN  tick = None \/ Risk!OnGrid(c.simulation.slippage, tick)

\* The first refusal of run, in its order; OK when the attempt may proceed.
Refusal(c) ==
    IF ~c.supported THEN "STRATEGY_UNSUPPORTED"
    ELSE IF c.dataset = None THEN "DATASET_NOT_FOUND"
    ELSE IF c.dataset.bars = <<>> THEN "DRIVER_TIMEFRAME_MISSING"
    ELSE IF c.product = None THEN "PRODUCT_METADATA_UNAVAILABLE"
    ELSE IF ~DatasetOnGrid(c) THEN "DATASET_OFF_PRODUCT_GRID"
    ELSE IF ~SlippageOnGrid(c) THEN "SLIPPAGE_OFF_PRODUCT_GRID"
    ELSE OK
=============================================================================
