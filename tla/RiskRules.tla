----------------------------- MODULE RiskRules -----------------------------
(***************************************************************************)
(* The money rules: what a futures contract's metadata allows, position    *)
(* sizing, margin, profit and loss, risk/reward and the what-if simulator  *)
(* (backend/app/domain/{instrument,futures,risk}).                         *)
(*                                                                         *)
(* Prices and money are integers: the code's Decimals are exact here.  A   *)
(* ratio is the pair of its numerator and its denominator, None when the   *)
(* denominator is zero, and is only ever compared; the 28 digits to which  *)
(* the code rounds one are out of reach of the comparisons below.  A value *)
(* with provenance is a Fact or None; wording is left out of every answer. *)
(***************************************************************************)
EXTENDS Integers, FiniteSets, FiniteSetsExt

CONSTANT None

(***************************************************************************)
(* Facts and contracts.                                                    *)
(***************************************************************************)
\* A value with its status, and whether it names a source and a date.
Fact(value, authoritative, sourced, dated) ==
    [value |-> value, authoritative |-> authoritative,
     sourced |-> sourced, dated |-> dated]

Verified(value) == Fact(value, TRUE, TRUE, TRUE)
Unverified(value) == Fact(value, FALSE, TRUE, FALSE)

\* The value of a fact that may be relied on, None for every other one.
Authoritative(fact) ==
    IF fact # None /\ fact.authoritative THEN fact.value ELSE None

Implemented(class) == class = "FUTURES"

\* FuturesContract.__post_init__: what no record may hold.
ValidContract(c) ==
    /\ c.classification # None => c.classification.value = "FUTURES"
    /\ c.multiplier.value > 0 /\ c.tick.value > 0
    /\ c.tickValue # None => c.tickValue.value > 0
    /\ c.margin # None => c.margin.value > 0
    /\ c.maintenance # None => c.maintenance.value >= 0

\* The numbers of a record.
NumericContract(c) ==
    /\ {c.multiplier.value, c.tick.value} \subseteq Int
    /\ \A f \in {c.tickValue, c.margin} : f # None => f.value \in Int

\* The class of the record follows its own source and no number's.
Classification(c) ==
    IF c.classification # None THEN c.classification ELSE Unverified("FUTURES")

\* check_tick_grid and on_grid: an exact remainder, never a rounded price.
OnGrid(price, tick) == price % tick = 0

\* check_tick_value: the identity of linear valuation, checked only under it.
TickValueIssue(c) ==
    IF c.tickValue = None THEN None
    ELSE IF c.valuation # "LINEAR" THEN "TICK_VALUE_UNCHECKABLE"
    ELSE IF c.tickValue.value # c.tick.value * c.multiplier.value
    THEN "TICK_VALUE_INCONSISTENT" ELSE None

\* Every fact of the record that carries provenance.
NamedFacts(c) ==
    {c.multiplier, c.tick, c.tickValue, c.margin, c.maintenance,
     c.classification, c.expiry, c.last} \ {None}

ProvenanceIssues(c) ==
    {"UNSOURCED_VERIFIED_FACT" : f \in {g \in NamedFacts(c) : g.authoritative /\ ~g.sourced}}
    \cup {"UNDATED_VERIFIED_FACT" : f \in {g \in NamedFacts(c) : g.authoritative /\ ~g.dated}}

ContractIssues(c) ==
    (IF c.multiplier.authoritative THEN {} ELSE {"UNVERIFIED_MULTIPLIER"})
    \cup (IF c.tick.authoritative THEN {} ELSE {"UNVERIFIED_TICK_SIZE"})
    \cup (IF c.margin = None THEN {"MISSING_MARGIN"}
          ELSE IF c.margin.authoritative THEN {} ELSE {"UNVERIFIED_MARGIN"})
    \cup (IF c.expiry = None THEN {"MISSING_EXPIRY"}
          ELSE IF c.expiry.authoritative THEN {} ELSE {"UNVERIFIED_EXPIRY"})
    \cup ({TickValueIssue(c)} \ {None})
    \cup ProvenanceIssues(c)

BlockingIssues(c) ==
    ContractIssues(c) \cap {"UNVERIFIED_MULTIPLIER", "TICK_VALUE_INCONSISTENT",
                            "UNSOURCED_VERIFIED_FACT"}

\* Mutant: the cross-check of the tick value is computed and read by nothing.
CalculableUnchecked(c) == Implemented(Classification(c).value) /\ c.valuation = "LINEAR"

\* require_product_calculable: class, whole units (every future), economics.
Calculable(c) ==
    /\ Implemented(Classification(c).value)
    /\ c.valuation = "LINEAR"
    /\ TickValueIssue(c) # "TICK_VALUE_INCONSISTENT"

\* price_increment_check of the futures policy
TickFeasibility(c, entry, stop) ==
    IF ~c.tick.authoritative THEN "UNVERIFIED"
    ELSE IF OnGrid(entry, c.tick.value) /\ OnGrid(stop, c.tick.value)
    THEN "ON_GRID" ELSE "OFF_GRID"

MarginFeasibility(c) ==
    IF c.margin = None THEN "MISSING"
    ELSE IF c.margin.authoritative THEN "KNOWN" ELSE "UNVERIFIED"

(***************************************************************************)
(* The account and the user's policy.                                      *)
(***************************************************************************)
\* A ratio of two amounts, undefined over zero.
Ratio(numerator, denominator) ==
    IF denominator = 0 THEN None ELSE <<numerator, denominator>>

\* ratio > limit, for a limit of two positive numbers
Exceeds(ratio, limit) ==
    IF ratio[2] > 0 THEN ratio[1] * limit[2] > limit[1] * ratio[2]
                    ELSE ratio[1] * limit[2] < limit[1] * ratio[2]

\* RiskPolicy.__post_init__; a fraction is a pair <<numerator, denominator>>
ValidPolicy(p) ==
    /\ IF p.mode = "FIXED" THEN p.fixed # None /\ p.fixed > 0
       ELSE /\ p.fraction # None
            /\ 0 < p.fraction[1] /\ p.fraction[1] <= p.fraction[2]
    /\ p.cap # None => p.cap >= 0
    /\ p.maxUtilisation[1] > 0 /\ p.maxLeverage[1] > 0

NumericPolicy(p) ==
    /\ {p.fixed, p.cap} \subseteq Int \cup {None}
    /\ p.fraction # None => {p.fraction[1], p.fraction[2]} \subseteq Int

ValidAccount(a) == a.used >= 0
NumericAccount(a) == {a.equity, a.used} \subseteq Int

\* Both times the denominator of the fraction, so that no budget is rounded.
Denominator(p) == IF p.mode = "FIXED" THEN 1 ELSE p.fraction[2]
RiskAmount(p, equity) == IF p.mode = "FIXED" THEN p.fixed ELSE equity * p.fraction[1]

FreeMargin(a) == a.equity - a.used
AvailableForNew(a) == IF FreeMargin(a) > 0 THEN FreeMargin(a) ELSE 0
InDeficit(a) == FreeMargin(a) < 0

(***************************************************************************)
(* Sizing.                                                                 *)
(***************************************************************************)
\* stop_distance: None on the wrong side, never an absolute value
StopDistance(direction, entry, stop) ==
    IF direction = "LONG" /\ stop < entry THEN entry - stop
    ELSE IF direction = "SHORT" /\ stop > entry THEN stop - entry
    ELSE None

FloorDivide(n, d) == IF d = 0 THEN None ELSE n \div d

Sizing(outcome, allowed, byRisk, byMargin) ==
    [outcome |-> outcome, allowed |-> allowed, byRisk |-> byRisk, byMargin |-> byMargin]

Invalid == Sizing("INVALID", None, None, None)

\* _margin_capacity; meaningless unless the margin is KNOWN
MarginCapacity(c, a) ==
    IF MarginFeasibility(c) # "KNOWN" THEN 0
    ELSE FloorDivide(AvailableForNew(a), c.margin.value)

\* The end of size_for_product: zero by risk is definite, an unknown
\* constraint is not a satisfied one, and the least known bound binds.
SizeKnown(c, tick, byRisk, byMargin, cap) ==
    LET bounds == {byRisk, byMargin} \cup (IF cap = None THEN {} ELSE {cap})
    IN  IF byRisk <= 0 THEN Sizing("NOT_PERMITTED", 0, 0, byMargin)
        ELSE IF byMargin = None \/ tick # "ON_GRID"
        THEN Sizing("UNDETERMINED", None, byRisk, byMargin)
        ELSE IF Min(bounds) <= 0 THEN Sizing("NOT_PERMITTED", 0, byRisk, byMargin)
        ELSE Sizing("ALLOWED", Min(bounds), byRisk, byMargin)

\* size_for_product, after require_product_calculable
SizeForProduct(direction, entry, stop, c, a, p) ==
    LET distance == StopDistance(direction, entry, stop)
        tick == TickFeasibility(c, entry, stop)
    IN  IF \/ direction \notin {"LONG", "SHORT"}
           \/ entry <= 0 \/ stop <= 0 \/ a.equity <= 0
           \/ ~c.multiplier.authoritative
           \/ distance = None
        THEN Invalid
        ELSE IF tick = "OFF_GRID" THEN Invalid
        ELSE SizeKnown(c, tick,
                 FloorDivide(RiskAmount(p, a.equity),
                             distance * c.multiplier.value * Denominator(p)),
                 IF MarginFeasibility(c) = "KNOWN" THEN MarginCapacity(c, a) ELSE None,
                 p.cap)

(***************************************************************************)
(* Margin, profit and loss, risk/reward, what-if.                          *)
(***************************************************************************)
\* assess_margin_for_product and _warnings: exposure and margin are None when
\* a fact they rest on is not verified; riskToStop is None when not supplied.
AssessMargin(c, a, entry, units, p, riskToStop) ==
    LET multiplier == Authoritative(c.multiplier)
        margin == Authoritative(c.margin)
        exposure == IF multiplier # None /\ units > 0
                    THEN entry * multiplier * units ELSE None
        leverage == IF exposure = None THEN None ELSE Ratio(exposure, a.equity)
        resulting == IF margin # None /\ units > 0 THEN a.used + margin * units ELSE None
        utilisation == IF resulting = None THEN None ELSE Ratio(resulting, a.equity)
        warnings ==
            (IF InDeficit(a) THEN {"MARGIN_DEFICIT"} ELSE {})
            \cup (IF MarginFeasibility(c) # "KNOWN" THEN {"MARGIN_UNKNOWN"} ELSE {})
            \cup (IF utilisation # None /\ Exceeds(utilisation, p.maxUtilisation)
                  THEN {"HIGH_MARGIN_UTILIZATION"} ELSE {})
            \cup (IF leverage # None /\ Exceeds(leverage, p.maxLeverage)
                  THEN {"EXCESSIVE_EFFECTIVE_LEVERAGE"} ELSE {})
            \cup (IF /\ riskToStop # None
                     /\ riskToStop * Denominator(p) > RiskAmount(p, a.equity)
                  THEN {"RISK_LIMIT_EXCEEDED"} ELSE {})
    IN  [free |-> FreeMargin(a), available |-> AvailableForNew(a),
         exposure |-> exposure, leverage |-> leverage, resulting |-> resulting,
         remaining |-> IF resulting = None THEN None ELSE a.equity - resulting,
         warnings |-> warnings]

\* gross_pnl, for a tradeable direction and positive inputs
GrossPnL(direction, entry, exit, multiplier, units) ==
    (IF direction = "LONG" THEN exit - entry ELSE entry - exit) * multiplier * units

SumCosts(costs, supplied) == MapThenSumSet(LAMBDA k : costs[k], supplied)

\* calculate_pnl: costs are supplied one by one, and a partial set is a bound
CalculatePnL(direction, entry, exit, multiplier, units, costs) ==
    LET supplied == {k \in DOMAIN costs : costs[k] # None}
        gross == GrossPnL(direction, entry, exit, multiplier, units)
        bound == IF supplied = {} THEN None
                 ELSE gross - SumCosts(costs, supplied)
    IN  [gross |-> gross, upperBound |-> bound,
         net |-> IF supplied = DOMAIN costs THEN bound ELSE None,
         completeness |-> IF supplied = DOMAIN costs THEN "COMPLETE"
                          ELSE IF supplied = {} THEN "UNKNOWN" ELSE "PARTIAL"]

\* risk_reward: refused on a wrong side, never a ratio of absolute distances
RiskReward(direction, entry, stop, target) ==
    LET risk == StopDistance(direction, entry, stop)
        reward == IF direction = "LONG" THEN target - entry ELSE entry - target
    IN  IF risk = None \/ reward <= 0 THEN None ELSE Ratio(reward, risk)

\* simulate: each hypothetical price against equity and the initial risk
Simulate(direction, entry, multiplier, units, equity, prices, initialRisk) ==
    [price \in prices |->
        LET gross == GrossPnL(direction, entry, price, multiplier, units)
        IN  [gross |-> gross, account |-> Ratio(gross, equity),
             r |-> IF initialRisk = None THEN None ELSE Ratio(gross, initialRisk)]]
=============================================================================
