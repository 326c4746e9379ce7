----------------------------- MODULE ShadowRules -----------------------------
(***************************************************************************)
(* The pure rules of Shadow Mode: when a boundary may be evaluated         *)
(* (backend/app/domain/shadow/eligibility.py), what price did after a      *)
(* decision (domain/shadow/outcome.py) and which follow-ups a correction   *)
(* contests (application/shadow/service.py).                               *)
(*                                                                         *)
(* Time counts driver intervals: candle k covers the interval that ends at *)
(* boundary k.  Prices are abstracted to what a candle's range does to the *)
(* proposed levels: NONE, STOP, TARGET or BOTH.                            *)
(***************************************************************************)
EXTENDS Integers, Sequences, FiniteSets, FiniteSetsExt

CONSTANTS
    Window,      \* ShadowLimits.max_outcome_window
    WarmUp,      \* StrategyPolicy.warm_up_bars
    None

ASSUME RulesConstants == Window \in Nat \ {0} /\ WarmUp \in Nat

\* eligible_for_evaluation: every needed timeframe available, then warm-up
Eligibility(available, prefix) ==
    IF ~available THEN "EVIDENCE_UNAVAILABLE"
    ELSE IF Cardinality(prefix) < WarmUp THEN "WARM_UP_INCOMPLETE"
    ELSE "ELIGIBLE"

\* _financial: no account or policy, no product (no resolver, a failing one or no
\* verified metadata), or what the sizing of the entry says
Financial(configured, verified, sizing) ==
    IF ~configured THEN "NOT_CONFIGURED"
    ELSE IF ~verified THEN "METADATA_UNAVAILABLE"
    ELSE CASE sizing = "ALLOWED" -> "APPROVED"
           [] sizing = "UNDETERMINED" -> "UNDETERMINED"
           [] OTHER -> "REFUSED"

\* the outcome journalled for a decision: an entry the risk engine refuses is a refusal
OutcomeFor(kind, financial) ==
    IF kind = "ENTRY_INTENT" /\ financial = "REFUSED" THEN "REFUSED" ELSE kind

-----------------------------------------------------------------------------
\* PriceDevelopment
Development(state, event, to) == [state |-> state, event |-> event, to |-> to]
Invalidated == Development("INVALIDATED", "NOT_OBSERVED", None)

\* eligible_forward_candles: the first of those that opened at or after the boundary
Forward(prefix, boundary) ==
    {k \in prefix : /\ k > boundary
                    /\ Cardinality({j \in prefix : boundary < j /\ j <= k}) <= Window}

\* _has_gap: the forward candles before the first missing interval
Usable(forward, boundary) ==
    {k \in forward : \A j \in (boundary + 1)..k : j \in forward}

\* the first forward candle whose range reached a level
FirstTouch(usable, touch) ==
    LET reached == {k \in usable : touch[k] # "NONE"}
    IN IF reached = {} THEN None ELSE Min(reached)

\* observe_development
ObserveDevelopment(boundary, prefix, touch, exhausted) ==
    LET forward == Forward(prefix, boundary)
        usable == Usable(forward, boundary)
        at == FirstTouch(usable, touch)
        to == IF usable = {} THEN None ELSE Max(usable)
    IN  IF forward = {}
        THEN Development(IF exhausted THEN "UNAVAILABLE" ELSE "PENDING", "NOT_OBSERVED", None)
        ELSE IF at # None THEN Development("OBSERVED", touch[at], at)
        ELSE IF usable # forward THEN Development("UNAVAILABLE", "NONE", to)
        ELSE IF Cardinality(usable) >= Window THEN Development("OBSERVED", "NONE", to)
        ELSE Development(IF exhausted THEN "UNAVAILABLE" ELSE "PENDING", "NONE", to)

-----------------------------------------------------------------------------
\* A correction of a candle of timeframe tf covering the intervals from..at.
Correction(tf, from, at) == [tf |-> tf, from |-> from, at |-> at]

\* _invalidate.why: the decision read the candle, or the development did
Contests(c, boundary, to) ==
    \/ boundary >= c.at
    \/ c.tf = "DRIVER" /\ c.from > boundary /\ (to = None \/ c.at <= to)
=============================================================================
