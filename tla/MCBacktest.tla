----------------------------- MODULE MCBacktest -----------------------------
(***************************************************************************)
(* Two requests under one attempt key, one person who abandons, and every  *)
(* market of five bars built from a few shapes after a crossover.  Prices  *)
(* are even (the tick is two), the ATR is odd, so every level must move.   *)
(***************************************************************************)
EXTENDS Backtest

CONSTANTS w1, w2, ann

MCWorkers == {w1, w2}
MCAbandoners == {ann}

Shape(time, open, high, low, close) ==
    [time |-> time, open |-> open, high |-> high, low |-> low, close |-> close]

\* flat, through the target, through the stop, through both, a gap below
ShapesAt(time) ==
    {Shape(time, 20, 22, 18, 20), Shape(time, 20, 30, 20, 28), Shape(time, 20, 20, 12, 14),
     Shape(time, 20, 30, 12, 20), Shape(time, 14, 16, 12, 14)}

Reading(sign) == [fast |-> 10 + sign, slow |-> 10, atr |-> 3, adx |-> 30]

\* Two flat bars whose averages cross or not, then three arbitrary ones.
Markets ==
    {[bars |-> <<Shape(0, 20, 20, 20, 20), Shape(1, 20, 20, 20, 20), a, b, c>>,
      readings |-> <<Reading(-1), Reading(1), Reading(s), Reading(t), Reading(u)>>] :
        a \in ShapesAt(2), b \in ShapesAt(3), c \in ShapesAt(4),
        s \in {-1, 1}, t \in {-1, 0, 1}, u \in {-1, 1}}

Calm == [bars |-> <<Shape(0, 20, 20, 20, 20), Shape(1, 20, 20, 20, 20),
                    Shape(2, 20, 22, 18, 20), Shape(3, 20, 30, 20, 28)>>,
         readings |-> <<Reading(-1), Reading(1), Reading(1), Reading(1)>>]

V(x) == Risk!Verified(x)

Future == [valuation |-> "LINEAR", classification |-> None, multiplier |-> V(PointValue),
           tick |-> V(2), tickValue |-> None, margin |-> V(10), maintenance |-> None,
           expiry |-> None, last |-> None]

Config(dataset, sameBar) ==
    [dataset |-> dataset, start |-> 1, end |-> 9, supported |-> TRUE,
     strategy |-> [slowPeriod |-> 1, stopMultiple |-> 1, targetMultiple |-> 2,
                   adxMinimum |-> 20, quantity |-> 3, allowLong |-> TRUE,
                   allowShort |-> TRUE],
     simulation |-> [sameBar |-> sameBar, slippage |-> 2, feePerUnit |-> None],
     account |-> [equity |-> 100, used |-> 0],
     policy |-> [mode |-> "FIXED", fixed |-> 19, fraction |-> None, cap |-> None,
                 maxUtilisation |-> <<1, 2>>, maxLeverage |-> <<5, 1>>],
     product |-> Future]

Base == Config(Calm, "STOP_FIRST")

\* Everything a run can be refused for, and everything that fails one.
Refused ==
    {[Base EXCEPT !.supported = FALSE], [Base EXCEPT !.dataset = None],
     [Base EXCEPT !.dataset.bars = <<>>], [Base EXCEPT !.product = None],
     [Base EXCEPT !.product.tick = V(3)], [Base EXCEPT !.simulation.slippage = 1],
     [Base EXCEPT !.start = 8], [Base EXCEPT !.strategy.slowPeriod = 4],
     [Base EXCEPT !.product.tickValue = V(9)],
     [Base EXCEPT !.dataset.bars[3].low = 2, !.dataset.bars[3].open = 2],
     [Base EXCEPT !.product.tick = Risk!Unverified(2)],
     [Base EXCEPT !.product.margin = None], [Base EXCEPT !.policy.fixed = 3],
     [Base EXCEPT !.strategy.allowLong = FALSE], [Base EXCEPT !.strategy.adxMinimum = 40],
     [Base EXCEPT !.dataset.readings[2].atr = None],
     [Base EXCEPT !.dataset.readings[2].atr = 0],
     [Base EXCEPT !.dataset.readings[2].atr = 25],
     [Base EXCEPT !.dataset.readings[2].atr = 19, !.policy.fixed = 90],
     [Base EXCEPT !.policy = [mode |-> "PERCENTAGE", fixed |-> None, fraction |-> <<1, 3>>,
                              cap |-> 2, maxUtilisation |-> <<1, 2>>,
                              maxLeverage |-> <<5, 1>>]]}

\* One worker walks a market; two race with one question, or with two.
MCScenarios ==
    {[w1 |-> [key |-> "k1", config |-> Config(m, sb)],
      w2 |-> [key |-> "k2", config |-> [Base EXCEPT !.supported = FALSE]]] :
        m \in Markets, sb \in {"STOP_FIRST", "HALT"}}
    \cup {[w1 |-> [key |-> "k1", config |-> c], w2 |-> [key |-> "k1", config |-> d]] :
             c \in Refused \cup {Base}, d \in {Base}}

MCAsked == {[w \in MCWorkers |-> IF w = w1 THEN s.w1 ELSE s.w2] : s \in MCScenarios}
=============================================================================
