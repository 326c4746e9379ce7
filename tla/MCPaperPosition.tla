-------------------------- MODULE MCPaperPosition --------------------------
(***************************************************************************)
(* Small instances of PaperPosition: both directions, both same-bar        *)
(* policies, two targets, slippage and a fee, and every bar whose prices   *)
(* are among four levels chosen around the stop, the entry and the targets.*)
(***************************************************************************)
EXTENDS PaperPosition

CONSTANTS PriceLevels, Times, Slippage

Targets(d) ==
    IF d = "LONG" THEN <<[price |-> 7, quantity |-> 1], [price |-> 9, quantity |-> 1]>>
                  ELSE <<[price |-> 5, quantity |-> 1], [price |-> 2, quantity |-> 2]>>

SpecOf(d, policy, fee) ==
    [direction |-> d, quantity |-> 3, entry |-> 6,
     stop |-> IF d = "LONG" THEN 3 ELSE 8, targets |-> Targets(d), decision |-> 1,
     sameBar |-> policy, slippage |-> Slippage, feePerUnit |-> fee]

\* Its targets close four units of three: it must be refused.
OverAllocated ==
    [SpecOf("LONG", "STOP_FIRST", None) EXCEPT
        !.targets = <<[price |-> 7, quantity |-> 2], [price |-> 9, quantity |-> 2]>>]

MCSpecs == {SpecOf("LONG", "STOP_FIRST", 2), SpecOf("LONG", "HALT", None),
            SpecOf("SHORT", "STOP_FIRST", None), SpecOf("SHORT", "HALT", 2),
            OverAllocated}

MCApprovals == {None, 2, 3}

\* The close decides only the mark, so the two extremes of a range are enough;
\* a bar whose range misses its open is kept to be refused.
MCBars ==
    {bar \in [time: Times, open: PriceLevels, high: PriceLevels, low: PriceLevels,
              close: PriceLevels] :
        /\ bar.low <= bar.high /\ bar.close \in {bar.low, bar.high}
        /\ bar.low <= bar.open
        /\ bar.open <= bar.high \/ (bar.high = bar.low /\ bar.time = 1)}
=============================================================================
