------------------------------ MODULE MCShadow ------------------------------
(***************************************************************************)
(* Instances of Shadow for TLC.  Each scenario fixes what the session      *)
(* hands to its readers and which faults may happen.                       *)
(***************************************************************************)
EXTENDS Shadow, TLC

Candle(k) == Item("CANDLE", k)
Conflict(tf, from, at) == [Item("CONFLICT", at) EXCEPT !.c = Correction(tf, from, at)]

Nothing == [script |-> <<>>, touch |-> <<"NONE", "NONE", "NONE", "NONE">>, creates |-> 1,
            cancels |-> 0, shutdowns |-> 0, ends |-> 0, faults |-> 0, timeouts |-> 0,
            crashes |-> 0]

\* a correction after a target was touched, or while the window is open
Corrected == [Nothing EXCEPT
    !.script = <<Candle(1), Candle(2), Candle(3), Conflict("DRIVER", 2, 2), Candle(4)>>,
    !.touch = <<"NONE", "NONE", "TARGET", "STOP">>]
\* a correction of a higher and of an unknown timeframe, and one before the decisions
Higher == [Nothing EXCEPT
    !.script = <<Candle(1), Conflict("HIGHER", 1, 2), Candle(2), Conflict("OTHER", 1, 1),
                 Conflict("DRIVER", 1, 1)>>]
\* a missing interval, filled late
Gapped == [Nothing EXCEPT
    !.script = <<Candle(1), Candle(3), Item("LATE", 2), Candle(4), Item("SIGNAL", 1)>>,
    !.touch = <<"NONE", "STOP", "NONE", "BOTH">>]
\* a store that fails, a strategy that fails
Failing == [Nothing EXCEPT !.script = <<Candle(1), Item("REJECTED", 1), Candle(2), Item("REJECTED", 1)>>,
                           !.touch = <<"NONE", "TARGET", "NONE", "NONE">>,
                           !.faults = 2, !.creates = 2]
\* crashes, also while the next start recovers
Crashing == [Nothing EXCEPT !.script = <<Candle(1), Candle(2)>>, !.crashes = 2, !.creates = 2]
\* creates, cancellation and shutdown at once, and a session that goes away
Leaving == [Nothing EXCEPT !.script = <<Candle(1)>>, !.creates = 2, !.cancels = 1,
                           !.shutdowns = 1, !.timeouts = 1]
Removed == [Nothing EXCEPT !.script = <<Candle(1)>>, !.creates = 2, !.cancels = 1, !.ends = 2]

\* a store that fails a run, and then a crash
Twice == [Nothing EXCEPT !.script = <<Candle(1), Candle(2)>>, !.faults = 1, !.crashes = 1]

MCScenarios == {Corrected, Higher, Gapped, Failing, Crashing, Twice, Leaving, Removed}
=============================================================================
