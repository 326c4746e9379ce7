---------------------------- MODULE MCLiveState ----------------------------
(***************************************************************************)
(* A small LiveState.  One timeframe is fed by a provider that numbers its *)
(* candles correctly, one off or not at all, loses, repeats and reorders   *)
(* them, and contradicts itself about the first intervals; a second one    *)
(* follows with few candles, so that recovery has two books to prove.      *)
(***************************************************************************)
EXTENDS LiveState

CONSTANTS M1, M5, LastTime, LastConflict

Closed(t, s, v) == [time |-> t, seq |-> s, value |-> v, closed |-> TRUE]
Forming(t) == [time |-> t, seq |-> None, value |-> "a", closed |-> FALSE]

MCObservations ==
    [tf \in Timeframes |->
        IF tf = M5 THEN {Closed(t, t, "a") : t \in 0..1}
        ELSE {Closed(t, t + d, "a") : t \in 0..LastTime, d \in 0..1}
             \cup {Closed(t, None, "a") : t \in 0..LastTime}
             \cup {Closed(t, t, "b") : t \in 0..LastConflict}
             \cup {Forming(t) : t \in 0..LastTime}]
=============================================================================
