------------------------------ MODULE MCReplay ------------------------------
(***************************************************************************)
(* A small replay: four candles with a missing interval, the first of them *)
(* warm-up, with one position that fills and then reaches its target or    *)
(* its stop, and one whose entry is rejected at the open.                  *)
(***************************************************************************)
EXTENDS Replay

CONSTANTS A, B, P1, P2

Candle(time, low, high) ==
    [time |-> time, open |-> 6, high |-> high, low |-> low, close |-> 6]

MCCandles == <<Candle(1, 6, 6), Candle(2, 6, 7), Candle(4, 5, 6), Candle(5, 6, 9)>>

\* The driver's candles and a second timeframe; the limit allows one more row.
Driver == [timeframe |-> "M5", candles |-> MCCandles]
Upload(timeframe, candles) == [timeframe |-> timeframe, candles |-> candles]
CreateOf(start, uploads) == [start |-> start, driver |-> "M5", uploads |-> uploads]

\* One readable dataset with a start before, inside and after it, and every
\* reason to refuse an upload.
MCCreates ==
    {CreateOf(start, <<Driver>>) : start \in {1, 2, 7}}
    \cup {CreateOf(2, uploads) : uploads \in
            {<<>>, <<Driver, Driver>>, <<Driver, Upload("H1", <<>>)>>,
             <<Upload("H1", None), Driver>>, <<Driver, Upload("M1", MCCandles)>>,
             <<Driver, Upload("H1", SubSeq(MCCandles, 1, 2))>>,
             <<Upload("H1", SubSeq(MCCandles, 1, 1))>>}}

MCWanted ==
    [k \in OpenKeys |->
        [direction |-> "LONG", quantity |-> 2, entry |-> IF k = P1 THEN 6 ELSE 5, stop |-> 3,
         targets |-> <<[price |-> IF k = P1 THEN 9 ELSE 6, quantity |-> 2]>>,
         decision |-> 0, sameBar |-> "STOP_FIRST", slippage |-> 0,
         feePerUnit |-> None]]

\* A sends no version, so a repeat of it may finish the remainder; B sends one.
MCStepCommands ==
    {[key |-> A, steps |-> 2, versioned |-> FALSE],
     [key |-> B, steps |-> 1, versioned |-> TRUE]}

\* No step or property depends on what a handler has answered before, nor on what a
\* creation asks once there is a session: only its answer would.
Refers(handler) ==
    IF session # None /\ handler.pc \in {"find", "insert", "find winner"}
    THEN [handler EXCEPT !.answer = None, !.command = None]
    ELSE [handler EXCEPT !.answer = None]

WithoutAnswers ==
    <<datasets, session, positions, links, expected, told, [t \in Tabs |-> Refers(work[t])]>>

\* The handlers are interchangeable.
TabSymmetry == Permutations(Tabs)

=============================================================================
