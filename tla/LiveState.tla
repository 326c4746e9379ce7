----------------------------- MODULE LiveState -----------------------------
(***************************************************************************)
(* What is known about one live market right now: the connection, one book *)
(* per timeframe, and whether each may be analysed                         *)
(* (backend/app/domain/live/state.py).  Events arrive lost, repeated,      *)
(* reordered or contradictory, backfilled ones included: _backfill applies *)
(* them through the same apply_event while the connection is RECOVERING.   *)
(***************************************************************************)
EXTENDS LiveBook

CONSTANTS
    Timeframes,
    Observations,   \* the validated observations each timeframe may receive
    ReconnectLimit   \* LiveLimits.max_reconnects

Observation ==
    [time: Int, seq: Nat \cup {None}, value: {"a", "b"}, closed: BOOLEAN]

ASSUME LiveInputs ==
    /\ Observations \in [Timeframes -> SUBSET Observation]
    /\ ReconnectLimit \in Nat \ {0}

VARIABLES
    connection,
    reconnects,
    books

marketVars == <<connection, reconnects, books>>

MarketInit ==
    /\ connection = "INITIALIZING"
    /\ reconnects = 0
    /\ books = [tf \in Timeframes |-> EmptyBook]

\* apply_signal(CONNECTED): a repeat is not news, least of all during recovery
SignalConnected ==
    \/ /\ connection = "INITIALIZING"
       /\ connection' = "CONNECTED"
       /\ UNCHANGED <<reconnects, books>>
    \/ /\ connection = "DISCONNECTED"
       /\ reconnects' = reconnects + 1
       /\ connection' = IF reconnects' > ReconnectLimit THEN "TERMINATED" ELSE "RECOVERING"
       /\ UNCHANGED books

\* apply_signal(DISCONNECTED)
SignalDisconnected ==
    /\ connection \in {"INITIALIZING", "CONNECTED", "RECOVERING"}
    /\ connection' = "DISCONNECTED"
    /\ books' = [tf \in Timeframes |-> MarkDisconnected(books[tf])]
    /\ UNCHANGED reconnects

\* END_OF_STREAM, OVERFLOW, a provider failure or a cancelled task
Terminate ==
    /\ connection # "TERMINATED"
    /\ connection' = "TERMINATED"
    /\ UNCHANGED <<reconnects, books>>

\* apply_event for a subscribed timeframe and a validated observation
ApplyEvent(tf, o) ==
    /\ connection \in {"CONNECTED", "RECOVERING"}
    /\ LET answer == Apply(books[tf], o)
           after == [books EXCEPT ![tf] = answer.book]
           proven == \A other \in Timeframes : ~after[other].awaiting
       IN  /\ books' = after
           /\ connection' = IF /\ answer.outcome \notin Refusals
                               /\ connection = "RECOVERING" /\ proven
                            THEN "CONNECTED" ELSE connection
    /\ UNCHANGED reconnects

\* The receive clock passes the freshness threshold of a silent timeframe.
BookGoesStale(tf) ==
    /\ books[tf].freshness = "FRESH"
    /\ books' = [books EXCEPT ![tf].freshness = "STALE"]
    /\ UNCHANGED <<connection, reconnects>>

MarketNext ==
    \/ SignalConnected
    \/ SignalDisconnected
    \/ Terminate
    \/ \E tf \in Timeframes :
        \/ \E o \in Observations[tf] : ApplyEvent(tf, o)
        \/ BookGoesStale(tf)

Market == MarketInit /\ [][MarketNext]_marketVars

-----------------------------------------------------------------------------
(***************************************************************************)
(* Properties.                                                             *)
(***************************************************************************)
Adjacent(b, p, t) ==
    p < t /\ \A u \in Times(b) : u <= p \/ t <= u

\* What a book that claims COMPLETE promises to an analysis.
Contiguous(b) == \A p, t \in Times(b) : Adjacent(b, p, t) => t = p + Interval

(***************************************************************************)
(* Completeness is proven, never assumed: a book whose integrity is        *)
(* COMPLETE has a confirmed candle for every interval of its window, after *)
(* any losses, reordering, late fills, overflowed gaps and trims.          *)
(***************************************************************************)
CompleteMeansContiguous ==
    \A tf \in Timeframes : Integrity(books[tf]) = "COMPLETE" => Contiguous(books[tf])

\* Between two states of a book, its confirmed candles changed in a way they may not.
Rewrites(b, c) ==
    \/ \E t \in Times(b) \cap Times(c) : b.closed[t] # c.closed[t]
    \/ \E t \in Times(b) \ Times(c) : \E u \in Times(c) : u < t
    \/ \E t \in Times(c) \ Times(b) :
          (\E u \in Times(b) : t < u) /\ c.closed[t].seq \notin b.missing

(***************************************************************************)
(* An analysis can never have read a candle that later changed: a          *)
(* confirmed candle keeps its values, leaves only from the oldest end, and *)
(* a new one is the newest or fills a number recorded as missing.  The     *)
(* book's version changes exactly when the confirmed sequence does, which  *)
(* is what lets two analyses of equal versions share a result.             *)
(***************************************************************************)
ConfirmedNeverRewritten ==
    [][\A tf \in Timeframes :
        /\ ~Rewrites(books[tf], books'[tf])
        /\ books'[tf].closed # books[tf].closed <=>
              books'[tf].version = books[tf].version + 1
        /\ books'[tf].closed = books[tf].closed <=>
              books'[tf].version = books[tf].version]_marketVars

(***************************************************************************)
(* Connection restored is not coverage restored: a timeframe stays         *)
(* unverified after a disconnect until a new newest candle is confirmed,   *)
(* and the stream is CONNECTED only when none is unverified.               *)
(***************************************************************************)
RecoveryIsProven ==
    [][/\ connection' = "CONNECTED" =>
              \A tf \in Timeframes : ~books'[tf].awaiting
       /\ \A tf \in Timeframes :
            LET b == books[tf]
                c == books'[tf]
            IN  b.awaiting /\ ~c.awaiting =>
                    Times(b) = {} \/ Newest(c) > Newest(b)]_marketVars
=============================================================================
