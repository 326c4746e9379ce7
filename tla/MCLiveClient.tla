---------------------------- MODULE MCLiveClient ----------------------------
(***************************************************************************)
(* Instances of LiveClient for TLC.  Each scenario brings some of the      *)
(* actors together.                                                        *)
(***************************************************************************)
EXTENDS LiveClient, TLC

Nothing == [script |-> <<"CONNECTED">>, creates |-> 1, stale |-> 0, breaks |-> 0, stops |-> 0,
            shutdowns |-> 0, analyses |-> 0, views |-> 0, losses |-> 0]

\* a page watching one session through losses and a cancellation, its own or another's
Watching == [Nothing EXCEPT !.script = <<"CONNECTED", "CANDLE">>,
                            !.stops = 1, !.views = 1, !.losses = 1]
\* a page that falls behind a session
Flooding == [Nothing EXCEPT !.script = <<"CONNECTED", "CANDLE", "CANDLE", "END">>,
                            !.views = 1, !.losses = 1]
\* a page watching a market that goes quiet
Quiet == [Nothing EXCEPT !.script = <<"CONNECTED", "CANDLE">>,
                         !.stale = 1, !.breaks = 1, !.views = 1, !.losses = 1]
\* a page that asks for an analysis while its stream runs
Asking == [Nothing EXCEPT !.script = <<"CONNECTED", "CANDLE">>,
                          !.analyses = 1, !.views = 1, !.losses = 1]
\* analyses while candles arrive, and over a disconnect with its backfill
Analysing == [Nothing EXCEPT !.script = <<"CONNECTED", "CANDLE", "DUPLICATE", "CANDLE", "GAP">>,
                             !.stale = 1, !.analyses = 2, !.stops = 1]
Recovering == [Nothing EXCEPT !.script = <<"CONNECTED", "CANDLE", "DISCONNECTED", "CONNECTED",
                                           "CANDLE", "DISCONNECTED", "CONNECTED">>,
                              !.analyses = 2, !.breaks = 1]
\* sessions created, broken, removed, evicted and shut down
Sharing == [Nothing EXCEPT !.creates = 3, !.breaks = 1, !.stops = 1, !.shutdowns = 1]
Leaving == [Nothing EXCEPT !.stops = 1, !.shutdowns = 1, !.views = 1]

MCScenarios == {Watching, Flooding, Quiet, Asking, Analysing, Recovering, Sharing, Leaving}
=============================================================================
