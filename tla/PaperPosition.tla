--------------------------- MODULE PaperPosition ---------------------------
(***************************************************************************)
(* The life of one paper position under every order of inputs: opening,    *)
(* closed bars (in order, repeated, conflicting, overlapping, too early),  *)
(* close requests, breakeven moves and cancellation.  Each action is one   *)
(* engine call of PaperEngine; a refused call leaves the position alone.   *)
(***************************************************************************)
EXTENDS PaperEngine

CONSTANTS
    Specs,          \* the specifications a user may submit
    Approvals,      \* units the risk engine may allow, None when it refuses
    Bars            \* the bars that may be observed

ASSUME PaperInputs ==
    /\ Specs \subseteq PositionSpec
    /\ Approvals \subseteq Nat \cup {None}
    /\ Bars \subseteq Bar

VARIABLE position   \* None until a position is opened

PositionInit == position = None

\* PositionSpec.__post_init__ and open_position; a refusal opens nothing
Open(spec, approval, calculable, onGrid) ==
    /\ position = None
    /\ ValidSpec(spec)
    /\ position' = OpenPosition(spec, approval, calculable, onGrid).position

Observe(bar) ==
    /\ position # None
    /\ position' = ApplyObservation(position, bar).position

Close ==
    /\ position # None
    /\ position' = RequestClose(position).position

Breakeven ==
    /\ position # None
    /\ position' = MoveStopToBreakeven(position).position

CancelEntry ==
    /\ position # None
    /\ position' = Cancel(position).position

PositionNext ==
    \/ \E spec \in Specs, approval \in Approvals, calculable \in BOOLEAN,
          onGrid \in BOOLEAN : Open(spec, approval, calculable, onGrid)
    \/ \E bar \in Bars : Observe(bar)
    \/ Close
    \/ Breakeven
    \/ CancelEntry

Lifetime == PositionInit /\ [][PositionNext]_position

-----------------------------------------------------------------------------
(***************************************************************************)
(* Properties.                                                             *)
(***************************************************************************)
\* The position is absent or a well-formed PaperPosition of a valid specification.
TypeOK ==
    position # None => position \in PaperPositions /\ ValidSpec(position.spec)

(***************************************************************************)
(* Exactly the exposed states hold units, an exposed position holds its    *)
(* quantity less what its filled targets closed, it is PARTIALLY_CLOSED    *)
(* only after a target and has an entry price and a mark.  This is what    *)
(* the branches engine.py marks "no cover" assume.                         *)
(***************************************************************************)
UnitsAccounted == position # None => Units(position)

(***************************************************************************)
(* No bar the position accepts can make _exit or exit_target raise         *)
(* INVALID_TRANSITION: the units they ask for are always there.  A bar can *)
(* only be lost to a fill that slippage pushed to zero or below.           *)
(***************************************************************************)
ExitGuardsUnreachable ==
    position # None /\ position.state \notin Terminal =>
        \A bar \in Bars :
            ValidBar(bar) => Process(position, bar).error \in {OK, "FILL_NOT_POSITIVE"}

(***************************************************************************)
(* The ledger's fills add up to the position: units entered equal units    *)
(* exited plus remaining, realized gross is the sum of the exits' gross,   *)
(* and fees are charged once per unit on every fill or never.              *)
(***************************************************************************)
LedgerBalances ==
    position # None =>
        LET events == position.events
            entered == SumOver(events, {"ENTRY_FILLED"}, "quantity")
            exited == SumOver(events, FillTypes, "quantity")
        IN  /\ entered = exited + position.remaining
            /\ position.gross = SumOver(events, FillTypes, "gross")
            /\ position.fees = IF position.spec.feePerUnit = None THEN None
                               ELSE position.spec.feePerUnit * (entered + exited)

(***************************************************************************)
(* Rebuilding the stored ledger gives exactly the live position, after     *)
(* every sequence of inputs, repeats and refusals included: a refused or   *)
(* repeated input leaves no trace replay would need, and a recorded one    *)
(* leaves all of it.                                                       *)
(***************************************************************************)
ReplayReproduces ==
    position # None =>
        Rebuild(position.spec, position.spec.quantity, position.events)
            = Result(OK, position)

(***************************************************************************)
(* Nothing after an ambiguous bar credits a target, and under HALT nothing *)
(* but the user's own close ends the position.                             *)
(***************************************************************************)
AmbiguityNeverCredited ==
    position # None =>
        \A i, j \in DOMAIN position.events :
            i < j /\ position.events[i].type = "SAME_BAR_AMBIGUITY" =>
                position.events[j].type \notin
                    {"TARGET_FILLED", "STOP_MOVED_TO_BREAKEVEN"} \cup
                    (IF position.spec.sameBar = "HALT" THEN {"STOP_FILLED"} ELSE {})

(***************************************************************************)
(* No look-ahead: the ledger runs in market order, no fill precedes the    *)
(* decision, and a command fills or guards only bars after the last one    *)
(* that was already applied when it was given.                             *)
(***************************************************************************)
NoLookAhead ==
    position # None =>
        \A i, j \in DOMAIN position.events :
            LET before == position.events[i]
                after == position.events[j]
            IN  i < j /\ before.time # None /\ after.time # None =>
                    /\ before.time <= after.time
                    /\ before.type \in {"CLOSE_REQUESTED", "STOP_MOVED_TO_BREAKEVEN"}
                          /\ after.type \in FillTypes => before.time < after.time

(***************************************************************************)
(* The stop never moves away from the market: it stays, or it moves to the *)
(* entry fill, which lies on the profitable side of the original stop.     *)
(***************************************************************************)
StopNeverLoosens ==
    [][position # None => Tightens(position, position')]_position
=============================================================================
