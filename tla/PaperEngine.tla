---------------------------- MODULE PaperEngine ----------------------------
(***************************************************************************)
(* The paper-trading engine: pure functions from a position and one input  *)
(* to the next position (backend/app/domain/paper/engine.py).              *)
(*                                                                         *)
(* Prices, money and market times are integers: the code's Decimals are    *)
(* exact, and only comparisons, sums and products of them are used.  A     *)
(* Python exception in flight is the field "error" of the position under   *)
(* construction: once it is not OK the whole result is discarded, as the   *)
(* raise discards the builder.  Ledger events keep the type, the market    *)
(* time and the numbers of their data; their wording is left out.          *)
(***************************************************************************)
EXTENDS Optional, Integers, Sequences, SequencesExt

CONSTANTS
    Interval,       \* minutes of the position's timeframe
    PointValue      \* the product's verified money per price point

ASSUME PaperConstants ==
    /\ None \notin Int
    /\ Interval \in Nat \ {0}
    /\ PointValue \in Nat \ {0}

MAX_TARGETS == 5

PositionStates == {"PENDING_ENTRY", "OPEN", "PARTIALLY_CLOSED",
                   "AMBIGUOUS_HALTED", "CLOSED", "CANCELLED", "REJECTED"}
Terminal == {"CLOSED", "CANCELLED", "REJECTED"}
Exposed == {"OPEN", "PARTIALLY_CLOSED", "AMBIGUOUS_HALTED"}

PaperEventTypes ==
    {"POSITION_CREATED", "OBSERVATION_APPLIED", "ENTRY_FILLED",
     "ENTRY_REJECTED", "TARGET_FILLED", "STOP_FILLED", "SAME_BAR_AMBIGUITY",
     "CLOSE_REQUESTED", "MANUAL_EXIT_FILLED", "STOP_MOVED_TO_BREAKEVEN",
     "POSITION_CANCELLED", "POSITION_CLOSED"}

InputEventTypes ==
    {"POSITION_CREATED", "OBSERVATION_APPLIED", "CLOSE_REQUESTED",
     "STOP_MOVED_TO_BREAKEVEN", "POSITION_CANCELLED"}

(***************************************************************************)
(* What a user may ask for.  targets is a sequence of levels with the      *)
(* whole units each closes; feePerUnit is None when fees are not modelled. *)
(***************************************************************************)
TargetSpec == [price: Int, quantity: Int]

PositionSpec ==
    [direction: {"LONG", "SHORT"}, quantity: Int, entry: Int, stop: Int,
     targets: Seq(TargetSpec), decision: Int, sameBar: {"STOP_FIRST", "HALT"},
     slippage: Nat, feePerUnit: Nat \cup {None}]

\* Units target i closes; zero for an index the specification does not have.
TargetUnits(spec, i) ==
    IF i \in DOMAIN spec.targets THEN spec.targets[i].quantity ELSE 0

\* Mutant: the units allocated to targets are not compared with the quantity.
ValidSpecUnallocated(spec) ==
    /\ spec.quantity >= 1
    /\ IF spec.direction = "LONG" THEN spec.stop < spec.entry ELSE spec.stop > spec.entry

\* PositionSpec.__post_init__: sides, counts and ordering of the levels.
ValidSpec(spec) ==
    LET long == spec.direction = "LONG"
        Beyond(a, b) == IF long THEN a > b ELSE a < b
        n == Len(spec.targets)
    IN  /\ spec.quantity >= 1
        /\ spec.entry > 0 /\ spec.stop > 0
        /\ n \in 1..MAX_TARGETS
        /\ Beyond(spec.entry, spec.stop)
        /\ \A i \in 1..n :
              /\ spec.targets[i].price > 0
              /\ spec.targets[i].quantity >= 1
              /\ Beyond(spec.targets[i].price,
                        IF i = 1 THEN spec.entry ELSE spec.targets[i - 1].price)
        /\ TargetUnits(spec, 1) + TargetUnits(spec, 2) + TargetUnits(spec, 3)
              + TargetUnits(spec, 4) + TargetUnits(spec, 5) <= spec.quantity

\* A closed bar of the position's symbol and timeframe.  Its volume is recorded
\* and compared like the prices but decides nothing else.
Bar == [time: Int, open: Int, high: Int, low: Int, close: Int]

\* _validate_bar: positive prices, and a range that contains open and close.
ValidBar(bar) ==
    /\ bar.open > 0 /\ bar.high > 0 /\ bar.low > 0 /\ bar.close > 0
    /\ bar.low <= bar.open /\ bar.open <= bar.high
    /\ bar.low <= bar.close /\ bar.close <= bar.high

Fill == [reference: Int, price: Int, quantity: Int, gross: Int]

\* what POSITION_CLOSED records; the realized net is gross less fees
Closing == [realized: Int, charged: Int \cup {None}]

EventData == Bar \cup Fill \cup Closing \cup {None}

PaperEvent ==
    [type: PaperEventTypes, time: Int \cup {None}, data: EventData]

Event(type, time, data) == [type |-> type, time |-> time, data |-> data]

\* The answer of one engine call: a position, or a refusal that changed nothing.
Result(code, position) == [code |-> code, position |-> position]

(***************************************************************************)
(* Direction-dependent comparisons, written once.                          *)
(***************************************************************************)
AdversePrice(price, points, direction, entering) ==
    IF (direction = "LONG") = entering THEN price + points ELSE price - points

\* price is at or beyond the position's stop
AtStop(p, price) ==
    IF p.spec.direction = "LONG" THEN price <= p.stop ELSE price >= p.stop

\* price is at or beyond target i
AtTarget(p, i, price) ==
    IF p.spec.direction = "LONG" THEN price >= p.spec.targets[i].price
                                 ELSE price <= p.spec.targets[i].price

\* the extreme of the bar on the losing side, and on the winning side
WorstOf(p, bar) == IF p.spec.direction = "LONG" THEN bar.low ELSE bar.high
BestOf(p, bar) == IF p.spec.direction = "LONG" THEN bar.high ELSE bar.low

\* pnl_for_product(...).gross for a verified point value
Gross(p, fill, quantity) ==
    (IF p.spec.direction = "LONG" THEN fill - p.entry ELSE p.entry - fill)
        * quantity * PointValue

\* Mutant: every fill is charged for the whole position.
ChargedInFull(p, quantity) ==
    IF p.spec.feePerUnit = None THEN p.fees
    ELSE p.fees + p.spec.feePerUnit * p.spec.quantity

\* fee_for and _charge: no fee is modelled as unknown, never as zero
Charged(p, quantity) ==
    IF p.spec.feePerUnit = None THEN p.fees
    ELSE (IF p.fees = None THEN 0 ELSE p.fees) + p.spec.feePerUnit * quantity

Emit(p, type, time, data) ==
    [p EXCEPT !.events = Append(@, Event(type, time, data))]

(***************************************************************************)
(* Opening.  approval is the number of units the risk engine allows, None  *)
(* when it did not allow the trade; calculable stands for _require_product *)
(* and onGrid for the tick check of the stop and of every target.          *)
(***************************************************************************)
OpenPosition(spec, approval, calculable, onGrid) ==
    LET created == [spec |-> spec, state |-> "PENDING_ENTRY", remaining |-> 0,
                    stop |-> spec.stop, filled |-> {}, entry |-> None,
                    gross |-> 0,
                    fees |-> IF spec.feePerUnit = None THEN None ELSE 0,
                    lastBar |-> None, mark |-> None, closePending |-> FALSE,
                    error |-> OK,
                    events |-> <<Event("POSITION_CREATED", spec.decision, None)>>]
    IN  CASE ~calculable -> Result("PRODUCT_NOT_CALCULABLE", None)
          [] calculable /\ approval = None -> Result("RISK_NOT_ALLOWED", None)
          [] calculable /\ approval # None /\ spec.quantity > approval ->
                Result("QUANTITY_EXCEEDS_RISK", None)
          [] calculable /\ approval # None /\ spec.quantity <= approval /\ ~onGrid ->
                Result("LEVELS_NOT_EXECUTABLE", None)
          [] OTHER -> Result(OK, created)

(***************************************************************************)
(* Exits.                                                                  *)
(***************************************************************************)

\* _exit: the two guards that raise, then the money and the units.
Exit(p, type, bar, reference, fill, quantity) ==
    LET gross == Gross(p, fill, quantity)
        error == IF p.error # OK THEN p.error
                 ELSE IF fill <= 0 THEN "FILL_NOT_POSITIVE"
                 ELSE IF quantity < 1 \/ quantity > p.remaining
                      THEN "INVALID_TRANSITION"
                 ELSE OK
    IN  [p EXCEPT !.error = error,
                  !.fees = Charged(p, quantity),
                  !.gross = @ + gross,
                  !.remaining = @ - quantity,
                  !.events = Append(@, Event(type, bar.time,
                      [reference |-> reference, price |-> fill,
                       quantity |-> quantity, gross |-> gross]))]

ExitStop(p, bar, reference) ==
    Exit(p, "STOP_FILLED", bar, reference,
         AdversePrice(reference, p.spec.slippage, p.spec.direction, FALSE),
         p.remaining)

ManualExit(p, bar) ==
    [Exit(p, "MANUAL_EXIT_FILLED", bar, bar.open,
          AdversePrice(bar.open, p.spec.slippage, p.spec.direction, FALSE),
          p.remaining) EXCEPT !.closePending = FALSE]

\* A target fills at its own price; a better open is recorded, not credited.
ExitTarget(p, bar, i, reference) ==
    LET target == p.spec.targets[i]
        exited == Exit(p, "TARGET_FILLED", bar, reference, target.price,
                       target.quantity)
    IN  [exited EXCEPT !.filled = @ \cup {i},
                       !.state = IF exited.remaining > 0 /\ @ = "OPEN"
                                 THEN "PARTIALLY_CLOSED" ELSE @]

(***************************************************************************)
(* One bar: the open, then the inside of the bar.  The loops over targets  *)
(* are unrolled: a specification has at most MAX_TARGETS of them.          *)
(***************************************************************************)

\* enter: fill or reject the entry at the open
Enter(p, bar) ==
    LET fill == AdversePrice(bar.open, p.spec.slippage, p.spec.direction, TRUE)
        quantity == p.spec.quantity
    IN  IF AtStop(p, fill) \/ AtTarget(p, 1, fill)
        THEN [Emit(p, "ENTRY_REJECTED", bar.time, None) EXCEPT !.state = "REJECTED"]
        ELSE [p EXCEPT !.error = IF fill <= 0 THEN "FILL_NOT_POSITIVE" ELSE @,
                       !.fees = Charged(p, quantity),
                       !.entry = fill,
                       !.remaining = quantity,
                       !.state = "OPEN",
                       !.events = Append(@, Event("ENTRY_FILLED", bar.time,
                           [reference |-> bar.open, price |-> fill,
                            quantity |-> quantity, gross |-> 0]))]

\* at_open, one round of the loop: it breaks at the first unfilled target the
\* open has not reached, so target i is only tried when all before it are filled.
TargetAtOpen(p, bar, i) ==
    IF /\ i \in DOMAIN p.spec.targets
       /\ i \notin p.filled
       /\ p.remaining # 0
       /\ \A j \in 1..(i - 1) : j \in p.filled
       /\ AtTarget(p, i, bar.open)
    THEN ExitTarget(p, bar, i, bar.open)
    ELSE p

TargetsAtOpen(p, bar) ==
    LET p1 == TargetAtOpen(p, bar, 1)
        p2 == TargetAtOpen(p1, bar, 2)
        p3 == TargetAtOpen(p2, bar, 3)
        p4 == TargetAtOpen(p3, bar, 4)
    IN  TargetAtOpen(p4, bar, 5)

AtOpen(p, bar) ==
    IF AtStop(p, bar.open) THEN ExitStop(p, bar, bar.open) ELSE TargetsAtOpen(p, bar)

Touched(p, bar) ==
    {i \in DOMAIN p.spec.targets : i \notin p.filled /\ AtTarget(p, i, BestOf(p, bar))}

TargetInside(p, bar, touched, i) ==
    IF i \in touched /\ p.remaining # 0
    THEN ExitTarget(p, bar, i, p.spec.targets[i].price)
    ELSE p

TargetsInside(p, bar, touched) ==
    LET p1 == TargetInside(p, bar, touched, 1)
        p2 == TargetInside(p1, bar, touched, 2)
        p3 == TargetInside(p2, bar, touched, 3)
        p4 == TargetInside(p3, bar, touched, 4)
    IN  TargetInside(p4, bar, touched, 5)

\* Mutant: an ambiguous bar is resolved in favour of the targets.
IntrabarTargetsFirst(p, bar) ==
    LET stopTouched == AtStop(p, WorstOf(p, bar))
        touched == Touched(p, bar)
        noted == Emit(p, "SAME_BAR_AMBIGUITY", bar.time, None)
    IN  IF touched # {}
        THEN TargetsInside(IF stopTouched THEN noted ELSE p, bar, touched)
        ELSE IF stopTouched THEN ExitStop(p, bar, p.stop) ELSE p

\* intrabar: OHLC does not order a stop and a target touched by one bar
Intrabar(p, bar) ==
    LET stopTouched == AtStop(p, WorstOf(p, bar))
        touched == Touched(p, bar)
        noted == Emit(p, "SAME_BAR_AMBIGUITY", bar.time, None)
    IN  IF stopTouched /\ touched # {}
        THEN IF p.spec.sameBar = "STOP_FIRST"
             THEN ExitStop(noted, bar, p.stop)
             ELSE [noted EXCEPT !.state = "AMBIGUOUS_HALTED"]
        ELSE IF stopTouched THEN ExitStop(p, bar, p.stop)
        ELSE TargetsInside(p, bar, touched)

\* Mutant: a halted position that was closed by hand is not finished.
FinishUnlessHalted(p, bar) ==
    IF p.state \in {"OPEN", "PARTIALLY_CLOSED"} /\ p.remaining = 0
    THEN [Emit(p, "POSITION_CLOSED", bar.time,
               [realized |-> p.gross, charged |-> p.fees]) EXCEPT !.state = "CLOSED"]
    ELSE p

Finish(p, bar) ==
    IF p.state \in Exposed /\ p.remaining = 0
    THEN [Emit(p, "POSITION_CLOSED", bar.time,
               [realized |-> p.gross, charged |-> p.fees]) EXCEPT !.state = "CLOSED"]
    ELSE p

\* Mutant: the builder takes its stop from the specification.
BuildWithSpecStop(p, bar) ==
    [p EXCEPT !.lastBar = bar.time, !.mark = bar.close, !.stop = p.spec.stop,
              !.closePending = @ /\ p.state \in Exposed]

Build(p, bar) ==
    [p EXCEPT !.lastBar = bar.time, !.mark = bar.close,
              !.closePending = @ /\ p.state \in Exposed]

\* The inside of the bar is read when the entry filled, and when the open left
\* units to close.
AfterEntry(p, bar) == IF p.state = "OPEN" THEN Intrabar(p, bar) ELSE p
AfterOpen(p, bar) == IF p.remaining > 0 THEN Intrabar(p, bar) ELSE p

\* The builder's work on one accepted bar, before a raise could discard it.
Process(position, bar) ==
    LET p == Emit(position, "OBSERVATION_APPLIED", bar.time, bar)
        read == IF p.state = "PENDING_ENTRY" THEN AfterEntry(Enter(p, bar), bar)
                ELSE IF p.closePending THEN ManualExit(p, bar)
                ELSE IF p.state = "AMBIGUOUS_HALTED" THEN p
                ELSE AfterOpen(AtOpen(p, bar), bar)
    IN  Build(Finish(read, bar), bar)

\* A raise on the way discards the builder.
Unraised(p, built) ==
    Result(built.error, IF built.error = OK THEN built ELSE p)

\* The bar the ledger records for a market time, if any.
AppliedBars(p, time) ==
    {p.events[i].data : i \in {j \in DOMAIN p.events :
        p.events[j].type = "OBSERVATION_APPLIED" /\ p.events[j].time = time}}

Applicable(p, bar) ==
    ValidBar(bar) /\ bar.time >= p.spec.decision /\ p.state \notin Terminal

\* Mutant: a bar older than the last one is applied if it was never seen.
ApplyUnordered(p, bar) ==
    IF Applicable(p, bar) /\ AppliedBars(p, bar.time) = {}
    THEN Unraised(p, Process(p, bar)) ELSE Result(OK, p)

\* A bar at or before the last one must repeat a recorded one
AgainstRecord(p, bar) ==
    Result(IF AppliedBars(p, bar.time) = {} THEN "OUT_OF_ORDER"
           ELSE IF bar \notin AppliedBars(p, bar.time) THEN "CONFLICTING_OBSERVATION"
           ELSE OK, p)

\* apply_observation: the refusals in the order the code raises them
ApplyObservation(p, bar) ==
    IF ~ValidBar(bar) THEN Result("INVALID_OBSERVATION", p)
    ELSE IF p.lastBar # None /\ bar.time <= p.lastBar THEN AgainstRecord(p, bar)
    ELSE IF p.lastBar # None /\ bar.time < p.lastBar + Interval
      THEN Result("OUT_OF_ORDER", p)
    ELSE IF bar.time < p.spec.decision THEN Result("OBSERVATION_BEFORE_DECISION", p)
    ELSE IF p.state \in Terminal THEN Result("INVALID_TRANSITION", p)
    ELSE Unraised(p, Process(p, bar))

(***************************************************************************)
(* Commands.                                                               *)
(***************************************************************************)
\* Mutant: the request is remembered but not recorded.
RequestCloseUnrecorded(p) ==
    IF p.state \notin Exposed THEN Result("INVALID_TRANSITION", p)
    ELSE Result(OK, [p EXCEPT !.closePending = TRUE])

RequestClose(p) ==
    IF p.closePending THEN Result(OK, p)
    ELSE IF p.state \notin Exposed THEN Result("INVALID_TRANSITION", p)
    ELSE Result(OK, [Emit(p, "CLOSE_REQUESTED", p.lastBar, None)
                        EXCEPT !.closePending = TRUE])

MoveStopToBreakeven(p) ==
    LET unprotective == IF p.spec.direction = "LONG" THEN p.mark <= p.entry
                                                     ELSE p.mark >= p.entry
    IN  IF p.state \notin {"OPEN", "PARTIALLY_CLOSED"} \/ p.entry = None \/ p.mark = None
          THEN Result("INVALID_TRANSITION", p)
        ELSE IF p.stop = p.entry THEN Result(OK, p)
        ELSE IF unprotective THEN Result("BREAKEVEN_NOT_PROTECTIVE", p)
        ELSE Result(OK, [Emit(p, "STOP_MOVED_TO_BREAKEVEN", p.lastBar, None)
                            EXCEPT !.stop = p.entry])

Cancel(p) ==
    IF p.state = "CANCELLED" THEN Result(OK, p)
    ELSE IF p.state # "PENDING_ENTRY" THEN Result("INVALID_TRANSITION", p)
    ELSE Result(OK, [Emit(p, "POSITION_CANCELLED", None, None)
                        EXCEPT !.state = "CANCELLED"])

ApplyCommand(p, kind) ==
    CASE kind = "CLOSE" -> RequestClose(p)
      [] kind = "BREAKEVEN" -> MoveStopToBreakeven(p)
      [] kind = "CANCEL" -> Cancel(p)

\* apply_input: an input is a bar or the name of a command
ApplyInput(p, input) ==
    IF input.kind = "BAR" THEN ApplyObservation(p, input.bar)
    ELSE ApplyCommand(p, input.kind)

(***************************************************************************)
(* Replay: a stored ledger is rebuilt from its own inputs.                 *)
(***************************************************************************)
BarInput(bar) == [kind |-> "BAR", bar |-> bar]
Command(kind) == [kind |-> kind]

\* inputs_from_events, for one event: what it asked for, if it was not derived
Recorded == InputEventTypes \ {"POSITION_CREATED"}

InputOf(e) ==
    CASE e.type = "OBSERVATION_APPLIED" -> BarInput(e.data)
      [] e.type = "CLOSE_REQUESTED" -> Command("CLOSE")
      [] e.type = "STOP_MOVED_TO_BREAKEVEN" -> Command("BREAKEVEN")
      [] OTHER -> Command("CANCEL")

\* A derived event is skipped; a refusal on the way propagates.
ReplayEvent(r, e) ==
    IF r.code # OK \/ e.type \notin Recorded THEN r
    ELSE ApplyInput(r.position, InputOf(e))

\* replay: reopen under the stored approval, then apply the inputs in order
Replay(spec, approval, events) ==
    LET after[i \in 0..Len(events)] ==
            IF i = 0 THEN OpenPosition(spec, approval, TRUE, TRUE)
            ELSE ReplayEvent(after[i - 1], events[i])
    IN  after[Len(events)]

Reproduced(events, r) ==
    IF r.code # OK \/ r.position.events = events THEN r
    ELSE Result("REPLAY_DIVERGED", None)

\* rebuild: REPLAY_DIVERGED unless the ledger reproduces itself exactly
Rebuild(spec, approval, events) ==
    Reproduced(events, Replay(spec, approval, events))

(***************************************************************************)
(* What a position is: the builder the engine works on, the position it    *)
(* returns, and how its units and its stop hang together.                  *)
(***************************************************************************)
Builders ==
    [spec: PositionSpec, state: PositionStates, remaining: Int, stop: Int,
     filled: SUBSET (1..MAX_TARGETS), entry: Int \cup {None}, gross: Int,
     fees: Int \cup {None}, lastBar: Int \cup {None}, mark: Int \cup {None},
     closePending: BOOLEAN, events: Seq(PaperEvent),
     error: {OK, "FILL_NOT_POSITIVE", "INVALID_TRANSITION"}]

PaperPositions == {p \in Builders : p.error = OK}

\* Units the targets in S close, out of at most MAX_TARGETS of them.
UnitsOf(spec, S) ==
    LET units(i) == IF i \in S THEN TargetUnits(spec, i) ELSE 0
    IN  units(1) + units(2) + units(3) + units(4) + units(5)

\* The units of a position agree with its state, its targets and its prices.
Units(p) ==
    /\ p.filled \subseteq DOMAIN p.spec.targets
    /\ p.state \notin Exposed => p.remaining = 0
    /\ p.state \in Exposed =>
          /\ p.remaining > 0
          /\ p.remaining = p.spec.quantity - UnitsOf(p.spec, p.filled)
          /\ p.entry # None
          /\ p.mark # None
    /\ p.state = "OPEN" => p.filled = {}
    /\ p.state = "PARTIALLY_CLOSED" => p.filled # {}
    /\ p.closePending => p.state \in Exposed

FillTypes == {"STOP_FILLED", "TARGET_FILLED", "MANUAL_EXIT_FILLED"}

\* The sum of one number of the data over the events of some types.
SumOver(events, types, field) ==
    LET total[i \in 0..Len(events)] ==
            IF i = 0 THEN 0
            ELSE total[i - 1] + (IF events[i].type \in types THEN events[i].data[field] ELSE 0)
    IN  total[Len(events)]

\* q's stop is at p's or nearer to the market.
Tightens(p, q) ==
    IF p.spec.direction = "LONG" THEN q.stop >= p.stop ELSE q.stop <= p.stop
=============================================================================
