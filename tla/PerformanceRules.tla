-------------------------- MODULE PerformanceRules --------------------------
(***************************************************************************)
(* Performance figures over the paper ledger: how one position's events    *)
(* are folded into an outcome (adapters/performance/paper_source.py) and   *)
(* how outcomes become metrics (domain/performance/engine.py).             *)
(*                                                                         *)
(* The ledger is the one PaperEngine writes.  A metric keeps its status    *)
(* and its value; the sample sizes it repeats and the wording of the       *)
(* reasons are left out.  Instruments and timeframes group exactly as      *)
(* directions do, so the direction stands for every breakdown.             *)
(***************************************************************************)
EXTENDS PaperEngine, FiniteSets

EXIT_EVENTS == {"TARGET_FILLED", "STOP_FILLED", "MANUAL_EXIT_FILLED"}

FINANCIAL_EVENTS ==
    EXIT_EVENTS \cup {"POSITION_CREATED", "ENTRY_FILLED", "ENTRY_REJECTED",
                      "SAME_BAR_AMBIGUITY", "POSITION_CANCELLED", "POSITION_CLOSED"}

\* the value of the first pair whose condition holds
FirstOf(choices) ==
    choices[CHOOSE i \in DOMAIN choices :
                /\ choices[i][1]
                /\ \A j \in 1..(i - 1) : ~choices[j][1]][2]

Total(s) == FoldLeft(LAMBDA sum, x : sum + x, 0, s)

Mapped(s, f(_)) == [i \in DOMAIN s |-> f(s[i])]

(***************************************************************************)
(* fold_ledger.                                                            *)
(***************************************************************************)

\* what one fill was charged, as its event records it: unknown is not zero
FillFee(spec, e) ==
    IF spec.feePerUnit = None THEN None ELSE spec.feePerUnit * e.data.quantity

\* _halted: a HALT froze the position and nothing has exited since
Halted(spec, events) ==
    \E i \in DOMAIN events :
        /\ events[i].type = "SAME_BAR_AMBIGUITY" /\ spec.sameBar = "HALT"
        /\ \A j \in DOMAIN events :
            j > i => events[j].type \notin
                        EXIT_EVENTS \cup {"POSITION_CLOSED", "SAME_BAR_AMBIGUITY"}

\* Mutant: a halted position is told as an open one.
PopulationUnhalted(spec, events) ==
    LET kinds == {events[i].type : i \in DOMAIN events}
    IN  FirstOf(<< <<"ENTRY_REJECTED" \in kinds, "REJECTED">>,
                   <<"POSITION_CANCELLED" \in kinds, "CANCELLED">>,
                   <<"POSITION_CLOSED" \in kinds, "CLOSED">>,
                   <<"ENTRY_FILLED" \notin kinds, "PENDING_ENTRY">>,
                   <<kinds \cap EXIT_EVENTS # {}, "PARTIALLY_CLOSED">>,
                   <<TRUE, "OPEN">> >>)

PopulationOf(spec, events) ==
    LET kinds == {events[i].type : i \in DOMAIN events}
    IN  FirstOf(<< <<"ENTRY_REJECTED" \in kinds, "REJECTED">>,
                   <<"POSITION_CANCELLED" \in kinds, "CANCELLED">>,
                   <<"POSITION_CLOSED" \in kinds, "CLOSED">>,
                   <<"ENTRY_FILLED" \notin kinds, "PENDING_ENTRY">>,
                   <<Halted(spec, events), "AMBIGUOUS_HALTED">>,
                   <<kinds \cap EXIT_EVENTS # {}, "PARTIALLY_CLOSED">>,
                   <<TRUE, "OPEN">> >>)

\* A filter by type that keeps the order: exits are financial events.  A fill is
\* charged by the unit, so the fees of the exits are the fee of their units.
FoldLedger(spec, ledger) ==
    LET events == Restrict(ledger, {i \in DOMAIN ledger :
                                        ledger[i].type \in FINANCIAL_EVENTS})
        exits == SelectSeq(ledger, LAMBDA e : e.type \in EXIT_EVENTS)
        closings == {i \in DOMAIN events : events[i].type = "POSITION_CLOSED"}
        closing == events[Min(closings)]
        population == PopulationOf(spec, events)
        gross == IF closings # {} THEN closing.data.realized
                 ELSE SumOver(ledger, EXIT_EVENTS, "gross")
        fees == IF spec.feePerUnit = None THEN None
                ELSE IF closings # {} THEN closing.data.charged
                ELSE spec.feePerUnit * SumOver(ledger, EXIT_EVENTS, "quantity")
    IN  [direction |-> spec.direction, population |-> population,
         gross |-> gross, fees |-> fees,
         net |-> IF fees = None THEN None ELSE gross - fees,
         unrealized |-> None,
         terminal |-> IF population = "CLOSED" THEN closing.time ELSE None,
         fills |-> Mapped(exits, LAMBDA e : [amount |-> e.data.gross,
                                             fee |-> FillFee(spec, e),
                                             time |-> e.time])]

(***************************************************************************)
(* Selecting.  A window is a record of bounds, None for an open one.       *)
(***************************************************************************)
Within(t, window) ==
    /\ window.from # None => t >= window.from
    /\ window.to # None => t <= window.to

\* Mutant: a closed position is chosen by its closing time alone.
MatchesByClosing(spec, ledger, filters) ==
    LET record == FoldLedger(spec, ledger)
    IN  /\ filters.direction # None => spec.direction = filters.direction
        /\ record.terminal = None \/ Within(record.terminal, filters)

\* the WHERE clause of _SELECT_IDS over one position's ledger
Matches(spec, ledger, filters) ==
    LET record == FoldLedger(spec, ledger)
        times == {record.fills[i].time : i \in DOMAIN record.fills}
    IN  /\ filters.direction # None => spec.direction = filters.direction
        /\ \/ record.terminal = None
           \/ /\ filters.from # None /\ filters.to # None
              /\ \E t \in times : t >= filters.from
              /\ \E t \in times : t <= filters.to
           \/ Within(record.terminal, filters)

(***************************************************************************)
(* Metrics.                                                                *)
(***************************************************************************)
available(value) == [status |-> "AVAILABLE", value |-> value]
unavailable == [status |-> "UNAVAILABLE", value |-> None]
partialCoverage == [status |-> "PARTIAL_COVERAGE", value |-> None]

\* _ratio: four places, halves away from zero, as a whole number of 1/10000
Ratio(a, b) ==
    LET size == IF a < 0 THEN -a ELSE a
        rounded == (2 * size * 10000 + b) \div (2 * b)
    IN  IF a < 0 THEN -rounded ELSE rounded

\* completed: the closed positions of the window in closing order, then by id
Completed(records, window) ==
    LET chosen == {id \in DOMAIN records : /\ records[id].population = "CLOSED"
                                           /\ Within(records[id].terminal, window)}
        order == SetToSortSeq(chosen, LAMBDA a, b :
                    \/ records[a].terminal < records[b].terminal
                    \/ records[a].terminal = records[b].terminal /\ a < b)
    IN  Mapped(order, LAMBDA id : records[id])

CountOf(s, Test(_)) == Len(SelectSeq(s, Test))

ModelledFees(sample) == CountOf(sample, LAMBDA r : r.fees # None)

ChooseBasis(sample) ==
    IF sample # <<>> /\ ModelledFees(sample) = Len(sample)
    THEN "REALIZED_NET" ELSE "REALIZED_GROSS"

Amount(r, basis) == IF basis = "REALIZED_GROSS" THEN r.gross ELSE r.net

Amounts(sample, basis) ==
    SelectSeq(Mapped(sample, LAMBDA r : Amount(r, basis)), LAMBDA a : a # None)

OutcomeOf(amount) ==
    IF amount > 0 THEN "WIN" ELSE IF amount < 0 THEN "LOSS" ELSE "BREAKEVEN"

RealizedGrossTotal(sample) ==
    IF sample = <<>> THEN unavailable
    ELSE available(Total(Mapped(sample, LAMBDA r : r.gross)))

FeesKnownTotal(sample) ==
    IF ModelledFees(sample) = 0 THEN unavailable
    ELSE available(Total(Mapped(SelectSeq(sample, LAMBDA r : r.fees # None),
                                LAMBDA r : r.fees)))

RealizedNetTotal(sample) ==
    FirstOf(<< <<ModelledFees(sample) = 0, unavailable>>,
               <<ModelledFees(sample) < Len(sample), partialCoverage>>,
               <<TRUE, available(Total(Amounts(sample, "REALIZED_NET")))>> >>)

\* realized_accounting: every exit of the window, whatever its position became
Accounting(records, window) ==
    LET fillsOf(id) == SelectSeq(records[id].fills, LAMBDA f : Within(f.time, window))
        ids == SetToSeq({id \in DOMAIN records : fillsOf(id) # <<>>})
        fills == FlattenSeq(Mapped(ids, fillsOf))
        costed == SelectSeq(fills, LAMBDA f : f.fee # None)
        gross == Total(Mapped(fills, LAMBDA f : f.amount))
        fees == Total(Mapped(costed, LAMBDA f : f.fee))
    IN  [fills |-> Len(fills),
         completed |-> CountOf(ids, LAMBDA id : records[id].population = "CLOSED"),
         open |-> CountOf(ids, LAMBDA id : records[id].population # "CLOSED"),
         gross |-> IF fills = <<>> THEN unavailable ELSE available(gross),
         fees |-> IF costed = <<>> THEN unavailable ELSE available(fees),
         net |-> FirstOf(<< <<costed = <<>>, unavailable>>,
                            <<Len(costed) < Len(fills), partialCoverage>>,
                            <<TRUE, available(gross - fees)>> >>)]

\* unrealized_gross_open: every exposed position has a mark, or there is no total
UnrealizedOpen(records) ==
    LET exposed == SetToSeq({id \in DOMAIN records : records[id].population \in Exposed})
        marks == SelectSeq(Mapped(exposed, LAMBDA id : records[id].unrealized),
                           LAMBDA m : m # None)
    IN  FirstOf(<< <<exposed = <<>>, unavailable>>,
                   <<Len(marks) < Len(exposed), partialCoverage>>,
                   <<TRUE, available(Total(marks))>> >>)

\* average_win and average_loss of the amounts on one side of zero
Average(amounts) ==
    IF amounts = <<>> THEN unavailable
    ELSE available(Ratio(Total(amounts), Len(amounts)))

Winning(amounts) == SelectSeq(amounts, LAMBDA a : a > 0)
Losing(amounts) == SelectSeq(Mapped(amounts, LAMBDA a : -a), LAMBDA a : a > 0)

WinRate(amounts) ==
    IF amounts = <<>> THEN unavailable
    ELSE available(Ratio(100 * Len(Winning(amounts)), Len(amounts)))

ProfitFactor(amounts) ==
    IF Losing(amounts) = <<>> THEN unavailable
    ELSE available(Ratio(Total(Winning(amounts)), Total(Losing(amounts))))

\* timeline: the running total after each closing
Timeline(amounts) ==
    FoldLeft(LAMBDA points, a :
                Append(points, a + (IF points = <<>> THEN 0 ELSE points[Len(points)])),
             <<>>, amounts)

\* max_drawdown_absolute; the peak starts at the first point, not at zero
Drawdown(points) ==
    IF points = <<>> THEN unavailable
    ELSE available(FoldLeft(
            LAMBDA seen, p :
                LET peak == IF p > seen.peak THEN p ELSE seen.peak
                IN  [peak |-> peak,
                     worst |-> IF peak - p > seen.worst THEN peak - p ELSE seen.worst],
            [peak |-> points[1], worst |-> 0], points).worst)

\* streaks, one closed position at a time: a breakeven ends both kinds
StepStreak(s, outcome) ==
    IF outcome = "BREAKEVEN" THEN [s EXCEPT !.kind = None, !.length = 0]
    ELSE LET run == IF outcome = s.kind THEN s.length + 1 ELSE 1
         IN  [s EXCEPT !.kind = outcome, !.length = run,
                       ![outcome] = IF run > @ THEN run ELSE @]

Streaks(amounts) ==
    FoldLeft(LAMBDA s, a : StepStreak(s, OutcomeOf(a)),
             [kind |-> None, length |-> 0, WIN |-> 0, LOSS |-> 0], amounts)

CountPopulations(records) ==
    [state \in PositionStates |->
        Cardinality({id \in DOMAIN records : records[id].population = state})]

Classify(amounts) ==
    [kind \in {"WIN", "LOSS", "BREAKEVEN"} |->
        CountOf(amounts, LAMBDA a : OutcomeOf(a) = kind)]

\* the counts and ratios that share one sample and one basis
Graded(sample) ==
    LET basis == ChooseBasis(sample)
        amounts == Amounts(sample, basis)
    IN  [basis |-> basis, size |-> Len(sample),
         counts |-> Classify(amounts),
         gross |-> RealizedGrossTotal(sample),
         net |-> RealizedNetTotal(sample),
         winRate |-> WinRate(amounts), expectancy |-> Average(amounts)]

Summarise(records, window) ==
    LET sample == Completed(records, window)
        amounts == Amounts(sample, ChooseBasis(sample))
    IN  [graded |-> Graded(sample), counts |-> CountPopulations(records),
         fees |-> FeesKnownTotal(sample),
         accounting |-> Accounting(records, window),
         unrealized |-> UnrealizedOpen(records),
         averageWin |-> Average(Winning(amounts)),
         averageLoss |-> Average(Losing(amounts)),
         profitFactor |-> ProfitFactor(amounts),
         timeline |-> Timeline(amounts), drawdown |-> Drawdown(Timeline(amounts)),
         streaks |-> Streaks(amounts)]

\* by_direction: each side graded by itself, without the window
Grouped(records) ==
    LET side(d) == [id \in {i \in DOMAIN records : records[i].direction = d} |->
                        records[id]]
        everything == [from |-> None, to |-> None]
    IN  [d \in {records[id].direction : id \in DOMAIN records} |->
            Graded(Completed(side(d), everything))]
=============================================================================
