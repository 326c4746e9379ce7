------------------------------ MODULE Analysis ------------------------------
(***************************************************************************)
(* The analysis of uploaded candles: what application/analysis does with   *)
(* one request, from the raw rows to the two vetoes, and the same engines  *)
(* called again each time a bar closes (a live session's view).            *)
(*                                                                         *)
(* run_analysis takes one request through the stages READ (each dataset:   *)
(* size, parse, quality, structure), TEMPORAL (coverage), ACROSS (the      *)
(* multi-timeframe analysis), MONEY (the contract is awaited, then sizing) *)
(* and VETO.  A request is refused or answered; it keeps nothing.          *)
(***************************************************************************)
EXTENDS Presentation

CONSTANTS
    Requests,           \* the requests that may be made
    Evidences,          \* what a caller may supply to a review of a trade
    NextBars,           \* the bars that may close on a live series
    MaxBars,            \* bound: bars of a live series
    Interval,           \* minutes of each supported timeframe
    MaxRows,            \* InputLimits.max_rows_per_timeframe
    MaxTotalRows,       \* InputLimits.max_total_rows
    MinimumCandles,     \* DataQualityPolicy.minimum_candles
    ExtremeMove         \* DataQualityPolicy.extreme_move_ratio, percent

Risk == INSTANCE RiskRules

\* A request carries only contracts, accounts and policies their classes accept,
\* and its prices and amounts are numbers.
ASSUME RequestsAreValid ==
    \A r \in Requests :
        /\ r.contract # None => Risk!ValidContract(r.contract) /\ Risk!NumericContract(r.contract)
        /\ r.account # None => Risk!ValidAccount(r.account) /\ Risk!NumericAccount(r.account)
        /\ r.policy # None => Risk!ValidPolicy(r.policy) /\ Risk!NumericPolicy(r.policy)
        /\ {r.entry, r.stop} \subseteq Int \cup {None}

ASSUME NoneIsNoNumber == None \notin Int

IsSequence(s) == Len(s) \in Nat /\ s \in [1..Len(s) -> Range(s)]

\* Datasets and their rows come in lists, every row with a time.
ASSUME RequestsAreLists ==
    \A r \in Requests :
        /\ IsSequence(r.datasets)
        /\ \A i \in DOMAIN r.datasets :
              /\ IsSequence(r.datasets[i].rows)
              /\ \A j \in DOMAIN r.datasets[i].rows : r.datasets[i].rows[j].time \in Int

\* every supported timeframe lasts a number of minutes
ASSUME IntervalsLast == \A t \in {"D1", "H1", "M15", "M5"} : Interval[t] \in Nat \ {0}

VARIABLES
    request,    \* the request being served, None on a live series
    stage,      \* where run_analysis stands, or how it ended
    refusal,    \* the code of the refusal, None without one
    outcomes,   \* the datasets read: a sequence of TimeframeOutcomes
    temporal,   \* the TemporalAssessment
    analysis,   \* the MultiTimeframeAnalysis, None without a usable view
    risk,       \* the RiskOutcome
    veto,       \* the NoTradeAssessment of each direction, None without analysis
    why,        \* the explanations the answer carries
    review,     \* the latest TradeReview, None before one is asked for
    live,       \* the bars of a live series
    snapshot    \* its latest structural snapshot

vars == <<request, stage, refusal, outcomes, temporal, analysis, risk, veto,
          why, review, live, snapshot>>
served == <<request, stage, refusal, outcomes, temporal, analysis, risk, veto, why, review>>
told == <<why, review, live, snapshot>>

-----------------------------------------------------------------------------
(* Data quality: every code a series of raw rows raises.                   *)

Payload(c) == <<c.open, c.high, c.low, c.close, c.volume>>

CandleIssues(c, first) ==
    (IF c.aware THEN {} ELSE {"NAIVE_TIMESTAMP"})
      \cup (IF c.closed THEN {} ELSE {"FORMING_CANDLE"})
      \cup (IF c.symbol = first.symbol THEN {} ELSE {"SYMBOL_MISMATCH"})
      \cup (IF c.tf = first.tf THEN {} ELSE {"TIMEFRAME_MISMATCH"})

NumberIssues(c) ==
    IF ~c.finite THEN {"NON_FINITE_VALUE"}
    ELSE LET prices == {c.open, c.high, c.low, c.close}
         IN  (IF \E p \in prices : p < 0 THEN {"NEGATIVE_PRICE"} ELSE {})
               \cup (IF 0 \in prices THEN {"ZERO_PRICE"} ELSE {})
               \cup (IF \/ c.high < c.low \/ c.high < Max({c.open, c.close})
                        \/ c.low > Min({c.open, c.close})
                     THEN {"INVALID_OHLC_RELATIONSHIP"} ELSE {})
               \cup (CASE c.volume < 0 -> {"NEGATIVE_VOLUME"}
                       [] c.volume = 0 -> {"ZERO_VOLUME"}
                       [] OTHER -> {})

\* two neighbouring rows, skipped when either has no time zone
SequenceIssues(p, c, interval) ==
    LET delta == c.time - p.time
    IN  CASE ~(p.aware /\ c.aware) -> {}
          [] delta = 0 /\ p.aware /\ c.aware ->
               IF Payload(p) = Payload(c) THEN {"DUPLICATE_CANDLE"}
               ELSE {"CONFLICTING_DUPLICATE"}
          [] delta < 0 /\ p.aware /\ c.aware -> {"OUT_OF_ORDER"}
          [] OTHER -> CASE delta % interval # 0 -> {"IRREGULAR_INTERVAL"}
                        [] delta > interval /\ delta % interval = 0 -> {"MISSING_CANDLES"}
                        [] OTHER -> {}

StatisticIssues(p, c) ==
    IF p.finite /\ c.finite /\ p.close > 0
       /\ 100 * Abs(c.close - p.close) > ExtremeMove * p.close
    THEN {"EXTREME_MOVE"} ELSE {}

\* the codes that only warn; every other one blocks
Warnings == {"MISSING_CANDLES", "ZERO_VOLUME", "EXTREME_MOVE", "INSUFFICIENT_HISTORY"}

QualityIssues(rows) ==
    IF rows = << >> THEN {"EMPTY_SERIES"}
    ELSE UNION {CandleIssues(rows[i], rows[1]) \cup NumberIssues(rows[i]) : i \in DOMAIN rows}
           \cup UNION {SequenceIssues(rows[i - 1], rows[i], Interval[rows[1].tf])
                         \cup StatisticIssues(rows[i - 1], rows[i]) : i \in 2..Len(rows)}
           \cup (IF Len(rows) < MinimumCandles THEN {"INSUFFICIENT_HISTORY"} ELSE {})

\* DataQualityEngine.assess: a series, or None when anything blocks.
Verdict(issues) ==
    CASE issues \ Warnings # {} -> "BLOCKED"
      [] issues = {} -> "ACCEPTED"
      [] OTHER -> "ACCEPTED_WITH_WARNINGS"

-----------------------------------------------------------------------------
(* Coverage (temporal.py).                                                 *)

RoleOf == [D1 |-> "REGIME", H1 |-> "BIAS", M15 |-> "SETUP", M5 |-> "ENTRY"]

CoverageEnd(o) == o.rows[Len(o.rows)].time + Interval[o.tf]

\* Mutant: a series is compared with the next finer one alone.
ExtendsBeyondNeighbour(os, i) ==
    \E j \in DOMAIN os : /\ os[j].usable
                         /\ RoleRank(os[j].role) = RoleRank(os[i].role) + 1
                         /\ CoverageEnd(os[i]) > CoverageEnd(os[j])

\* A coarser series that closes after some finer one knows what the finer
\* series has not seen.  Among two of one timeframe the first is the coarser.
ExtendsBeyond(os, i) ==
    \E j \in DOMAIN os : /\ os[j].usable
                         /\ \/ RoleRank(os[j].role) > RoleRank(os[i].role)
                            \/ os[j].role = os[i].role /\ j > i
                         /\ CoverageEnd(os[i]) > CoverageEnd(os[j])

AssessTemporal(os) ==
    LET covered   == {i \in DOMAIN os : os[i].usable}
        excluded  == {os[i].tf : i \in {j \in covered : ExtendsBeyond(os, j)}}
        survivors == {i \in covered : os[i].tf \notin excluded}
        asOf      == IF survivors = {} THEN None
                     ELSE Max({CoverageEnd(os[i]) : i \in survivors})
    IN  [excluded |-> excluded, asOf |-> asOf,
         stale |-> {os[i].tf : i \in {j \in survivors :
                                   asOf - CoverageEnd(os[j]) >= Interval[os[j].tf]}}]

-----------------------------------------------------------------------------
(* The veto (no_trade.py).                                                 *)

Finding(reason, severity) == [reason |-> reason, severity |-> severity]

TimeframeFindings(a) ==
    (IF Majors(a.report) # {} THEN {Finding("CONFLICTING_TIMEFRAMES", "BLOCKING")} ELSE {})
      \cup (IF a.missing # {} THEN {Finding("INSUFFICIENT_DATA", "CAUTION")} ELSE {})

RegimeFindings(a) ==
    LET seen == {a.regimes[r] : r \in DOMAIN a.regimes}
    IN  (IF "CHAOTIC" \in seen THEN {Finding("CHAOTIC_REGIME", "BLOCKING")} ELSE {})
          \cup (IF "HIGH_VOLATILITY_RANGE" \in seen
                THEN {Finding("HIGH_VOLATILITY", "CAUTION")} ELSE {})

StructureFindings(a, state) ==
    LET readings == a.report.readings
        ranging == {r \in {"BIAS", "SETUP"} \cap DOMAIN a.regimes :
                       a.regimes[r] \in {"RANGE", "LOW_VOLATILITY_RANGE"}}
    IN  (IF "BIAS" \in DOMAIN readings \ Readable(readings)
         THEN {Finding("UNCLEAR_STRUCTURE", "BLOCKING")} ELSE {})
          \cup (IF ranging # {} /\ state # "CONFIRMED"
                THEN {Finding("MIDDLE_OF_RANGE", "PENDING")} ELSE {})
          \cup (CASE state \in {"WAITING_FOR_CONFIRMATION", "FORMING"} ->
                       {Finding("NO_CONFIRMATION", "PENDING")}
                  [] state = "UNAVAILABLE" -> {Finding("INSUFFICIENT_DATA", "BLOCKING")}
                  [] OTHER -> {})

EntryFindings(entry) ==
    IF entry = None THEN {}
    ELSE IF ExtensionOf(entry).available /\ ExtensionOf(entry).awarded <= 1
         THEN {Finding("EXTENDED_MOVE", "PENDING")} ELSE {}

SizingFindings(sizing) ==
    CASE sizing.outcome \in {"NOT_PERMITTED", "INVALID"} -> {Finding("RISK_NOT_PERMITTED", "BLOCKING")}
      [] sizing.outcome = "UNDETERMINED" -> {Finding("RISK_UNDETERMINED", "CAUTION")}
      [] OTHER -> {}

\* The orchestrator supplies neither a data-quality verdict nor a reward, so
\* those two are always missing; absent inputs do not change the answer.
AssessNoTrade(a, direction, sizing) ==
    LET case == a.scenarios[direction]
        findings == TimeframeFindings(a) \cup RegimeFindings(a)
                      \cup StructureFindings(a, case.state) \cup EntryFindings(case.entry)
                      \cup (IF sizing = None THEN {} ELSE SizingFindings(sizing))
        blocking == {f \in findings : f.severity = "BLOCKING"}
    IN  [noTrade |-> CASE blocking # {} -> "YES"
                       [] blocking = {} /\ (\/ a.missing # {}
                                            \/ Finding("RISK_UNDETERMINED", "CAUTION") \in findings)
                            -> "UNKNOWN"
                       [] OTHER -> "NO",
         findings |-> findings,
         missing |-> {"DATA_QUALITY", "RISK_REWARD"}
                       \cup (IF sizing = None THEN {"SIZING"} ELSE {})]

-----------------------------------------------------------------------------
(* The money side of the request (orchestrator._assess_risk).              *)

IntendedDirection(r) ==
    IF r.entry = None \/ r.stop = None \/ r.entry = r.stop THEN None
    ELSE IF r.stop < r.entry THEN "LONG" ELSE "SHORT"

IsVerified(c) == c # None /\ c.multiplier.authoritative /\ c.tick.authoritative

AssessRisk(r) ==
    LET direction == IntendedDirection(r)
        complete == /\ IsVerified(r.contract) /\ direction # None
                    /\ r.account # None /\ r.policy # None
    IN  [direction |-> direction, verified |-> IsVerified(r.contract),
         sizing |-> IF ~complete THEN None
                    ELSE IF ~Risk!Calculable(r.contract) THEN None
                    ELSE Risk!SizeForProduct(direction, r.entry, r.stop, r.contract,
                                             r.account, r.policy)]

-----------------------------------------------------------------------------
Init ==
    /\ request \in Requests \cup {None}
    /\ stage = IF request = None THEN "LIVE" ELSE "READ"
    /\ refusal = None /\ outcomes = << >> /\ temporal = None
    /\ analysis = None /\ risk = None /\ veto = None
    /\ why = None /\ review = None
    /\ live = << >> /\ snapshot = None

Refuse(code) ==
    /\ stage' = "REFUSED"
    /\ refusal' = code
    /\ UNCHANGED <<request, outcomes, temporal, analysis, risk, veto, told>>

\* the request carries no symbol, or no dataset
RefuseRequest ==
    /\ stage = "READ" /\ outcomes = << >>
    /\ \/ ~request.named /\ Refuse("SYMBOL_REQUIRED")
       \/ request.named /\ request.datasets = << >> /\ Refuse("NO_DATA")

Rows(os) == MapThenSumSet(LAMBDA i : Len(os[i].rows), DOMAIN os)

\* Reads the next dataset.  One that does not parse is set aside and the rest
\* go on; one too large for the limits ends the request.
Outcome(d) ==
    [tf |-> d.tf, role |-> RoleOf[d.tf], rows |-> d.rows,
     issues |-> QualityIssues(d.rows),
     usable |-> Verdict(QualityIssues(d.rows)) # "BLOCKED",
     parsed |-> TRUE]

Unparsed(d) == [tf |-> d.tf, role |-> RoleOf[d.tf], rows |-> << >>, issues |-> {},
                usable |-> FALSE, parsed |-> FALSE]

ReadDataset ==
    /\ stage = "READ" /\ request.named
    /\ Len(outcomes) < Len(request.datasets)
    /\ LET d == request.datasets[Len(outcomes) + 1]
       IN  \/ /\ d.tf \notin DOMAIN RoleOf
              /\ Refuse("UNSUPPORTED_TIMEFRAME")
           \/ /\ d.tf \in DOMAIN RoleOf /\ ~d.fits
              /\ Refuse("CSV_TOO_LARGE")
           \/ /\ d.tf \in DOMAIN RoleOf /\ d.fits
              /\ ~d.parses \/ Len(d.rows) > MaxRows
              /\ outcomes' = Append(outcomes, Unparsed(d))
              /\ UNCHANGED <<request, stage, refusal, temporal, analysis, risk, veto,
                             told>>
           \/ /\ d.tf \in DOMAIN RoleOf /\ d.fits /\ d.parses /\ Len(d.rows) <= MaxRows
              /\ Rows(outcomes) + Len(d.rows) > MaxTotalRows
              /\ Refuse("TOO_MANY_ROWS_TOTAL")
           \/ /\ d.tf \in DOMAIN RoleOf /\ d.fits /\ d.parses /\ Len(d.rows) <= MaxRows
              /\ Rows(outcomes) + Len(d.rows) <= MaxTotalRows
              /\ outcomes' = Append(outcomes, Outcome(d))
              /\ UNCHANGED <<request, stage, refusal, temporal, analysis, risk, veto,
                             told>>

CheckCoverage ==
    /\ stage = "READ" /\ request.named
    /\ outcomes # << >> /\ Len(outcomes) = Len(request.datasets)
    /\ stage' = "ACROSS"
    /\ temporal' = AssessTemporal(outcomes)
    /\ UNCHANGED <<request, refusal, outcomes, analysis, risk, veto, told>>

\* The places of the outcomes that become views: usable, not excluded by coverage.
Used == {i \in DOMAIN outcomes : outcomes[i].usable /\ outcomes[i].tf \notin temporal.excluded}

View(o) == [role |-> o.role, tf |-> o.tf, end |-> CoverageEnd(o), bars |-> o.rows,
            snap |-> AnalyseStructure(o.rows)]

Policy == [r \in RoleSet |-> CHOOSE t \in DOMAIN RoleOf : RoleOf[t] = r]

\* one view of each role that has one
Views == [r \in {outcomes[i].role : i \in Used} |->
             View(outcomes[CHOOSE i \in Used : outcomes[i].role = r])]

AnalyseAcross ==
    /\ stage = "ACROSS"
    /\ LET refused == Used # {} /\ BuildRefusal(Restrict(outcomes, Used), Policy) # None
       IN  \/ refused /\ Refuse("INCONSISTENT_TIMEFRAMES")
           \/ /\ ~refused
              /\ stage' = "MONEY"
              /\ \E views \in {Views} :
                   analysis' = IF Used = {} THEN None ELSE AnalyseMultiTimeframe(views)
              /\ UNCHANGED <<request, refusal, outcomes, temporal, risk, veto, told>>

AssessMoney ==
    /\ stage = "MONEY"
    /\ stage' = "VETO"
    /\ risk' = AssessRisk(request)
    /\ UNCHANGED <<request, refusal, outcomes, temporal, analysis, veto, told>>

\* one sizing, whichever side it was made for, goes to both vetoes
AssessSuitability ==
    /\ stage = "VETO"
    /\ stage' = "ANSWERED"
    /\ veto' = IF analysis = None THEN None
               ELSE [d \in {"BULLISH", "BEARISH"} |-> AssessNoTrade(analysis, d, risk.sizing)]
    /\ UNCHANGED <<request, refusal, outcomes, temporal, analysis, risk, told>>

Zones == LET narrowest == CHOOSE i \in Used :
                             \A j \in Used : RoleRank(outcomes[j].role) <= RoleRank(outcomes[i].role)
         IN  AnalyseStructure(outcomes[narrowest].rows).zones

Tick == IF risk.sizing = None THEN None
        ELSE Risk!TickFeasibility(request.contract, request.entry, request.stop)

\* The answer is rendered with its explanations.
Explain ==
    /\ stage = "ANSWERED"
    /\ stage' = "EXPLAINED"
    /\ why' = IF analysis = None THEN BuildWhy(None, {}, None, None, None)
              ELSE BuildWhy(analysis, Zones, risk.sizing, Tick, veto)
    /\ UNCHANGED <<request, refusal, outcomes, temporal, analysis, risk, veto, review,
                   live, snapshot>>

\* The margin of an allowed size; a caller has none to supply without one.
MarginOf(sizing) ==
    IF sizing = None THEN None
    ELSE IF sizing.outcome # "ALLOWED" THEN None
    ELSE Risk!AssessMargin(request.contract, request.account, request.entry, sizing.allowed,
           request.policy,
           Risk!StopDistance(risk.direction, request.entry, request.stop)
             * request.contract.multiplier.value * sizing.allowed)

\* the caller's risk_reward of a target it has in mind, None without a plan
RewardOf(direction, target) ==
    IF None \in {target, request.entry, request.stop} THEN None
    ELSE [ratio |-> Risk!RiskReward(IF direction = "BULLISH" THEN "LONG" ELSE "SHORT",
                                    request.entry, request.stop, target)]

\* review_trade with what its caller knows beside the analysis
Review(direction, known) ==
    /\ stage = "EXPLAINED" /\ analysis # None /\ review = None
    /\ LET evidence == [stop |-> known.stop, quality |-> known.quality,
                        reward |-> RewardOf(direction, known.target)]
       IN  review' = ReviewTrade(analysis, direction, risk.sizing, Tick,
                                 MarginOf(risk.sizing), veto[direction], evidence)
    /\ UNCHANGED <<request, stage, refusal, outcomes, temporal, analysis, risk, veto, why,
                   live, snapshot>>

\* A live series: one more bar closes and everything is computed again.
CloseBar(bar) ==
    /\ stage = "LIVE" /\ Len(live) < MaxBars
    /\ live' = Append(live, bar)
    /\ snapshot' = AnalyseStructure(live')
    /\ UNCHANGED served

Over ==
    /\ \/ stage \in {"REFUSED", "EXPLAINED"}
       \/ stage = "LIVE" /\ Len(live) = MaxBars
    /\ UNCHANGED vars

Next ==
    \/ RefuseRequest \/ ReadDataset \/ CheckCoverage \/ AnalyseAcross
    \/ AssessMoney \/ AssessSuitability \/ Explain
    \/ \E d \in {"BULLISH", "BEARISH"}, e \in Evidences : Review(d, e)
    \/ \E bar \in NextBars : CloseBar(bar)
    \/ Over

Spec == Init /\ [][Next]_vars

-----------------------------------------------------------------------------
(* Properties.                                                             *)

Dated == {"swings", "events", "breakouts", "retests", "divergences"}

(* What became knowable at a bar is still said, word for word, after every *)
(* later bar: swings, structural events, breakouts, retests and            *)
(* divergences are recomputed from the whole series and never repainted    *)
(* (analyse_structure, and _historical_zones in particular).               *)
NothingRepaints ==
    [][live # << >> =>
         \A k \in Dated : KnownAt(snapshot'[k], Len(live)) = snapshot[k]]_live

(* Every view an answer rests on closed no later than any finer view used  *)
(* with it, and no evidence is dated after the bar it was read at: nothing *)
(* a coarse candle saw reaches a fine timeframe early, whichever of the    *)
(* uploaded files are stale, blocked or missing (temporal.assess).         *)
NothingFromTheFuture ==
    stage \in {"MONEY", "VETO", "ANSWERED", "EXPLAINED"} =>
       \A i, j \in Used :
          /\ RoleRank(outcomes[i].role) < RoleRank(outcomes[j].role) =>
                CoverageEnd(outcomes[i]) <= CoverageEnd(outcomes[j])
          /\ CoverageEnd(outcomes[i]) <= temporal.asOf
          /\ \A x \in analysis.items :
                x.role = outcomes[i].role => x.confirmed <= Len(outcomes[i].rows)

(* The engines of the money side agree about an allowed size: stopped out, *)
(* it loses no more than the policy's budget by the profit-and-loss rule   *)
(* and by the what-if simulator, and the margin engine finds it within the *)
(* free margin with no deficit, unknown margin or broken risk limit        *)
(* (size_for_product against margin, pnl and whatif).                      *)
MoneyEnginesAgree ==
    risk # None /\ risk.sizing # None /\ risk.sizing.outcome = "ALLOWED" =>
       LET c == request.contract
           a == request.account
           p == request.policy
           units == risk.sizing.allowed
           lost == - Risk!CalculatePnL(risk.direction, request.entry, request.stop,
                                       c.multiplier.value, units, [fee |-> None]).gross
           margin == Risk!AssessMargin(c, a, request.entry, units, p, lost)
       IN  /\ units > 0 /\ lost > 0
           /\ lost * Risk!Denominator(p) <= Risk!RiskAmount(p, a.equity)
           /\ Risk!Simulate(risk.direction, request.entry, c.multiplier.value, units,
                            a.equity, {request.stop}, lost)[request.stop].r = <<-lost, lost>>
           /\ margin.remaining >= 0
           /\ margin.warnings \cap {"MARGIN_DEFICIT", "MARGIN_UNKNOWN", "RISK_LIMIT_EXCEEDED"} = {}
           /\ Risk!BlockingIssues(c) \subseteq {"UNSOURCED_VERIFIED_FACT"}

Blocks(d) == {f.reason : f \in {x \in veto[d].findings : x.severity = "BLOCKING"}}

\* The reasons the answer's explanation of a block gives.
ExplainedBlocks ==
    UNION {{x.code : x \in why[i].reasons} :
           i \in {j \in DOMAIN why : why[j].topic = "NO_TRADE_BLOCK"}}

(* The four readers of one set of results tell the user the same. The one  *)
(* explanation of a block, written for the first direction with a finding, *)
(* names every reason that blocks either direction and no other, although  *)
(* the two are assessed apart (build_why over assess_no_trade). And a      *)
(* checklist that finds a trade sufficient is contradicted by no other:    *)
(* the veto neither blocks it for its timeframes or its risk nor leaves    *)
(* its risk undetermined, no warning denies its stop, reward, size or      *)
(* margin, and no explanation of its size is critical (assess_checklist    *)
(* against assess_no_trade, beginner_risk_warnings, why_position_size).    *)
TellersAgree ==
    /\ why # None /\ analysis # None =>
          \A d \in {"BULLISH", "BEARISH"} : Blocks(d) = ExplainedBlocks
    /\ review # None /\ review.verdict = "SUFFICIENT" =>
          /\ {f.reason : f \in veto[review.direction].findings}
               \cap {"CONFLICTING_TIMEFRAMES", "RISK_NOT_PERMITTED", "RISK_UNDETERMINED"} = {}
          /\ review.warnings \subseteq {"HIGH_MARGIN_UTILIZATION", "EXCESSIVE_EFFECTIVE_LEVERAGE"}
          /\ \A i \in DOMAIN review.explanations :
                review.explanations[i].topic = "POSITION_SIZE" =>
                   \A x \in review.explanations[i].reasons : x.severity # "CRITICAL"
=============================================================================
