---------------------------- MODULE Presentation ----------------------------
(***************************************************************************)
(* What a reader is told about an analysis: the pre-trade checklist, the   *)
(* risk warnings and the explanations of every conclusion                  *)
(* (application/presentation, api/schemas/analysis_why.py).  Nothing here  *)
(* is recomputed: each operator reads finished results, and a result that  *)
(* is missing leaves its check unevaluated, never passed.                  *)
(*                                                                         *)
(* Wording, the two audiences' phrasings and the cap on the reasons shown  *)
(* under one topic are left out.                                           *)
(***************************************************************************)
EXTENDS AnalysisRules

Seqs == INSTANCE SequencesExt

CONSTANT MinimumReward      \* ChecklistPolicy.minimum_risk_reward, <<n, d>>

-----------------------------------------------------------------------------
(* The checklist.  A check has a status and whether it was evaluated.      *)

Check(status, evaluated) == [status |-> status, evaluated |-> evaluated]
Pass == Check("PASS", TRUE)
Fail == Check("FAIL", TRUE)
Imperfect == Check("WARNING", TRUE)
NotEvaluated == Check("WARNING", FALSE)

CriticalItems == {"STOP_DEFINED", "RISK_CALCULATED", "RISK_REWARD_ACCEPTABLE",
                  "POSITION_SIZE_VALID", "NO_MAJOR_CONTRADICTION", "DATA_QUALITY_ACCEPTABLE"}

TrendCheck(a, direction) ==
    LET said == {a.report.readings[r].direction : r \in DOMAIN a.report.readings}
    IN  CASE \A d \in said : ~IsDirection(d) -> NotEvaluated
          [] direction \in said -> Pass
          [] OTHER -> Fail

SetupCheck(case) ==
    CASE case.state = "UNAVAILABLE" -> NotEvaluated
      [] case.state = "INACTIVE" -> Fail
      [] case.state = "FORMING" -> Imperfect
      [] OTHER -> Pass

\* a trigger still pending is no defect
TriggerCheck(case) ==
    CASE case.state = "CONFIRMED" -> Pass
      [] case.state # "CONFIRMED" /\ case.outstanding = {} -> NotEvaluated
      [] OTHER -> Imperfect

\* The caller's word first; a size that rests on a stop is proof of one.
StopCheck(stopDefined, sizing) ==
    CASE stopDefined = "NO" -> Fail
      [] stopDefined = "YES" -> Pass
      [] OTHER -> IF sizing = None THEN NotEvaluated
                  ELSE IF sizing.outcome = "INVALID" THEN NotEvaluated ELSE Pass

RiskCheck(sizing) ==
    IF sizing = None THEN NotEvaluated
    ELSE IF sizing.byRisk = None THEN Fail ELSE Pass

\* a reward is None when not supplied; its ratio is None on a wrong side
BelowMinimum(ratio) == ratio[1] * MinimumReward[2] < MinimumReward[1] * ratio[2]

RewardCheck(reward) ==
    IF reward = None THEN NotEvaluated
    ELSE IF reward.ratio = None THEN Fail
    ELSE IF BelowMinimum(reward.ratio) THEN Fail ELSE Pass

SizeCheck(sizing) ==
    IF sizing = None THEN NotEvaluated
    ELSE CASE sizing.outcome = "ALLOWED" /\ sizing.allowed # 0 -> Pass
           [] sizing.outcome = "UNDETERMINED" -> NotEvaluated
           [] OTHER -> Fail

VolumeCheck(a, direction) ==
    LET said == {g.direction : g \in {x \in a.groups : x.category = "VOLUME"}}
    IN  CASE said = {} -> NotEvaluated
          [] direction \in said -> Pass
          [] OTHER -> Imperfect

ContradictionCheck(a) == IF Majors(a.report) # {} THEN Fail ELSE Pass

\* quality is the verdict on the data, None when no report was supplied
DataCheck(quality) ==
    CASE quality = None -> NotEvaluated
      [] quality = "BLOCKED" -> Fail
      [] quality = "ACCEPTED_WITH_WARNINGS" -> Imperfect
      [] OTHER -> Pass

\* there is no order book to evaluate it with
LiquidityCheck == NotEvaluated

\* Mutant: a critical check that nobody could evaluate is let through.
ChecklistVerdictOptimistic(results) ==
    IF \E i \in CriticalItems : results[i].status = "FAIL"
    THEN "TRADE_QUALITY_INSUFFICIENT" ELSE "SUFFICIENT"

ChecklistVerdict(results) ==
    CASE \E i \in CriticalItems : results[i].status = "FAIL" -> "TRADE_QUALITY_INSUFFICIENT"
      [] /\ \A i \in CriticalItems : results[i].status # "FAIL"
         /\ \E i \in CriticalItems : ~results[i].evaluated -> "INCOMPLETE"
      [] OTHER -> "SUFFICIENT"

\* evidence: what the caller supplies beside the analysis
AssessChecklist(a, direction, sizing, evidence) ==
    [TREND_IDENTIFIED        |-> TrendCheck(a, direction),
     SETUP_VALID             |-> SetupCheck(a.scenarios[direction]),
     ENTRY_TRIGGER_CONFIRMED |-> TriggerCheck(a.scenarios[direction]),
     STOP_DEFINED            |-> StopCheck(evidence.stop, sizing),
     RISK_CALCULATED         |-> RiskCheck(sizing),
     RISK_REWARD_ACCEPTABLE  |-> RewardCheck(evidence.reward),
     POSITION_SIZE_VALID     |-> SizeCheck(sizing),
     VOLUME_CONFIRMATION     |-> VolumeCheck(a, direction),
     NO_MAJOR_CONTRADICTION  |-> ContradictionCheck(a),
     DATA_QUALITY_ACCEPTABLE |-> DataCheck(evidence.quality),
     LIQUIDITY_ACCEPTABLE    |-> LiquidityCheck]

-----------------------------------------------------------------------------
(* The warnings, by code: the same set whoever reads them.                 *)

SizingWarnings(sizing) ==
    IF sizing = None THEN {}
    ELSE CASE sizing.outcome = "NOT_PERMITTED" -> {"RISK_NOT_PERMITTED"}
           [] sizing.outcome = "UNDETERMINED" -> {"SIZING_UNDETERMINED"}
           [] OTHER -> {}

RewardWarnings(reward) ==
    IF reward = None THEN {}
    ELSE IF reward.ratio = None THEN {}
    ELSE IF BelowMinimum(reward.ratio) THEN {"POOR_RISK_REWARD"} ELSE {}

BeginnerRiskWarnings(margin, sizing, evidence) ==
    (IF margin = None THEN {} ELSE margin.warnings)
      \cup (IF evidence.stop = "NO" THEN {"NO_STOP_DEFINED"} ELSE {})
      \cup SizingWarnings(sizing) \cup RewardWarnings(evidence.reward)

-----------------------------------------------------------------------------
(* Explanations.  One without a reason says it is unavailable.             *)

Reason(code, severity) == [code |-> code, severity |-> severity]
Explanation(topic, subject, reasons) ==
    [topic |-> topic, subject |-> subject, reasons |-> reasons]
Unavailable(topic, subject) == Explanation(topic, subject, {})

GroupReason(g) == Reason(<<g.role, g.category>>, IF g.strength = 3 THEN "NOTABLE" ELSE "INFO")

WhyDirection(a, direction) ==
    Explanation("EVIDENCE", direction,
                {GroupReason(g) : g \in {x \in a.groups : x.direction = direction}})

\* a component that could not be measured, or earned nothing, is notable
ComponentReason(i, score) ==
    Reason(i, IF score.available /\ score.awarded > 0 THEN "INFO" ELSE "NOTABLE")

ComponentReasons(scores) == {ComponentReason(i, scores[i]) : i \in DOMAIN scores}

WhySetupQuality(case, direction) ==
    Explanation("SETUP_QUALITY", <<case.quality, direction>>, ComponentReasons(case.components))

WhyEntryQuality(case) ==
    IF case.entry = None THEN Unavailable("ENTRY_QUALITY", None)
    ELSE Explanation("ENTRY_QUALITY", case.entry.score, ComponentReasons(case.entry.components))

WhyScenarioState(name, state, requirements) ==
    Explanation("SCENARIO_STATE", <<name, state>>,
        {Reason(<<"STATE", state>>, "INFO")} \cup
        {Reason(<<"REQUIREMENT", r>>, IF requirements[r] = "MET" THEN "INFO" ELSE "NOTABLE") :
            r \in DOMAIN requirements})

WhyPendingConfirmation(name, outstanding) ==
    IF outstanding = {} THEN Unavailable("PENDING_CONFIRMATION", <<name>>)
    ELSE Explanation("PENDING_CONFIRMATION", <<name, "PENDING">>,
                     {Reason(r, "NOTABLE") : r \in outstanding})

\* named for its kind alone, whichever timeframes disagree
WhyContradiction(c) ==
    Explanation("CONTRADICTION", c.type,
        {Reason(<<c.type, c.roles>>, IF c.severity = "MAJOR" THEN "CRITICAL" ELSE "NOTABLE")})

WhyPositionSize(sizing, tick) ==
    Explanation("POSITION_SIZE", sizing.allowed,
        {Reason(<<"OUTCOME", sizing.outcome>>,
                IF sizing.outcome \in {"NOT_PERMITTED", "INVALID"} THEN "CRITICAL" ELSE "INFO"),
         Reason(<<"MARGIN", None>>, IF sizing.byMargin = None THEN "NOTABLE" ELSE "INFO"),
         Reason(<<"TICK", tick>>, IF tick = "ON_GRID" THEN "INFO" ELSE "NOTABLE")}
          \cup (IF sizing.byRisk = None THEN {} ELSE {Reason(<<"RISK_BUDGET", None>>, "INFO")}))

WhyRiskFindings(margin) ==
    Explanation("RISK_FINDING", None, {Reason(w, "CRITICAL") : w \in margin.warnings})

WhyNoTradeBlock(assessment) ==
    Explanation("NO_TRADE_BLOCK", None,
        {Reason(f.reason, "CRITICAL") : f \in {x \in assessment.findings : x.severity = "BLOCKING"}})

WhyZone(z) == Explanation(z.kind, <<z.low, z.high>>,
                          {Reason("TOUCHES", "INFO"), Reason("ZONE_SCORE", "INFO")})

\* the four strongest of the narrowest timeframe used
ZoneExplanations(zones) ==
    LET Stronger(z) == {y \in zones : y.strength > z.strength}
    IN  Seqs!SetToSeq({WhyZone(z) : z \in {x \in zones : Cardinality(Stronger(x)) < 4}})

Same(x, y) == x.topic = y.topic /\ x.subject = y.subject

\* The first of each topic and subject, each kept at its place in the list.
Deduplicate(explanations) ==
    Restrict(explanations,
             {i \in DOMAIN explanations :
                 \A j \in 1..(i - 1) : ~Same(explanations[j], explanations[i])})

\* The block is explained once, for the first direction with any finding.
BlockExplanations(vetoes) ==
    IF vetoes["BULLISH"].findings # {} THEN <<WhyNoTradeBlock(vetoes["BULLISH"])>>
    ELSE IF vetoes["BEARISH"].findings # {} THEN <<WhyNoTradeBlock(vetoes["BEARISH"])>>
    ELSE << >>

SizingExplanation(sizing, tick) ==
    IF sizing = None THEN Unavailable("POSITION_SIZE", None) ELSE WhyPositionSize(sizing, tick)

CaseExplanations(case, direction) ==
    <<WhyScenarioState(direction, case.state, case.requirements),
      WhyPendingConfirmation(direction, case.outstanding),
      WhySetupQuality(case, direction), WhyEntryQuality(case)>>

\* What the answer to an upload says about itself.
BuildWhy(a, zones, sizing, tick, vetoes) ==
    IF a = None THEN <<Unavailable("SCENARIO_STATE", None)>>
    ELSE Deduplicate(
           <<WhyDirection(a, "BULLISH"), WhyDirection(a, "BEARISH")>>
             \o CaseExplanations(a.scenarios["BULLISH"], "BULLISH")
             \o CaseExplanations(a.scenarios["BEARISH"], "BEARISH")
             \o <<WhyScenarioState("NEUTRAL", a.neutral, << >>),
                  WhyPendingConfirmation("NEUTRAL", {})>>
             \o Seqs!SetToSeq({WhyContradiction(c) : c \in a.report.contradictions})
             \o ZoneExplanations(zones)
             \o <<SizingExplanation(sizing, tick)>>
             \o BlockExplanations(vetoes))

\* The review of a proposed trade, with every explanation its inputs support.
ReviewTrade(a, direction, sizing, tick, margin, assessment, evidence) ==
    LET checks == AssessChecklist(a, direction, sizing, evidence)
    IN  [direction |-> direction, checks |-> checks, verdict |-> ChecklistVerdict(checks),
         warnings |-> BeginnerRiskWarnings(margin, sizing, evidence),
         explanations |->
            <<WhyDirection(a, direction)>>
              \o CaseExplanations(a.scenarios[direction], direction)
              \o (IF sizing = None THEN << >> ELSE <<WhyPositionSize(sizing, tick)>>)
              \o (IF margin = None THEN << >> ELSE <<WhyRiskFindings(margin)>>)
              \o <<WhyNoTradeBlock(assessment)>>]
=============================================================================
