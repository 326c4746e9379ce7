--------------------------- MODULE SynthesisRules ---------------------------
(***************************************************************************)
(* The rules of the narration of an analysis by a language model           *)
(* (application/synthesis, domain/synthesis): what the model is told, what *)
(* it may propose, and which of its drafts are refused.                    *)
(*                                                                         *)
(* A context is a sequence of entries of the twelve reference kinds.  An   *)
(* entry carries its kind and key, which together are its reference, a     *)
(* weight (the strength of evidence, the severity of a contradiction or    *)
(* finding) and a state (how far evidence is confirmed, the outcome of the *)
(* sizing, the value of a fact).  Keys are numbers: their order is the     *)
(* order of the identifiers.  Quantities are counted in tenths.  A trimmed *)
(* context keeps the places of the entries it keeps.                       *)
(***************************************************************************)
EXTENDS VisionRules, TLC

(***************************************************************************)
(* The action envelope.                                                    *)
(***************************************************************************)

Actions == {"LONG", "SHORT", "WAIT", "NO_TRADE"}
TradeActions == {"LONG", "SHORT"}
Opening == TradeActions \cup {"WAIT"}

ForDirection(direction) == IF direction = "BULLISH" THEN "LONG" ELSE "SHORT"

OfSeverity(assessment, severity) ==
    {i \in DOMAIN assessment.findings : assessment.findings[i].severity = severity}

\* nothing blocks, yet the veto could not be answered or something is pending
OpenConditions(assessment) ==
    /\ OfSeverity(assessment, "BLOCKING") = {}
    /\ assessment.undetermined \/ OfSeverity(assessment, "PENDING") # {}

\* A bug: a sizing that does not allow a position is left to the narrative.
EnvelopeSizingAdvisory(assessment, direction, sizing, quality) ==
    IF OfSeverity(assessment, "BLOCKING") # {} THEN {"NO_TRADE"}
    ELSE Actions \ (TradeActions \ {ForDirection(direction)})

\* derive_action_envelope: each constraint removes actions, none adds one,
\* and NO_TRADE is always left
Envelope(assessment, direction, sizing, quality) ==
    LET removals ==
            {<<TRUE, TradeActions \ {ForDirection(direction)}>>,
             <<OfSeverity(assessment, "BLOCKING") # {}, Opening>>,
             <<OpenConditions(assessment), TradeActions>>,
             <<sizing # None /\ sizing.outcome = "NOT_PERMITTED", Opening>>,
             <<sizing # None /\ sizing.outcome \in {"UNDETERMINED", "INVALID"}, TradeActions>>,
             <<quality = "BLOCKED", Opening>>}
    IN  Actions \ UNION {r[2] : r \in {s \in removals : s[1]}}

(***************************************************************************)
(* The context.                                                            *)
(***************************************************************************)

Evidence == {"EV-BULL", "EV-BEAR", "EV-NEUTRAL"}

Entry(kind, key, weight, state) ==
    [kind |-> kind, key |-> key, weight |-> weight, state |-> state]

RefOf(entry) == <<entry.kind, entry.key>>
RefsOf(entries) == {RefOf(entries[i]) : i \in DOMAIN entries}
OfKind(entries, kinds) == SelectSeq(entries, LAMBDA e : e.kind \in kinds)
RefsOfKind(entries, kinds) ==
    {RefOf(entries[i]) : i \in {j \in DOMAIN entries : entries[j].kind \in kinds}}
At(entries, ref) == CHOOSE e \in Range(entries) : RefOf(e) = ref

Confirmation(item) ==
    IF item.pointInTime THEN "POINT_IN_TIME"
    ELSE IF item.confirmed THEN "CONFIRMED" ELSE "FORMING"

EvidenceKind(direction) ==
    CASE direction = "BULLISH" -> "EV-BULL"
      [] direction = "BEARISH" -> "EV-BEAR"
      [] direction = "NEUTRAL" -> "EV-NEUTRAL"

\* _to_context_evidence: of the items that share a reference the first stays
ContextEvidence(items, direction) ==
    FoldLeft(LAMBDA built, item :
                 IF \E i \in DOMAIN built : built[i].key = item.key THEN built
                 ELSE Append(built, Entry(EvidenceKind(direction), item.key,
                                          item.strength, Confirmation(item))),
             <<>>, SelectSeq(items, LAMBDA item : item.direction = direction))

\* _to_context_contradictions sorts, and keeps the duplicates
ContextContradictions(items) ==
    LET ordered == SortSeq(items, LAMBDA a, b : a.key < b.key)
    IN  [i \in DOMAIN ordered |-> Entry("CON", ordered[i].key, ordered[i].severity, None)]

\* _quality_components and _entry_components, one per component scored
ContextComponents(kind, quality) ==
    IF quality = None THEN <<>>
    ELSE [i \in 1..quality.components |-> Entry(kind, i, None, None)]

\* _risk_findings: one finding, blocking only when no position is permitted
RiskFindings(sizing) ==
    IF sizing = None THEN <<>>
    ELSE <<Entry("RISK", 1, IF sizing.outcome = "NOT_PERMITTED" THEN "BLOCKING" ELSE "CAUTION",
                 sizing.outcome)>>

\* A finding is known by its reason and its severity: the same reason may be found twice.
FindingKey(finding) ==
    3 * finding.reason + [BLOCKING |-> 0, PENDING |-> 1, CAUTION |-> 2][finding.severity]

\* _suitability_findings
SuitabilityFindings(assessment) ==
    [i \in DOMAIN assessment.findings |->
        Entry("SUIT", FindingKey(assessment.findings[i]), assessment.findings[i].severity, None)]

MissingInformation(assessment) ==
    [i \in DOMAIN assessment.missing |-> Entry("MISS", assessment.missing[i], None, None)]

\* _vision_observations
VisionObservations(extraction) ==
    IF extraction = None THEN <<>>
    ELSE [i \in DOMAIN extraction |-> Entry("VIS", extraction[i], None, None)]

\* _scenarios: the three cases
Scenarios == [i \in 1..3 |-> Entry("SCEN", i, None, None)]

\* _numeric_facts: what has no value is no fact
NumericFacts(indicators, setup, entry, sizing) ==
    LET values == indicators \o
                  <<[key |-> 11, value |-> IF setup = None THEN None ELSE setup.score],
                    [key |-> 12, value |-> IF entry = None THEN None ELSE entry.score],
                    [key |-> 13, value |-> IF sizing = None THEN None ELSE sizing.contracts]>>
        known == SelectSeq(values, LAMBDA v : v.value # None)
    IN  [i \in DOMAIN known |-> Entry("FACT", known[i].key, None, known[i].value)]

\* build_synthesis_context
BuildContext(analysis, direction, assessment, setup, entry, sizing, quality, vision) ==
    [direction |-> direction,
     allowed   |-> Envelope(assessment, direction, sizing, quality),
     quality   |-> quality,
     entries   |-> ContextEvidence(analysis.evidence, "BULLISH")
                   \o ContextEvidence(analysis.evidence, "BEARISH")
                   \o ContextEvidence(analysis.evidence, "NEUTRAL")
                   \o ContextContradictions(analysis.contradictions)
                   \o ContextComponents("SQ", setup) \o ContextComponents("EQ", entry)
                   \o RiskFindings(sizing)
                   \o SuitabilityFindings(assessment) \o MissingInformation(assessment)
                   \o VisionObservations(vision)
                   \o Scenarios
                   \o NumericFacts(analysis.indicators, setup, entry, sizing)]

\* SynthesisContext.__post_init__ refuses a reference that appears twice
Duplicated(context) ==
    Cardinality(RefsOf(context.entries)) < Len(context.entries)

(***************************************************************************)
(* The budget.                                                             *)
(***************************************************************************)

\* mandatory_entries
Mandatory(entries) ==
    RefsOf(SelectSeq(entries, LAMBDA e :
        \/ /\ e.kind \in {"SUIT", "RISK"}
           /\ e.weight = "BLOCKING"
        \/ e.kind = "MISS"
        \/ /\ e.kind = "CON"
           /\ e.weight = "MAJOR"))

FirstOnes(entries, n) == SubSeq(entries, 1, Min({Max({n, 0}), Len(entries)}))
LastOnes(entries, n) == Reverse(FirstOnes(Reverse(entries), n))

StrengthOrder(e) ==
    CASE e.weight = "WEAK" -> 0 [] e.weight = "MODERATE" -> 1 [] e.weight = "STRONG" -> 2

\* _trim_weak_evidence: the weakest evidence for the narrated case
WeakestSupporting(entries, direction) ==
    SortSeq(OfKind(entries, {EvidenceKind(direction)}), LAMBDA a, b :
        \/ StrengthOrder(a) < StrengthOrder(b)
        \/ StrengthOrder(a) = StrengthOrder(b) /\ a.key < b.key)

\* the contradictions that may be dropped
MinorContradictions(entries) ==
    SelectSeq(entries, LAMBDA e : e.kind = "CON" /\ e.weight # "MAJOR")

DroppableContradictions(entries) == MinorContradictions(entries)

\* fit_to_budget: what is dropped, in order, until the context fits
FitToBudget(context, policy) ==
    LET entries == context.entries
        over == Len(entries) - policy.maxEntries
        neutral == IF policy.keepNeutral THEN {} ELSE RefsOfKind(entries, {"EV-NEUTRAL"})
        afterNeutral == over - Cardinality(neutral)
        vision == IF policy.keepVision \/ afterNeutral <= 0 THEN {}
                  ELSE RefsOfKind(entries, {"VIS"})
        afterVision == afterNeutral - Cardinality(vision)
        weak == RefsOf(FirstOnes(WeakestSupporting(entries, context.direction), afterVision))
        afterWeak == afterVision - Cardinality(weak)
        minor == RefsOf(LastOnes(DroppableContradictions(entries), afterWeak))
        removed == IF over <= 0 THEN {} ELSE neutral \cup vision \cup weak \cup minor
    IN  [fits    |-> /\ Cardinality(Mandatory(entries)) <= policy.maxEntries
                     /\ over <= 0 \/ afterWeak - Cardinality(minor) <= 0,
         removed |-> removed,
         context |-> [context EXCEPT !.entries =
                        Restrict(entries, {i \in DOMAIN entries : RefOf(entries[i]) \notin removed})]]

\* build_prompt: a fixed part and one line for every entry of the context
PromptCharacters(context, tokens) ==
    tokens.baseCharacters + tokens.entryCharacters * Cardinality(DOMAIN context.entries)

\* estimate_tokens and TokenBudget.fits.  1.15 / 2.5 = 0.46 tokens a character.
EstimateTokens(context, tokens) == (PromptCharacters(context, tokens) * 46) \div 100 + 1

TokensFit(estimate, tokens) ==
    LET allowance == tokens.window - tokens.output - tokens.reserve
        usable == IF tokens.maxPrompt = None THEN allowance
                  ELSE Min({tokens.maxPrompt, allowance})
    IN  /\ estimate <= usable
        /\ estimate + tokens.output + tokens.reserve <= tokens.window

(***************************************************************************)
(* The validation of a draft.                                              *)
(***************************************************************************)

Components == {"SQ", "EQ"}

\* _EXPECTED_KINDS, for each list of a draft that is checked
ExpectedKinds(list) ==
    CASE list \in {"supporting", "caseSupporting"} -> Evidence \cup Components \cup {"SCEN", "VIS"}
      [] list \in {"opposing", "caseOpposing", "advocateOpposing"} ->
            Evidence \cup Components \cup {"CON", "RISK", "SUIT", "VIS"}
      [] list \in {"missing", "advocateMissing"} -> {"MISS"}
      [] list = "confirmation" -> {"SUIT", "MISS", "SCEN", "EQ"}
      [] list = "invalidation" -> Evidence \cup {"SCEN", "CON"}
      [] list = "advocateContradiction" -> {"CON"}

Cited(refs) == UNION {refs[list] : list \in DOMAIN refs}

Referenced(draft) ==
    Cited(draft.refs) \cup UNION {Cited(claim.refs) : claim \in draft.claims}

\* _check_references, the kinds of what is known
WrongKind(draft, known) ==
    \E list \in DOMAIN draft.refs : \E ref \in draft.refs[list] \cap known :
        ref[1] \notin ExpectedKinds(list)

SafetyCritical ==
    {"ENTRY_CONFIRMED", "RISK_PERMITS_POSITION", "RISK_BLOCKS_POSITION", "BLOCKING_CONDITION",
     "DATA_QUALITY_ACCEPTABLE", "DATA_QUALITY_BLOCKED"}

\* The lists of a claim's references that its type needs: one of each set.
NeededLists(type) ==
    CASE type = "ENTRY_CONFIRMED" -> {{"evidence"}}
      [] type = "RISK_PERMITS_POSITION" -> {{"risk"}}
      [] type \in {"RISK_BLOCKS_POSITION", "BLOCKING_CONDITION"} -> {{"risk", "suitability"}}
      [] type = "PENDING_CONDITION" -> {{"suitability", "evidence"}}
      [] type = "SCENARIO_SUPPORTED" -> {{"scenario"}, {"evidence"}}
      [] type = "CONTRADICTION_PRESENT" -> {{"contradiction"}}
      [] type = "INFORMATION_MISSING" -> {{"missing"}}
      [] type = "FACT_RELEVANT" -> {{"fact"}}
      [] OTHER -> {}

Ungrounded(claim) ==
    \/ claim.type \in SafetyCritical /\ Cited(claim.refs) = {}
    \/ \E lists \in NeededLists(claim.type) : \A list \in lists : claim.refs[list] = {}

\* _check_claims: a cited entry of another kind than the list's is passed over
Refuted(claim, context) ==
    LET of(list, kinds) ==
            {At(context.entries, ref) :
                ref \in {r \in claim.refs[list] : r \in RefsOfKind(context.entries, kinds)}}
        decisive == of("risk", {"RISK", "SUIT"}) \cup of("suitability", {"RISK", "SUIT"})
    IN  CASE claim.type = "ENTRY_CONFIRMED" ->
               \E e \in of("evidence", Evidence) : e.state # "CONFIRMED"
          [] claim.type = "RISK_PERMITS_POSITION" ->
               \E e \in of("risk", {"RISK"}) : e.state # "ALLOWED"
          [] claim.type \in {"RISK_BLOCKS_POSITION", "BLOCKING_CONDITION"} ->
               decisive # {} /\ \A e \in decisive : e.weight # "BLOCKING"
          [] claim.type = "DATA_QUALITY_ACCEPTABLE" -> context.quality \in {None, "BLOCKED"}
          [] claim.type = "DATA_QUALITY_BLOCKED" -> context.quality # "BLOCKED"
          [] OTHER -> FALSE

\* SynthesisContext.opposing_refs
OpposingRefs(context) ==
    RefsOfKind(context.entries,
        {IF context.direction = "BULLISH" THEN "EV-BEAR" ELSE "EV-BULL", "CON"})

\* _check_devils_advocate
Fabricated(draft, context) ==
    LET cited == draft.refs["advocateOpposing"] \cup draft.refs["advocateContradiction"]
                   \cup draft.refs["advocateMissing"]
    IN  \/ cited = {} /\ ~draft.limited
        \/ cited # {} /\ draft.limited
        \/ cited # {} /\ OpposingRefs(context) = {}

AnyConfirmed(context) ==
    \E i \in DOMAIN context.entries :
        context.entries[i].kind \in Evidence /\ context.entries[i].state = "CONFIRMED"

\* A bug: any reference of the context may stand in a narrative.
RenderableAnyReference(context) == RefsOf(context.entries)

\* the placeholders validate_synthesis lets pass: facts and observations
Renderable(context) == RefsOfKind(context.entries, {"FACT", "VIS"})

\* _resolve: the observation or the fact a placeholder names
Resolves(ref, context) ==
    \E i \in DOMAIN context.entries :
        /\ context.entries[i].kind = IF ref[1] = "VIS" THEN "VIS" ELSE "FACT"
        /\ RefOf(context.entries[i]) = ref

SMALL_COUNT_LIMIT == 100

\* unsupported_numeric_violations, with numbers in tenths
Unsupported(number, context) ==
    /\ \A i \in DOMAIN context.entries :
           context.entries[i].kind = "FACT" => context.entries[i].state # number
    /\ ~(number % 10 = 0 /\ number <= SMALL_COUNT_LIMIT)

\* what validate_synthesis looks for, with the code of each
Checks(draft, context) ==
    {<<draft.action \notin context.allowed, "ACTION_NOT_PERMITTED">>,
     <<~(Referenced(draft) \subseteq RefsOf(context.entries))
         \/ ~(draft.placeholders \subseteq Renderable(context)), "UNKNOWN_REFERENCE">>,
     <<WrongKind(draft, RefsOf(context.entries)), "WRONG_REFERENCE_KIND">>,
     <<\E claim \in draft.claims : Ungrounded(claim), "UNGROUNDED_CLAIM">>,
     <<\E claim \in draft.claims : ~Ungrounded(claim) /\ Refuted(claim, context),
       "CLAIM_CONTRADICTS_CONTEXT">>,
     <<draft.blank = "challenge", "MISSING_DEVILS_ADVOCATE">>,
     <<Fabricated(draft, context), "FABRICATED_COUNTER_EVIDENCE">>,
     <<"CONFIRMED" \in draft.phrases /\ ~AnyConfirmed(context), "CONFIRMATION_UPGRADED">>,
     <<"RISK_IS_FINE" \in draft.phrases, "INVENTED_RISK_PERMISSION">>,
     <<draft.blank = "summary", "EMPTY_NARRATIVE">>,
     <<draft.blank = "case", "MISSING_SCENARIO">>,
     <<"CHANCE" \in draft.phrases, "PROBABILITY_CLAIM">>,
     <<\E n \in draft.numbers : Unsupported(n, context), "UNSUPPORTED_NUMERIC_CLAIM">>}

\* validate_synthesis: the codes a draft is refused with
Rejections(draft, context) == {c[2] : c \in {d \in Checks(draft, context) : d[1]}}

(***************************************************************************)
(* The provider.                                                           *)
(***************************************************************************)

SynthesisFailures ==
    {"AUTHENTICATION", "TIMEOUT", "NETWORK", "RATE_LIMITED", "PROVIDER_REJECTED", "UNAVAILABLE"}

\* SynthesisFailure.status
SynthesisStatus(failure) ==
    IF failure \in {"NOT_CONFIGURED", "INVALID_OUTPUT", "CONTEXT_TOO_LARGE"} THEN failure
    ELSE "PROVIDER_FAILURE"

\* The schema's own limits; it strips its texts and refuses a blank one.
SchemaAccepts(reply) == reply.schema /\ reply.draft.blank = None

CasesAreComplete(reply) == reply.cases = <<"BULL", "BEAR", "NEUTRAL">>

\* _validate: one draft, or no draft at all
ParsesAsDraft(reply) ==
    reply.json = "OBJECT" /\ SchemaAccepts(reply) /\ CasesAreComplete(reply)
=============================================================================
