----------------------------- MODULE Synthesis -----------------------------
(***************************************************************************)
(* One narration of an analysis (api/routes/analysis.synthesise and        *)
(* application/synthesis/use_case.run_synthesis): the context is built     *)
(* from the analysis and trimmed to the budget, the provider is asked, and *)
(* its draft is validated against what it was told and rendered against    *)
(* the whole context.                                                      *)
(***************************************************************************)
EXTENDS SynthesisRules

CONSTANTS
    Outcomes,       \* the analyses that are narrated
    Settings,       \* the configurations of the provider
    Drafts          \* what the provider may answer

\* A plan has a direction, and a sizing one of its outcomes.
ASSUME NarratedOutcomes == \A o \in Outcomes :
    /\ o.riskDirection \in TradeActions \cup {None}
    /\ o.sizing # None =>
          o.sizing.outcome \in {"ALLOWED", "NOT_PERMITTED", "UNDETERMINED", "INVALID"}

VARIABLES
    narration,      \* IDLE, ASKED or DONE
    outcome,        \* the analysis being narrated
    brief,          \* the context and what fit_to_budget made of it
    response,       \* what the caller is answered
    audit           \* the audit record of the narration

synthesisVars == <<narration, outcome, brief, response, audit>>

SynthesisInit ==
    /\ narration = "IDLE"
    /\ outcome = None /\ brief = None /\ response = None /\ audit = None

\* _narrated_direction: the user's own, else the better case, the bull at a tie
NarratedDirection(o) ==
    LET score(case) == IF case.setup = None THEN -1 ELSE case.setup.score
    IN  IF o.riskDirection # None
        THEN IF o.riskDirection = "LONG" THEN "BULLISH" ELSE "BEARISH"
        ELSE IF ~o.analysed THEN None
        ELSE IF score(o.cases["BEARISH"]) > score(o.cases["BULLISH"]) THEN "BEARISH"
        ELSE "BULLISH"

\* build_audit_record
AuditRecord(context, status, proposed, accepted, codes, removed) ==
    [status |-> status, allowed |-> context.allowed, refs |-> RefsOf(context.entries),
     proposed |-> proposed, accepted |-> accepted, codes |-> codes, trimmed |-> removed]

Response(status, action, allowed) ==
    [status |-> status, action |-> action, allowed |-> allowed]

\* run_synthesis.failed: the audit names the whole context
Declined(failure, context, removed) ==
    /\ response' = Response(SynthesisStatus(failure), None, context.allowed)
    /\ audit' = AuditRecord(context, SynthesisStatus(failure), None, None, {failure}, removed)
    /\ narration' = "DONE"

\* the early returns of synthesise, which are no narration and no audit
Decline(status) ==
    /\ response' = Response(status, None, {})
    /\ narration' = "DONE"
    /\ UNCHANGED <<brief, audit>>

IsConfigured(settings) == settings.provider /\ settings.model /\ settings.tokens # None

ContextFor(o, direction) ==
    BuildContext(o, direction, o.suitability[direction], o.cases[direction].setup,
                 o.cases[direction].entry, o.sizing, None, None)

\* synthesise, up to the call of the provider
Synthesise(o, settings) ==
    /\ narration = "IDLE"
    /\ outcome' = o
    /\ \E direction \in {NarratedDirection(o)} :
         \/ /\ direction = None \/ ~o.analysed
            /\ Decline("NOT_APPLICABLE")
         \/ /\ direction # None /\ o.analysed
            /\ o.suitability[direction] = None
            /\ Decline("NOT_APPLICABLE")
         \/ /\ direction # None /\ o.analysed
            /\ o.suitability[direction] # None
            /\ \E context \in {ContextFor(o, direction)} :
                 \/ /\ Duplicated(context)
                    /\ Decline("CONTEXT_UNAVAILABLE")
                 \/ /\ ~Duplicated(context) /\ ~IsConfigured(settings)
                    /\ Declined("NOT_CONFIGURED", context, {})
                    /\ brief' = brief
                 \/ /\ ~Duplicated(context) /\ IsConfigured(settings)
                    /\ \E trim \in {FitToBudget(context, settings.entries)} :
                         \E room \in {trim.fits /\ TokensFit(
                                EstimateTokens(trim.context, settings.tokens), settings.tokens)} :
                            \/ /\ ~room
                               /\ Declined("CONTEXT_TOO_LARGE", context,
                                       IF trim.fits THEN trim.removed ELSE {})
                               /\ brief' = brief
                            \/ /\ room
                               /\ narration' = "ASKED"
                               /\ brief' = [whole |-> context, context |-> trim.context,
                                           removed |-> trim.removed,
                                           limit |-> settings.entries.maxEntries]
                               /\ UNCHANGED <<response, audit>>

\* the transport raises; the failure is typed and the analysis stands
SynthesizerFails(failure) ==
    /\ narration = "ASKED"
    /\ Declined(failure, brief.whole, brief.removed)
    /\ UNCHANGED <<outcome, brief>>

\* render_segments, over the context before it was trimmed: a placeholder that
\* names nothing raises out of the route
Rendered(draft) ==
    IF \A ref \in draft.placeholders : Resolves(ref, brief.whole) THEN "SUCCESS" ELSE "SERVER_ERROR"

\* the provider answers; the reply is parsed, validated and rendered
SynthesizerAnswers(reply) ==
    /\ narration = "ASKED"
    /\ \/ /\ ~ParsesAsDraft(reply)
          /\ Declined("INVALID_OUTPUT", brief.whole, brief.removed)
       \/ /\ ParsesAsDraft(reply)
          /\ \E codes \in {Rejections(reply.draft, brief.context)} :
               \/ /\ codes # {}
                  /\ response' = Response("INVALID_OUTPUT", None, brief.whole.allowed)
                  /\ audit' = AuditRecord(brief.context, "INVALID_OUTPUT", reply.draft.action,
                                          None, codes, brief.removed)
               \/ /\ codes = {}
                  /\ response' = Response(Rendered(reply.draft), reply.draft.action,
                                        brief.whole.allowed)
                  /\ audit' = AuditRecord(brief.context, "SUCCESS", reply.draft.action,
                                          reply.draft.action, {}, brief.removed)
          /\ narration' = "DONE"
    /\ UNCHANGED <<outcome, brief>>

SynthesisNext ==
    \/ \E o \in Outcomes, settings \in Settings : Synthesise(o, settings)
    \/ \E failure \in SynthesisFailures : SynthesizerFails(failure)
    \/ \E reply \in Drafts : SynthesizerAnswers(reply)

SynthesisSpec == SynthesisInit /\ [][SynthesisNext]_synthesisVars

-----------------------------------------------------------------------------

\* A narration never proposes what the analysis vetoed: a position is only
\* proposed in the direction the user means to trade, with nothing blocking,
\* pending or undetermined and a sizing that allows it, and waiting is only
\* proposed while waiting could help (derive_action_envelope, however the
\* draft passed validate_synthesis).
VetoHolds ==
    (response # None /\ response.status = "SUCCESS" /\ response.action \in Opening) =>
        LET assessment == outcome.suitability[brief.whole.direction]
        IN  /\ OfSeverity(assessment, "BLOCKING") = {}
            /\ outcome.sizing # None => outcome.sizing.outcome # "NOT_PERMITTED"
            /\ response.action \in TradeActions =>
                 /\ response.action = ForDirection(brief.whole.direction)
                 /\ outcome.riskDirection \in {None, response.action}
                 /\ OfSeverity(assessment, "PENDING") = {} /\ ~assessment.undetermined
                 /\ outcome.sizing # None => outcome.sizing.outcome = "ALLOWED"

\* A draft that passed validation can be rendered: what the model wrote never
\* turns a complete analysis into a server error (validate_synthesis checks
\* the placeholders against the trimmed context, synthesise renders the whole).
NarrationNeverCostsTheAnalysis ==
    response # None => response.status # "SERVER_ERROR"
=============================================================================
