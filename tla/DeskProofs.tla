----------------------------- MODULE DeskProofs -----------------------------
(***************************************************************************)
(* Proofs about what users of the desk are told and may say.  The          *)
(* narration of an analysis says nothing its envelope vetoes and never     *)
(* costs the analysis; the last word on a reading of a screenshot stands;  *)
(* what a bar made known is not repainted by later bars; nothing an        *)
(* analysis says was unknown at its moment; the engines of the money side  *)
(* agree about a size; and the readers of one answer tell the same.  They  *)
(* hold for any requests, bars, analyses, providers, replies and images.   *)
(***************************************************************************)
EXTENDS Analysis, Vision, Synthesis, SequenceTheorems, FiniteSetTheorems,
        WellFoundedInduction, TLAPS

-----------------------------------------------------------------------------
(***************************************************************************)
(* The action envelope: what its constraints leave of the actions.         *)
(***************************************************************************)

\* An action that is left is not removed by any constraint that applies.
LEMMA EnvelopeRemoves ==
    ASSUME NEW assessment, NEW direction, NEW sizing, NEW quality,
           NEW action \in Envelope(assessment, direction, sizing, quality)
    PROVE  /\ action \in Actions
           /\ action \in TradeActions => action = ForDirection(direction)
           /\ OfSeverity(assessment, "BLOCKING") # {} => action \notin Opening
           /\ OpenConditions(assessment) => action \notin TradeActions
           /\ sizing # None /\ sizing.outcome = "NOT_PERMITTED" => action \notin Opening
           /\ sizing # None /\ sizing.outcome \in {"UNDETERMINED", "INVALID"}
                => action \notin TradeActions
<1> DEFINE removals ==
            {<<TRUE, TradeActions \ {ForDirection(direction)}>>,
             <<OfSeverity(assessment, "BLOCKING") # {}, Opening>>,
             <<OpenConditions(assessment), TradeActions>>,
             <<sizing # None /\ sizing.outcome = "NOT_PERMITTED", Opening>>,
             <<sizing # None /\ sizing.outcome \in {"UNDETERMINED", "INVALID"}, TradeActions>>,
             <<quality = "BLOCKED", Opening>>}
<1>1. action \in Actions /\ \A s \in removals : s[1] => action \notin s[2]
  BY DEF Envelope
<1>2. action \notin TradeActions \ {ForDirection(direction)}
  BY <1>1
<1>3. OfSeverity(assessment, "BLOCKING") # {} => action \notin Opening
  BY <1>1
<1>4. OpenConditions(assessment) => action \notin TradeActions
  BY <1>1
<1>5. sizing # None /\ sizing.outcome = "NOT_PERMITTED" => action \notin Opening
  BY <1>1
<1>6. sizing # None /\ sizing.outcome \in {"UNDETERMINED", "INVALID"} => action \notin TradeActions
  BY <1>1
<1> HIDE DEF removals
<1> QED BY <1>1, <1>2, <1>3, <1>4, <1>5, <1>6

-----------------------------------------------------------------------------
(***************************************************************************)
(* Narrations.  What the provider was told is what it was asked with: the  *)
(* actions left by the analysis, and entries of the whole context.         *)
(***************************************************************************)
BriefOk ==
    LET d == brief.whole.direction
    IN  /\ outcome \in Outcomes
        /\ d = NarratedDirection(outcome) /\ d # None
        /\ brief.whole.allowed = Envelope(outcome.suitability[d], d, outcome.sizing, None)
        /\ brief.context.allowed = brief.whole.allowed
        /\ DOMAIN brief.context.entries \subseteq DOMAIN brief.whole.entries
        /\ \A i \in DOMAIN brief.context.entries :
              brief.context.entries[i] = brief.whole.entries[i]

NarrationInv ==
    /\ narration = "IDLE" => response = None
    /\ narration = "ASKED" => BriefOk /\ response = None
    /\ response # None =>
          /\ response.status # "SERVER_ERROR"
          /\ response.status = "SUCCESS" => BriefOk /\ response.action \in brief.context.allowed

\* A context built from an analysis allows what the envelope leaves.
LEMMA ContextAllows ==
    ASSUME NEW o, NEW d
    PROVE  /\ ContextFor(o, d).direction = d
           /\ ContextFor(o, d).allowed = Envelope(o.suitability[d], d, o.sizing, None)
BY DEF ContextFor, BuildContext

\* Trimming removes entries, changes none and leaves the allowed actions alone.
LEMMA TrimKeeps ==
    ASSUME NEW context, {"allowed", "entries"} \subseteq DOMAIN context, NEW policy
    PROVE  LET trim == FitToBudget(context, policy).context
           IN  /\ trim.allowed = context.allowed
               /\ DOMAIN trim.entries \subseteq DOMAIN context.entries
               /\ \A i \in DOMAIN trim.entries : trim.entries[i] = context.entries[i]
<1> DEFINE trim == FitToBudget(context, policy).context
<1>1. \E kept \in SUBSET DOMAIN context.entries :
        trim = [context EXCEPT !.entries = Restrict(context.entries, kept)]
  BY DEF FitToBudget
<1>2. PICK kept \in SUBSET DOMAIN context.entries :
        trim = [context EXCEPT !.entries = Restrict(context.entries, kept)]
  BY <1>1
<1> HIDE DEF trim
<1>3. trim.allowed = context.allowed /\ trim.entries = Restrict(context.entries, kept)
  BY <1>2
<1>4. /\ DOMAIN trim.entries \subseteq DOMAIN context.entries
      /\ \A i \in DOMAIN trim.entries : trim.entries[i] = context.entries[i]
  BY <1>3 DEF Restrict
<1> QED BY <1>3, <1>4 DEF trim

\* A draft that is not refused keeps to the envelope and to what can be rendered.
LEMMA AcceptedDraft ==
    ASSUME NEW draft, NEW context, Rejections(draft, context) = {}
    PROVE  draft.action \in context.allowed /\ draft.placeholders \subseteq Renderable(context)
<1> DEFINE refused == draft.action \notin context.allowed
           unknown == \/ ~(Referenced(draft) \subseteq RefsOf(context.entries))
                      \/ ~(draft.placeholders \subseteq Renderable(context))
<1>1. \A check \in Checks(draft, context) : ~check[1]
  BY DEF Rejections
<1>2. <<refused, "ACTION_NOT_PERMITTED">> \in Checks(draft, context)
  BY DEF Checks
<1>3. <<unknown, "UNKNOWN_REFERENCE">> \in Checks(draft, context)
  BY DEF Checks
<1>4. ~refused /\ ~unknown
  <2> HIDE DEF refused, unknown
  <2> QED BY <1>1, <1>2, <1>3
<1> QED BY <1>4

\* What can be rendered of the trimmed context can be rendered of the whole.
LEMMA RenderableResolves ==
    ASSUME BriefOk, NEW ref \in Renderable(brief.context)
    PROVE  Resolves(ref, brief.whole)
<1>1. PICK i \in DOMAIN brief.context.entries :
        /\ brief.context.entries[i].kind \in {"FACT", "VIS"}
        /\ ref = RefOf(brief.context.entries[i])
  BY DEF Renderable, RefsOfKind
<1>2. i \in DOMAIN brief.whole.entries /\ brief.whole.entries[i] = brief.context.entries[i]
  BY DEF BriefOk
<1>3. ref[1] = brief.whole.entries[i].kind
  BY <1>1, <1>2 DEF RefOf
<1> QED BY <1>1, <1>2, <1>3 DEF Resolves

\* Nothing is answered with a failure of the server.
LEMMA NotServerError ==
    ASSUME NEW failure \in SynthesisFailures \cup
               {"NOT_CONFIGURED", "INVALID_OUTPUT", "CONTEXT_TOO_LARGE"}
    PROVE  SynthesisStatus(failure) \notin {"SERVER_ERROR", "SUCCESS"}
BY DEF SynthesisStatus, SynthesisFailures

\* A narration declined without a reply is no failure of the server.
LEMMA DeclinedKeeps ==
    ASSUME NEW failure \in SynthesisFailures \cup
               {"NOT_CONFIGURED", "INVALID_OUTPUT", "CONTEXT_TOO_LARGE"},
           NEW context, NEW removed, Declined(failure, context, removed)
    PROVE  NarrationInv'
<1>1. narration' = "DONE" /\ response'.status = SynthesisStatus(failure)
  BY DEF Declined, Response
<1> QED BY <1>1, NotServerError DEF NarrationInv

\* The call of the provider: what it is told comes from the analysis.
LEMMA SynthesiseKeeps ==
    ASSUME NarrationInv, NEW o \in Outcomes, NEW settings, Synthesise(o, settings)
    PROVE  NarrationInv'
<1>0. response = None
  BY DEF Synthesise, NarrationInv
<1> DEFINE d == NarratedDirection(o)
           context == ContextFor(o, d)
           trim == FitToBudget(context, settings.entries)
           Told == /\ d # None /\ outcome' = o /\ narration' = "ASKED"
                   /\ brief' = [whole |-> context, context |-> trim.context,
                                removed |-> trim.removed, limit |-> settings.entries.maxEntries]
                   /\ response' = response
<1>1. \/ Decline("NOT_APPLICABLE") \/ Decline("CONTEXT_UNAVAILABLE")
      \/ \E removed : Declined("NOT_CONFIGURED", context, removed)
      \/ \E removed : Declined("CONTEXT_TOO_LARGE", context, removed)
      \/ Told
  BY DEF Synthesise
<1>2. ASSUME NEW status \in {"NOT_APPLICABLE", "CONTEXT_UNAVAILABLE"}, Decline(status)
      PROVE  NarrationInv'
  BY <1>2 DEF Decline, Response, NarrationInv
<1>3. ASSUME NEW failure \in {"NOT_CONFIGURED", "CONTEXT_TOO_LARGE"}, NEW removed,
             Declined(failure, context, removed)
      PROVE  NarrationInv'
  BY <1>3, DeclinedKeeps
<1>4. CASE Told
  <2>1. /\ context.direction = d
        /\ context.allowed = Envelope(o.suitability[d], d, o.sizing, None)
        /\ {"allowed", "entries"} \subseteq DOMAIN context
    BY DEF ContextFor, BuildContext
  <2>2. /\ trim.context.allowed = context.allowed
        /\ DOMAIN trim.context.entries \subseteq DOMAIN context.entries
        /\ \A i \in DOMAIN trim.context.entries : trim.context.entries[i] = context.entries[i]
    <3> HIDE DEF context
    <3> QED BY <2>1, TrimKeeps
  <2> HIDE DEF context, trim, d
  <2>3. /\ brief'.whole = context /\ brief'.context = trim.context /\ outcome' = o /\ d # None
        /\ narration' = "ASKED" /\ response' = None
    BY <1>4, <1>0
  <2>4. BriefOk'
    BY <2>1, <2>2, <2>3 DEF BriefOk, d
  <2> QED BY <2>3, <2>4 DEF NarrationInv
<1> HIDE DEF context, Told
<1> QED BY <1>1, <1>2, <1>3, <1>4

\* The reply: refused, or within what the context allows and shows.
LEMMA AnswersKeep ==
    ASSUME NarrationInv, NEW reply, SynthesizerAnswers(reply)
    PROVE  NarrationInv'
<1>0. BriefOk /\ response = None /\ brief' = brief /\ outcome' = outcome
  BY DEF SynthesizerAnswers, NarrationInv
<1>1. CASE Declined("INVALID_OUTPUT", brief.whole, brief.removed)
  BY <1>1, DeclinedKeeps
<1>2. CASE /\ narration' = "DONE"
           /\ response' = Response("INVALID_OUTPUT", None, brief.whole.allowed)
  BY <1>2 DEF Response, NarrationInv
<1>3. CASE /\ narration' = "DONE"
           /\ Rejections(reply.draft, brief.context) = {}
           /\ response' = Response(Rendered(reply.draft), reply.draft.action, brief.whole.allowed)
  <2>1. /\ reply.draft.action \in brief.context.allowed
        /\ reply.draft.placeholders \subseteq Renderable(brief.context)
    BY <1>3, AcceptedDraft
  <2>2. Rendered(reply.draft) = "SUCCESS"
    BY <1>0, <2>1, RenderableResolves DEF Rendered
  <2>3. response'.status = "SUCCESS" /\ response'.action = reply.draft.action
    BY <1>3, <2>2 DEF Response
  <2>4. BriefOk'
    BY <1>0 DEF BriefOk
  <2> QED BY <1>0, <1>3, <2>1, <2>3, <2>4 DEF NarrationInv
<1> QED BY <1>1, <1>2, <1>3 DEF SynthesizerAnswers

\* Every step keeps what the provider was told and answered.
LEMMA NarrationInvariant == SynthesisSpec => []NarrationInv
<1>1. SynthesisInit => NarrationInv
  BY DEF SynthesisInit, NarrationInv
<1>2. NarrationInv /\ [SynthesisNext]_synthesisVars => NarrationInv'
  <2> SUFFICES ASSUME NarrationInv, [SynthesisNext]_synthesisVars PROVE NarrationInv'
    OBVIOUS
  <2>1. ASSUME NEW o \in Outcomes, NEW settings \in Settings, Synthesise(o, settings)
        PROVE  NarrationInv'
    BY <2>1, SynthesiseKeeps
  <2>2. ASSUME NEW failure \in SynthesisFailures, SynthesizerFails(failure)
        PROVE  NarrationInv'
    BY <2>2, DeclinedKeeps DEF SynthesizerFails
  <2>3. ASSUME NEW reply \in Drafts, SynthesizerAnswers(reply)
        PROVE  NarrationInv'
    BY <2>3, AnswersKeep
  <2>4. CASE UNCHANGED synthesisVars
    BY <2>4 DEF NarrationInv, BriefOk, synthesisVars
  <2> QED BY <2>1, <2>2, <2>3, <2>4 DEF SynthesisNext
<1> QED BY <1>1, <1>2, PTL DEF SynthesisSpec

\* Whatever the provider answers, a narration proposes nothing the analysis vetoed:
\* no position against the direction, over a blocking or pending finding, or that
\* its sizing does not allow (derive_action_envelope, validate_synthesis).
THEOREM VetoStands == SynthesisSpec => []VetoHolds
<1>1. NarrationInv => VetoHolds
  <2> SUFFICES ASSUME NarrationInv, response # None, response.status = "SUCCESS",
                      response.action \in Opening
               PROVE  VetoHolds
    BY DEF VetoHolds
  <2> DEFINE d == brief.whole.direction
             assessment == outcome.suitability[d]
             sizing == outcome.sizing
             action == response.action
  <2>1. /\ outcome \in Outcomes /\ d = NarratedDirection(outcome)
        /\ action \in Envelope(assessment, d, sizing, None)
    BY DEF NarrationInv, BriefOk
  <2>2. /\ action \in TradeActions => action = ForDirection(d)
        /\ OfSeverity(assessment, "BLOCKING") # {} => action \notin Opening
        /\ OpenConditions(assessment) => action \notin TradeActions
        /\ sizing # None /\ sizing.outcome = "NOT_PERMITTED" => action \notin Opening
        /\ sizing # None /\ sizing.outcome \in {"UNDETERMINED", "INVALID"}
             => action \notin TradeActions
    BY <2>1, EnvelopeRemoves
  <2>3. /\ outcome.riskDirection \in TradeActions \cup {None}
        /\ sizing # None =>
              sizing.outcome \in {"ALLOWED", "NOT_PERMITTED", "UNDETERMINED", "INVALID"}
    BY <2>1, NarratedOutcomes
  <2>4. OfSeverity(assessment, "BLOCKING") = {} /\ (sizing # None => sizing.outcome # "NOT_PERMITTED")
    BY <2>2
  <2>5. ASSUME action \in TradeActions
        PROVE  /\ action = ForDirection(d)
               /\ outcome.riskDirection \in {None, action}
               /\ OfSeverity(assessment, "PENDING") = {} /\ ~assessment.undetermined
               /\ sizing # None => sizing.outcome = "ALLOWED"
    <3>1. outcome.riskDirection # None =>
            d = IF outcome.riskDirection = "LONG" THEN "BULLISH" ELSE "BEARISH"
      BY <2>1 DEF NarratedDirection
    <3>2. outcome.riskDirection \in {None, action}
      BY <2>2, <2>3, <2>5, <3>1 DEF ForDirection, TradeActions
    <3>3. OfSeverity(assessment, "PENDING") = {} /\ ~assessment.undetermined
      BY <2>2, <2>4, <2>5 DEF OpenConditions
    <3>4. sizing # None => sizing.outcome = "ALLOWED"
      BY <2>2, <2>3, <2>5 DEF Opening
    <3> QED BY <2>2, <2>5, <3>2, <3>3, <3>4
  <2> QED BY <2>4, <2>5 DEF VetoHolds
<1> QED BY <1>1, NarrationInvariant, PTL

\* A draft that passed validation can be rendered, although it was validated against
\* the trimmed context and is rendered over the whole one (render_segments).
THEOREM AnalysisSurvives == SynthesisSpec => []NarrationNeverCostsTheAnalysis
<1>1. NarrationInv => NarrationNeverCostsTheAnalysis
  BY DEF NarrationInv, NarrationNeverCostsTheAnalysis
<1> QED BY <1>1, NarrationInvariant, PTL
-----------------------------------------------------------------------------
(***************************************************************************)
(* Readings.  A sequence is taken as one of its own elements, so that what *)
(* a review or a correction holds needs no type.                           *)
(***************************************************************************)

\* A sequence of anything is one of its own elements, numbered from one.
LEMMA OwnElements ==
    ASSUME NEW S, NEW q \in Seq(S)
    PROVE  q \in Seq(ToSet(q)) /\ Len(q) \in Nat /\ DOMAIN q = 1 .. Len(q)
<1>1. Len(q) \in Nat /\ DOMAIN q = 1 .. Len(q)
  OBVIOUS
<1>2. \A i \in 1 .. Len(q) : q[i] \in ToSet(q)
  BY <1>1 DEF ToSet
<1> QED BY <1>1, <1>2

\* What appending does.
LEMMA Appending ==
    ASSUME NEW q, q \in Seq(ToSet(q)), NEW e
    PROVE  /\ Append(q, e) \in Seq(ToSet(Append(q, e)))
           /\ Len(Append(q, e)) = Len(q) + 1 /\ Len(q) \in Nat
           /\ DOMAIN Append(q, e) = 1 .. (Len(q) + 1)
           /\ DOMAIN q = 1 .. Len(q)
           /\ \A i \in 1 .. Len(q) : Append(q, e)[i] = q[i]
           /\ Append(q, e)[Len(q) + 1] = e
<1> DEFINE T == ToSet(q) \cup {e}
           a == Append(q, e)
<1>1. q \in Seq(T) /\ e \in T
  <2>1. \A i \in 1 .. Len(q) : q[i] \in ToSet(q)
    BY OwnElements
  <2> QED BY <2>1
<1>2. /\ a \in Seq(T) /\ Len(a) = Len(q) + 1
      /\ \A i \in 1 .. Len(q) : a[i] = q[i]
      /\ a[Len(q) + 1] = e
  BY <1>1
<1>3. /\ DOMAIN a = 1 .. (Len(q) + 1) /\ Len(q) \in Nat
      /\ DOMAIN q = 1 .. Len(q)
  BY <1>2, OwnElements
<1>4. a \in Seq(ToSet(a))
  BY <1>2, OwnElements
<1> QED BY <1>2, <1>3, <1>4

\* What replacing an element does.
LEMMA Replacing ==
    ASSUME NEW q, q \in Seq(ToSet(q)), NEW i \in DOMAIN q, NEW e
    PROVE  LET r == [q EXCEPT ![i] = e]
           IN  /\ r \in Seq(ToSet(r))
               /\ DOMAIN r = DOMAIN q
               /\ \A j \in DOMAIN q : r[j] = IF j = i THEN e ELSE q[j]
<1> DEFINE T == ToSet(q) \cup {e}
           r == [q EXCEPT ![i] = e]
<1>1. q \in Seq(T) /\ e \in T /\ DOMAIN q = 1 .. Len(q)
  <2>1. DOMAIN q = 1 .. Len(q) /\ \A j \in 1 .. Len(q) : q[j] \in ToSet(q)
    BY OwnElements
  <2> QED BY <2>1
<1>2. r \in Seq(T)
  BY <1>1, ExceptSeq
<1>3. r \in Seq(ToSet(r))
  BY <1>2, OwnElements
<1> QED BY <1>3

\* A set of numbers has a least one.
LEMMA LeastExists ==
    ASSUME NEW S, S \subseteq Nat, S # {}
    PROVE  \E m \in S : \A x \in S : m <= x
<1>1. PICK m \in S : \A y \in S : <<y, m>> \notin OpToRel(<, Nat)
  BY NatLessThanWellFounded, WFMin
<1>2. m \in Nat /\ \A y \in S : y \in Nat /\ ~(y < m)
  BY <1>1 DEF OpToRel
<1>3. \A y \in S : m <= y
  BY <1>2
<1> QED BY <1>3

\* The first place of a set of places is one of them.
LEMMA FirstPlace ==
    ASSUME NEW S, S \subseteq Nat, S # {}
    PROVE  Min(S) \in S
BY LeastExists DEF Min

-----------------------------------------------------------------------------
(***************************************************************************)
(* The newest correction of a field, as the log grows.                     *)
(***************************************************************************)

\* A correction of the field becomes the newest, any other leaves it.
LEMMA LatestAfter ==
    ASSUME NEW log, log \in Seq(ToSet(log)), NEW c, NEW field,
           LatestFor(log, field) \in 0 .. Len(log)
    PROVE  /\ LatestFor(Append(log, c), field)
                 = IF c.field = field THEN Len(log) + 1 ELSE LatestFor(log, field)
           /\ Spoken(Append(log, c), field)
                 = IF c.field = field THEN Claimed(c) ELSE Spoken(log, field)
<1> DEFINE grown == Append(log, c)
           before == {i \in DOMAIN log : log[i].field = field}
           after == {i \in DOMAIN grown : grown[i].field = field}
           n == Len(log)
<1>1. /\ DOMAIN grown = 1 .. (n + 1) /\ DOMAIN log = 1 .. n /\ n \in Nat
      /\ \A i \in 1 .. n : grown[i] = log[i]
      /\ grown[n + 1] = c
  BY Appending
<1> HIDE DEF grown, n
<1>2. CASE c.field = field
  <2>1. after \subseteq 1 .. (n + 1) /\ n + 1 \in after
    BY <1>1, <1>2
  <2>2. Max({0} \cup after) = n + 1
    <3> HIDE DEF after
    <3>1. \A x \in {0} \cup after : n + 1 >= x /\ x \in Int
      BY <1>1, <2>1
    <3>2. n + 1 \in {0} \cup after /\ n + 1 \in Int
      BY <1>1, <2>1
    <3>3. \A m \in {0} \cup after : (\A x \in {0} \cup after : m >= x) => m = n + 1
      BY <3>1, <3>2
    <3>4. \E m \in {0} \cup after : \A x \in {0} \cup after : m >= x
      BY <3>1, <3>2
    <3> QED BY <3>3, <3>4 DEF Max
  <2>3. LatestFor(grown, field) = n + 1 /\ n + 1 # 0
    BY <1>1, <2>2 DEF LatestFor
  <2> QED BY <1>1, <1>2, <2>3 DEF Spoken, grown, n
<1>3. CASE c.field # field
  <2>1. after = before
    BY <1>1, <1>3
  <2>2. LatestFor(grown, field) = LatestFor(log, field)
    BY <2>1 DEF LatestFor
  <2>3. LatestFor(log, field) # 0 => LatestFor(log, field) \in 1 .. n
    BY <1>1 DEF n
  <2> QED BY <1>1, <1>3, <2>2, <2>3 DEF Spoken, grown, n
<1> QED BY <1>2, <1>3

-----------------------------------------------------------------------------
(***************************************************************************)
(* The winner among the claims.                                            *)
(***************************************************************************)


ClaimsOk(claims) == \A c \in claims : c.source \in DOMAIN Priority /\ c.place \in Nat

\* The sources and their rank.
LEMMA Priorities ==
    /\ DOMAIN Priority = {"STRUCTURED_MARKET_DATA", "USER_CONFIRMED", "SCREENSHOT_EXTRACTED",
                          "AI_VISUAL_INFERENCE"}
    /\ \A s \in DOMAIN Priority : Priority[s] \in Nat
    /\ \A s \in DOMAIN Priority \ {"STRUCTURED_MARKET_DATA"} :
          Priority["STRUCTURED_MARKET_DATA"] < Priority[s]
    /\ \A s \in {"SCREENSHOT_EXTRACTED", "AI_VISUAL_INFERENCE"} :
          Priority["USER_CONFIRMED"] < Priority[s]
BY DEF Priority

\* A usable claim of a source better than all the others wins.
LEMMA BestSourceWins ==
    ASSUME NEW claims, ClaimsOk(claims), NEW numeric,
           NEW best \in claims, Usable(best.value, numeric),
           \A c \in claims : Usable(c.value, numeric) /\ c # best
                                => Priority[best.source] < Priority[c.source]
    PROVE  Resolve(claims, numeric).winner = best
<1> DEFINE candidates == {c \in claims : Usable(c.value, numeric)}
<1>1. best \in candidates /\ \A d \in candidates : Precedes(best, d)
  BY DEF Precedes, ClaimsOk
<1>2. \A c \in candidates : (\A d \in candidates : Precedes(c, d)) => c = best
  <2> SUFFICES ASSUME NEW c \in candidates, Precedes(c, best), c # best PROVE FALSE
    BY <1>1
  <2>1. Priority[best.source] < Priority[c.source]
        /\ Priority[best.source] \in Nat /\ Priority[c.source] \in Nat
    BY Priorities DEF ClaimsOk
  <2> QED BY <2>1 DEF Precedes
<1>3. (CHOOSE c \in candidates : \A d \in candidates : Precedes(c, d)) = best
  <2> HIDE DEF candidates
  <2> QED BY <1>1, <1>2
<1> QED BY <1>3 DEF Resolve

\* Among usable claims one wins: the first of the best source.
LEMMA WinnerIsUsable ==
    ASSUME NEW claims, ClaimsOk(claims), NEW numeric,
           \E c \in claims : Usable(c.value, numeric)
    PROVE  /\ Resolve(claims, numeric).winner \in claims
           /\ Usable(Resolve(claims, numeric).winner.value, numeric)
<1> DEFINE candidates == {c \in claims : Usable(c.value, numeric)}
           ranks == {Priority[c.source] : c \in candidates}
<1>1. /\ candidates # {} /\ candidates \subseteq claims
      /\ \A c \in candidates : Usable(c.value, numeric)
      /\ \A c \in candidates : Priority[c.source] \in Nat /\ c.place \in Nat
  BY Priorities DEF ClaimsOk
<1> HIDE DEF candidates
<1>2. PICK r \in ranks : \A x \in ranks : r <= x
  <2>1. ranks \subseteq Nat /\ ranks # {}
    BY <1>1
  <2> HIDE DEF ranks
  <2> QED BY <2>1, LeastExists
<1> DEFINE first == {c \in candidates : Priority[c.source] = r}
           places == {c.place : c \in first}
<1>3. PICK p \in places : \A x \in places : p <= x
  <2>1. places \subseteq Nat /\ places # {}
    BY <1>1, <1>2
  <2> HIDE DEF places
  <2> QED BY <2>1, LeastExists
<1>4. PICK best \in first : best.place = p
  BY <1>3
<1>5. \A d \in candidates : Precedes(best, d)
  <2> SUFFICES ASSUME NEW d \in candidates PROVE Precedes(best, d)
    OBVIOUS
  <2>1. Priority[best.source] = r /\ best \in candidates /\ r <= Priority[d.source]
    BY <1>2, <1>4
  <2>2. Priority[d.source] = r => best.place <= d.place
    BY <1>3, <1>4
  <2>3. r \in Nat /\ Priority[d.source] \in Nat
    BY <1>1, <2>1
  <2> QED BY <2>1, <2>2, <2>3 DEF Precedes
<1>6. (CHOOSE c \in candidates : \A d \in candidates : Precedes(c, d)) \in candidates
  BY <1>4, <1>5
<1> QED BY <1>1, <1>6 DEF Resolve, candidates

\* A usable claim that lost and disagrees is listed against the winner.
LEMMA LosersAreListed ==
    ASSUME NEW claims, NEW numeric, NEW c \in claims, Usable(c.value, numeric)
    PROVE  \/ Agrees(c, Resolve(claims, numeric).winner, numeric)
           \/ c \in Resolve(claims, numeric).conflicts
<1> DEFINE candidates == {d \in claims : Usable(d.value, numeric)}
           best == CHOOSE d \in candidates : \A e \in candidates : Precedes(d, e)
<1>1. /\ Resolve(claims, numeric).winner = best
      /\ Resolve(claims, numeric).conflicts
            = {d \in candidates \ {best} : ~Agrees(d, best, numeric)}
  BY DEF Resolve
<1>2. c \in candidates
  OBVIOUS
<1> HIDE DEF candidates, best
<1>3. c = best => Agrees(c, best, numeric)
  BY DEF Agrees
<1> QED BY <1>1, <1>2, <1>3

-----------------------------------------------------------------------------
(***************************************************************************)
(* The value of a field: what each source says of it.                      *)
(***************************************************************************)
ListsReadings(extraction) ==
    Len(extraction.values) \in Nat /\ DOMAIN extraction.values = 1 .. Len(extraction.values)

\* Every claim comes from a known source, and the three kinds of claim are these.
LEMMA ClaimFacts ==
    ASSUME NEW extraction, ListsReadings(extraction), NEW log, NEW field, NEW market
    PROVE  LET claims == Claims(extraction, log, field, market)
               said == Spoken(log, field)
               stated == MarketValue(market)
           IN  /\ ClaimsOk(claims)
               /\ said # None => Sourced(said, "USER_CONFIRMED", 0) \in claims
               /\ stated # None => Sourced(stated, "STRUCTURED_MARKET_DATA", 0) \in claims
               /\ \A c \in claims :
                    \/ c \in ReadingClaims(extraction, field)
                    \/ said # None /\ c = Sourced(said, "USER_CONFIRMED", 0)
                    \/ stated # None /\ c = Sourced(stated, "STRUCTURED_MARKET_DATA", 0)
               /\ \A c \in ReadingClaims(extraction, field) :
                    /\ c.source \in {"SCREENSHOT_EXTRACTED", "AI_VISUAL_INFERENCE"}
                    /\ c.place \in OfField(extraction, field)
                    /\ c.value = extraction.values[c.place].value
<1> DEFINE claims == Claims(extraction, log, field, market)
           said == Spoken(log, field)
           stated == MarketValue(market)
           readings == ReadingClaims(extraction, field)
<1>1. \A c \in readings :
        /\ c.source \in {"SCREENSHOT_EXTRACTED", "AI_VISUAL_INFERENCE"}
        /\ c.place \in OfField(extraction, field)
        /\ c.value = extraction.values[c.place].value
  BY DEF ReadingClaims, Sourced, SourceOfKind
<1>2. claims = readings \cup Stated(said, "USER_CONFIRMED")
                        \cup Stated(stated, "STRUCTURED_MARKET_DATA")
  BY DEF Claims
<1> HIDE DEF claims, said, stated, readings
<1>3. /\ said # None => Sourced(said, "USER_CONFIRMED", 0) \in claims
      /\ stated # None => Sourced(stated, "STRUCTURED_MARKET_DATA", 0) \in claims
      /\ \A c \in claims : \/ c \in readings
                           \/ said # None /\ c = Sourced(said, "USER_CONFIRMED", 0)
                           \/ stated # None /\ c = Sourced(stated, "STRUCTURED_MARKET_DATA", 0)
  BY <1>2 DEF Stated
<1>4. \A c \in readings : c.place \in Nat
  BY <1>1 DEF OfField, ListsReadings
<1>5. ClaimsOk(claims)
  BY <1>1, <1>3, <1>4, Priorities DEF ClaimsOk, Sourced
<1> QED BY <1>1, <1>3, <1>5 DEF claims, said, stated, readings

\* Nothing corrected, nothing said.
LEMMA NothingSpoken ==
    ASSUME NEW f
    PROVE  LatestFor(<<>>, f) = 0 /\ Spoken(<<>>, f) = None
<1>1. {0} \cup {i \in DOMAIN <<>> : <<>>[i].field = f} = {0}
  OBVIOUS
<1>2. Max({0}) = 0
  BY DEF Max
<1>3. LatestFor(<<>>, f) = 0
  BY <1>1, <1>2 DEF LatestFor
<1> QED BY <1>3 DEF Spoken

\* Market data decides, else what the user said last, else a reading; the user says one
\* thing, and whatever is claimed is won, agreed with or listed.
LEMMA ValueOfField ==
    ASSUME NEW extraction, ListsReadings(extraction), NEW log, NEW field, NEW market, NEW numeric,
           NEW r, r = EffectiveValue(extraction, log, field, market, numeric), r.code = OK
    PROVE  LET said == Spoken(log, field)
               stated == MarketValue(market)
               words == Stated(said, "USER_CONFIRMED")
               heard == \E word \in words : Usable(word.value, numeric)
               readings == ReadingClaims(extraction, field)
           IN  /\ stated # None => r.winner.value = stated
               /\ stated = None /\ heard => r.winner.value = said
               /\ stated = None /\ ~heard => r.winner \in readings
               /\ \A c \in {r.winner} \cup r.conflicts \cup r.unusable :
                      c.source = "USER_CONFIRMED" => c \in words
               /\ \A c \in readings \cup words :
                      \/ Usable(c.value, numeric) /\ Agrees(c, r.winner, numeric)
                      \/ c \in (IF Usable(c.value, numeric) THEN r.conflicts ELSE r.unusable)
<1> DEFINE claims == Claims(extraction, log, field, market)
           said == Spoken(log, field)
           stated == MarketValue(market)
           words == Stated(said, "USER_CONFIRMED")
           heard == \E word \in words : Usable(word.value, numeric)
           readings == ReadingClaims(extraction, field)
           spoken == Sourced(said, "USER_CONFIRMED", 0)
           data == Sourced(stated, "STRUCTURED_MARKET_DATA", 0)
<1>1. /\ r = Resolve(claims, numeric)
      /\ \E c \in claims : Usable(c.value, numeric)
      /\ \A c \in claims : c.source = "STRUCTURED_MARKET_DATA" => Usable(c.value, numeric)
  BY DEF EffectiveValue, OK
<1>2. /\ ClaimsOk(claims)
      /\ said # None => spoken \in claims
      /\ stated # None => data \in claims
      /\ \A c \in claims : \/ c \in readings
                           \/ said # None /\ c = spoken
                           \/ stated # None /\ c = data
      /\ \A c \in readings : /\ c.source \in {"SCREENSHOT_EXTRACTED", "AI_VISUAL_INFERENCE"}
                             /\ c.place \in OfField(extraction, field)
                             /\ c.value = extraction.values[c.place].value
  BY ClaimFacts
<1>3. /\ spoken.value = said /\ spoken.source = "USER_CONFIRMED"
      /\ data.value = stated /\ data.source = "STRUCTURED_MARKET_DATA"
  BY DEF Sourced
<1>4. words = (IF said = None THEN {} ELSE {spoken}) /\ readings \subseteq claims
  BY DEF Stated, Claims
<1> HIDE DEF claims, said, stated, readings, spoken, data, words
<1>5. heard <=> said # None /\ Usable(said, numeric)
  BY <1>3, <1>4
<1> HIDE DEF heard
<1>6. ASSUME stated # None PROVE r.winner.value = stated
  <2>1. data \in claims /\ Usable(data.value, numeric)
    BY <1>1, <1>2, <1>3, <1>6
  <2>2. \A c \in claims : c # data => Priority[data.source] < Priority[c.source]
    BY <1>2, <1>3, Priorities
  <2>3. Resolve(claims, numeric).winner = data
    BY <1>2, <2>1, <2>2, BestSourceWins
  <2> QED BY <1>1, <1>3, <2>3
<1>7. ASSUME stated = None, heard PROVE r.winner.value = said
  <2>1. spoken \in claims /\ Usable(spoken.value, numeric)
    BY <1>2, <1>3, <1>5, <1>7
  <2>2. \A c \in claims : c # spoken => Priority[spoken.source] < Priority[c.source]
    BY <1>2, <1>3, <1>7, Priorities
  <2>3. Resolve(claims, numeric).winner = spoken
    BY <1>2, <2>1, <2>2, BestSourceWins
  <2> QED BY <1>1, <1>3, <2>3
<1>8. r.winner \in claims /\ Usable(r.winner.value, numeric)
  BY <1>1, <1>2, WinnerIsUsable
<1>9. stated = None /\ ~heard => r.winner \in readings
  BY <1>2, <1>3, <1>5, <1>8
<1>10. /\ r.conflicts \subseteq claims /\ r.unusable \subseteq claims
       /\ \A c \in claims : ~Usable(c.value, numeric) => c \in r.unusable
  BY <1>1 DEF Resolve
<1>11. \A c \in {r.winner} \cup r.conflicts \cup r.unusable :
          c.source = "USER_CONFIRMED" => c \in words
  BY <1>2, <1>3, <1>4, <1>8, <1>10
<1>12. ASSUME NEW c \in readings \cup words
       PROVE  \/ Usable(c.value, numeric) /\ Agrees(c, r.winner, numeric)
              \/ c \in (IF Usable(c.value, numeric) THEN r.conflicts ELSE r.unusable)
  <2>1. c \in claims
    BY <1>2, <1>4
  <2> QED BY <1>1, <1>10, <2>1, LosersAreListed
<1> QED BY <1>6, <1>7, <1>9, <1>11, <1>12 DEF said, stated, words, heard, readings

\* Of what the user said only the standing word matters.
LEMMA OnlyTheWordMatters ==
    ASSUME NEW extraction, NEW log, NEW field, NEW market, NEW numeric, Spoken(log, field) = None
    PROVE  EffectiveValue(extraction, log, field, market, numeric)
             = EffectiveValue(extraction, <<>>, field, market, numeric)
<1>1. Spoken(<<>>, field) = None
  BY NothingSpoken
<1>2. Claims(extraction, log, field, market) = Claims(extraction, <<>>, field, market)
  BY <1>1 DEF Claims
<1> QED BY <1>2 DEF EffectiveValue

-----------------------------------------------------------------------------
(***************************************************************************)
(* Reviews.  What a review remembers of the user is the newest correction  *)
(* of each field, and what it was read from is a list.                     *)
(***************************************************************************)
ReviewOk(shot) ==
    /\ {"extraction", "log", "said", "assignment"} \subseteq DOMAIN shot
    /\ shot.extraction \in Replies
    /\ shot.log \in Seq(ToSet(shot.log))
    /\ DOMAIN shot.said = Fields
    /\ \A f \in Fields : /\ LatestFor(shot.log, f) \in 0 .. Len(shot.log)
                         /\ shot.said[f] = Spoken(shot.log, f)

VisionInv ==
    /\ reviews \in Seq(ToSet(reviews))
    /\ \A i \in DOMAIN reviews : ReviewOk(reviews[i])

\* A new review: nothing has been said.
LEMMA NewReview ==
    ASSUME NEW reply \in Replies
    PROVE  ReviewOk(ReviewOf(reply))
<1>1. /\ ReviewOf(reply).extraction = reply
      /\ ReviewOf(reply).log = <<>>
      /\ ReviewOf(reply).said = [f \in Fields |-> None]
      /\ {"extraction", "log", "said", "assignment"} \subseteq DOMAIN ReviewOf(reply)
  BY DEF ReviewOf
<1>2. <<>> \in Seq(ToSet(<<>>)) /\ Len(<<>>) = 0
  OBVIOUS
<1> QED BY <1>1, <1>2, NothingSpoken DEF ReviewOk

\* A step that replaces one review by a good one.
LEMMA ReplacedReview ==
    ASSUME VisionInv, NEW i \in DOMAIN reviews, NEW shot, ReviewOk(shot),
           reviews' = [reviews EXCEPT ![i] = shot], UNCHANGED structured
    PROVE  VisionInv'
BY Replacing DEF VisionInv, ReviewOk

\* Every step keeps what reviews remember.
LEMMA VisionInvariant == VisionSpec => []VisionInv
<1>1. VisionInit => VisionInv
  <2>1. <<>> \in Seq(ToSet(<<>>)) /\ DOMAIN <<>> = {}
    OBVIOUS
  <2> QED BY <2>1 DEF VisionInit, VisionInv
<1>2. VisionInv /\ [VisionNext]_visionVars => VisionInv'
  <2> SUFFICES ASSUME VisionInv, [VisionNext]_visionVars PROVE VisionInv'
    OBVIOUS
  <2>1. ASSUME NEW reply \in Replies, reviews' = Append(reviews, ReviewOf(reply))
        PROVE  VisionInv'
    BY <2>1, NewReview, Appending DEF VisionInv, ReviewOk
  <2>2. ASSUME NEW i \in DOMAIN reviews, NEW timeframe, ConfirmTimeframe(i, timeframe)
        PROVE  VisionInv'
    <3> DEFINE shot == [reviews[i] EXCEPT !.assignment.confirmed = timeframe]
    <3>1. ReviewOk(reviews[i])
      BY DEF VisionInv
    <3>2. ReviewOk(shot)
      BY <3>1 DEF ReviewOk
    <3>3. reviews' = [reviews EXCEPT ![i] = shot] /\ UNCHANGED structured
      BY <2>2 DEF ConfirmTimeframe
    <3> HIDE DEF shot
    <3> QED BY <3>2, <3>3, ReplacedReview
  <2>3. ASSUME NEW i \in DOMAIN reviews, NEW field \in Fields, NEW type, NEW value,
               Correct(i, field, type, value), reviews' # reviews
        PROVE  VisionInv'
    <3> DEFINE found == OfField(reviews[i].extraction, field)
               c == Correction(reviews[i].extraction.values[Min(found)], type, value)
               shot == [reviews[i] EXCEPT !.log = Append(reviews[i].log, c),
                                            !.said[field] = Claimed(c)]
    <3>1. ReviewOk(reviews[i])
      BY DEF VisionInv
    <3>2. /\ found # {} /\ UNCHANGED structured
          /\ reviews' = [reviews EXCEPT ![i].log = Append(reviews[i].log, c),
                                        ![i].said[field] = Claimed(c)]
      BY <2>3 DEF Correct
    <3>3. c.field = field
      <4>1. ListsReadings(reviews[i].extraction)
        BY <3>1, VisionInputs DEF ReviewOk, ListsReadings
      <4>2. found \subseteq Nat
        BY <4>1 DEF ListsReadings, OfField
      <4>3. Min(found) \in found
        BY <3>2, <4>2, FirstPlace
      <4> QED BY <4>3 DEF OfField, Correction
    <3>4. reviews' = [reviews EXCEPT ![i] = shot]
      BY <3>1, <3>2 DEF VisionInv, ReviewOk
    <3> HIDE DEF c, found
    <3>5. /\ shot.log = Append(reviews[i].log, c)
          /\ shot.said = [reviews[i].said EXCEPT ![field] = Claimed(c)]
          /\ shot.extraction = reviews[i].extraction
          /\ DOMAIN shot = DOMAIN reviews[i]
      BY <3>1 DEF ReviewOk
    <3> HIDE DEF shot
    <3>6. /\ Append(reviews[i].log, c) \in Seq(ToSet(Append(reviews[i].log, c)))
          /\ Len(Append(reviews[i].log, c)) = Len(reviews[i].log) + 1
          /\ Len(reviews[i].log) \in Nat
      BY <3>1, Appending DEF ReviewOk
    <3>7. ASSUME NEW f \in Fields
          PROVE  /\ LatestFor(shot.log, f) \in 0 .. Len(shot.log)
                 /\ shot.said[f] = Spoken(shot.log, f)
      <4>1. /\ LatestFor(shot.log, f)
                  = IF field = f THEN Len(reviews[i].log) + 1 ELSE LatestFor(reviews[i].log, f)
            /\ Spoken(shot.log, f)
                  = IF field = f THEN Claimed(c) ELSE Spoken(reviews[i].log, f)
        BY <3>1, <3>3, <3>5, LatestAfter DEF ReviewOk
      <4>2. /\ LatestFor(reviews[i].log, f) \in 0 .. Len(reviews[i].log)
            /\ reviews[i].said[f] = Spoken(reviews[i].log, f) /\ DOMAIN reviews[i].said = Fields
        BY <3>1 DEF ReviewOk
      <4>3. LatestFor(shot.log, f) \in 0 .. Len(shot.log)
        BY <3>5, <3>6, <4>1, <4>2
      <4> QED BY <3>5, <4>1, <4>2, <4>3
    <3>8. ReviewOk(shot)
      BY <3>1, <3>5, <3>6, <3>7 DEF ReviewOk
    <3> QED BY <3>2, <3>4, <3>8, ReplacedReview
  <2>4. CASE reviews' = reviews
    BY <2>4 DEF VisionInv, ReviewOk
  <2>5. \/ \E reply \in Replies : reviews' = Append(reviews, ReviewOf(reply))
        \/ \E i \in DOMAIN reviews, timeframe \in Timeframes : ConfirmTimeframe(i, timeframe)
        \/ \E i \in DOMAIN reviews, field \in Fields, type \in CorrectionTypes,
              value \in Texts \cup {None} : Correct(i, field, type, value)
        \/ reviews' = reviews
    BY DEF VisionNext, visionVars, Analyse, ReadSet, ProviderFails, ProviderReplies,
           StructuredArrives, CorrectReplayed
  <2> QED BY <2>1, <2>2, <2>3, <2>4, <2>5
<1> QED BY <1>1, <1>2, PTL DEF VisionSpec

\* After any corrections and any market data, a field's value is the structured one, else
\* what the user said last, else a reading; a rejection leaves what the field was without
\* the user, the rejected reading included; and what is claimed stays in sight, but for the
\* user's earlier words (effective_value, resolve, CorrectionLog.latest_for).
THEOREM LastWordHolds == VisionSpec => []LastWordStands
<1>1. VisionInv => LastWordStands
  <2> SUFFICES ASSUME VisionInv, NEW i \in DOMAIN reviews, NEW field \in Fields
               PROVE  LET r == Effective(i, field)
                          numeric == field \in Numeric
                          said == reviews[i].said[field]
                          market == MarketValue(structured[field])
                          heard == \E word \in Words(i, field) : Usable(word.value, numeric)
                      IN  /\ said = None => r = AsRead(i, field)
                          /\ r.code = OK =>
                              /\ market # None => r.winner.value = market
                              /\ market = None /\ heard => r.winner.value = said
                              /\ market = None /\ ~heard => r.winner \in Readings(i, field)
                              /\ \A c \in {r.winner} \cup r.conflicts \cup r.unusable :
                                    c.source = "USER_CONFIRMED" => c \in Words(i, field)
                              /\ \A c \in Readings(i, field) \cup Words(i, field) :
                                    \/ Usable(c.value, numeric) /\ Agrees(c, r.winner, numeric)
                                    \/ c \in (IF Usable(c.value, numeric) THEN r.conflicts
                                             ELSE r.unusable)
    BY DEF LastWordStands
  <2> DEFINE shot == reviews[i]
             numeric == field \in Numeric
             market == structured[field]
  <2>1. shot.said[field] = Spoken(shot.log, field) /\ ListsReadings(shot.extraction)
    BY VisionInputs DEF VisionInv, ReviewOk, ListsReadings
  <2>2. /\ Effective(i, field)
             = EffectiveValue(shot.extraction, shot.log, field, market, numeric)
        /\ AsRead(i, field) = EffectiveValue(shot.extraction, <<>>, field, market, numeric)
        /\ Words(i, field) = Stated(Spoken(shot.log, field), "USER_CONFIRMED")
        /\ Readings(i, field) = ReadingClaims(shot.extraction, field)
    BY <2>1 DEF Effective, AsRead, Words, Readings
  <2> HIDE DEF shot, numeric, market
  <2>3. Spoken(shot.log, field) = None => Effective(i, field) = AsRead(i, field)
    BY <2>2, OnlyTheWordMatters
  <2>4. ASSUME Effective(i, field).code = OK
        PROVE  LET r == Effective(i, field)
                   said == Spoken(shot.log, field)
                   stated == MarketValue(market)
                   words == Words(i, field)
                   heard == \E word \in words : Usable(word.value, numeric)
                   readings == Readings(i, field)
               IN  /\ stated # None => r.winner.value = stated
                   /\ stated = None /\ heard => r.winner.value = said
                   /\ stated = None /\ ~heard => r.winner \in readings
                   /\ \A c \in {r.winner} \cup r.conflicts \cup r.unusable :
                          c.source = "USER_CONFIRMED" => c \in words
                   /\ \A c \in readings \cup words :
                          \/ Usable(c.value, numeric) /\ Agrees(c, r.winner, numeric)
                          \/ c \in (IF Usable(c.value, numeric) THEN r.conflicts ELSE r.unusable)
    BY <2>1, <2>2, <2>4, ValueOfField
  <2> QED BY <2>1, <2>3, <2>4 DEF shot, numeric, market
<1> QED BY <1>1, VisionInvariant, PTL

-----------------------------------------------------------------------------
(***************************************************************************)
(* A series and the same series one bar later.                             *)
(***************************************************************************)
Series(bars) == Len(bars) \in Nat /\ DOMAIN bars = 1 .. Len(bars)

\* longer is bars with one more bar
Continues(longer, bars) ==
    /\ Series(bars) /\ Series(longer)
    /\ Len(longer) = Len(bars) + 1
    /\ \A i \in 1 .. Len(bars) : longer[i] = bars[i]

\* What the configuration's checks say of it.
LEMMA ConfigFacts ==
    /\ Left \in Nat /\ Left > 0 /\ Right \in Nat /\ Right > 0
    /\ FailureWindow \in Nat /\ FailureWindow > 0
    /\ RetestWindow \in Nat /\ RetestWindow > 0
    /\ ResolutionWindow \in Nat /\ ResolutionWindow > 0
BY StructureConfig DEF ValidConfig

\* The least of a set of numbers is one of them and below the others.
LEMMA LeastIs ==
    ASSUME NEW S, S \subseteq Nat, S # {}
    PROVE  Min(S) \in S /\ \A x \in S : Min(S) <= x
BY LeastExists DEF Min

\* Adding greater numbers changes no minimum.
LEMMA LeastStays ==
    ASSUME NEW S, S \subseteq Nat, S # {}, NEW T, T \subseteq Nat,
           S \subseteq T, \A x \in T \ S : \A y \in S : y <= x
    PROVE  Min(T) = Min(S)
<1>1. Min(S) \in S /\ \A x \in S : Min(S) <= x
  BY LeastIs
<1>2. Min(T) \in T /\ \A x \in T : Min(T) <= x
  BY LeastIs
<1>3. \A x \in T : Min(S) <= x
  BY <1>1
<1>4. Min(T) <= Min(S) /\ Min(S) <= Min(T)
  BY <1>1, <1>2, <1>3
<1>5. Min(T) \in Nat /\ Min(S) \in Nat
  BY <1>1, <1>2
<1> QED BY <1>4, <1>5

-----------------------------------------------------------------------------
(***************************************************************************)
(* Swings.                                                                 *)
(***************************************************************************)

\* A swing is a pivot, known once the bars to its right have closed.
LEMMA SwingFacts ==
    ASSUME NEW bars, Series(bars), NEW s \in DetectSwings(bars)
    PROVE  /\ s.pivot \in InnerBars(bars)
           /\ s.confirmed = s.pivot + Right
           /\ s.pivot \in 1 .. Len(bars) /\ s.confirmed \in 1 .. Len(bars)
           /\ s.type \in {"HIGH", "LOW"}
<1>1. \E i \in InnerBars(bars) :
        s = Swing("HIGH", i, bars[i].high) \/ s = Swing("LOW", i, bars[i].low)
  BY DEF DetectSwings
<1>2. /\ s.pivot \in InnerBars(bars)
      /\ s.confirmed = s.pivot + Right
      /\ s.type \in {"HIGH", "LOW"}
  BY <1>1 DEF Swing
<1>3. s.pivot \in 1 .. Len(bars) /\ s.confirmed \in 1 .. Len(bars)
  BY <1>2, ConfigFacts DEF Series, InnerBars
<1> QED BY <1>2, <1>3

\* The pivots of a series are the pivots of the longer one, where both look.
LEMMA SamePivots ==
    ASSUME NEW bars, NEW longer, Continues(longer, bars), NEW i \in InnerBars(bars)
    PROVE  /\ IsPivotHigh(HighsOf(longer), i) <=> IsPivotHigh(HighsOf(bars), i)
           /\ IsPivotLow(LowsOf(longer), i) <=> IsPivotLow(LowsOf(bars), i)
           /\ longer[i] = bars[i]
<1>1. \A j \in 1 .. Len(bars) : /\ HighsOf(longer)[j] = HighsOf(bars)[j]
                                /\ LowsOf(longer)[j] = LowsOf(bars)[j]
  BY DEF Continues, Series, HighsOf, LowsOf
<1>2. /\ i \in 1 .. Len(bars)
      /\ \A k \in 1 .. Left : i - k \in 1 .. Len(bars)
      /\ \A k \in 1 .. Right : i + k \in 1 .. Len(bars)
  BY ConfigFacts DEF Continues, Series, InnerBars
<1>3. IsPivotHigh(HighsOf(longer), i) <=> IsPivotHigh(HighsOf(bars), i)
  BY <1>1, <1>2 DEF IsPivotHigh
<1>4. IsPivotLow(LowsOf(longer), i) <=> IsPivotLow(LowsOf(bars), i)
  BY <1>1, <1>2 DEF IsPivotLow
<1> QED BY <1>2, <1>3, <1>4 DEF Continues

\* One bar later every swing is still one, and the new ones are dated now.
LEMMA SwingsStand ==
    ASSUME NEW bars, NEW longer, Continues(longer, bars)
    PROVE  /\ DetectSwings(bars) \subseteq DetectSwings(longer)
           /\ \A s \in DetectSwings(longer) \ DetectSwings(bars) : s.confirmed = Len(bars) + 1
           /\ \A i \in 1 .. Len(bars) :
                 KnownAt(DetectSwings(longer), i) = KnownAt(DetectSwings(bars), i)
           /\ KnownAt(DetectSwings(longer), Len(bars)) = DetectSwings(bars)
<1> DEFINE n == Len(bars)
           upper(b) == {Swing("HIGH", i, b[i].high) :
                           i \in {j \in InnerBars(b) : IsPivotHigh(HighsOf(b), j)}}
           lower(b) == {Swing("LOW", i, b[i].low) :
                           i \in {j \in InnerBars(b) : IsPivotLow(LowsOf(b), j)}}
<1>0. /\ n \in Nat /\ Len(longer) = n + 1 /\ Series(longer) /\ Series(bars)
  BY DEF Continues, Series
<1>1. InnerBars(bars) \subseteq InnerBars(longer)
      /\ \A i \in InnerBars(longer) : i \in InnerBars(bars) \/ i + Right = n + 1
  BY <1>0, ConfigFacts DEF InnerBars
<1>2. \A i \in InnerBars(bars) :
        /\ IsPivotHigh(HighsOf(longer), i) <=> IsPivotHigh(HighsOf(bars), i)
        /\ IsPivotLow(LowsOf(longer), i) <=> IsPivotLow(LowsOf(bars), i)
        /\ longer[i] = bars[i]
  BY SamePivots
<1>3. DetectSwings(bars) = upper(bars) \cup lower(bars)
      /\ DetectSwings(longer) = upper(longer) \cup lower(longer)
  BY DEF DetectSwings
<1> HIDE DEF n
<1>4. upper(bars) \subseteq upper(longer) /\ lower(bars) \subseteq lower(longer)
  BY <1>1, <1>2
<1>5. ASSUME NEW s \in upper(longer), s \notin upper(bars) PROVE s.confirmed = n + 1
  <2>1. PICK i \in InnerBars(longer) : IsPivotHigh(HighsOf(longer), i)
                                       /\ s = Swing("HIGH", i, longer[i].high)
    BY <1>5
  <2>2. i \notin InnerBars(bars)
    BY <1>2, <1>5, <2>1
  <2> QED BY <1>1, <2>1, <2>2 DEF Swing
<1>6. ASSUME NEW s \in lower(longer), s \notin lower(bars) PROVE s.confirmed = n + 1
  <2>1. PICK i \in InnerBars(longer) : IsPivotLow(LowsOf(longer), i)
                                       /\ s = Swing("LOW", i, longer[i].low)
    BY <1>6
  <2>2. i \notin InnerBars(bars)
    BY <1>2, <1>6, <2>1
  <2> QED BY <1>1, <2>1, <2>2 DEF Swing
<1> HIDE DEF upper, lower
<1>7. /\ DetectSwings(bars) \subseteq DetectSwings(longer)
      /\ \A s \in DetectSwings(longer) \ DetectSwings(bars) : s.confirmed = n + 1
  BY <1>3, <1>4, <1>5, <1>6
<1>9. \A s \in DetectSwings(bars) : s.confirmed \in Nat /\ s.confirmed <= n
  BY <1>0, SwingFacts DEF n
<1>10. \A i \in 1 .. n : KnownAt(DetectSwings(longer), i) = KnownAt(DetectSwings(bars), i)
  BY <1>0, <1>7, <1>9 DEF KnownAt
<1>11. KnownAt(DetectSwings(longer), n) = DetectSwings(bars)
  BY <1>0, <1>7, <1>9 DEF KnownAt
<1> QED BY <1>7, <1>10, <1>11 DEF n

-----------------------------------------------------------------------------
(***************************************************************************)
(* Structural events: the scan of a longer series begins with the scan of  *)
(* the shorter one.                                                        *)
(***************************************************************************)
NothingScanned == [events |-> {}, highs |-> {}, lows |-> {}]

\* f is the scan of the first m bars
ScanOf(f, m, bars, swings) ==
    f = [i \in 0 .. m |-> IF i = 0 THEN NothingScanned ELSE ScanBar(bars, swings, f[i - 1], i)]

\* There is a scan of any number of bars, by the least that had none.
LEMMA ScanExists ==
    ASSUME NEW bars, NEW swings, NEW n \in Nat
    PROVE  \E f : ScanOf(f, n, bars, swings)
<1> DEFINE B == {m \in Nat : ~\E f : ScanOf(f, m, bars, swings)}
<1> SUFFICES ASSUME B # {} PROVE FALSE
  OBVIOUS
<1>1. PICK m \in B : \A x \in B : m <= x
  <2>1. B \subseteq Nat
    OBVIOUS
  <2> HIDE DEF B
  <2> QED BY <2>1, LeastExists
<1>2. m \in Nat /\ ~\E f : ScanOf(f, m, bars, swings)
  BY <1>1
<1>3. CASE m = 0
  <2> DEFINE f == [i \in 0 .. 0 |-> NothingScanned]
  <2>1. ScanOf(f, 0, bars, swings)
    BY DEF ScanOf
  <2> QED BY <1>2, <1>3, <2>1
<1>4. CASE m # 0
  <2>1. m - 1 \in Nat /\ m - 1 \notin B
    BY <1>1, <1>2, <1>4
  <2>2. PICK g : ScanOf(g, m - 1, bars, swings)
    BY <2>1
  <2> DEFINE f == [i \in 0 .. m |-> IF i = m THEN ScanBar(bars, swings, g[m - 1], m) ELSE g[i]]
  <2>3. /\ \A i \in 0 .. m - 1 : f[i] = g[i]
        /\ f[m] = ScanBar(bars, swings, g[m - 1], m)
        /\ DOMAIN f = 0 .. m
        /\ f = [i \in 0 .. m |-> f[i]]
    BY <1>2, <1>4
  <2>4. \A i \in 0 .. m - 1 :
          g[i] = IF i = 0 THEN NothingScanned ELSE ScanBar(bars, swings, g[i - 1], i)
    BY <2>2 DEF ScanOf
  <2> HIDE DEF f
  <2>5. ASSUME NEW i \in 0 .. m
        PROVE  f[i] = IF i = 0 THEN NothingScanned ELSE ScanBar(bars, swings, f[i - 1], i)
    <3>1. CASE i = m
      <4>1. m - 1 \in 0 .. m - 1
        BY <1>2, <1>4
      <4> QED BY <1>4, <2>3, <3>1, <4>1
    <3>2. CASE i # m
      <4>1. i \in 0 .. m - 1 /\ (i # 0 => i - 1 \in 0 .. m - 1)
        BY <1>2, <1>4, <3>2
      <4> QED BY <2>3, <2>4, <4>1
    <3> QED BY <3>1, <3>2
  <2>6. ScanOf(f, m, bars, swings)
    BY <2>3, <2>5 DEF ScanOf
  <2> QED BY <1>2, <2>6
<1> QED BY <1>3, <1>4

\* The scan, bar by bar.
LEMMA ScanSteps ==
    ASSUME NEW bars, Series(bars), NEW swings
    PROVE  LET scan == EventScan(bars, swings)
           IN  /\ scan[0] = NothingScanned
               /\ \A i \in 1 .. Len(bars) : scan[i] = ScanBar(bars, swings, scan[i - 1], i)
<1> DEFINE scan == EventScan(bars, swings)
<1>1. scan = CHOOSE f : ScanOf(f, Len(bars), bars, swings)
  BY DEF EventScan, ScanOf, NothingScanned
<1>2. ScanOf(scan, Len(bars), bars, swings)
  BY <1>1, ScanExists DEF Series
<1> HIDE DEF scan
<1>3. \A i \in 0 .. Len(bars) :
        scan[i] = IF i = 0 THEN NothingScanned ELSE ScanBar(bars, swings, scan[i - 1], i)
  BY <1>2 DEF ScanOf
<1>4. 0 \in 0 .. Len(bars) /\ \A i \in 1 .. Len(bars) : i \in 0 .. Len(bars) /\ i # 0
  BY DEF Series
<1> QED BY <1>3, <1>4 DEF scan

\* What one bar adds is dated by it.
LEMMA ScanBarAdds ==
    ASSUME NEW bars, NEW swings, NEW acc, NEW i
    PROVE  /\ acc.events \subseteq ScanBar(bars, swings, acc, i).events
           /\ \A e \in ScanBar(bars, swings, acc, i).events : e \in acc.events \/ e.confirmed = i
<1>1. \A d, o, b : BuildEvent(d, o, b, i).confirmed = i
  BY DEF BuildEvent
<1>2. \E new : /\ ScanBar(bars, swings, acc, i).events = acc.events \cup new
               /\ \A e \in new : \E d, o, b : e = BuildEvent(d, o, b, i)
  <2> DEFINE known == KnownAt(swings, i)
             bias == LabelSwings(known).bias
             upper == LatestUnbroken(known, "HIGH", acc.highs)
             lower == LatestUnbroken(known, "LOW", acc.lows)
             up == upper # None /\ bars[i].close > upper.price + BreachTolerance
             down == lower # None /\ bars[i].close < lower.price - BreachTolerance
             new == (IF up THEN {BuildEvent("LONG", upper, bias, i)} ELSE {})
                    \cup (IF down THEN {BuildEvent("SHORT", lower, bias, i)} ELSE {})
  <2>1. ScanBar(bars, swings, acc, i).events = acc.events \cup new
    BY DEF ScanBar
  <2>2. \A e \in new : \E d, o, b : e = BuildEvent(d, o, b, i)
    OBVIOUS
  <2> HIDE DEF new
  <2> QED BY <2>1, <2>2
<1> QED BY <1>1, <1>2

\* A bar of the scan looks at the bar and at the swings known by then.
LEMMA ScanBarReads ==
    ASSUME NEW bars, NEW longer, NEW swings, NEW more, NEW acc, NEW i,
           bars[i] = longer[i], KnownAt(swings, i) = KnownAt(more, i)
    PROVE  ScanBar(longer, more, acc, i) = ScanBar(bars, swings, acc, i)
BY DEF ScanBar

\* No event is dated after the bar it was found at.
LEMMA ScanDates ==
    ASSUME NEW bars, Series(bars), NEW swings, NEW m \in 0 .. Len(bars)
    PROVE  \A e \in EventScan(bars, swings)[m].events : e.confirmed \in 1 .. m
<1> DEFINE scan == EventScan(bars, swings)
           B == {i \in 0 .. Len(bars) : ~\A e \in scan[i].events : e.confirmed \in 1 .. i}
<1>1. /\ scan[0] = NothingScanned
      /\ \A i \in 1 .. Len(bars) : scan[i] = ScanBar(bars, swings, scan[i - 1], i)
  BY ScanSteps
<1> HIDE DEF scan
<1> SUFFICES ASSUME B # {} PROVE FALSE
  BY DEF scan
<1>2. PICK i \in B : \A x \in B : i <= x
  <2>1. B \subseteq Nat
    BY DEF Series
  <2> HIDE DEF B
  <2> QED BY <2>1, LeastExists
<1>3. i # 0 /\ i \in 1 .. Len(bars)
  BY <1>1, <1>2 DEF NothingScanned, Series
<1>4. i - 1 \in 0 .. Len(bars) /\ i - 1 \notin B
  BY <1>2, <1>3 DEF Series
<1>5. \A e \in scan[i - 1].events : e.confirmed \in 1 .. i
  BY <1>3, <1>4 DEF Series
<1>6. \A e \in scan[i].events : e \in scan[i - 1].events \/ e.confirmed = i
  BY <1>1, <1>3, ScanBarAdds
<1> QED BY <1>2, <1>3, <1>5, <1>6 DEF Series

\* The scan of the longer series begins with the scan of the shorter one.
LEMMA ScanContinues ==
    ASSUME NEW bars, NEW longer, Continues(longer, bars), NEW swings, NEW more,
           \A i \in 1 .. Len(bars) : KnownAt(swings, i) = KnownAt(more, i),
           NEW m \in 0 .. Len(bars)
    PROVE  EventScan(longer, more)[m] = EventScan(bars, swings)[m]
<1> DEFINE scan == EventScan(bars, swings)
           later == EventScan(longer, more)
           B == {i \in 0 .. Len(bars) : later[i] # scan[i]}
<1>0. Len(bars) \in Nat /\ Len(longer) = Len(bars) + 1 /\ Series(bars) /\ Series(longer)
      /\ \A i \in 1 .. Len(bars) : longer[i] = bars[i]
  BY DEF Continues, Series
<1>1. /\ scan[0] = NothingScanned /\ later[0] = NothingScanned
      /\ \A i \in 1 .. Len(bars) : scan[i] = ScanBar(bars, swings, scan[i - 1], i)
      /\ \A i \in 1 .. Len(longer) : later[i] = ScanBar(longer, more, later[i - 1], i)
  BY <1>0, ScanSteps
<1> HIDE DEF scan, later
<1> SUFFICES ASSUME B # {} PROVE FALSE
  BY DEF scan, later
<1>2. PICK i \in B : \A x \in B : i <= x
  <2>1. B \subseteq Nat
    BY <1>0
  <2> HIDE DEF B
  <2> QED BY <2>1, LeastExists
<1>3. i \in 1 .. Len(bars) /\ i \in 1 .. Len(longer)
  BY <1>0, <1>1, <1>2
<1>4. i - 1 \in 0 .. Len(bars) /\ i - 1 \notin B
  BY <1>0, <1>2, <1>3
<1>5. later[i - 1] = scan[i - 1]
  BY <1>4
<1>6. ScanBar(longer, more, later[i - 1], i) = ScanBar(bars, swings, scan[i - 1], i)
  BY <1>0, <1>3, <1>5, ScanBarReads
<1> QED BY <1>1, <1>2, <1>3, <1>6

\* One bar later the events known before are the events there were.
LEMMA EventsStand ==
    ASSUME NEW bars, NEW longer, Continues(longer, bars)
    PROVE  KnownAt(DetectStructuralEvents(longer, DetectSwings(longer)), Len(bars))
              = DetectStructuralEvents(bars, DetectSwings(bars))
<1> DEFINE n == Len(bars)
           swings == DetectSwings(bars)
           more == DetectSwings(longer)
<1>0. n \in Nat /\ Len(longer) = n + 1 /\ Series(bars) /\ Series(longer)
  BY DEF Continues, Series
<1>1. \A i \in 1 .. n : KnownAt(swings, i) = KnownAt(more, i)
  BY SwingsStand
<1> HIDE DEF swings, more
<1>2. EventScan(longer, more)[n] = EventScan(bars, swings)[n]
  <2>1. n \in 0 .. Len(bars)
    BY <1>0
  <2> QED BY <1>1, <2>1, ScanContinues
<1>3. EventScan(longer, more)[n + 1]
        = ScanBar(longer, more, EventScan(longer, more)[n], n + 1)
  <2>1. n + 1 \in 1 .. Len(longer) /\ (n + 1) - 1 = n
    BY <1>0
  <2> QED BY <1>0, <2>1, ScanSteps
<1>4. \A e \in EventScan(bars, swings)[n].events : e.confirmed \in Nat /\ e.confirmed <= n
  <2>1. n \in 0 .. Len(bars)
    BY <1>0
  <2> QED BY <1>0, <2>1, ScanDates
<1>5. /\ EventScan(bars, swings)[n].events \subseteq EventScan(longer, more)[n + 1].events
      /\ \A e \in EventScan(longer, more)[n + 1].events :
            e \in EventScan(bars, swings)[n].events \/ e.confirmed = n + 1
  BY <1>2, <1>3, ScanBarAdds
<1>6. KnownAt(EventScan(longer, more)[n + 1].events, n) = EventScan(bars, swings)[n].events
  BY <1>0, <1>4, <1>5 DEF KnownAt
<1> QED BY <1>0, <1>6 DEF DetectStructuralEvents, swings, more

\* A set of places below a bound has a greatest one.
LEMMA GreatestExists ==
    ASSUME NEW n \in Nat, NEW S, S \subseteq 1 .. n, S # {}
    PROVE  \E m \in S : \A x \in S : x <= m
<1> DEFINE T == {n - x : x \in S}
<1>0. \A x \in S : x \in Nat /\ n - x \in Nat
  OBVIOUS
<1>1. T \subseteq Nat /\ T # {}
  BY <1>0
<1>2. PICK k \in T : \A y \in T : k <= y
  <2> HIDE DEF T
  <2> QED BY <1>1, LeastExists
<1>3. PICK m \in S : k = n - m
  OBVIOUS
<1>4. \A x \in S : n - m <= n - x
  BY <1>2, <1>3
<1>5. \A x \in S : x <= m
  BY <1>4
<1> QED BY <1>5

\* The greatest of the places below a bound is one of them.
LEMMA GreatestIs ==
    ASSUME NEW n \in Nat, NEW S, S \subseteq 1 .. n, S # {}
    PROVE  Max(S) \in S
<1>1. \E m \in S : \A x \in S : m >= x
  BY GreatestExists
<1> QED BY <1>1 DEF Max

\* The latest of some swings is one of them.
LEMMA LastSwingIs ==
    ASSUME NEW n \in Nat, NEW S, S # {}, \A s \in S : s.pivot \in 1 .. n
    PROVE  LastSwing(S) \in S
<1> DEFINE P == {s.pivot : s \in S}
<1>1. P \subseteq 1 .. n /\ P # {}
  OBVIOUS
<1>2. \E m \in P : \A x \in P : x <= m
  <2> HIDE DEF P
  <2> QED BY <1>1, GreatestExists
<1>3. \E s \in S : \A t \in S : t.pivot <= s.pivot
  BY <1>2
<1> QED BY <1>3 DEF LastSwing

-----------------------------------------------------------------------------
(***************************************************************************)
(* Divergences.                                                            *)
(***************************************************************************)

\* The swing before a known one is the same one bar later, and was seen.
LEMMA PreviousStands ==
    ASSUME NEW bars, NEW longer, Continues(longer, bars), NEW s \in DetectSwings(bars)
    PROVE  /\ Previous(DetectSwings(longer), s) = Previous(DetectSwings(bars), s)
           /\ \/ Previous(DetectSwings(bars), s) = None
              \/ Previous(DetectSwings(bars), s) \in DetectSwings(bars)
<1> DEFINE n == Len(bars)
           swings == DetectSwings(bars)
           more == DetectSwings(longer)
           earlier(S) == {t \in OfType(S, s.type) : t.pivot < s.pivot}
<1>1. /\ n \in Nat /\ Series(bars) /\ Series(longer) /\ swings \subseteq more
      /\ \A t \in more \ swings : t.confirmed = n + 1
  BY SwingsStand DEF Continues, Series
<1>2. \A t \in more : t.confirmed = t.pivot + Right /\ t.pivot \in Nat
  BY <1>1, SwingFacts DEF Series
<1>3. s.confirmed = s.pivot + Right /\ s.pivot \in Nat /\ s.confirmed <= n
      /\ \A t \in swings : t.pivot \in 1 .. n
  BY <1>1, SwingFacts
<1> HIDE DEF swings, more, n
<1>4. \A t \in more : t.pivot < s.pivot => t \in swings
  BY <1>1, <1>2, <1>3, ConfigFacts
<1>5. earlier(more) = earlier(swings) /\ earlier(swings) \subseteq swings
  BY <1>1, <1>4 DEF OfType
<1>6. earlier(swings) # {} => LastSwing(earlier(swings)) \in swings
  <2> HIDE DEF earlier
  <2> QED BY <1>1, <1>3, <1>5, LastSwingIs
<1> QED BY <1>5, <1>6 DEF Previous, swings, more

\* One bar later the divergences known before are the divergences there were.
LEMMA DivergencesStand ==
    ASSUME NEW bars, NEW longer, Continues(longer, bars)
    PROVE  KnownAt(DetectVolumeDivergence(longer, DetectSwings(longer)), Len(bars))
              = DetectVolumeDivergence(bars, DetectSwings(bars))
<1> DEFINE n == Len(bars)
           swings == DetectSwings(bars)
           more == DetectSwings(longer)
           seen(b, S, t) == LET p == Previous(S, t)
                            IN  IF p = None THEN FALSE ELSE Diverges(b, p, t)
           noted(t) == [type |-> IF t.type = "HIGH" THEN "BEARISH" ELSE "BULLISH",
                       pivot |-> t.pivot, confirmed |-> t.confirmed]
<1>1. /\ n \in Nat /\ Series(bars) /\ swings \subseteq more
      /\ \A t \in more \ swings : t.confirmed = n + 1
      /\ \A i \in 1 .. n : longer[i] = bars[i]
  BY SwingsStand DEF Continues, Series
<1>2. \A t \in swings : t.confirmed \in Nat /\ t.confirmed <= n /\ t.pivot \in 1 .. n
  BY <1>1, SwingFacts
<1>3. \A t \in swings : seen(longer, more, t) <=> seen(bars, swings, t)
  <2> SUFFICES ASSUME NEW t \in swings PROVE seen(longer, more, t) <=> seen(bars, swings, t)
    OBVIOUS
  <2>1. Previous(more, t) = Previous(swings, t)
        /\ (Previous(swings, t) = None \/ Previous(swings, t) \in swings)
    BY PreviousStands
  <2>2. ASSUME NEW p \in swings PROVE Diverges(longer, p, t) <=> Diverges(bars, p, t)
    BY <1>1, <1>2 DEF Diverges
  <2> HIDE DEF swings, more
  <2> QED BY <2>1, <2>2
<1>4. DetectVolumeDivergence(longer, more) = {noted(t) : t \in {s \in more : seen(longer, more, s)}}
      /\ DetectVolumeDivergence(bars, swings) = {noted(t) : t \in {s \in swings : seen(bars, swings, s)}}
  BY DEF DetectVolumeDivergence
<1>5. \A t : noted(t).confirmed = t.confirmed
  OBVIOUS
<1> HIDE DEF swings, more, n, seen, noted
<1>6. \A t \in more : t.confirmed <= n <=> t \in swings
  BY <1>1, <1>2
<1>7. KnownAt(DetectVolumeDivergence(longer, more), n) = DetectVolumeDivergence(bars, swings)
  BY <1>1, <1>3, <1>4, <1>5, <1>6 DEF KnownAt
<1> QED BY <1>7 DEF swings, more, n

-----------------------------------------------------------------------------
(***************************************************************************)
(* Zones.  A band is dated by the first confirmation it stood at; its      *)
(* strength, which is not read off the past, plays no part.                *)
(***************************************************************************)

\* the bands that clusters of some swings span
BandsOf(S, kind, atr) ==
    {[kind |-> kind, low |-> Min({s.price : s \in C}), high |-> Max({s.price : s \in C})] :
        C \in Clusters(S, atr)}

\* the bands that stood when a bar closed
BandsAt(bars, swings, c) == {Band(z) : z \in BuildZones(bars, swings, c)}

Checkpoints(swings) == {s.confirmed : s \in swings}

\* the checkpoints at which a band stood
StoodAt(bars, swings, b) == {c \in Checkpoints(swings) : b \in BandsAt(bars, swings, c)}

DatedAt(b, c) == [kind |-> b.kind, low |-> b.low, high |-> b.high, confirmed |-> c]

\* The zones that ever stood, band by band.
LEMMA HistoryForm ==
    ASSUME NEW bars, NEW swings
    PROVE  HistoricalZones(bars, swings) =
              {DatedAt(b, Min(StoodAt(bars, swings, b))) :
                  b \in UNION {BandsAt(bars, swings, c) : c \in Checkpoints(swings)}}
<1> DEFINE checkpoints == Checkpoints(swings)
           bandsAt == [c \in checkpoints |-> BandsAt(bars, swings, c)]
<1>1. HistoricalZones(bars, swings) =
        {[kind |-> b.kind, low |-> b.low, high |-> b.high,
          confirmed |-> Min({c \in checkpoints : b \in bandsAt[c]})] :
            b \in UNION {bandsAt[c] : c \in checkpoints}}
  BY DEF HistoricalZones, Checkpoints, BandsAt
<1>2. \A c \in checkpoints : bandsAt[c] = BandsAt(bars, swings, c)
  OBVIOUS
<1>3. \A b : {c \in checkpoints : b \in bandsAt[c]} = StoodAt(bars, swings, b)
  BY <1>2 DEF StoodAt
<1>4. UNION {bandsAt[c] : c \in checkpoints}
        = UNION {BandsAt(bars, swings, c) : c \in checkpoints}
  BY <1>2
<1> HIDE DEF bandsAt, checkpoints
<1>5. HistoricalZones(bars, swings) =
        {DatedAt(b, Min(StoodAt(bars, swings, b))) :
            b \in UNION {BandsAt(bars, swings, c) : c \in checkpoints}}
  BY <1>1, <1>3, <1>4 DEF DatedAt
<1> QED BY <1>5 DEF checkpoints

\* What the clusters span does not depend on the bars.
LEMMA ZoneBands ==
    ASSUME NEW bars, NEW S, NEW kind, NEW atr, NEW limit
    PROVE  {Band(z) : z \in ZonesFrom(bars, S, kind, atr, limit)} = BandsOf(S, kind, atr)
<1>1. \A C : Band(BuildZone(bars, C, kind, atr, limit))
                = [kind |-> kind, low |-> Min({s.price : s \in C}),
                   high |-> Max({s.price : s \in C})]
  BY DEF Band, BuildZone
<1> QED BY <1>1 DEF ZonesFrom, BandsOf

\* The bands of a bar, by the swings known at it.
LEMMA BandsAtForm ==
    ASSUME NEW bars, NEW swings, NEW c
    PROVE  LET visible == KnownAt(swings, c)
               atr == LastDefined(bars, c)
           IN  BandsAt(bars, swings, c) =
                  IF atr = None \/ visible = {} THEN {}
                  ELSE IF atr <= 0 THEN {}
                  ELSE BandsOf(OfType(visible, "LOW"), "SUPPORT", atr)
                         \cup BandsOf(OfType(visible, "HIGH"), "RESISTANCE", atr)
<1> DEFINE visible == KnownAt(swings, c)
           atr == LastDefined(bars, c)
           lows == ZonesFrom(bars, OfType(visible, "LOW"), "SUPPORT", atr, c)
           highs == ZonesFrom(bars, OfType(visible, "HIGH"), "RESISTANCE", atr, c)
<1>1. BuildZones(bars, swings, c) =
        IF atr = None \/ visible = {} THEN {}
        ELSE IF atr <= 0 THEN {} ELSE lows \cup highs
  BY DEF BuildZones
<1>2. {Band(z) : z \in lows} = BandsOf(OfType(visible, "LOW"), "SUPPORT", atr)
      /\ {Band(z) : z \in highs} = BandsOf(OfType(visible, "HIGH"), "RESISTANCE", atr)
  BY ZoneBands
<1> HIDE DEF lows, highs, atr, visible
<1>3. {Band(z) : z \in lows \cup highs} = {Band(z) : z \in lows} \cup {Band(z) : z \in highs}
  OBVIOUS
<1>4. {Band(z) : z \in {}} = {}
  OBVIOUS
<1> QED BY <1>1, <1>2, <1>3, <1>4 DEF BandsAt, visible, atr

\* The volatility last known at a bar is the same one bar later.
LEMMA SameLastDefined ==
    ASSUME NEW bars, NEW longer, Continues(longer, bars), NEW c \in 1 .. Len(bars)
    PROVE  LastDefined(longer, c) = LastDefined(bars, c)
<1> DEFINE defined(b) == {i \in 1 .. c : b[i].atr # None}
<1>1. /\ Len(bars) \in Nat /\ c \in Nat
      /\ \A i \in 1 .. c : i \in 1 .. Len(bars) /\ longer[i] = bars[i]
  BY DEF Continues, Series
<1>2. defined(longer) = defined(bars) /\ defined(bars) \subseteq 1 .. c
  BY <1>1
<1> HIDE DEF defined
<1>3. defined(bars) # {} => Max(defined(bars)) \in 1 .. c
  BY <1>1, <1>2, GreatestIs
<1>4. \A b : LastDefined(b, c) = IF defined(b) = {} THEN None ELSE b[Max(defined(b))].atr
  BY DEF LastDefined, defined
<1> QED BY <1>1, <1>2, <1>3, <1>4

\* Every checkpoint of a series is one of its bars.
LEMMA CheckpointFacts ==
    ASSUME NEW bars, NEW longer, Continues(longer, bars)
    PROVE  /\ Len(bars) \in Nat
           /\ Checkpoints(DetectSwings(bars)) \subseteq 1 .. Len(bars)
           /\ Checkpoints(DetectSwings(bars)) \subseteq Checkpoints(DetectSwings(longer))
           /\ Checkpoints(DetectSwings(longer)) \subseteq
                Checkpoints(DetectSwings(bars)) \cup {Len(bars) + 1}
           /\ \A c \in Checkpoints(DetectSwings(bars)) :
                 BandsAt(longer, DetectSwings(longer), c) = BandsAt(bars, DetectSwings(bars), c)
<1> DEFINE swings == DetectSwings(bars)
           more == DetectSwings(longer)
<1>1. /\ Len(bars) \in Nat /\ Series(bars) /\ swings \subseteq more
      /\ \A t \in more \ swings : t.confirmed = Len(bars) + 1
      /\ \A i \in 1 .. Len(bars) : KnownAt(more, i) = KnownAt(swings, i)
  BY SwingsStand DEF Continues, Series
<1>2. Checkpoints(swings) \subseteq 1 .. Len(bars)
  BY <1>1, SwingFacts DEF Checkpoints
<1> HIDE DEF swings, more
<1>3. Checkpoints(swings) \subseteq Checkpoints(more)
      /\ Checkpoints(more) \subseteq Checkpoints(swings) \cup {Len(bars) + 1}
  BY <1>1 DEF Checkpoints
<1>4. ASSUME NEW c \in Checkpoints(swings)
      PROVE  BandsAt(longer, more, c) = BandsAt(bars, swings, c)
  <2>1. c \in 1 .. Len(bars) /\ KnownAt(more, c) = KnownAt(swings, c)
    BY <1>1, <1>2, <1>4
  <2>2. LastDefined(longer, c) = LastDefined(bars, c)
    BY <2>1, SameLastDefined
  <2> QED BY <2>1, <2>2, BandsAtForm
<1> QED BY <1>1, <1>2, <1>3, <1>4 DEF swings, more

\* One bar later the zones dated before are the zones there were, and the
\* others are dated now.
LEMMA HistoryStands ==
    ASSUME NEW bars, NEW longer, Continues(longer, bars)
    PROVE  LET zones == HistoricalZones(bars, DetectSwings(bars))
               later == HistoricalZones(longer, DetectSwings(longer))
           IN  /\ zones \subseteq later
               /\ \A z \in zones : z.confirmed \in 1 .. Len(bars)
               /\ \A z \in later \ zones : z.confirmed = Len(bars) + 1
<1> DEFINE n == Len(bars)
           swings == DetectSwings(bars)
           more == DetectSwings(longer)
           K == Checkpoints(swings)
           L == Checkpoints(more)
           zones == HistoricalZones(bars, swings)
           later == HistoricalZones(longer, more)
           stood(b) == StoodAt(bars, swings, b)
           stands(b) == StoodAt(longer, more, b)
<1>1. /\ n \in Nat /\ K \subseteq 1 .. n /\ K \subseteq L /\ L \subseteq K \cup {n + 1}
      /\ \A c \in K : BandsAt(longer, more, c) = BandsAt(bars, swings, c)
  BY CheckpointFacts
<1>2. /\ zones = {DatedAt(b, Min(stood(b))) : b \in UNION {BandsAt(bars, swings, c) : c \in K}}
      /\ later = {DatedAt(b, Min(stands(b))) : b \in UNION {BandsAt(longer, more, c) : c \in L}}
  BY HistoryForm
<1> HIDE DEF n, swings, more, zones, later
<1>3. \A b : /\ stood(b) \subseteq stands(b) /\ stands(b) \subseteq stood(b) \cup {n + 1}
             /\ stood(b) \subseteq 1 .. n
             /\ stood(b) \subseteq Nat /\ stands(b) \subseteq Nat
             /\ b \in UNION {BandsAt(bars, swings, c) : c \in K} <=> stood(b) # {}
             /\ b \in UNION {BandsAt(longer, more, c) : c \in L} <=> stands(b) # {}
  BY <1>1 DEF StoodAt
<1> HIDE DEF K, L, stood, stands
<1>4. ASSUME NEW b, stood(b) # {}
      PROVE  Min(stands(b)) = Min(stood(b)) /\ Min(stood(b)) \in 1 .. n
  <2>1. \A x \in stands(b) \ stood(b) : \A y \in stood(b) : y <= x
    BY <1>1, <1>3
  <2>2. Min(stands(b)) = Min(stood(b))
    BY <1>3, <1>4, <2>1, LeastStays
  <2>3. Min(stood(b)) \in stood(b)
    BY <1>3, <1>4, LeastIs
  <2> QED BY <1>3, <2>2, <2>3
<1>5. ASSUME NEW b, stood(b) = {}, stands(b) # {}
      PROVE  Min(stands(b)) = n + 1
  <2>1. Min(stands(b)) \in stands(b)
    BY <1>3, <1>5, LeastIs
  <2> QED BY <1>3, <1>5, <2>1
<1>6. \A b, c : DatedAt(b, c).confirmed = c
  BY DEF DatedAt
<1>7. zones \subseteq later
  <2> SUFFICES ASSUME NEW z \in zones PROVE z \in later
    OBVIOUS
  <2>1. PICK b \in UNION {BandsAt(bars, swings, c) : c \in K} : z = DatedAt(b, Min(stood(b)))
    BY <1>2
  <2>2. stood(b) # {} /\ stands(b) # {}
    BY <1>3, <2>1
  <2> QED BY <1>2, <1>3, <1>4, <2>1, <2>2
<1>8. \A z \in zones : z.confirmed \in 1 .. n
  <2> SUFFICES ASSUME NEW z \in zones PROVE z.confirmed \in 1 .. n
    OBVIOUS
  <2>1. PICK b \in UNION {BandsAt(bars, swings, c) : c \in K} : z = DatedAt(b, Min(stood(b)))
    BY <1>2
  <2> QED BY <1>3, <1>4, <1>6, <2>1
<1>9. \A z \in later \ zones : z.confirmed = n + 1
  <2> SUFFICES ASSUME NEW z \in later, z \notin zones PROVE z.confirmed = n + 1
    OBVIOUS
  <2>1. PICK b \in UNION {BandsAt(longer, more, c) : c \in L} : z = DatedAt(b, Min(stands(b)))
    BY <1>2
  <2>2. stands(b) # {}
    BY <1>3, <2>1
  <2>3. stood(b) = {}
    BY <1>2, <1>3, <1>4, <2>1
  <2> QED BY <1>5, <1>6, <2>1, <2>2, <2>3
<1> QED BY <1>7, <1>8, <1>9 DEF n, swings, more, zones, later

-----------------------------------------------------------------------------
(***************************************************************************)
(* Breakouts and retests: a search of the bars after a date for the first  *)
(* that qualifies finds the same one bar later, or finds the new bar.      *)
(***************************************************************************)

\* The first bar found, one bar later.
LEMMA FirstStays ==
    ASSUME NEW n \in Nat, NEW S, S \subseteq 1 .. n, NEW T,
           S \subseteq T, T \subseteq S \cup {n + 1}
    PROVE  /\ S # {} => Min(S) \in S /\ Min(S) \in 1 .. n /\ Min(T) = Min(S)
           /\ S = {} /\ T # {} => Min(T) = n + 1 /\ T = {n + 1}
<1>1. S \subseteq Nat /\ T \subseteq Nat
  OBVIOUS
<1>2. ASSUME S # {} PROVE Min(S) \in S /\ Min(S) \in 1 .. n /\ Min(T) = Min(S)
  <2>1. Min(S) \in S
    BY <1>1, <1>2, LeastIs
  <2>2. \A x \in T \ S : \A y \in S : y <= x
    OBVIOUS
  <2>3. Min(T) = Min(S)
    BY <1>1, <1>2, <2>2, LeastStays
  <2> QED BY <2>1, <2>3
<1>3. ASSUME S = {}, T # {} PROVE Min(T) = n + 1 /\ T = {n + 1}
  <2>1. T = {n + 1}
    BY <1>3
  <2>2. Min(T) \in T
    BY <1>1, <1>3, LeastIs
  <2> QED BY <2>1, <2>2
<1> QED BY <1>2, <1>3

\* How a breach known before resolves, as known before.
LEMMA ResolveStands ==
    ASSUME NEW bars, NEW longer, Continues(longer, bars), NEW z,
           NEW breach \in 1 .. Len(bars), NEW volume
    PROVE  /\ KnownAt(ResolveBreach(longer, z, breach, volume), Len(bars))
                 = ResolveBreach(bars, z, breach, volume)
           /\ \A e \in ResolveBreach(bars, z, breach, volume) : e.confirmed \in 1 .. Len(bars)
<1> DEFINE n == Len(bars)
           window == breach + 1 .. breach + FailureWindow
           back(b) == {i \in window \cap DOMAIN b : Returned(z, b[i].close)}
           event(type, i) == ZoneEvent(type, z, breach, volume, i)
<1>0. /\ n \in Nat /\ Len(longer) = n + 1 /\ DOMAIN bars = 1 .. n
      /\ DOMAIN longer = 1 .. n + 1
      /\ \A i \in 1 .. n : longer[i] = bars[i]
  BY DEF Continues, Series
<1>1. /\ back(bars) \subseteq 1 .. n /\ back(bars) \subseteq back(longer)
      /\ back(longer) \subseteq back(bars) \cup {n + 1}
      /\ back(longer) \subseteq window
  BY <1>0
<1>2. \A b : ResolveBreach(b, z, breach, volume) =
        CASE back(b) # {} -> {event("FALSE_BREAKOUT", Min(back(b)))}
          [] back(b) = {} /\ breach + FailureWindow <= Len(b) ->
                {event("CONFIRMED", breach + FailureWindow)}
          [] OTHER -> {}
  BY DEF ResolveBreach
<1>3. \A type, i : event(type, i).confirmed = i
  BY DEF ZoneEvent
<1> HIDE DEF back, event
<1>4. /\ back(bars) # {} => /\ Min(back(bars)) \in 1 .. n
                            /\ Min(back(longer)) = Min(back(bars))
      /\ back(bars) = {} /\ back(longer) # {} =>
            Min(back(longer)) = n + 1 /\ n + 1 \in window
  <2> HIDE DEF n, window
  <2> QED BY <1>0, <1>1, FirstStays
<1>5. CASE back(bars) # {}
  <2>1. back(longer) # {}
    BY <1>1, <1>5
  <2>2. ResolveBreach(bars, z, breach, volume) = {event("FALSE_BREAKOUT", Min(back(bars)))}
        /\ ResolveBreach(longer, z, breach, volume) = {event("FALSE_BREAKOUT", Min(back(bars)))}
    BY <1>2, <1>4, <1>5, <2>1
  <2> QED BY <1>0, <1>3, <1>4, <1>5, <2>2 DEF KnownAt
<1>6. CASE back(bars) = {} /\ back(longer) # {}
  <2>1. breach + FailureWindow > n
    BY <1>0, <1>4, <1>6, ConfigFacts
  <2>2. ResolveBreach(bars, z, breach, volume) = {}
    BY <1>0, <1>2, <1>6, <2>1, ConfigFacts
  <2>3. ResolveBreach(longer, z, breach, volume) = {event("FALSE_BREAKOUT", n + 1)}
    BY <1>2, <1>4, <1>6
  <2> QED BY <1>0, <1>3, <2>2, <2>3 DEF KnownAt
<1>7. CASE back(bars) = {} /\ back(longer) = {}
  <2>1. CASE breach + FailureWindow <= n
    <3>1. ResolveBreach(bars, z, breach, volume) = {event("CONFIRMED", breach + FailureWindow)}
          /\ ResolveBreach(longer, z, breach, volume)
                = {event("CONFIRMED", breach + FailureWindow)}
      BY <1>0, <1>2, <1>7, <2>1, ConfigFacts
    <3>2. breach + FailureWindow \in 1 .. n
      BY <1>0, <2>1, ConfigFacts
    <3> QED BY <1>0, <1>3, <3>1, <3>2 DEF KnownAt
  <2>2. CASE breach + FailureWindow > n
    <3>1. ResolveBreach(bars, z, breach, volume) = {}
      BY <1>0, <1>2, <1>7, <2>2, ConfigFacts
    <3>2. ResolveBreach(longer, z, breach, volume)
            \subseteq {event("CONFIRMED", breach + FailureWindow)}
      BY <1>2, <1>7
    <3>3. ~(breach + FailureWindow <= n)
      BY <1>0, <2>2, ConfigFacts
    <3> QED BY <1>3, <3>1, <3>2, <3>3 DEF KnownAt
  <2> QED BY <1>0, <2>1, <2>2, ConfigFacts
<1> QED BY <1>5, <1>6, <1>7

\* A breach found now resolves later.
LEMMA NothingToResolve ==
    ASSUME NEW bars, Series(bars), NEW z, NEW volume
    PROVE  ResolveBreach(bars, z, Len(bars), volume) = {}
<1> DEFINE window == Len(bars) + 1 .. Len(bars) + FailureWindow
           back == {i \in window \cap DOMAIN bars : Returned(z, bars[i].close)}
<1>1. back = {} /\ ~(Len(bars) + FailureWindow <= Len(bars))
  BY ConfigFacts DEF Series
<1> QED BY <1>1 DEF ResolveBreach

\* The events of a zone's life known before are the events there were; a zone
\* that first stood now has none.
LEMMA LifecycleStands ==
    ASSUME NEW bars, NEW longer, Continues(longer, bars),
           NEW z, z.confirmed \in 1 .. Len(bars) + 1
    PROVE  /\ z.confirmed \in 1 .. Len(bars) =>
                 /\ KnownAt(ZoneLifecycle(longer, z), Len(bars)) = ZoneLifecycle(bars, z)
                 /\ \A e \in ZoneLifecycle(bars, z) : e.confirmed \in 1 .. Len(bars)
           /\ z.confirmed = Len(bars) + 1 => ZoneLifecycle(longer, z) = {}
<1> DEFINE n == Len(bars)
           after(b) == z.confirmed + 1 .. Len(b)
           beyond(b) == {i \in after(b) : Beyond(z, b[i].close)}
           breach(b) == IF beyond(b) = {} THEN Len(b) + 1 ELSE Min(beyond(b))
           touches(b) == {i \in after(b) : i < breach(b) /\ Touched(z, b[i])}
           volume(b) == VolumeConfirmation(b[breach(b)].rv)
           challenge(b) == IF touches(b) = {} THEN {}
                           ELSE {ZoneEvent("CHALLENGE", z, Min(touches(b)), "UNAVAILABLE",
                                           Min(touches(b)))}
           broken(b) == IF beyond(b) = {} THEN {}
                        ELSE {ZoneEvent("BREACH", z, breach(b), volume(b), breach(b))}
                               \cup ResolveBreach(b, z, breach(b), volume(b))
<1>0. /\ n \in Nat /\ Len(longer) = n + 1 /\ Series(longer) /\ Series(bars)
      /\ \A i \in 1 .. n : longer[i] = bars[i]
  BY DEF Continues, Series
<1>1. \A b : ZoneLifecycle(b, z) = challenge(b) \cup broken(b)
  BY DEF ZoneLifecycle
<1>2. ASSUME z.confirmed = n + 1 PROVE ZoneLifecycle(longer, z) = {}
  <2>1. after(longer) = {}
    BY <1>0, <1>2
  <2> QED BY <1>1, <2>1
<1>3. ASSUME z.confirmed \in 1 .. n
      PROVE  /\ KnownAt(ZoneLifecycle(longer, z), n) = ZoneLifecycle(bars, z)
             /\ \A e \in ZoneLifecycle(bars, z) : e.confirmed \in 1 .. n
  <2>1. /\ beyond(bars) \subseteq 1 .. n /\ beyond(bars) \subseteq beyond(longer)
        /\ beyond(longer) \subseteq beyond(bars) \cup {n + 1}
    BY <1>0, <1>3
  <2>2. /\ beyond(bars) # {} => /\ Min(beyond(bars)) \in 1 .. n
                                /\ Min(beyond(longer)) = Min(beyond(bars))
        /\ beyond(bars) = {} /\ beyond(longer) # {} => Min(beyond(longer)) = n + 1
    <3> HIDE DEF n, beyond
    <3> QED BY <1>0, <2>1, FirstStays
  <2> HIDE DEF beyond
  <2>3. /\ beyond(bars) # {} => breach(bars) \in 1 .. n /\ breach(longer) = breach(bars)
        /\ beyond(bars) = {} => breach(bars) = n + 1 /\ breach(longer) \in {n + 1, n + 2}
        /\ beyond(bars) = {} /\ beyond(longer) # {} => breach(longer) = n + 1
    BY <1>0, <2>1, <2>2
  <2> HIDE DEF breach
  <2>4. /\ touches(bars) \subseteq 1 .. n /\ touches(bars) \subseteq touches(longer)
        /\ touches(longer) \subseteq touches(bars) \cup {n + 1}
    <3>1. \A i \in 1 .. n : i < breach(bars) <=> i < breach(longer)
      BY <1>0, <2>3
    <3>2. /\ after(bars) \subseteq 1 .. n /\ after(bars) \subseteq after(longer)
          /\ after(longer) \subseteq after(bars) \cup {n + 1}
      BY <1>0, <1>3
    <3> HIDE DEF after
    <3> QED BY <1>0, <3>1, <3>2
  <2>5. /\ touches(bars) # {} => /\ Min(touches(bars)) \in 1 .. n
                                 /\ Min(touches(longer)) = Min(touches(bars))
        /\ touches(bars) = {} /\ touches(longer) # {} => Min(touches(longer)) = n + 1
    <3> HIDE DEF n, touches
    <3> QED BY <1>0, <2>4, FirstStays
  <2> HIDE DEF touches
  <2>6. \A type, i, v, j : ZoneEvent(type, z, j, v, i).confirmed = i
    BY DEF ZoneEvent
  <2>7. KnownAt(challenge(longer), n) = challenge(bars)
        /\ \A e \in challenge(bars) : e.confirmed \in 1 .. n
    <3>1. CASE touches(bars) # {}
      <4>1. challenge(longer) = challenge(bars)
        BY <2>4, <2>5, <3>1
      <4> QED BY <1>0, <2>5, <2>6, <3>1, <4>1 DEF KnownAt
    <3>2. CASE touches(bars) = {}
      <4>1. challenge(bars) = {} /\ \A e \in challenge(longer) : e.confirmed = n + 1
        BY <2>5, <2>6, <3>2
      <4> HIDE DEF challenge
      <4> QED BY <1>0, <4>1 DEF KnownAt
    <3> QED BY <3>1, <3>2
  <2>8. KnownAt(broken(longer), n) = broken(bars)
        /\ \A e \in broken(bars) : e.confirmed \in 1 .. n
    <3>1. CASE beyond(bars) # {}
      <4>1. /\ breach(longer) = breach(bars) /\ breach(bars) \in 1 .. n
            /\ volume(longer) = volume(bars) /\ beyond(longer) # {}
        BY <1>0, <2>1, <2>3, <3>1
      <4> HIDE DEF volume
      <4>2. KnownAt(ResolveBreach(longer, z, breach(bars), volume(bars)), n)
              = ResolveBreach(bars, z, breach(bars), volume(bars))
            /\ \A e \in ResolveBreach(bars, z, breach(bars), volume(bars)) :
                  e.confirmed \in 1 .. n
        BY <4>1, ResolveStands
      <4>3. ZoneEvent("BREACH", z, breach(bars), volume(bars), breach(bars)).confirmed \in 1 .. n
        BY <2>6, <4>1
      <4> QED BY <1>0, <3>1, <4>1, <4>2, <4>3 DEF KnownAt
    <3>2. CASE beyond(bars) = {} /\ beyond(longer) # {}
      <4>1. breach(longer) = Len(longer)
        BY <1>0, <2>3, <3>2
      <4>2. ResolveBreach(longer, z, breach(longer), volume(longer)) = {}
        <5> HIDE DEF volume
        <5> QED BY <1>0, <4>1, NothingToResolve
      <4>3. broken(bars) = {} /\ \A e \in broken(longer) : e.confirmed = n + 1
        <5> HIDE DEF volume
        <5> QED BY <1>0, <2>6, <3>2, <4>1, <4>2
      <4> HIDE DEF broken
      <4> QED BY <1>0, <4>3 DEF KnownAt
    <3>3. CASE beyond(bars) = {} /\ beyond(longer) = {}
      <4>1. broken(bars) = {} /\ broken(longer) = {}
        BY <3>3
      <4> HIDE DEF broken
      <4> QED BY <4>1 DEF KnownAt
    <3> QED BY <3>1, <3>2, <3>3
  <2> HIDE DEF challenge, broken, n
  <2> QED BY <1>1, <2>7, <2>8 DEF KnownAt
<1> QED BY <1>2, <1>3

\* One bar later the breakouts known before are the breakouts there were.
LEMMA BreakoutsStand ==
    ASSUME NEW bars, NEW longer, Continues(longer, bars)
    PROVE  LET told0 == DetectBreakouts(bars, HistoricalZones(bars, DetectSwings(bars)))
               told1 == DetectBreakouts(longer, HistoricalZones(longer, DetectSwings(longer)))
           IN  /\ KnownAt(told1, Len(bars)) = told0
               /\ \A e \in told0 : e.confirmed \in 1 .. Len(bars)
<1> DEFINE n == Len(bars)
           zones == HistoricalZones(bars, DetectSwings(bars))
           later == HistoricalZones(longer, DetectSwings(longer))
<1>0. n \in Nat
  BY DEF Continues, Series
<1>1. /\ zones \subseteq later
      /\ \A z \in zones : z.confirmed \in 1 .. n
      /\ \A z \in later \ zones : z.confirmed = n + 1
  BY HistoryStands
<1> HIDE DEF zones, later
<1>2. /\ \A z \in zones :
            /\ KnownAt(ZoneLifecycle(longer, z), n) = ZoneLifecycle(bars, z)
            /\ \A e \in ZoneLifecycle(bars, z) : e.confirmed \in 1 .. n
      /\ \A z \in later \ zones : ZoneLifecycle(longer, z) = {}
  BY <1>0, <1>1, LifecycleStands
<1> HIDE DEF n
<1>3. KnownAt(DetectBreakouts(longer, later), n) = DetectBreakouts(bars, zones)
  BY <1>1, <1>2 DEF DetectBreakouts, KnownAt
<1>4. \A e \in DetectBreakouts(bars, zones) : e.confirmed \in 1 .. n
  BY <1>2 DEF DetectBreakouts
<1> QED BY <1>3, <1>4 DEF n, zones, later

\* The lesser of two numbers.
LEMMA LesserOf ==
    ASSUME NEW x \in Nat, NEW y \in Nat
    PROVE  Min({x, y}) = IF x <= y THEN x ELSE y
<1>1. Min({x, y}) \in {x, y} /\ \A k \in {x, y} : Min({x, y}) <= k
  <2> DEFINE S == {x, y}
  <2>1. S \subseteq Nat /\ S # {}
    OBVIOUS
  <2> HIDE DEF S
  <2>2. Min(S) \in S /\ \A k \in S : Min(S) <= k
    BY <2>1, LeastIs
  <2> QED BY <2>2 DEF S
<1> QED BY <1>1

\* A window that opens at a bar of the series and closes with the series.
LEMMA WindowStays ==
    ASSUME NEW n \in Nat, NEW from \in 1 .. n, NEW span \in Nat
    PROVE  LET window(k) == from + 1 .. Min({from + span, k})
           IN  /\ window(n) \subseteq 1 .. n /\ window(n) \subseteq window(n + 1)
               /\ window(n + 1) \subseteq window(n) \cup {n + 1}
<1>1. /\ Min({from + span, n}) = IF from + span <= n THEN from + span ELSE n
      /\ Min({from + span, n + 1}) = IF from + span <= n + 1 THEN from + span ELSE n + 1
  BY LesserOf
<1> DEFINE a == Min({from + span, n})
           b == Min({from + span, n + 1})
<1>2. a \in Nat /\ b \in Nat /\ a <= n /\ a <= b /\ (b = a \/ (b = n + 1 /\ a = n))
  BY <1>1
<1> HIDE DEF a, b
<1>3. /\ from + 1 .. a \subseteq 1 .. n /\ from + 1 .. a \subseteq from + 1 .. b
      /\ from + 1 .. b \subseteq (from + 1 .. a) \cup {n + 1}
  BY <1>2
<1> QED BY <1>3 DEF a, b

\* How a touch known before is decided, as known before.
LEMMA DecisionStands ==
    ASSUME NEW bars, NEW longer, Continues(longer, bars), NEW b, NEW touch \in 1 .. Len(bars)
    PROVE  /\ KnownAt(ResolveRetest(longer, b, touch), Len(bars)) = ResolveRetest(bars, b, touch)
           /\ \A e \in ResolveRetest(bars, b, touch) : e.confirmed \in 1 .. Len(bars)
<1> DEFINE n == Len(bars)
           window(s) == touch + 1 .. Min({touch + ResolutionWindow, Len(s)})
           decides(s, i) == Beyond(b.band, s[i].close) \/ Through(b.band, s[i].close)
           decided(s) == {i \in window(s) : decides(s, i)}
           verdict(s, i) == RetestEvent(IF Beyond(b.band, s[i].close) THEN "HELD" ELSE "FAILED",
                                        b, i)
<1>0. /\ n \in Nat /\ Len(longer) = n + 1 /\ \A i \in 1 .. n : longer[i] = bars[i]
  BY DEF Continues, Series
<1>1. \A s : ResolveRetest(s, b, touch) =
                IF decided(s) = {} THEN {} ELSE {verdict(s, Min(decided(s)))}
  BY DEF ResolveRetest
<1>2. /\ window(bars) \subseteq 1 .. n /\ window(bars) \subseteq window(longer)
      /\ window(longer) \subseteq window(bars) \cup {n + 1}
  <2>1. ResolutionWindow \in Nat
    BY ConfigFacts
  <2> QED BY <1>0, <2>1, WindowStays
<1> HIDE DEF n, window
<1>3. /\ decided(bars) \subseteq 1 .. n /\ decided(bars) \subseteq decided(longer)
      /\ decided(longer) \subseteq decided(bars) \cup {n + 1}
  BY <1>0, <1>2
<1> HIDE DEF decided
<1>4. /\ decided(bars) # {} => /\ Min(decided(bars)) \in 1 .. n
                               /\ Min(decided(longer)) = Min(decided(bars))
      /\ decided(bars) = {} /\ decided(longer) # {} => Min(decided(longer)) = n + 1
  BY <1>0, <1>3, FirstStays
<1>5. \A s, i : verdict(s, i).confirmed = i
  BY DEF RetestEvent
<1>6. CASE decided(bars) # {}
  <2>1. verdict(longer, Min(decided(bars))) = verdict(bars, Min(decided(bars)))
    BY <1>0, <1>4, <1>6
  <2> HIDE DEF verdict
  <2>2. ResolveRetest(longer, b, touch) = ResolveRetest(bars, b, touch)
        /\ ResolveRetest(bars, b, touch) = {verdict(bars, Min(decided(bars)))}
    BY <1>1, <1>3, <1>4, <1>6, <2>1
  <2> QED BY <1>0, <1>4, <1>5, <1>6, <2>2 DEF KnownAt, n
<1>7. CASE decided(bars) = {}
  <2> HIDE DEF verdict
  <2>1. ResolveRetest(bars, b, touch) = {}
        /\ \A e \in ResolveRetest(longer, b, touch) : e.confirmed = n + 1
    BY <1>1, <1>4, <1>5, <1>7
  <2> QED BY <1>0, <2>1 DEF KnownAt, n
<1> QED BY <1>6, <1>7

\* The retest of a breakout known before, as known before; a breakout confirmed
\* now has not been retested.
LEMMA RetestStands ==
    ASSUME NEW bars, NEW longer, Continues(longer, bars),
           NEW b, b.confirmed \in Nat
    PROVE  /\ b.confirmed \in 1 .. Len(bars) =>
                 /\ KnownAt(RetestOf(longer, b), Len(bars)) = RetestOf(bars, b)
                 /\ \A e \in RetestOf(bars, b) : e.confirmed \in 1 .. Len(bars)
           /\ b.confirmed > Len(bars) => RetestOf(longer, b) = {}
<1> DEFINE n == Len(bars)
           window(s) == b.confirmed + 1 .. Min({Len(s), b.confirmed + RetestWindow})
           entered(s) == {i \in window(s) : Reentered(b.band, s[i])}
           touched(s) == RetestEvent("TOUCHED", b, Min(entered(s)))
<1>0. /\ n \in Nat /\ Len(longer) = n + 1 /\ Len(bars) = n
      /\ \A i \in 1 .. n : longer[i] = bars[i]
  BY DEF Continues, Series
<1>1. \A s : RetestOf(s, b) =
                IF entered(s) = {} THEN {}
                ELSE {touched(s)} \cup ResolveRetest(s, b, Min(entered(s)))
  BY DEF RetestOf
<1> HIDE DEF n
<1>2. ASSUME b.confirmed > n PROVE RetestOf(longer, b) = {}
  <2> DEFINE bound == Min({Len(longer), b.confirmed + RetestWindow})
  <2>1. Len(longer) \in Nat /\ b.confirmed + RetestWindow \in Nat
    BY <1>0, ConfigFacts
  <2>2. bound = IF Len(longer) <= b.confirmed + RetestWindow THEN Len(longer)
                ELSE b.confirmed + RetestWindow
    BY <2>1, LesserOf
  <2>3. bound \in Nat /\ bound <= n + 1
    BY <1>0, <2>1, <2>2
  <2> HIDE DEF bound
  <2>4. window(longer) = b.confirmed + 1 .. bound
    BY DEF bound
  <2>5. window(longer) = {}
    <3>1. \A i : ~(i \in b.confirmed + 1 .. bound)
      BY <1>0, <1>2, <2>3
    <3> HIDE DEF window
    <3> QED BY <2>4, <3>1
  <2> HIDE DEF window, touched
  <2> QED BY <1>1, <2>5
<1>3. ASSUME b.confirmed \in 1 .. n
      PROVE  /\ KnownAt(RetestOf(longer, b), n) = RetestOf(bars, b)
             /\ \A e \in RetestOf(bars, b) : e.confirmed \in 1 .. n
  <2>1. /\ window(bars) \subseteq 1 .. n /\ window(bars) \subseteq window(longer)
        /\ window(longer) \subseteq window(bars) \cup {n + 1}
    <3> DEFINE span(k) == b.confirmed + 1 .. Min({b.confirmed + RetestWindow, k})
    <3>1. /\ {Len(bars), b.confirmed + RetestWindow} = {b.confirmed + RetestWindow, n}
          /\ {Len(longer), b.confirmed + RetestWindow} = {b.confirmed + RetestWindow, n + 1}
      BY <1>0
    <3>2. window(bars) = span(n) /\ window(longer) = span(n + 1)
      BY <3>1
    <3>3. /\ span(n) \subseteq 1 .. n /\ span(n) \subseteq span(n + 1)
          /\ span(n + 1) \subseteq span(n) \cup {n + 1}
      <4>1. RetestWindow \in Nat
        BY ConfigFacts
      <4> QED BY <1>0, <1>3, <4>1, WindowStays
    <3> HIDE DEF span, window
    <3> QED BY <3>2, <3>3
  <2> HIDE DEF window
  <2>2. /\ entered(bars) \subseteq 1 .. n /\ entered(bars) \subseteq entered(longer)
        /\ entered(longer) \subseteq entered(bars) \cup {n + 1}
    BY <1>0, <2>1
  <2> HIDE DEF entered
  <2>3. /\ entered(bars) # {} => /\ Min(entered(bars)) \in 1 .. n
                                 /\ Min(entered(longer)) = Min(entered(bars))
        /\ entered(bars) = {} /\ entered(longer) # {} => Min(entered(longer)) = n + 1
    BY <1>0, <2>2, FirstStays
  <2>4. \A s : touched(s).confirmed = Min(entered(s))
    BY DEF RetestEvent
  <2>5. CASE entered(bars) # {}
    <3> DEFINE touch == Min(entered(bars))
    <3>1. /\ touch \in 1 .. Len(bars) /\ Min(entered(longer)) = touch
          /\ entered(longer) # {} /\ touched(longer) = touched(bars)
      BY <2>2, <2>3, <2>5 DEF n
    <3> HIDE DEF touched, touch
    <3>2. /\ RetestOf(longer, b) = {touched(bars)} \cup ResolveRetest(longer, b, touch)
          /\ RetestOf(bars, b) = {touched(bars)} \cup ResolveRetest(bars, b, touch)
      BY <1>1, <2>5, <3>1 DEF touch
    <3>3. /\ KnownAt(ResolveRetest(longer, b, touch), n) = ResolveRetest(bars, b, touch)
          /\ \A e \in ResolveRetest(bars, b, touch) : e.confirmed \in 1 .. n
      BY <3>1, DecisionStands DEF n
    <3>4. touched(bars).confirmed = touch /\ touch <= n
      BY <1>0, <2>4, <3>1 DEF touch, n
    <3> QED BY <1>0, <3>1, <3>2, <3>3, <3>4 DEF KnownAt, n
  <2>6. CASE entered(bars) = {}
    <3>1. RetestOf(bars, b) = {}
      BY <1>1, <2>6
    <3>2. ASSUME entered(longer) # {} PROVE RetestOf(longer, b) = {touched(longer)}
      <4> DEFINE bound == Min({n + 1 + ResolutionWindow, Len(longer)})
                 late == {i \in n + 1 + 1 .. bound :
                             \/ Beyond(b.band, longer[i].close)
                             \/ Through(b.band, longer[i].close)}
      <4>1. Min(entered(longer)) = n + 1
        BY <2>3, <2>6, <3>2
      <4>2. bound = n + 1
        <5>1. n + 1 + ResolutionWindow \in Nat /\ n + 1 \in Nat
              /\ ~(n + 1 + ResolutionWindow <= n + 1)
          BY <1>0, ConfigFacts
        <5> QED BY <1>0, <5>1, LesserOf
      <4>3. late = {}
        BY <1>0, <4>2
      <4>4. ResolveRetest(longer, b, n + 1) = {}
        BY <4>3 DEF ResolveRetest
      <4> HIDE DEF touched
      <4> QED BY <1>1, <3>2, <4>1, <4>4
    <3>3. \A e \in RetestOf(longer, b) : e.confirmed = n + 1
      <4> HIDE DEF touched
      <4> QED BY <1>1, <2>3, <2>4, <2>6, <3>2
    <3> QED BY <1>0, <3>1, <3>3 DEF KnownAt
  <2> QED BY <2>5, <2>6
<1> QED BY <1>2, <1>3 DEF n

\* One bar later the retests known before are the retests there were.
LEMMA RetestsStand ==
    ASSUME NEW bars, NEW longer, Continues(longer, bars), NEW broken, NEW more,
           KnownAt(more, Len(bars)) = broken, \A e \in broken : e.confirmed \in 1 .. Len(bars),
           \A e \in more : e.confirmed \in Nat
    PROVE  /\ KnownAt(DetectRetests(longer, more), Len(bars)) = DetectRetests(bars, broken)
           /\ \A e \in DetectRetests(bars, broken) : e.confirmed \in 1 .. Len(bars)
<1> DEFINE n == Len(bars)
           old == OfType(broken, "CONFIRMED")
           all == OfType(more, "CONFIRMED")
<1>0. n \in Nat
  BY DEF Continues, Series
<1>1. /\ old \subseteq all
      /\ \A b \in old : b.confirmed \in 1 .. n
      /\ \A b \in all : b.confirmed \in Nat /\ (b \notin old => b.confirmed > n)
  BY <1>0 DEF OfType, KnownAt
<1> HIDE DEF old, all
<1>2. /\ \A b \in old : /\ KnownAt(RetestOf(longer, b), n) = RetestOf(bars, b)
                        /\ \A e \in RetestOf(bars, b) : e.confirmed \in 1 .. n
      /\ \A b \in all \ old : RetestOf(longer, b) = {}
  BY <1>1, RetestStands
<1>3. /\ DetectRetests(longer, more) = UNION {RetestOf(longer, b) : b \in all}
      /\ DetectRetests(bars, broken) = UNION {RetestOf(bars, b) : b \in old}
  BY DEF DetectRetests, old, all
<1> HIDE DEF n
<1> QED BY <1>1, <1>2, <1>3 DEF KnownAt, n

-----------------------------------------------------------------------------
(***************************************************************************)
(* A live series: what the next bar leaves of the snapshot.                *)
(***************************************************************************)

\* A sequence is a series, and one bar more continues it.
LEMMA AppendContinues ==
    ASSUME NEW X, NEW bars \in Seq(X), NEW bar \in X
    PROVE  Continues(Append(bars, bar), bars)
BY AppendProperties, LenProperties DEF Continues, Series

\* The breakouts of a live series are dated by its bars.
LEMMA BreakoutDates ==
    ASSUME NEW X, NEW bars \in Seq(X), NEW bar \in X
    PROVE  \A e \in DetectBreakouts(bars, HistoricalZones(bars, DetectSwings(bars))) :
              e.confirmed \in Nat
<1>1. Continues(Append(bars, bar), bars) /\ Len(bars) \in Nat
  BY AppendContinues, LenProperties
<1> DEFINE found == DetectBreakouts(bars, HistoricalZones(bars, DetectSwings(bars)))
<1>2. \A e \in found : e.confirmed \in 1 .. Len(bars)
  BY <1>1, BreakoutsStand
<1> HIDE DEF found
<1>3. \A e \in found : e.confirmed \in Nat
  BY <1>1, <1>2
<1> QED BY <1>3 DEF found

\* One bar later everything dated so far is said word for word.
LEMMA SnapshotStands ==
    ASSUME NEW X, NEW bars \in Seq(X), NEW bar \in X, NEW k \in Dated
    PROVE  KnownAt(AnalyseStructure(Append(bars, bar))[k], Len(bars))
              = AnalyseStructure(bars)[k]
<1> DEFINE longer == Append(bars, bar)
           swings(b) == DetectSwings(b)
           broken(b) == DetectBreakouts(b, HistoricalZones(b, swings(b)))
<1>1. Continues(longer, bars) /\ longer \in Seq(X)
  BY AppendContinues, AppendProperties
<1> HIDE DEF longer
<1>2. \A b : /\ AnalyseStructure(b)["swings"] = swings(b)
             /\ AnalyseStructure(b)["events"] = DetectStructuralEvents(b, swings(b))
             /\ AnalyseStructure(b)["breakouts"] = broken(b)
             /\ AnalyseStructure(b)["retests"] = DetectRetests(b, broken(b))
             /\ AnalyseStructure(b)["divergences"] = DetectVolumeDivergence(b, swings(b))
  BY DEF AnalyseStructure
<1>3. KnownAt(swings(longer), Len(bars)) = swings(bars)
  BY <1>1, SwingsStand
<1>4. KnownAt(DetectStructuralEvents(longer, swings(longer)), Len(bars))
        = DetectStructuralEvents(bars, swings(bars))
  BY <1>1, EventsStand
<1>5. KnownAt(broken(longer), Len(bars)) = broken(bars)
      /\ \A e \in broken(bars) : e.confirmed \in 1 .. Len(bars)
  BY <1>1, BreakoutsStand
<1>6. \A e \in broken(longer) : e.confirmed \in Nat
  BY <1>1, BreakoutDates
<1>7. KnownAt(DetectVolumeDivergence(longer, swings(longer)), Len(bars))
        = DetectVolumeDivergence(bars, swings(bars))
  BY <1>1, DivergencesStand
<1> HIDE DEF swings, broken
<1>8. KnownAt(DetectRetests(longer, broken(longer)), Len(bars))
        = DetectRetests(bars, broken(bars))
  BY <1>1, <1>5, <1>6, RetestsStand
<1>9. k \in {"swings", "events", "breakouts", "retests", "divergences"}
  BY DEF Dated
<1> QED BY <1>2, <1>3, <1>4, <1>5, <1>7, <1>8, <1>9 DEF longer

\* The snapshot is the analysis of the bars closed so far.
SnapshotInv ==
    /\ live \in Seq(NextBars)
    /\ live # << >> => snapshot = AnalyseStructure(live)

\* Only a closing bar changes the series and its snapshot.
LEMMA OthersLeaveTheSeries ==
    ASSUME Next
    PROVE  \/ UNCHANGED <<live, snapshot>>
           \/ \E bar \in NextBars : live' = Append(live, bar) /\ snapshot' = AnalyseStructure(live')
<1>1. CASE RefuseRequest
  BY <1>1 DEF RefuseRequest, Refuse, told
<1>2. CASE ReadDataset
  BY <1>2 DEF ReadDataset, Refuse, told
<1>3. CASE CheckCoverage
  BY <1>3 DEF CheckCoverage, told
<1>4. CASE AnalyseAcross
  BY <1>4 DEF AnalyseAcross, Refuse, told
<1>5. CASE AssessMoney
  BY <1>5 DEF AssessMoney, told
<1>6. CASE AssessSuitability
  BY <1>6 DEF AssessSuitability, told
<1>7. CASE Explain
  BY <1>7 DEF Explain
<1>8. CASE \E d \in {"BULLISH", "BEARISH"}, e \in Evidences : Review(d, e)
  BY <1>8 DEF Review
<1>9. CASE \E bar \in NextBars : CloseBar(bar)
  BY <1>9 DEF CloseBar
<1>10. CASE Over
  BY <1>10 DEF Over, vars
<1> QED BY <1>1, <1>2, <1>3, <1>4, <1>5, <1>6, <1>7, <1>8, <1>9, <1>10 DEF Next

\* A snapshot is recomputed with every bar, from all of them.
LEMMA SnapshotInvariant == Spec => []SnapshotInv
<1>1. Init => SnapshotInv
  BY EmptySeq DEF Init, SnapshotInv
<1>2. SnapshotInv /\ [Next]_vars => SnapshotInv'
  <2> SUFFICES ASSUME SnapshotInv, [Next]_vars PROVE SnapshotInv'
    OBVIOUS
  <2>1. CASE UNCHANGED <<live, snapshot>>
    BY <2>1 DEF SnapshotInv
  <2>2. ASSUME NEW bar \in NextBars, live' = Append(live, bar), snapshot' = AnalyseStructure(live')
        PROVE  SnapshotInv'
    BY <2>2, AppendProperties DEF SnapshotInv
  <2>3. CASE UNCHANGED vars
    BY <2>1, <2>3 DEF vars
  <2> QED BY <2>1, <2>2, <2>3, OthersLeaveTheSeries
<1> QED BY <1>1, <1>2, PTL DEF Spec

\* NothingIsRepainted: whatever bar closes next, on a series of any length and
\* under any valid configuration, every swing, structural event, breakout,
\* retest and divergence that was known is still said word for word
\* (analyse_structure).
THEOREM NothingIsRepainted == Spec => NothingRepaints
<1> DEFINE Stands == live # << >> =>
              \A k \in Dated : KnownAt(snapshot'[k], Len(live)) = snapshot[k]
<1>1. SnapshotInv /\ [Next]_vars => [Stands]_live
  <2> SUFFICES ASSUME SnapshotInv, [Next]_vars, live' # live, live # << >>, NEW k \in Dated
               PROVE  KnownAt(snapshot'[k], Len(live)) = snapshot[k]
    OBVIOUS
  <2>1. PICK bar \in NextBars : live' = Append(live, bar) /\ snapshot' = AnalyseStructure(live')
    BY OthersLeaveTheSeries DEF vars
  <2>2. live \in Seq(NextBars) /\ snapshot = AnalyseStructure(live)
    BY DEF SnapshotInv
  <2> QED BY <2>1, <2>2, SnapshotStands
<1> QED BY <1>1, SnapshotInvariant, PTL DEF Spec, NothingRepaints

-----------------------------------------------------------------------------
(***************************************************************************)
(* Nothing from the future.  An item of evidence is dated by the last bar  *)
(* or by an event the structural rules dated; a coarse series that outruns *)
(* a fine one is excluded.                                                 *)
(***************************************************************************)

\* The greatest of some numbers, one for each place below a bound.
LEMMA GreatestOf ==
    ASSUME NEW n \in Nat, NEW S, S \subseteq 1 .. n, S # {}, NEW f \in [S -> Int]
    PROVE  \A i \in S : f[i] <= Max({f[j] : j \in S})
<1> DEFINE found(k) == \E m \in S : m <= k /\ \A x \in S : x <= k => f[x] <= f[m]
           B == {k \in 0 .. n : (\E x \in S : x <= k) /\ ~found(k)}
<1>1. B = {}
  <2> SUFFICES ASSUME B # {} PROVE FALSE
    OBVIOUS
  <2>1. PICK k \in B : \A x \in B : k <= x
    <3>1. B \subseteq Nat
      OBVIOUS
    <3> HIDE DEF B
    <3> QED BY <3>1, LeastExists
  <2>2. PICK y \in S : y <= k
    BY <2>1
  <2>3. k \in Nat /\ k <= n /\ k > 0 /\ k - 1 \in 0 .. n /\ k - 1 \notin B
    <3>1. k \in Nat /\ k <= n
      BY <2>1
    <3>2. y \in 1 .. n
      BY <2>2
    <3>3. k > 0 /\ k - 1 \in 0 .. n
      BY <2>2, <3>1, <3>2
    <3>4. ~(k <= k - 1)
      BY <3>1
    <3> HIDE DEF B
    <3> QED BY <2>1, <3>1, <3>3, <3>4
  <2>4. \A x \in S : x \in Nat /\ f[x] \in Int /\ (x <= k <=> x <= k - 1 \/ x = k)
    BY <2>3
  <2>5. CASE k \notin S
    <3>1. y <= k - 1
      BY <2>2, <2>4, <2>5
    <3>2. found(k - 1)
      BY <2>3, <3>1
    <3> QED BY <2>1, <2>3, <2>4, <2>5, <3>2
  <2>6. CASE k \in S /\ ~\E x \in S : x <= k - 1
    <3>1. \A x \in S : x <= k => x = k
      BY <2>4, <2>6
    <3>2. found(k)
      BY <2>3, <2>4, <2>6, <3>1
    <3> QED BY <2>1, <3>2
  <2>7. CASE k \in S /\ \E x \in S : x <= k - 1
    <3>1. PICK m \in S : m <= k - 1 /\ \A x \in S : x <= k - 1 => f[x] <= f[m]
      BY <2>3, <2>7
    <3>2. CASE f[k] <= f[m]
      <4>1. \A x \in S : x <= k => f[x] <= f[m]
        BY <2>4, <3>1, <3>2
      <4>2. m <= k
        BY <2>3, <2>4, <3>1
      <4> QED BY <2>1, <4>1, <4>2
    <3>3. CASE ~(f[k] <= f[m])
      <4>1. f[m] <= f[k] /\ f[k] <= f[k] /\ k <= k
        BY <2>3, <2>4, <2>7, <3>3
      <4>2. \A x \in S : x <= k => f[x] <= f[k]
        <5> SUFFICES ASSUME NEW x \in S, x <= k PROVE f[x] <= f[k]
          OBVIOUS
        <5>1. CASE x = k
          BY <4>1, <5>1
        <5>2. CASE x <= k - 1
          <6>1. f[x] <= f[m] /\ f[x] \in Int /\ f[m] \in Int /\ f[k] \in Int
            BY <2>4, <2>7, <3>1, <5>2
          <6> QED BY <4>1, <6>1
        <5> QED BY <2>4, <5>1, <5>2
      <4> QED BY <2>1, <2>7, <4>1, <4>2
    <3> QED BY <3>2, <3>3
  <2> QED BY <2>5, <2>6, <2>7
<1>2. n \in 0 .. n /\ \E x \in S : x <= n
  <2>1. PICK x \in S : x \in 1 .. n
    OBVIOUS
  <2> QED BY <2>1
<1>3. found(n)
  BY <1>1, <1>2
<1>4. PICK m \in S : \A x \in S : f[x] <= f[m]
  BY <1>3
<1> DEFINE T == {f[j] : j \in S}
<1>5. \E x \in T : \A y \in T : x >= y
  <2>1. f[m] \in T /\ \A y \in T : f[m] >= y
    BY <1>4
  <2> QED BY <2>1
<1> HIDE DEF T
<1>6. Max(T) \in T /\ \A y \in T : Max(T) >= y
  BY <1>5 DEF Max
<1>7. \A y \in T : y \in Int
  BY DEF T
<1>8. \A y \in T : y <= Max(T)
  BY <1>6, <1>7
<1> QED BY <1>8 DEF T

\* A list is a sequence; one more bar makes it a longer series.
LEMMA ListContinues ==
    ASSUME NEW bars, IsSequence(bars), bars # << >>
    PROVE  /\ bars \in Seq(Range(bars)) /\ bars[1] \in Range(bars)
           /\ Series(bars) /\ Len(bars) > 0
           /\ Continues(Append(bars, bars[1]), bars)
<1>1. bars \in Seq(Range(bars)) /\ Series(bars)
  BY DEF IsSequence, Series
<1>2. Len(bars) > 0
  BY <1>1, EmptySeq DEF Series
<1>3. bars[1] \in Range(bars)
  BY <1>1, <1>2 DEF Range, Series
<1> QED BY <1>1, <1>2, <1>3, AppendContinues

\* Nothing structural is dated after the last bar.
LEMMA SnapshotDates ==
    ASSUME NEW bars, IsSequence(bars), bars # << >>,
           NEW k \in {"events", "breakouts", "retests", "divergences"}
    PROVE  \A e \in AnalyseStructure(bars)[k] : e.confirmed <= Len(bars)
<1> DEFINE longer == Append(bars, bars[1])
           swings(b) == DetectSwings(b)
           broken(b) == DetectBreakouts(b, HistoricalZones(b, swings(b)))
<1>1. /\ Continues(longer, bars) /\ Series(bars) /\ Len(bars) \in Nat
      /\ bars \in Seq(Range(bars)) /\ bars[1] \in Range(bars)
      /\ longer \in Seq(Range(bars))
  BY ListContinues, AppendProperties DEF Series
<1> HIDE DEF longer
<1>2. \A b : /\ AnalyseStructure(b)["events"] = DetectStructuralEvents(b, swings(b))
             /\ AnalyseStructure(b)["breakouts"] = broken(b)
             /\ AnalyseStructure(b)["retests"] = DetectRetests(b, broken(b))
             /\ AnalyseStructure(b)["divergences"] = DetectVolumeDivergence(b, swings(b))
  BY DEF AnalyseStructure
<1>3. \A e \in DetectStructuralEvents(bars, swings(bars)) : e.confirmed \in 1 .. Len(bars)
  <2>1. Len(bars) \in 0 .. Len(bars)
    BY <1>1
  <2> HIDE DEF swings
  <2> QED BY <1>1, <2>1, ScanDates DEF DetectStructuralEvents
<1>4. KnownAt(broken(longer), Len(bars)) = broken(bars)
      /\ \A e \in broken(bars) : e.confirmed \in 1 .. Len(bars)
  BY <1>1, BreakoutsStand
<1>5. \A e \in broken(longer) : e.confirmed \in Nat
  BY <1>1, BreakoutDates
<1>6. \A e \in DetectVolumeDivergence(bars, swings(bars)) : e.confirmed \in 1 .. Len(bars)
  <2>1. \A e \in DetectVolumeDivergence(bars, swings(bars)) :
           \E t \in swings(bars) : e.confirmed = t.confirmed
    BY DEF DetectVolumeDivergence
  <2> QED BY <1>1, <2>1, SwingFacts
<1> HIDE DEF swings, broken
<1>7. \A e \in DetectRetests(bars, broken(bars)) : e.confirmed \in 1 .. Len(bars)
  BY <1>1, <1>4, <1>5, RetestsStand
<1>8. \A e \in AnalyseStructure(bars)[k] : e.confirmed \in 1 .. Len(bars)
  BY <1>2, <1>3, <1>4, <1>6, <1>7
<1> QED BY <1>1, <1>8

\* An item says whose it is and is dated as it was made.
LEMMA ItemFacts ==
    ASSUME NEW v
    PROVE  /\ \A source, category, direction, strength :
                /\ PointInTime(v, source, category, direction, strength).role = v.role
                /\ PointInTime(v, source, category, direction, strength).confirmed = Len(v.bars)
           /\ \A source, category, direction, strength, confirmed :
                /\ EventItem(v, source, category, direction, strength, confirmed).role = v.role
                /\ EventItem(v, source, category, direction, strength, confirmed).confirmed
                     = confirmed
BY DEF PointInTime, EventItem, Item

\* A reading of the last bar is dated by it.
LEMMA ReadingsOfTheBar ==
    ASSUME NEW v,
           NEW x \in EmaAlignment(v) \cup MarketStructureItem(v) \cup RegimeItem(v)
                       \cup Momentum(v) \cup VwapRelationship(v) \cup Levels(v)
    PROVE  x.role = v.role /\ x.confirmed = Len(v.bars)
<1> SUFFICES \E source, category, direction, strength :
                x = PointInTime(v, source, category, direction, strength)
  BY ItemFacts
<1>1. CASE x \in EmaAlignment(v)
  BY <1>1 DEF EmaAlignment
<1>2. CASE x \in MarketStructureItem(v)
  BY <1>2 DEF MarketStructureItem
<1>3. CASE x \in RegimeItem(v)
  BY <1>3 DEF RegimeItem
<1>4. CASE x \in Momentum(v)
  BY <1>4 DEF Momentum
<1>5. CASE x \in VwapRelationship(v)
  BY <1>5 DEF VwapRelationship
<1>6. CASE x \in Levels(v)
  BY <1>6 DEF Levels
<1> QED BY <1>1, <1>2, <1>3, <1>4, <1>5, <1>6

\* A reading of an event is dated as the event is.
LEMMA ReadingsOfEvents ==
    ASSUME NEW v,
           NEW x \in StructuralEventItems(v) \cup BreakoutItems(v) \cup RetestItems(v)
                       \cup DivergenceItems(v)
    PROVE  /\ x.role = v.role
           /\ \E e \in v.snap.events \cup v.snap.breakouts \cup v.snap.retests
                         \cup v.snap.divergences : x.confirmed = e.confirmed
<1> SUFFICES \E e \in v.snap.events \cup v.snap.breakouts \cup v.snap.retests
                        \cup v.snap.divergences :
               \E source, category, direction, strength :
                  x = EventItem(v, source, category, direction, strength, e.confirmed)
  BY ItemFacts
<1>1. CASE x \in StructuralEventItems(v)
  BY <1>1 DEF StructuralEventItems
<1>2. CASE x \in BreakoutItems(v)
  <2>1. PICK e \in v.snap.breakouts :
           \/ x = BreakoutVolume(v, e)
           \/ \E direction : x = EventItem(v, "BREAKOUT", "BREAKOUT", direction,
                                           "MODERATE", e.confirmed)
    BY <1>2 DEF BreakoutItems
  <2>2. CASE x = BreakoutVolume(v, e)
    BY <2>2 DEF BreakoutVolume
  <2> QED BY <2>1, <2>2
<1>3. CASE x \in RetestItems(v)
  BY <1>3 DEF RetestItems
<1>4. CASE x \in DivergenceItems(v)
  BY <1>4 DEF DivergenceItems
<1> QED BY <1>1, <1>2, <1>3, <1>4

\* No evidence of a view is dated after its last bar.
LEMMA EvidenceDates ==
    ASSUME NEW v, IsSequence(v.bars), v.bars # << >>, v.snap = AnalyseStructure(v.bars),
           NEW x \in BuildTimeframeEvidence(v)
    PROVE  x.role = v.role /\ x.confirmed <= Len(v.bars)
<1>1. Len(v.bars) \in Nat
  BY DEF IsSequence
<1>2. \/ x \in EmaAlignment(v) \cup MarketStructureItem(v) \cup RegimeItem(v)
                \cup Momentum(v) \cup VwapRelationship(v) \cup Levels(v)
      \/ x \in StructuralEventItems(v) \cup BreakoutItems(v) \cup RetestItems(v)
                \cup DivergenceItems(v)
  BY DEF BuildTimeframeEvidence
<1>3. \A e \in v.snap.events \cup v.snap.breakouts \cup v.snap.retests \cup v.snap.divergences :
         e.confirmed <= Len(v.bars)
  <2>1. /\ \A e \in v.snap["events"] : e.confirmed <= Len(v.bars)
        /\ \A e \in v.snap["breakouts"] : e.confirmed <= Len(v.bars)
        /\ \A e \in v.snap["retests"] : e.confirmed <= Len(v.bars)
        /\ \A e \in v.snap["divergences"] : e.confirmed <= Len(v.bars)
    BY SnapshotDates
  <2> QED BY <2>1
<1> QED BY <1>1, <1>2, <1>3, ReadingsOfTheBar, ReadingsOfEvents

-----------------------------------------------------------------------------
(***************************************************************************)
(* The request as it is served.                                            *)
(***************************************************************************)

\* A usable outcome is a list of timed rows of a supported timeframe.
OutcomeOk(o) ==
    o.usable => /\ IsSequence(o.rows) /\ o.rows # << >>
                /\ \A j \in DOMAIN o.rows : o.rows[j].time \in Int
                /\ o.tf \in DOMAIN RoleOf /\ o.role = RoleOf[o.tf]

\* One view of each role, made into the analysis.
ViewsOk ==
    Used # {} => /\ \A i, j \in Used : outcomes[i].role = outcomes[j].role => i = j
                 /\ analysis = AnalyseMultiTimeframe(Views)

Assessed == {"ACROSS", "MONEY", "VETO", "ANSWERED", "EXPLAINED"}

\* What a request being served has been told so far.
RequestInv ==
    /\ stage \in {"LIVE", "READ", "REFUSED"} \cup Assessed
    /\ stage # "LIVE" => request \in Requests
    /\ outcomes \in Seq(Range(outcomes))
    /\ \A i \in DOMAIN outcomes : OutcomeOk(outcomes[i])
    /\ stage \in Assessed => temporal = AssessTemporal(outcomes)
    /\ stage \in Assessed \ {"ACROSS"} => ViewsOk

\* A dataset read is usable only as a list of rows with times.
LEMMA DatasetRead ==
    ASSUME NEW d, IsSequence(d.rows), \A j \in DOMAIN d.rows : d.rows[j].time \in Int,
           d.tf \in DOMAIN RoleOf
    PROVE  OutcomeOk(Outcome(d)) /\ OutcomeOk(Unparsed(d))
<1>1. OutcomeOk(Unparsed(d))
  BY DEF OutcomeOk, Unparsed
<1>2. ASSUME Outcome(d).usable PROVE d.rows # << >>
  <2> SUFFICES ASSUME d.rows = << >> PROVE FALSE
    OBVIOUS
  <2>1. QualityIssues(d.rows) = {"EMPTY_SERIES"}
    BY DEF QualityIssues
  <2>2. Verdict({"EMPTY_SERIES"}) = "BLOCKED"
    <3>1. {"EMPTY_SERIES"} \ Warnings # {}
      BY DEF Warnings
    <3> QED BY <3>1 DEF Verdict
  <2> QED BY <1>2, <2>1, <2>2 DEF Outcome
<1>3. Outcome(d).rows = d.rows /\ Outcome(d).tf = d.tf /\ Outcome(d).role = RoleOf[d.tf]
  BY DEF Outcome
<1>4. OutcomeOk(Outcome(d))
  BY <1>2, <1>3 DEF OutcomeOk
<1> QED BY <1>1, <1>4

\* Reading a dataset adds an outcome, or ends the request.
LEMMA ReadDatasetKeeps ==
    ASSUME RequestInv, ReadDataset
    PROVE  RequestInv'
<1> DEFINE d == request.datasets[Len(outcomes) + 1]
<1>1. /\ stage = "READ" /\ request \in Requests
      /\ outcomes \in Seq(Range(outcomes)) /\ Len(outcomes) \in Nat
      /\ DOMAIN outcomes = 1 .. Len(outcomes)
  BY DEF RequestInv, ReadDataset
<1>2. d \in {request.datasets[i] : i \in DOMAIN request.datasets}
      /\ IsSequence(d.rows) /\ \A j \in DOMAIN d.rows : d.rows[j].time \in Int
  <2>1. IsSequence(request.datasets)
    BY <1>1, RequestsAreLists
  <2>2. Len(outcomes) + 1 \in DOMAIN request.datasets
    BY <1>1, <2>1 DEF ReadDataset, IsSequence
  <2> QED BY <1>1, <2>2, RequestsAreLists
<1> HIDE DEF d
<1>3. CASE \E code : Refuse(code)
  BY <1>1, <1>3 DEF Refuse, RequestInv, Assessed, told
<1>4. CASE /\ d.tf \in DOMAIN RoleOf
           /\ outcomes' = Append(outcomes, Unparsed(d)) \/ outcomes' = Append(outcomes, Outcome(d))
           /\ UNCHANGED <<request, stage>>
  <2>1. PICK o : outcomes' = Append(outcomes, o) /\ OutcomeOk(o)
    BY <1>2, <1>4, DatasetRead
  <2>2. outcomes \in Seq(ToSet(outcomes))
    BY <1>1 DEF ToSet, Range
  <2>3. /\ outcomes' \in Seq(ToSet(outcomes'))
        /\ DOMAIN outcomes' = 1 .. Len(outcomes) + 1
        /\ \A i \in 1 .. Len(outcomes) : outcomes'[i] = outcomes[i]
        /\ outcomes'[Len(outcomes) + 1] = o
    BY <2>1, <2>2, Appending
  <2>4. outcomes' \in Seq(Range(outcomes'))
    BY <2>3 DEF ToSet, Range
  <2>5. \A i \in DOMAIN outcomes' : OutcomeOk(outcomes'[i])
    BY <1>1, <2>1, <2>3 DEF RequestInv
  <2>6. stage' = "READ" /\ request' \in Requests
    BY <1>1, <1>4
  <2> QED BY <2>4, <2>5, <2>6 DEF RequestInv, Assessed
<1> QED BY <1>3, <1>4 DEF ReadDataset, d

\* A set of outcomes that is not refused names each role once.
LEMMA RolesAreDistinct ==
    ASSUME NEW policy, NEW views, DOMAIN views # {}, BuildRefusal(views, policy) = None
    PROVE  \A i, j \in DOMAIN views : views[i].role = views[j].role => i = j
<1>1. None # "DUPLICATE_ROLE"
  BY NoneIsNoRefusal
<1> DEFINE two == \E i, j \in DOMAIN views : i # j /\ views[i]["role"] = views[j]["role"]
<1>2. two => BuildRefusal(views, policy) = "DUPLICATE_ROLE"
  BY DEF BuildRefusal
<1> QED BY <1>1, <1>2

\* The views of a request: the roles of its outcomes, each seen as it was read.
LEMMA ViewFacts ==
    ASSUME NEW i \in Used, \A a, b \in Used : outcomes[a].role = outcomes[b].role => a = b
    PROVE  /\ outcomes[i].role \in DOMAIN Views
           /\ Views[outcomes[i].role] = View(outcomes[i])
           /\ \A r \in DOMAIN Views : \E j \in Used : outcomes[j].role = r /\ Views[r] = View(outcomes[j])
<1>1. DOMAIN Views = {outcomes[a].role : a \in Used}
      /\ \A r \in DOMAIN Views : Views[r] = View(outcomes[CHOOSE a \in Used : outcomes[a].role = r])
  BY DEF Views
<1>2. \A a \in Used : (CHOOSE b \in Used : outcomes[b].role = outcomes[a].role) = a
  OBVIOUS
<1> QED BY <1>1, <1>2

\* The analysis across timeframes gives one view to each role, or is refused.
LEMMA AnalyseAcrossKeeps ==
    ASSUME RequestInv, AnalyseAcross
    PROVE  RequestInv'
<1> DEFINE refused == Used # {} /\ BuildRefusal(Restrict(outcomes, Used), Policy) # None
<1>1. CASE \E code : Refuse(code)
  BY <1>1 DEF Refuse, RequestInv, Assessed, told, AnalyseAcross
<1>2. CASE /\ ~refused /\ stage' = "MONEY"
           /\ analysis' = IF Used = {} THEN None ELSE AnalyseMultiTimeframe(Views)
           /\ UNCHANGED <<request, refusal, outcomes, temporal, risk, veto, told>>
  <2>1. Used' = Used /\ Views' = Views
    BY <1>2 DEF Used, Views
  <2>2. ASSUME Used # {}
        PROVE  \A i, j \in Used : outcomes[i].role = outcomes[j].role => i = j
    <3> DEFINE views == Restrict(outcomes, Used)
    <3>1. DOMAIN views = Used /\ \A i \in Used : views[i] = outcomes[i]
      BY DEF Restrict
    <3>2. BuildRefusal(views, Policy) = None
      BY <1>2, <2>2
    <3> HIDE DEF views
    <3>3. \A i, j \in DOMAIN views : views[i].role = views[j].role => i = j
      BY <2>2, <3>1, <3>2, RolesAreDistinct
    <3> QED BY <3>1, <3>3
  <2>3. ViewsOk'
    BY <1>2, <2>1, <2>2 DEF ViewsOk
  <2>4. stage' = "MONEY" /\ request' = request /\ outcomes' = outcomes /\ temporal' = temporal
        /\ stage = "ACROSS"
    BY <1>2 DEF AnalyseAcross
  <2> QED BY <2>3, <2>4 DEF RequestInv, Assessed
<1> QED BY <1>1, <1>2 DEF AnalyseAcross

\* What is read for a request stays as read; its views are the ones analysed.
LEMMA RequestInvariant == Spec => []RequestInv
<1>1. Init => RequestInv
  <2> SUFFICES ASSUME Init PROVE RequestInv
    OBVIOUS
  <2>1. outcomes \in Seq(Range(outcomes)) /\ DOMAIN outcomes = {}
    <3>1. outcomes = << >>
      BY DEF Init
    <3>2. << >> \in Seq(Range(<< >>)) /\ DOMAIN << >> = {}
      BY EmptySeq
    <3> QED BY <3>1, <3>2
  <2> QED BY <2>1 DEF Init, RequestInv, Assessed
<1>2. RequestInv /\ [Next]_vars => RequestInv'
  <2> SUFFICES ASSUME RequestInv, [Next]_vars PROVE RequestInv'
    OBVIOUS
  <2>0. ASSUME UNCHANGED <<request, outcomes, temporal, analysis>>
        PROVE  /\ Used' = Used /\ Views' = Views
               /\ ViewsOk => ViewsOk'
    <3>1. Used' = Used /\ Views' = Views
      BY <2>0 DEF Used, Views
    <3> QED BY <2>0, <3>1 DEF ViewsOk
  <2>1. CASE RefuseRequest
    BY <2>1 DEF RefuseRequest, Refuse, RequestInv, Assessed, told
  <2>2. CASE ReadDataset
    BY <2>2, ReadDatasetKeeps
  <2>3. CASE CheckCoverage
    BY <2>3 DEF CheckCoverage, RequestInv, Assessed, told
  <2>4. CASE AnalyseAcross
    BY <2>4, AnalyseAcrossKeeps
  <2>5. CASE AssessMoney
    BY <2>0, <2>5 DEF AssessMoney, RequestInv, Assessed, told
  <2>6. CASE AssessSuitability
    BY <2>0, <2>6 DEF AssessSuitability, RequestInv, Assessed, told
  <2>7. CASE Explain
    BY <2>0, <2>7 DEF Explain, RequestInv, Assessed
  <2>8. CASE \E direction \in {"BULLISH", "BEARISH"}, known \in Evidences : Review(direction, known)
    BY <2>0, <2>8 DEF Review, RequestInv, Assessed
  <2>9. CASE \E bar \in NextBars : CloseBar(bar)
    BY <2>0, <2>9 DEF CloseBar, RequestInv, Assessed, served
  <2>10. CASE UNCHANGED vars
    BY <2>0, <2>10 DEF vars, RequestInv
  <2> QED BY <2>1, <2>2, <2>3, <2>4, <2>5, <2>6, <2>7, <2>8, <2>9, <2>10 DEF Next, Over
<1> QED BY <1>1, <1>2, PTL DEF Spec

\* A usable outcome covers time up to a number.
LEMMA CoverageIsANumber ==
    ASSUME NEW o, OutcomeOk(o), o.usable
    PROVE  CoverageEnd(o) \in Int
<1>1. Len(o.rows) \in DOMAIN o.rows
  BY ListContinues DEF OutcomeOk, Series
<1>2. Interval[o.tf] \in Int
  BY IntervalsLast DEF OutcomeOk, RoleOf
<1> QED BY <1>1, <1>2 DEF CoverageEnd, OutcomeOk

\* The rank of a role is a number.
LEMMA RanksAreNumbers ==
    ASSUME NEW t \in DOMAIN RoleOf
    PROVE  RoleRank(RoleOf[t]) \in Int
<1>1. \E k \in DOMAIN Roles : Roles[k] = RoleOf[t]
  BY DEF Roles, RoleOf
<1>2. DOMAIN Roles = 1 .. 4
  BY DEF Roles
<1> QED BY <1>1, <1>2 DEF RoleRank

\* What coverage leaves is in time order, and read as of its latest.
LEMMA CoverageOrders ==
    ASSUME RequestInv, stage \in Assessed, NEW i \in Used, NEW j \in Used
    PROVE  /\ RoleRank(outcomes[i].role) < RoleRank(outcomes[j].role)
                => CoverageEnd(outcomes[i]) <= CoverageEnd(outcomes[j])
           /\ CoverageEnd(outcomes[i]) <= temporal.asOf
<1> DEFINE n == Len(outcomes)
           survivors == {k \in {a \in DOMAIN outcomes : outcomes[a].usable} :
                            outcomes[k].tf \notin temporal.excluded}
<1>1. /\ n \in Nat /\ DOMAIN outcomes = 1 .. n
      /\ temporal = AssessTemporal(outcomes)
      /\ \A k \in Used : /\ k \in DOMAIN outcomes /\ outcomes[k].usable
                         /\ OutcomeOk(outcomes[k])
                         /\ outcomes[k].tf \notin temporal.excluded
  BY DEF RequestInv, Used
<1>2. temporal.excluded = {outcomes[k].tf : k \in {a \in {b \in DOMAIN outcomes : outcomes[b].usable} :
                                                      ExtendsBeyond(outcomes, a)}}
  BY <1>1 DEF AssessTemporal
<1>3. ~ExtendsBeyond(outcomes, i)
  BY <1>1, <1>2
<1>4. \A k \in Used : /\ CoverageEnd(outcomes[k]) \in Int
                      /\ RoleRank(outcomes[k].role) \in Int
  BY <1>1, CoverageIsANumber, RanksAreNumbers DEF OutcomeOk
<1>5. ASSUME RoleRank(outcomes[i].role) < RoleRank(outcomes[j].role)
      PROVE  CoverageEnd(outcomes[i]) <= CoverageEnd(outcomes[j])
  <2>1. RoleRank(outcomes[j].role) > RoleRank(outcomes[i].role)
    BY <1>4, <1>5
  <2>2. ~(CoverageEnd(outcomes[i]) > CoverageEnd(outcomes[j]))
    BY <1>1, <1>3, <2>1 DEF ExtendsBeyond
  <2> QED BY <1>4, <2>2
<1>6. survivors = Used /\ Used \subseteq 1 .. n
  BY <1>1 DEF Used
<1>7. temporal.asOf = Max({CoverageEnd(outcomes[k]) : k \in Used})
  <2>1. temporal.asOf = IF survivors = {} THEN None
                        ELSE Max({CoverageEnd(outcomes[k]) : k \in survivors})
    BY <1>1, <1>2 DEF AssessTemporal
  <2> HIDE DEF survivors
  <2> QED BY <1>6, <2>1
<1>8. CoverageEnd(outcomes[i]) <= temporal.asOf
  <2> DEFINE f == [k \in Used |-> CoverageEnd(outcomes[k])]
  <2>1. f \in [Used -> Int] /\ \A k \in Used : f[k] = CoverageEnd(outcomes[k])
    BY <1>4
  <2>2. {f[k] : k \in Used} = {CoverageEnd(outcomes[k]) : k \in Used}
    BY <2>1
  <2> HIDE DEF f, n
  <2>3. \A k \in Used : f[k] <= Max({f[a] : a \in Used})
    BY <1>1, <1>6, <2>1, GreatestOf
  <2> QED BY <1>7, <2>1, <2>2, <2>3
<1> QED BY <1>5, <1>8

\* NothingIsEarly: whatever was uploaded, in any order and with any file stale,
\* blocked or missing, no view an answer rests on closed after a finer one, and
\* no evidence is dated after the last bar of its own timeframe
\* (temporal.assess, build_timeframe_evidence).
THEOREM NothingIsEarly == Spec => []NothingFromTheFuture
<1>1. RequestInv => NothingFromTheFuture
  <2> SUFFICES ASSUME RequestInv, stage \in Assessed \ {"ACROSS"},
                      NEW i \in Used, NEW j \in Used
               PROVE  /\ RoleRank(outcomes[i].role) < RoleRank(outcomes[j].role)
                            => CoverageEnd(outcomes[i]) <= CoverageEnd(outcomes[j])
                      /\ CoverageEnd(outcomes[i]) <= temporal.asOf
                      /\ \A x \in analysis.items :
                            x.role = outcomes[i].role => x.confirmed <= Len(outcomes[i].rows)
    BY DEF NothingFromTheFuture, Assessed
  <2>1. /\ RoleRank(outcomes[i].role) < RoleRank(outcomes[j].role)
             => CoverageEnd(outcomes[i]) <= CoverageEnd(outcomes[j])
        /\ CoverageEnd(outcomes[i]) <= temporal.asOf
    BY CoverageOrders
  <2>2. /\ \A a, b \in Used : outcomes[a].role = outcomes[b].role => a = b
        /\ analysis = AnalyseMultiTimeframe(Views)
    BY DEF RequestInv, ViewsOk
  <2>3. ASSUME NEW x \in analysis.items, x.role = outcomes[i].role
        PROVE  x.confirmed <= Len(outcomes[i].rows)
    <3>1. analysis.items = UNION {BuildTimeframeEvidence(Views[r]) : r \in DOMAIN Views}
      BY <2>2 DEF AnalyseMultiTimeframe
    <3>2. PICK r \in DOMAIN Views : x \in BuildTimeframeEvidence(Views[r])
      BY <2>3, <3>1
    <3>3. PICK k \in Used : outcomes[k].role = r /\ Views[r] = View(outcomes[k])
      BY <2>2, <3>2, ViewFacts
    <3> DEFINE v == View(outcomes[k])
    <3>4. /\ v.role = outcomes[k].role /\ v.bars = outcomes[k].rows
          /\ v.snap = AnalyseStructure(outcomes[k].rows)
      BY DEF View
    <3>5. IsSequence(outcomes[k].rows) /\ outcomes[k].rows # << >>
      BY <3>3 DEF RequestInv, OutcomeOk, Used
    <3> HIDE DEF v
    <3>6. x.role = v.role /\ x.confirmed <= Len(v.bars)
      BY <3>2, <3>3, <3>4, <3>5, EvidenceDates DEF v
    <3>7. k = i
      BY <2>2, <2>3, <3>4, <3>6
    <3> QED BY <3>4, <3>6, <3>7
  <2> QED BY <2>1, <2>3
<1> QED BY <1>1, RequestInvariant, PTL

-----------------------------------------------------------------------------
(***************************************************************************)
(* Money.  A floor division never gives more than there is.                *)
(***************************************************************************)

\* No part of a quotient takes more than was divided.
LEMMA QuotientFits ==
    ASSUME NEW n \in Int, NEW d \in Int, d > 0, NEW q \in Int, q <= n \div d
    PROVE  q * d <= n
<1> DEFINE m == n \div d
<1>1. m \in Int /\ m * d <= n
  BY Z3
<1>2. q <= m
  OBVIOUS
<1> HIDE DEF m
<1>3. q * d <= m * d
  BY <1>1, <1>2, Z3
<1>4. q * d \in Int /\ m * d \in Int
  BY <1>1
<1> QED BY <1>1, <1>3, <1>4

\* The least of a few numbers is one of them and above none.
LEMMA LeastBound ==
    ASSUME NEW x \in Int, NEW y \in Int, NEW S, S = {} \/ \E z \in Int : S = {z}
    PROVE  LET T == {x, y} \cup S
           IN  Risk!Min(T) \in T /\ Risk!Min(T) <= x /\ Risk!Min(T) <= y
<1> DEFINE T == {x, y} \cup S
<1>1. \E m \in T : \A k \in T : m <= k
  <2>1. CASE S = {}
    BY <2>1
  <2>2. CASE \E z \in Int : S = {z}
    <3>1. PICK z \in Int : S = {z}
      BY <2>2
    <3>2. T = {x, y, z}
      BY <3>1
    <3>3. \/ x <= y /\ x <= z
          \/ y <= x /\ y <= z
          \/ z <= x /\ z <= y
      BY <3>1
    <3> HIDE DEF T
    <3> QED BY <3>1, <3>2, <3>3
  <2> QED BY <2>1, <2>2
<1>2. x \in T /\ y \in T
  OBVIOUS
<1> HIDE DEF T
<1>3. Risk!Min(T) \in T /\ \A k \in T : Risk!Min(T) <= k
  BY <1>1 DEF Risk!Min
<1> QED BY <1>2, <1>3 DEF T

\* The budget of a valid policy, and what it is divided by.
LEMMA PolicyNumbers ==
    ASSUME NEW p, NEW a, Risk!ValidPolicy(p), Risk!NumericPolicy(p), Risk!NumericAccount(a)
    PROVE  /\ Risk!Denominator(p) \in Int /\ Risk!Denominator(p) > 0
           /\ Risk!RiskAmount(p, a.equity) \in Int
<1>1. a.equity \in Int
  BY DEF Risk!NumericAccount
<1>2. CASE p.mode = "FIXED"
  <2>1. p.fixed \in Int
    BY <1>2 DEF Risk!ValidPolicy, Risk!NumericPolicy
  <2> QED BY <1>2, <2>1 DEF Risk!Denominator, Risk!RiskAmount
<1>3. CASE p.mode # "FIXED"
  <2>1. /\ p.fraction[1] \in Int /\ p.fraction[2] \in Int
        /\ 0 < p.fraction[1] /\ p.fraction[1] <= p.fraction[2]
    BY <1>3 DEF Risk!ValidPolicy, Risk!NumericPolicy
  <2> QED BY <1>1, <1>3, <2>1 DEF Risk!Denominator, Risk!RiskAmount
<1> QED BY <1>2, <1>3

\* An allowed size is what the bounds leave: positive, within the risk budget
\* and within the free margin.
LEMMA AllowedSize ==
    ASSUME NEW direction, NEW entry \in Int, NEW stop \in Int, NEW c, NEW a, NEW p,
           Risk!ValidContract(c), Risk!NumericContract(c),
           Risk!ValidAccount(a), Risk!NumericAccount(a),
           Risk!ValidPolicy(p), Risk!NumericPolicy(p),
           Risk!SizeForProduct(direction, entry, stop, c, a, p).outcome = "ALLOWED"
    PROVE  LET units == Risk!SizeForProduct(direction, entry, stop, c, a, p).allowed
               distance == Risk!StopDistance(direction, entry, stop)
           IN  /\ units \in Int /\ units > 0
               /\ direction \in {"LONG", "SHORT"}
               /\ distance \in Int /\ distance > 0
               /\ distance = IF direction = "LONG" THEN entry - stop ELSE stop - entry
               /\ c.multiplier.authoritative
               /\ Risk!MarginFeasibility(c) = "KNOWN"
               /\ units <= Risk!RiskAmount(p, a.equity)
                             \div (distance * c.multiplier.value * Risk!Denominator(p))
               /\ units <= Risk!AvailableForNew(a) \div c.margin.value
<1> DEFINE distance == Risk!StopDistance(direction, entry, stop)
           tick == Risk!TickFeasibility(c, entry, stop)
           steps == distance * c.multiplier.value * Risk!Denominator(p)
           byRisk == Risk!FloorDivide(Risk!RiskAmount(p, a.equity), steps)
           byMargin == IF Risk!MarginFeasibility(c) = "KNOWN" THEN Risk!MarginCapacity(c, a)
                       ELSE None
           sized == Risk!SizeForProduct(direction, entry, stop, c, a, p)
<1>1. \A b, m, k : Risk!Sizing("INVALID", b, m, k).outcome # "ALLOWED"
      /\ Risk!Invalid.outcome # "ALLOWED"
  BY DEF Risk!Sizing, Risk!Invalid
<1>2. /\ direction \in {"LONG", "SHORT"} /\ distance # None
      /\ c.multiplier.authoritative
      /\ sized = Risk!SizeKnown(c, tick, byRisk, byMargin, p.cap)
  BY <1>1 DEF Risk!SizeForProduct
<1>3. distance \in Int /\ distance > 0
      /\ distance = IF direction = "LONG" THEN entry - stop ELSE stop - entry
  BY <1>2 DEF Risk!StopDistance
<1> HIDE DEF distance, tick
<1>4. c.multiplier.value \in Int /\ c.multiplier.value > 0
  BY DEF Risk!ValidContract, Risk!NumericContract
<1>5. /\ Risk!Denominator(p) \in Int /\ Risk!Denominator(p) > 0
      /\ Risk!RiskAmount(p, a.equity) \in Int
  BY PolicyNumbers
<1>6. steps \in Int /\ steps > 0
  <2>1. distance * c.multiplier.value \in Int /\ distance * c.multiplier.value > 0
    BY <1>3, <1>4, Z3
  <2> QED BY <1>5, <2>1, Z3
<1> HIDE DEF steps
<1>7. byRisk = Risk!RiskAmount(p, a.equity) \div steps /\ byRisk \in Int
  BY <1>5, <1>6 DEF Risk!FloorDivide
<1> HIDE DEF byRisk, sized
<1>8. \A outcomeOf, b, m, k : /\ Risk!Sizing(outcomeOf, b, m, k).outcome = outcomeOf
                              /\ Risk!Sizing(outcomeOf, b, m, k).allowed = b
  BY DEF Risk!Sizing
<1> DEFINE caps == IF p.cap = None THEN {} ELSE {p.cap}
<1>9. /\ byMargin # None
      /\ sized.allowed = Risk!Min({byRisk, byMargin} \cup caps)
      /\ ~(Risk!Min({byRisk, byMargin} \cup caps) <= 0)
  <2> HIDE DEF byMargin
  <2> QED BY <1>2, <1>8 DEF Risk!SizeKnown, sized
<1>10. /\ Risk!MarginFeasibility(c) = "KNOWN" /\ byMargin = Risk!MarginCapacity(c, a)
  BY <1>9
<1>11. byMargin = Risk!AvailableForNew(a) \div c.margin.value /\ byMargin \in Int
  <2>1. c.margin # None /\ c.margin.value \in Int /\ c.margin.value > 0
    BY <1>10 DEF Risk!MarginFeasibility, Risk!ValidContract, Risk!NumericContract
  <2>2. Risk!AvailableForNew(a) \in Int
    BY DEF Risk!AvailableForNew, Risk!FreeMargin, Risk!NumericAccount
  <2> HIDE DEF byMargin
  <2> QED BY <1>10, <2>1, <2>2 DEF Risk!MarginCapacity, Risk!FloorDivide
<1> HIDE DEF byMargin
<1>12. caps = {} \/ \E z \in Int : caps = {z}
  BY DEF Risk!NumericPolicy
<1> HIDE DEF caps
<1>13. /\ sized.allowed \in {byRisk, byMargin} \cup caps
       /\ sized.allowed <= byRisk /\ sized.allowed <= byMargin
  <2> DEFINE T == {byRisk, byMargin} \cup caps
  <2>1. Risk!Min(T) \in T /\ Risk!Min(T) <= byRisk /\ Risk!Min(T) <= byMargin
    BY <1>7, <1>11, <1>12, LeastBound
  <2>2. sized.allowed = Risk!Min(T)
    BY <1>9
  <2> HIDE DEF T
  <2>3. sized.allowed \in T /\ sized.allowed <= byRisk /\ sized.allowed <= byMargin
    BY <2>1, <2>2
  <2> QED BY <2>3 DEF T
<1>14. sized.allowed \in Int
  BY <1>7, <1>11, <1>12, <1>13
<1>15. sized.allowed > 0
  BY <1>9, <1>14
<1> QED BY <1>2, <1>3, <1>7, <1>10, <1>11, <1>13, <1>14, <1>15 DEF sized, distance, steps

\* One request's money side is what its own fields give.
MoneyInv == risk # None => request \in Requests /\ risk = AssessRisk(request)

\* The request stays as it came, and so does what was made of its money.
LEMMA MoneyInvariant == Spec => []MoneyInv
<1>1. Init => MoneyInv
  BY DEF Init, MoneyInv
<1>2. RequestInv /\ MoneyInv /\ [Next]_vars => MoneyInv'
  <2> SUFFICES ASSUME RequestInv, MoneyInv, [Next]_vars PROVE MoneyInv'
    OBVIOUS
  <2>1. CASE UNCHANGED <<request, risk>>
    BY <2>1 DEF MoneyInv
  <2>2. CASE AssessMoney
    <3>1. request' = request /\ risk' = AssessRisk(request) /\ stage = "MONEY"
      BY <2>2 DEF AssessMoney
    <3>2. request \in Requests
      BY <3>1 DEF RequestInv
    <3> QED BY <3>1, <3>2 DEF MoneyInv
  <2>3. CASE RefuseRequest
    BY <2>1, <2>3 DEF RefuseRequest, Refuse
  <2>4. CASE ReadDataset
    BY <2>1, <2>4 DEF ReadDataset, Refuse
  <2>5. CASE CheckCoverage
    BY <2>1, <2>5 DEF CheckCoverage
  <2>6. CASE AnalyseAcross
    BY <2>1, <2>6 DEF AnalyseAcross, Refuse
  <2>7. CASE AssessSuitability
    BY <2>1, <2>7 DEF AssessSuitability
  <2>8. CASE Explain
    BY <2>1, <2>8 DEF Explain
  <2>9. CASE \E direction \in {"BULLISH", "BEARISH"}, known \in Evidences : Review(direction, known)
    BY <2>1, <2>9 DEF Review
  <2>10. CASE \E bar \in NextBars : CloseBar(bar)
    BY <2>1, <2>10 DEF CloseBar, served
  <2>11. CASE UNCHANGED vars
    BY <2>1, <2>11 DEF vars
  <2> QED BY <2>2, <2>3, <2>4, <2>5, <2>6, <2>7, <2>8, <2>9, <2>10, <2>11 DEF Next, Over
<1> QED BY <1>1, <1>2, RequestInvariant, PTL DEF Spec

\* The engines about a size that is allowed: what it loses at the stop is within
\* the budget, and its margin known and within the free margin.
LEMMA AllowedPlan ==
    ASSUME NEW r \in Requests, NEW made, made = AssessRisk(r),
           made.sizing # None, made.sizing.outcome = "ALLOWED"
    PROVE  LET c == r.contract
               a == r.account
               p == r.policy
               units == made.sizing.allowed
               lost == - Risk!CalculatePnL(made.direction, r.entry, r.stop,
                                           c.multiplier.value, units, [fee |-> None]).gross
               margin == Risk!AssessMargin(c, a, r.entry, units, p, lost)
           IN  /\ units > 0 /\ lost > 0
               /\ lost = Risk!StopDistance(made.direction, r.entry, r.stop)
                           * c.multiplier.value * units
               /\ lost * Risk!Denominator(p) <= Risk!RiskAmount(p, a.equity)
               /\ Risk!Simulate(made.direction, r.entry, c.multiplier.value, units,
                                a.equity, {r.stop}, lost)[r.stop].r = <<-lost, lost>>
               /\ margin.remaining >= 0
               /\ margin.warnings
                    \cap {"MARGIN_DEFICIT", "MARGIN_UNKNOWN", "RISK_LIMIT_EXCEEDED"} = {}
               /\ Risk!BlockingIssues(c) \subseteq {"UNSOURCED_VERIFIED_FACT"}
<1> DEFINE c == r.contract
           a == r.account
           p == r.policy
           d == made.direction
           entry == r.entry
           stop == r.stop
           units == made.sizing.allowed
           distance == Risk!StopDistance(d, entry, stop)
           value == c.multiplier.value
           den == Risk!Denominator(p)
           budget == Risk!RiskAmount(p, a.equity)
           lost == - Risk!CalculatePnL(d, entry, stop, value, units, [fee |-> None]).gross
           margin == Risk!AssessMargin(c, a, entry, units, p, lost)
<1>1. /\ r \in Requests /\ d = IntendedDirection(r)
      /\ IsVerified(c) /\ d # None /\ a # None /\ p # None
      /\ Risk!Calculable(c)
      /\ made.sizing = Risk!SizeForProduct(d, entry, stop, c, a, p)
  BY DEF AssessRisk
<1>2. entry \in Int /\ stop \in Int
  BY <1>1, RequestsAreValid DEF IntendedDirection
<1>3. /\ Risk!ValidContract(c) /\ Risk!NumericContract(c)
      /\ Risk!ValidAccount(a) /\ Risk!NumericAccount(a)
      /\ Risk!ValidPolicy(p) /\ Risk!NumericPolicy(p)
  BY <1>1, RequestsAreValid DEF IsVerified
<1>4. /\ units \in Int /\ units > 0
      /\ d \in {"LONG", "SHORT"}
      /\ distance \in Int /\ distance > 0
      /\ distance = IF d = "LONG" THEN entry - stop ELSE stop - entry
      /\ c.multiplier.authoritative
      /\ Risk!MarginFeasibility(c) = "KNOWN"
      /\ units <= budget \div (distance * value * den)
      /\ units <= Risk!AvailableForNew(a) \div c.margin.value
  BY <1>1, <1>2, <1>3, AllowedSize
<1>5. /\ value \in Int /\ value > 0 /\ a.equity \in Int /\ a.used \in Int
      /\ den \in Int /\ den > 0 /\ budget \in Int
  BY <1>3, PolicyNumbers DEF Risk!ValidContract, Risk!NumericContract, Risk!NumericAccount
<1>6. c.margin # None /\ c.margin.authoritative /\ c.margin.value \in Int /\ c.margin.value > 0
  BY <1>3, <1>4 DEF Risk!MarginFeasibility, Risk!ValidContract, Risk!NumericContract
<1> HIDE DEF c, a, p, d, entry, stop, units, distance, value, den, budget, lost, margin
<1>7. lost = distance * value * units /\ lost \in Int /\ lost > 0
  <2>1. lost = - Risk!GrossPnL(d, entry, stop, value, units)
    BY DEF Risk!CalculatePnL, lost
  <2>2. lost = - ((- distance) * value * units)
    BY <1>2, <1>4, <2>1 DEF Risk!GrossPnL
  <2>3. distance * value \in Int /\ distance * value > 0
    BY <1>4, <1>5, Z3
  <2>4. distance * value * units \in Int /\ distance * value * units > 0
    BY <1>4, <2>3, Z3
  <2>5. - ((- distance) * value * units) = distance * value * units
    BY <1>4, <1>5, Z3
  <2> QED BY <2>2, <2>4, <2>5
<1>8. lost * den <= budget
  <2> DEFINE steps == distance * value * den
  <2>1. distance * value \in Int /\ distance * value > 0
    BY <1>4, <1>5, Z3
  <2>2. steps \in Int /\ steps > 0
    BY <1>5, <2>1, Z3
  <2>3. units <= budget \div steps
    BY <1>4
  <2>4. units * steps = lost * den
    BY <1>4, <1>5, <1>7, Z3
  <2> HIDE DEF steps
  <2>5. units * steps <= budget
    BY <1>4, <1>5, <2>2, <2>3, QuotientFits
  <2> QED BY <2>4, <2>5
<1>9. a.used + c.margin.value * units <= a.equity
  <2>1. Risk!AvailableForNew(a) \in Int /\ a.equity - a.used \in Int
    BY <1>5 DEF Risk!AvailableForNew, Risk!FreeMargin
  <2>2. units * c.margin.value <= Risk!AvailableForNew(a)
    BY <1>4, <1>6, <2>1, QuotientFits
  <2>3. units * c.margin.value \in Int /\ units * c.margin.value > 0
        /\ c.margin.value * units = units * c.margin.value
    BY <1>4, <1>6, Z3
  <2>4. Risk!AvailableForNew(a) = a.equity - a.used
    BY <1>5, <2>1, <2>2, <2>3 DEF Risk!AvailableForNew, Risk!FreeMargin
  <2> DEFINE m == units * c.margin.value
  <2>5. m \in Int /\ m <= a.equity - a.used /\ c.margin.value * units = m
    BY <2>2, <2>3, <2>4
  <2> HIDE DEF m
  <2> QED BY <1>5, <2>5
<1>10. margin.remaining >= 0
  <2>1. Risk!Authoritative(c.margin) = c.margin.value /\ c.margin.value # None
    BY <1>6, NoneIsNoNumber DEF Risk!Authoritative
  <2>2. c.margin.value * units \in Int
    BY <1>4, <1>6
  <2>3. a.used + c.margin.value * units \in Int /\ a.used + c.margin.value * units # None
    BY <1>5, <2>2, NoneIsNoNumber
  <2>4. margin.remaining = a.equity - (a.used + c.margin.value * units)
    BY <1>4, <2>1, <2>3 DEF Risk!AssessMargin, margin
  <2> DEFINE m == c.margin.value * units
  <2>5. m \in Int /\ a.used + m <= a.equity /\ margin.remaining = a.equity - (a.used + m)
    BY <1>9, <2>2, <2>4
  <2> HIDE DEF m
  <2> QED BY <1>5, <2>5
<1>11. margin.warnings \cap {"MARGIN_DEFICIT", "MARGIN_UNKNOWN", "RISK_LIMIT_EXCEEDED"} = {}
  <2>1. ~Risk!InDeficit(a)
    <3> DEFINE m == c.margin.value * units
    <3>1. m \in Int /\ m > 0 /\ a.used + m <= a.equity
      BY <1>4, <1>6, <1>9, Z3
    <3> HIDE DEF m
    <3> QED BY <1>5, <3>1 DEF Risk!InDeficit, Risk!FreeMargin
  <2>2. ~(lost * den > budget)
    BY <1>5, <1>7, <1>8
  <2> QED BY <1>4, <2>1, <2>2 DEF Risk!AssessMargin, margin, den, budget
<1>12. Risk!Simulate(d, entry, value, units, a.equity, {stop}, lost)[stop].r = <<-lost, lost>>
  <2>1. lost # None /\ lost # 0
    BY <1>7, NoneIsNoNumber
  <2>2. Risk!GrossPnL(d, entry, stop, value, units) = - lost
    <3>1. lost = - Risk!GrossPnL(d, entry, stop, value, units)
      BY DEF Risk!CalculatePnL, lost
    <3>2. Risk!GrossPnL(d, entry, stop, value, units) \in Int
      BY <1>2, <1>4, <1>5 DEF Risk!GrossPnL
    <3> QED BY <3>1, <3>2
  <2> QED BY <2>1, <2>2 DEF Risk!Simulate, Risk!Ratio
<1>13. Risk!BlockingIssues(c) \subseteq {"UNSOURCED_VERIFIED_FACT"}
  <2>1. "TICK_VALUE_INCONSISTENT" \notin Risk!BlockingIssues(c)
    BY <1>1 DEF Risk!BlockingIssues, Risk!ContractIssues, Risk!Calculable, Risk!ProvenanceIssues
  <2>2. "UNVERIFIED_MULTIPLIER" \notin Risk!BlockingIssues(c)
    <3>1. Risk!TickValueIssue(c) \in {None, "TICK_VALUE_UNCHECKABLE", "TICK_VALUE_INCONSISTENT"}
      BY DEF Risk!TickValueIssue
    <3> QED BY <1>4, <3>1 DEF Risk!BlockingIssues, Risk!ContractIssues, Risk!ProvenanceIssues
  <2> QED BY <2>1, <2>2 DEF Risk!BlockingIssues
<1> QED BY <1>4, <1>7, <1>8, <1>10, <1>11, <1>12, <1>13
        DEF c, a, p, d, entry, stop, units, distance, value, den, budget, lost, margin

\* EnginesAgree: whatever the contract, the account, the policy and the plan, a
\* size that is allowed loses no more at its stop than the policy budgets, by
\* the profit-and-loss rule and by the simulator, and its margin is known and
\* within the free margin (size_for_product against margin, pnl and whatif).
THEOREM EnginesAgree == Spec => []MoneyEnginesAgree
<1>1. MoneyInv => MoneyEnginesAgree
  BY AllowedPlan DEF MoneyInv, MoneyEnginesAgree
<1> QED BY <1>1, MoneyInvariant, PTL

-----------------------------------------------------------------------------
(***************************************************************************)
(* The four tellers.  Finite sets of zones and contradictions become lists *)
(* of explanations; one of a block comes last and is the only one of its   *)
(* topic.                                                                  *)
(***************************************************************************)

\* The values of a function on a finite set are finitely many.
LEMMA FiniteValues ==
    ASSUME NEW f, IsFiniteSet(DOMAIN f)
    PROVE  IsFiniteSet({f[x] : x \in DOMAIN f})
<1> DEFINE T == {f[x] : x \in DOMAIN f}
           g == [x \in DOMAIN f |-> f[x]]
<1>1. g \in Surjection(DOMAIN f, T)
  BY DEF Surjection
<1> QED BY <1>1, FS_Surjection

\* A set of a few elements is finite.
LEMMA FewAreFinite ==
    ASSUME NEW a, NEW b, NEW c, NEW d, NEW e
    PROVE  IsFiniteSet({a, b, c}) /\ IsFiniteSet({a, b, c, d}) /\ IsFiniteSet({a, b, c, d, e})
<1>1. IsFiniteSet({} \cup {a})
  BY FS_EmptySet, FS_AddElement
<1>2. IsFiniteSet(({} \cup {a}) \cup {b})
  BY <1>1, FS_AddElement
<1>3. IsFiniteSet((({} \cup {a}) \cup {b}) \cup {c})
  BY <1>2, FS_AddElement
<1>4. {a, b, c} = (({} \cup {a}) \cup {b}) \cup {c}
  OBVIOUS
<1>5. IsFiniteSet({a, b, c})
  BY <1>3, <1>4
<1>6. IsFiniteSet({a, b, c} \cup {d})
  BY <1>5, FS_AddElement
<1>7. {a, b, c, d} = {a, b, c} \cup {d}
  OBVIOUS
<1>8. IsFiniteSet({a, b, c, d} \cup {e})
  BY <1>6, <1>7, FS_AddElement
<1>9. {a, b, c, d, e} = {a, b, c, d} \cup {e}
  OBVIOUS
<1> QED BY <1>5, <1>6, <1>7, <1>8, <1>9

\* The four roles, and where each stands.
LEMMA FourRoles ==
    /\ RoleSet = {"REGIME", "BIAS", "SETUP", "ENTRY"}
    /\ \A r \in RoleSet : RoleRank(r) \in 1..4
<1>1. DOMAIN Roles = 1..4
  BY DEF Roles
<1>2. /\ Roles[1] = "REGIME" /\ Roles[2] = "BIAS" /\ Roles[3] = "SETUP" /\ Roles[4] = "ENTRY"
  BY DEF Roles
<1>3. RoleSet = {Roles[1], Roles[2], Roles[3], Roles[4]}
  BY <1>1 DEF RoleSet
<1>4. \A r \in RoleSet : \E i \in DOMAIN Roles : Roles[i] = r
  BY DEF RoleSet
<1>5. \A r \in RoleSet : RoleRank(r) \in DOMAIN Roles
  BY <1>4 DEF RoleRank
<1> QED BY <1>1, <1>2, <1>3, <1>5

\* A list of the elements of a finite set.
LEMMA Listing ==
    ASSUME NEW S, IsFiniteSet(S)
    PROVE  Seqs!SetToSeq(S) \in Seq(S)
<1>1. Cardinality(S) \in Nat /\ ExistsBijection(1..Cardinality(S), S)
  BY FS_CardinalityType
<1>2. PICK f : f \in Bijection(1..Cardinality(S), S)
  BY <1>1 DEF ExistsBijection
<1>3. f \in [1..Cardinality(S) -> S] /\ Seqs!IsInjective(f)
  BY <1>2 DEF Bijection, Injection, IsInjective, Seqs!IsInjective
<1>4. Seqs!Cardinality(S) = Cardinality(S)
  BY DEF Seqs!Cardinality, Cardinality
<1>5. Seqs!SetToSeq(S) \in [1..Cardinality(S) -> S]
  BY <1>3, <1>4 DEF Seqs!SetToSeq
<1> QED BY <1>1, <1>5

\* What a list joined of two holds.
LEMMA Joined ==
    ASSUME NEW A, NEW B, NEW a \in Seq(A), NEW b \in Seq(B)
    PROVE  a \o b \in Seq(A \cup B)
<1>1. a \in Seq(A \cup B) /\ b \in Seq(A \cup B)
  OBVIOUS
<1> QED BY <1>1, ConcatProperties

\* The contradictions of up to four timeframes are finitely many.
LEMMA FiniteContradictions ==
    ASSUME NEW views, NEW items, DOMAIN views \subseteq RoleSet
    PROVE  IsFiniteSet(DetectContradictions(views, items).contradictions)
<1> DEFINE types == {"INTRA_TIMEFRAME_CONFLICT", "EVIDENCE_CONFLICT", "HIGHER_TIMEFRAME_CONFLICT",
                     "SETUP_AGAINST_BIAS", "LOWER_TIMEFRAME_REVERSAL"}
           severities == {"MINOR", "MODERATE", "MAJOR"}
           readings == [r \in DOMAIN views |-> Read(views[r], items)]
           entry == EntryRole(views, readings)
           P == (types \X severities) \X SUBSET RoleSet
           f == [p \in P |-> Contradiction(p[1][1], p[1][2], p[2])]
           all == {f[p] : p \in DOMAIN f}
<1>1. IsFiniteSet(all)
  <2>1. IsFiniteSet(types)
    BY FewAreFinite
  <2>2. IsFiniteSet(severities)
    BY FewAreFinite
  <2>3. IsFiniteSet(RoleSet)
    BY FewAreFinite, FourRoles
  <2> HIDE DEF types, severities
  <2>4. IsFiniteSet(P)
    BY <2>1, <2>2, <2>3, FS_Product, FS_SUBSET
  <2>5. DOMAIN f = P
    OBVIOUS
  <2> HIDE DEF P, f
  <2> QED BY <2>4, <2>5, FiniteValues
<1>2. ASSUME NEW t \in types, NEW s \in severities, NEW R \in SUBSET RoleSet
      PROVE  Contradiction(t, s, R) \in all
  <2>1. <<<<t, s>>, R>> \in P
    OBVIOUS
  <2>2. f[<<<<t, s>>, R>>] = Contradiction(t, s, R)
    BY <2>1
  <2> HIDE DEF P
  <2> QED BY <2>1, <2>2
<1> HIDE DEF P, f, all
<1>3. IntraTimeframe(readings) \subseteq all
  <2>1. \A r \in DOMAIN views : Contradiction("INTRA_TIMEFRAME_CONFLICT", "MODERATE", {r}) \in all
    BY <1>2
  <2> QED BY <2>1 DEF IntraTimeframe
<1>4. ConflictingEvidence(readings, items) \subseteq all
  <2>1. \A r \in DOMAIN views : Contradiction("EVIDENCE_CONFLICT", "MINOR", {r}) \in all
    BY <1>2
  <2> QED BY <2>1 DEF ConflictingEvidence
<1>5. HigherTimeframe(readings) \subseteq all /\ SetupAgainstBias(readings) \subseteq all
  <2>1. {"REGIME", "BIAS"} \in SUBSET RoleSet /\ {"BIAS", "SETUP"} \in SUBSET RoleSet
    BY FourRoles
  <2>2. /\ Contradiction("HIGHER_TIMEFRAME_CONFLICT", "MAJOR", {"REGIME", "BIAS"}) \in all
        /\ Contradiction("SETUP_AGAINST_BIAS", "MODERATE", {"BIAS", "SETUP"}) \in all
    BY <1>2, <2>1
  <2> QED BY <2>2 DEF HigherTimeframe, SetupAgainstBias, Against
<1>6. entry.contradictions \subseteq all
  <2> DEFINE higher == {r \in DOMAIN readings \ {"ENTRY"} : IsDirection(readings[r].direction)}
  <2>1. {"ENTRY"} \cup higher \subseteq RoleSet
    BY FourRoles
  <2>2. Contradiction("LOWER_TIMEFRAME_REVERSAL", "MINOR", {"ENTRY"} \cup higher) \in all
    BY <1>2, <2>1
  <2>3. entry.contradictions
          \subseteq {Contradiction("LOWER_TIMEFRAME_REVERSAL", "MINOR", {"ENTRY"} \cup higher)}
    BY DEF EntryRole
  <2> QED BY <2>2, <2>3
<1>7. DetectContradictions(views, items).contradictions
        = IntraTimeframe(readings) \cup ConflictingEvidence(readings, items)
            \cup HigherTimeframe(readings) \cup SetupAgainstBias(readings) \cup entry.contradictions
  BY DEF DetectContradictions
<1> HIDE DEF readings, entry
<1>8. DetectContradictions(views, items).contradictions \in SUBSET all
  BY <1>3, <1>4, <1>5, <1>6, <1>7
<1> QED BY <1>1, <1>8, FS_Subset

\* A series has finitely many swings.
LEMMA FiniteSwings ==
    ASSUME NEW bars, Len(bars) \in Nat
    PROVE  IsFiniteSet(DetectSwings(bars))
<1> DEFINE highs == {j \in InnerBars(bars) : IsPivotHigh(HighsOf(bars), j)}
           lows == {j \in InnerBars(bars) : IsPivotLow(LowsOf(bars), j)}
           f == [i \in highs |-> Swing("HIGH", i, bars[i].high)]
           g == [i \in lows |-> Swing("LOW", i, bars[i].low)]
<1>1. IsFiniteSet(InnerBars(bars))
  <2>1. Left + 1 \in Int /\ Len(bars) - Right \in Int
    BY StructureConfig DEF ValidConfig
  <2> QED BY <2>1, FS_Interval DEF InnerBars
<1>2. IsFiniteSet(highs) /\ IsFiniteSet(lows)
  BY <1>1, FS_Subset
<1>3. DOMAIN f = highs /\ DOMAIN g = lows
  OBVIOUS
<1>4. DetectSwings(bars) = {f[i] : i \in DOMAIN f} \cup {g[i] : i \in DOMAIN g}
  BY DEF DetectSwings
<1> HIDE DEF f, g
<1> QED BY <1>2, <1>3, <1>4, FiniteValues, FS_Union

\* Clusters of finitely many swings make finitely many zones.
LEMMA FiniteZonesFrom ==
    ASSUME NEW bars, NEW S, IsFiniteSet(S), NEW kind, NEW atr, NEW limit
    PROVE  IsFiniteSet(ZonesFrom(bars, S, kind, atr, limit))
<1> DEFINE C == Clusters(S, atr)
           f == [c \in C |-> BuildZone(bars, c, kind, atr, limit)]
<1>1. C \in SUBSET SUBSET S
  BY DEF Clusters
<1>2. IsFiniteSet(C)
  BY <1>1, FS_SUBSET, FS_Subset
<1>3. DOMAIN f = C /\ ZonesFrom(bars, S, kind, atr, limit) = {f[c] : c \in DOMAIN f}
  BY DEF ZonesFrom
<1> HIDE DEF f, C
<1> QED BY <1>2, <1>3, FiniteValues

LEMMA FiniteZones ==
    ASSUME NEW bars, Len(bars) \in Nat
    PROVE  IsFiniteSet(AnalyseStructure(bars).zones)
<1> DEFINE swings == DetectSwings(bars)
           visible == KnownAt(swings, Len(bars))
           atr == LastDefined(bars, Len(bars))
<1>1. IsFiniteSet(visible)
  BY FiniteSwings, FS_Subset DEF KnownAt
<1>2. IsFiniteSet(OfType(visible, "LOW")) /\ IsFiniteSet(OfType(visible, "HIGH"))
  BY <1>1, FS_Subset DEF OfType
<1>3. AnalyseStructure(bars).zones = BuildZones(bars, swings, Len(bars))
  BY DEF AnalyseStructure
<1> HIDE DEF swings
<1>4. \/ BuildZones(bars, swings, Len(bars)) = {}
      \/ BuildZones(bars, swings, Len(bars))
           = ZonesFrom(bars, OfType(visible, "LOW"), "SUPPORT", atr, Len(bars))
               \cup ZonesFrom(bars, OfType(visible, "HIGH"), "RESISTANCE", atr, Len(bars))
  BY DEF BuildZones
<1> HIDE DEF visible, atr
<1>5. \A kind, S : IsFiniteSet(S) => IsFiniteSet(ZonesFrom(bars, S, kind, atr, Len(bars)))
  BY FiniteZonesFrom
<1>6. IsFiniteSet(ZonesFrom(bars, OfType(visible, "LOW"), "SUPPORT", atr, Len(bars))
                    \cup ZonesFrom(bars, OfType(visible, "HIGH"), "RESISTANCE", atr, Len(bars)))
  BY <1>2, <1>5, FS_Union
<1> QED BY <1>3, <1>4, <1>6, FS_EmptySet

-----------------------------------------------------------------------------
(***************************************************************************)
(* Explanations.  A block is explained last, if at all.                    *)
(***************************************************************************)

\* A list of explanations of anything but a block.
OtherTopics(list) == \E H : list \in Seq(H) /\ \A x \in H : x.topic # "NO_TRADE_BLOCK"

LEMMA OthersFrom ==
    ASSUME NEW H, NEW list \in Seq(H), \A x \in H : x.topic # "NO_TRADE_BLOCK"
    PROVE  OtherTopics(list)
BY DEF OtherTopics

LEMMA OthersJoined ==
    ASSUME NEW a, NEW b, OtherTopics(a), OtherTopics(b)
    PROVE  OtherTopics(a \o b)
<1>1. PICK A : a \in Seq(A) /\ \A x \in A : x.topic # "NO_TRADE_BLOCK"
  BY DEF OtherTopics
<1>2. PICK B : b \in Seq(B) /\ \A x \in B : x.topic # "NO_TRADE_BLOCK"
  BY DEF OtherTopics
<1>3. a \o b \in Seq(A \cup B)
  BY <1>1, <1>2, Joined
<1>4. \A x \in A \cup B : x.topic # "NO_TRADE_BLOCK"
  BY <1>1, <1>2
<1> QED BY <1>3, <1>4 DEF OtherTopics

\* Every zone is a support or a resistance.
LEMMA ZoneKinds ==
    ASSUME NEW bars, NEW z \in AnalyseStructure(bars).zones
    PROVE  z.kind \in {"SUPPORT", "RESISTANCE"}
<1> DEFINE swings == DetectSwings(bars)
<1>1. z \in BuildZones(bars, swings, Len(bars))
  BY DEF AnalyseStructure
<1> HIDE DEF swings
<1>2. \A S, kind, atr, limit : \A y \in ZonesFrom(bars, S, kind, atr, limit) : y.kind = kind
  <2>1. \A C, kind, atr, limit : BuildZone(bars, C, kind, atr, limit).kind = kind
    BY DEF BuildZone
  <2> QED BY <2>1 DEF ZonesFrom
<1> QED BY <1>1, <1>2 DEF BuildZones

\* What an answer says of anything but a block comes first.
LEMMA BlockComesLast ==
    ASSUME NEW a, a # None, NEW zones, NEW sizing, NEW tick, NEW vetoes,
           IsFiniteSet(a.report.contradictions), IsFiniteSet(zones),
           \A z \in zones : z.kind \in {"SUPPORT", "RESISTANCE"}
    PROVE  \E list : /\ OtherTopics(list)
                     /\ BuildWhy(a, zones, sizing, tick, vetoes)
                          = Deduplicate(list \o BlockExplanations(vetoes))
<1> DEFINE l1 == <<WhyDirection(a, "BULLISH"), WhyDirection(a, "BEARISH")>>
           l2 == CaseExplanations(a.scenarios["BULLISH"], "BULLISH")
           l3 == CaseExplanations(a.scenarios["BEARISH"], "BEARISH")
           l4 == <<WhyScenarioState("NEUTRAL", a.neutral, << >>), WhyPendingConfirmation("NEUTRAL", {})>>
           l5 == Seqs!SetToSeq({WhyContradiction(c) : c \in a.report.contradictions})
           l6 == ZoneExplanations(zones)
           l7 == <<SizingExplanation(sizing, tick)>>
<1>1. \A topic, subject, reasons : /\ Explanation(topic, subject, reasons).topic = topic
                                   /\ Unavailable(topic, subject).topic = topic
  BY DEF Explanation, Unavailable
<1>2. \A d : WhyDirection(a, d).topic # "NO_TRADE_BLOCK"
  BY <1>1 DEF WhyDirection
<1>3. \A name, state, requirements : WhyScenarioState(name, state, requirements).topic # "NO_TRADE_BLOCK"
  BY <1>1 DEF WhyScenarioState
<1>4. \A name, pending : WhyPendingConfirmation(name, pending).topic # "NO_TRADE_BLOCK"
  BY <1>1 DEF WhyPendingConfirmation
<1>5. \A case, d : /\ WhySetupQuality(case, d).topic # "NO_TRADE_BLOCK"
                   /\ WhyEntryQuality(case).topic # "NO_TRADE_BLOCK"
  BY <1>1 DEF WhySetupQuality, WhyEntryQuality
<1>6. SizingExplanation(sizing, tick).topic # "NO_TRADE_BLOCK"
  BY <1>1 DEF SizingExplanation, WhyPositionSize
<1>7. OtherTopics(l1)
  <2>1. l1 \in Seq({WhyDirection(a, "BULLISH"), WhyDirection(a, "BEARISH")})
    OBVIOUS
  <2>2. \A x \in {WhyDirection(a, "BULLISH"), WhyDirection(a, "BEARISH")} : x.topic # "NO_TRADE_BLOCK"
    BY <1>2
  <2> HIDE DEF l1
  <2> QED BY <2>1, <2>2, OthersFrom
<1>8. \A case, d : OtherTopics(CaseExplanations(case, d))
  <2> TAKE case, d
  <2> DEFINE w1 == WhyScenarioState(d, case.state, case.requirements)
             w2 == WhyPendingConfirmation(d, case.outstanding)
             w3 == WhySetupQuality(case, d)
             w4 == WhyEntryQuality(case)
  <2>1. CaseExplanations(case, d) = <<w1, w2, w3, w4>>
    BY DEF CaseExplanations
  <2> DEFINE H == {w1, w2, w3, w4}
  <2>2. \A x \in H : x.topic # "NO_TRADE_BLOCK"
    BY <1>3, <1>4, <1>5
  <2> HIDE DEF w1, w2, w3, w4
  <2>3. <<w1, w2, w3, w4>> \in Seq(H)
    OBVIOUS
  <2> HIDE DEF H
  <2>4. OtherTopics(<<w1, w2, w3, w4>>)
    BY <2>2, <2>3, OthersFrom
  <2> QED BY <2>1, <2>4
<1>9. OtherTopics(l4)
  <2> DEFINE w1 == WhyScenarioState("NEUTRAL", a.neutral, << >>)
             w2 == WhyPendingConfirmation("NEUTRAL", {})
  <2> DEFINE H == {w1, w2}
  <2>1. \A x \in H : x.topic # "NO_TRADE_BLOCK"
    BY <1>3, <1>4
  <2> HIDE DEF w1, w2
  <2>2. <<w1, w2>> \in Seq(H)
    OBVIOUS
  <2> HIDE DEF H
  <2>3. OtherTopics(<<w1, w2>>)
    BY <2>1, <2>2, OthersFrom
  <2> QED BY <2>3 DEF w1, w2
<1>10. OtherTopics(l5)
  <2> DEFINE f == [c \in a.report.contradictions |-> WhyContradiction(c)]
             S == {f[c] : c \in DOMAIN f}
  <2>1. S = {WhyContradiction(c) : c \in a.report.contradictions}
    OBVIOUS
  <2>2. DOMAIN f = a.report.contradictions
    OBVIOUS
  <2>3. \A x \in S : x.topic # "NO_TRADE_BLOCK"
    <3>1. \A c : WhyContradiction(c).topic # "NO_TRADE_BLOCK"
      BY <1>1 DEF WhyContradiction
    <3> HIDE DEF S
    <3> QED BY <2>1, <3>1
  <2> HIDE DEF f
  <2>4. IsFiniteSet(S)
    BY <2>2, FiniteValues
  <2> HIDE DEF S
  <2>5. Seqs!SetToSeq(S) \in Seq(S)
    BY <2>4, Listing
  <2>6. OtherTopics(Seqs!SetToSeq(S))
    BY <2>3, <2>5, OthersFrom
  <2> QED BY <2>1, <2>6
<1>11. OtherTopics(l6)
  <2> DEFINE Stronger(z) == {y \in zones : y.strength > z.strength}
             shown == {x \in zones : Cardinality(Stronger(x)) < 4}
             f == [z \in shown |-> WhyZone(z)]
             S == {f[z] : z \in DOMAIN f}
  <2>1. S = {WhyZone(z) : z \in shown} /\ l6 = Seqs!SetToSeq(S)
    BY DEF ZoneExplanations
  <2>2. DOMAIN f = shown /\ shown \in SUBSET zones
    OBVIOUS
  <2>3. \A x \in S : x.topic # "NO_TRADE_BLOCK"
    <3>1. \A z \in zones : WhyZone(z).topic # "NO_TRADE_BLOCK"
      BY <1>1 DEF WhyZone
    <3> HIDE DEF S, shown
    <3> QED BY <2>1, <2>2, <3>1
  <2> HIDE DEF f, shown
  <2>4. IsFiniteSet(S)
    BY <2>2, FiniteValues, FS_Subset
  <2> HIDE DEF S
  <2>5. Seqs!SetToSeq(S) \in Seq(S)
    BY <2>4, Listing
  <2>6. OtherTopics(Seqs!SetToSeq(S))
    BY <2>3, <2>5, OthersFrom
  <2> QED BY <2>1, <2>6
<1>12. OtherTopics(l7)
  <2> DEFINE w == SizingExplanation(sizing, tick)
  <2> DEFINE H == {w}
  <2>1. \A x \in H : x.topic # "NO_TRADE_BLOCK"
    BY <1>6
  <2> HIDE DEF w
  <2>2. <<w>> \in Seq(H)
    OBVIOUS
  <2> HIDE DEF H
  <2>3. OtherTopics(<<w>>)
    BY <2>1, <2>2, OthersFrom
  <2> QED BY <2>3 DEF w
<1>13. BuildWhy(a, zones, sizing, tick, vetoes)
         = Deduplicate(l1 \o l2 \o l3 \o l4 \o l5 \o l6 \o l7 \o BlockExplanations(vetoes))
  BY DEF BuildWhy
<1>14. OtherTopics(l2) /\ OtherTopics(l3)
  BY <1>8
<1> HIDE DEF l1, l2, l3, l4, l5, l6, l7
<1>15. OtherTopics(l1 \o l2 \o l3 \o l4)
  BY <1>7, <1>9, <1>14, OthersJoined
<1>16. OtherTopics(l1 \o l2 \o l3 \o l4 \o l5 \o l6 \o l7)
  BY <1>10, <1>11, <1>12, <1>15, OthersJoined
<1> QED BY <1>13, <1>16

\* The reasons an answer gives for a block.
BlockReasons(list) ==
    UNION {{x.code : x \in list[i].reasons} :
           i \in {j \in DOMAIN list : list[j].topic = "NO_TRADE_BLOCK"}}

\* Duplicates never cost the one explanation of a block.
LEMMA BlockIsKept ==
    ASSUME NEW list, OtherTopics(list), NEW e, e.topic = "NO_TRADE_BLOCK"
    PROVE  /\ BlockReasons(Deduplicate(list \o <<e>>)) = {x.code : x \in e.reasons}
           /\ BlockReasons(Deduplicate(list \o << >>)) = {}
<1>1. PICK H : list \in Seq(H) /\ \A x \in H : x.topic # "NO_TRADE_BLOCK"
  BY DEF OtherTopics
<1> DEFINE n == Len(list)
<1>2. n \in Nat /\ DOMAIN list = 1..n /\ \A i \in 1..n : list[i].topic # "NO_TRADE_BLOCK"
  BY <1>1
<1>3. BlockReasons(Deduplicate(list \o << >>)) = {}
  <2>1. list \o << >> = list
    BY <1>1, ConcatEmptySeq
  <2> QED BY <1>2, <2>1 DEF BlockReasons, Deduplicate, Restrict
<1>4. BlockReasons(Deduplicate(list \o <<e>>)) = {x.code : x \in e.reasons}
  <2> DEFINE whole == list \o <<e>>
             kept == Deduplicate(whole)
  <2>1. /\ Len(whole) = n + 1 /\ DOMAIN whole = 1..(n + 1)
        /\ \A i \in 1..n : whole[i] = list[i]
        /\ whole[n + 1] = e
    <3>1. list \in Seq(H \cup {e}) /\ <<e>> \in Seq(H \cup {e}) /\ Len(<<e>>) = 1 /\ <<e>>[1] = e
      BY <1>1
    <3> QED BY <1>2, <3>1, ConcatProperties
  <2> HIDE DEF whole
  <2>2. n + 1 \in DOMAIN kept /\ kept[n + 1] = e
    <3>1. \A j \in 1..n : ~Same(whole[j], whole[n + 1])
      BY <1>2, <2>1 DEF Same
    <3>2. n + 1 \in {i \in DOMAIN whole : \A j \in 1..(i - 1) : ~Same(whole[j], whole[i])}
      BY <1>2, <2>1, <3>1
    <3> QED BY <2>1, <3>2 DEF Deduplicate, Restrict
  <2>3. \A i \in DOMAIN kept : i \in 1..(n + 1) /\ kept[i] = whole[i]
    BY <2>1 DEF Deduplicate, Restrict
  <2>4. {j \in DOMAIN kept : kept[j].topic = "NO_TRADE_BLOCK"} = {n + 1}
    BY <1>2, <2>1, <2>2, <2>3
  <2> HIDE DEF kept
  <2>5. BlockReasons(kept) = {x.code : x \in kept[n + 1].reasons}
    BY <2>4 DEF BlockReasons
  <2> QED BY <2>2, <2>5 DEF kept, whole
<1> QED BY <1>3, <1>4

-----------------------------------------------------------------------------
(***************************************************************************)
(* What is told about one answer.                                          *)
(***************************************************************************)

\* What an answer has been told so far was made from its own results.
TellInv ==
    /\ stage \in {"VETO", "ANSWERED", "EXPLAINED"} => risk = AssessRisk(request)
    /\ stage \in Assessed \ {"ACROSS"} /\ Used = {} => analysis = None
    /\ stage \in {"ANSWERED", "EXPLAINED"} /\ analysis # None =>
          veto = [d \in {"BULLISH", "BEARISH"} |-> AssessNoTrade(analysis, d, risk.sizing)]
    /\ why # None => /\ stage = "EXPLAINED"
                     /\ analysis # None => why = BuildWhy(analysis, Zones, risk.sizing, Tick, veto)
    /\ review # None =>
          /\ stage = "EXPLAINED" /\ analysis # None
          /\ \E d \in {"BULLISH", "BEARISH"} : \E evidence :
                review = ReviewTrade(analysis, d, risk.sizing, Tick, MarginOf(risk.sizing),
                                     veto[d], evidence)

LEMMA TellInvariant == Spec => []TellInv
<1>1. Init => TellInv
  BY DEF Init, TellInv, Assessed
<1>2. RequestInv /\ TellInv /\ [Next]_vars => TellInv'
  <2> SUFFICES ASSUME RequestInv, TellInv, [Next]_vars PROVE TellInv'
    OBVIOUS
  <2>1. CASE UNCHANGED served
    <3>1. /\ Used' = Used /\ Zones' = Zones /\ Tick' = Tick
          /\ MarginOf(risk.sizing)' = MarginOf(risk.sizing)
      BY <2>1 DEF Used, Zones, Tick, MarginOf, served
    <3> QED BY <2>1, <3>1 DEF TellInv, served
  <2>2. CASE \E code : Refuse(code) /\ stage # "EXPLAINED"
    BY <2>2 DEF TellInv, Refuse, told, Assessed
  <2>3. CASE RefuseRequest
    BY <2>2, <2>3 DEF RefuseRequest
  <2>4. CASE ReadDataset
    <3>1. CASE \E code : Refuse(code)
      BY <2>2, <2>4, <3>1 DEF ReadDataset
    <3>2. CASE stage' = "READ" /\ why' = why /\ review' = review
      BY <2>4, <3>2 DEF ReadDataset, TellInv, Assessed
    <3> QED BY <2>4, <3>1, <3>2 DEF ReadDataset, told
  <2>5. CASE CheckCoverage
    BY <2>5 DEF CheckCoverage, TellInv, Assessed, told
  <2>6. CASE AnalyseAcross
    <3>1. CASE \E code : Refuse(code)
      BY <2>2, <2>6, <3>1 DEF AnalyseAcross
    <3>2. CASE /\ stage' = "MONEY" /\ why' = why /\ review' = review
               /\ outcomes' = outcomes /\ temporal' = temporal
               /\ Used = {} => analysis' = None
      <4>1. Used' = Used
        BY <3>2 DEF Used
      <4> QED BY <2>6, <3>2, <4>1 DEF AnalyseAcross, TellInv, Assessed
    <3> QED BY <2>6, <3>1, <3>2 DEF AnalyseAcross, told
  <2>7. CASE AssessMoney
    <3>1. Used' = Used
      BY <2>7 DEF AssessMoney, Used
    <3> QED BY <2>7, <3>1 DEF AssessMoney, TellInv, Assessed, told
  <2>8. CASE AssessSuitability
    <3>1. Used' = Used
      BY <2>8 DEF AssessSuitability, Used
    <3> QED BY <2>8, <3>1 DEF AssessSuitability, TellInv, Assessed, told
  <2>9. CASE Explain
    <3>1. Used' = Used /\ Zones' = Zones /\ Tick' = Tick
      BY <2>9 DEF Explain, Used, Zones, Tick
    <3> QED BY <2>9, <3>1 DEF Explain, TellInv, Assessed
  <2>10. ASSUME NEW d \in {"BULLISH", "BEARISH"}, NEW known \in Evidences, Review(d, known)
         PROVE  TellInv'
    <3>1. /\ Used' = Used /\ Zones' = Zones /\ Tick' = Tick
          /\ MarginOf(risk.sizing)' = MarginOf(risk.sizing)
      BY <2>10 DEF Review, Used, Zones, Tick, MarginOf
    <3>2. /\ stage = "EXPLAINED" /\ analysis # None
          /\ \E evidence : review' = ReviewTrade(analysis, d, risk.sizing, Tick,
                                                 MarginOf(risk.sizing), veto[d], evidence)
          /\ UNCHANGED <<request, stage, outcomes, temporal, analysis, risk, veto, why>>
      BY <2>10 DEF Review
    <3> QED BY <3>1, <3>2 DEF TellInv
  <2>11. CASE \E bar \in NextBars : CloseBar(bar)
    BY <2>1, <2>11 DEF CloseBar
  <2>12. CASE UNCHANGED vars
    BY <2>1, <2>12 DEF vars, served
  <2> QED BY <2>3, <2>4, <2>5, <2>6, <2>7, <2>8, <2>9, <2>10, <2>11, <2>12 DEF Next, Over
<1> QED BY <1>1, <1>2, RequestInvariant, PTL DEF Spec

\* What blocks an answer blocks it in both directions.
LEMMA SameBlocks ==
    ASSUME NEW views, NEW sizing
    PROVE  LET a == AnalyseMultiTimeframe(views)
               blocking(d) == {f \in AssessNoTrade(a, d, sizing).findings : f.severity = "BLOCKING"}
           IN  blocking("BULLISH") = blocking("BEARISH")
<1> DEFINE a == AnalyseMultiTimeframe(views)
           bad == "BIAS" \notin Readable(a.report.readings)
           unclear == "BIAS" \in DOMAIN a.report.readings \ Readable(a.report.readings)
           of(d) == AssessNoTrade(a, d, sizing).findings
<1>1. \A d \in {"BULLISH", "BEARISH"} : a.scenarios[d].state = "UNAVAILABLE" <=> bad
  <2>1. \A groups, report, d, requirements :
           ScenarioState(groups, report, d, requirements) = "UNAVAILABLE"
             <=> "BIAS" \notin Readable(report.readings)
    BY DEF ScenarioState
  <2>2. \A groups, report, d :
           DirectionalScenario(views, groups, report, d).state = "UNAVAILABLE"
             <=> "BIAS" \notin Readable(report.readings)
    BY <2>1 DEF DirectionalScenario
  <2>3. \E groups : a.scenarios = [d \in {"BULLISH", "BEARISH"} |->
                                     DirectionalScenario(views, groups, a.report, d)]
    BY DEF AnalyseMultiTimeframe
  <2> HIDE DEF a
  <2> QED BY <2>2, <2>3
<1> HIDE DEF a
<1>2. \A d : of(d) = TimeframeFindings(a) \cup RegimeFindings(a)
                       \cup StructureFindings(a, a.scenarios[d].state)
                       \cup EntryFindings(a.scenarios[d].entry)
                       \cup (IF sizing = None THEN {} ELSE SizingFindings(sizing))
  BY DEF AssessNoTrade
<1>3. \A reason, severity : Finding(reason, severity).severity = severity
  BY DEF Finding
<1>4. \A entry : \A f \in EntryFindings(entry) : f.severity # "BLOCKING"
  BY <1>3 DEF EntryFindings
<1>5. \A state, f : f \in StructureFindings(a, state) /\ f.severity = "BLOCKING" <=>
         \/ unclear /\ f = Finding("UNCLEAR_STRUCTURE", "BLOCKING")
         \/ state = "UNAVAILABLE" /\ f = Finding("INSUFFICIENT_DATA", "BLOCKING")
  BY <1>3 DEF StructureFindings
<1> HIDE DEF bad, unclear
<1>6. \A f : f \in of("BULLISH") /\ f.severity = "BLOCKING"
               <=> f \in of("BEARISH") /\ f.severity = "BLOCKING"
  <2> HIDE DEF of
  <2> QED BY <1>1, <1>2, <1>4, <1>5
<1> QED BY <1>6 DEF a

\* The reasons a block is explained with are those of the first direction that
\* has a finding, and so of both.
LEMMA BlocksAreTold ==
    ASSUME RequestInv, TellInv, why # None, analysis # None, NEW d \in {"BULLISH", "BEARISH"}
    PROVE  Blocks(d) = ExplainedBlocks
<1>1. /\ stage = "EXPLAINED" /\ Used # {}
      /\ \A i, j \in Used : outcomes[i].role = outcomes[j].role => i = j
      /\ analysis = AnalyseMultiTimeframe(Views)
      /\ veto = [e \in {"BULLISH", "BEARISH"} |-> AssessNoTrade(analysis, e, risk.sizing)]
      /\ why = BuildWhy(analysis, Zones, risk.sizing, Tick, veto)
  BY DEF TellInv, RequestInv, Assessed, ViewsOk
<1>2. \A i \in Used : /\ IsSequence(outcomes[i].rows) /\ outcomes[i].role \in RoleSet
  <2>1. \A i \in Used : OutcomeOk(outcomes[i]) /\ outcomes[i].usable
    BY DEF RequestInv, Used
  <2>2. \A tf \in DOMAIN RoleOf : RoleOf[tf] \in RoleSet
    BY FourRoles DEF RoleOf
  <2> QED BY <2>1, <2>2 DEF OutcomeOk
<1>3. IsFiniteSet(Zones) /\ \A z \in Zones : z.kind \in {"SUPPORT", "RESISTANCE"}
  <2>1. \E i \in Used : \A j \in Used : RoleRank(outcomes[j].role) <= RoleRank(outcomes[i].role)
    <3> DEFINE T == {RoleRank(outcomes[j].role) : j \in Used}
    <3>1. T \subseteq 1 .. 4 /\ T # {}
      BY <1>1, <1>2, FourRoles
    <3>2. \E m \in T : \A x \in T : x <= m
      <4> HIDE DEF T
      <4> QED BY <3>1, GreatestExists
    <3> QED BY <3>2
  <2>2. \E i \in Used : Zones = AnalyseStructure(outcomes[i].rows).zones
    BY <2>1 DEF Zones
  <2>3. PICK i \in Used : Zones = AnalyseStructure(outcomes[i].rows).zones
    BY <2>2
  <2>4. Len(outcomes[i].rows) \in Nat
    BY <1>2 DEF IsSequence
  <2> QED BY <2>3, <2>4, FiniteZones, ZoneKinds
<1>4. IsFiniteSet(analysis.report.contradictions)
  <2>1. DOMAIN Views \subseteq RoleSet
    BY <1>1, <1>2, ViewFacts
  <2>2. \E items : analysis.report = DetectContradictions(Views, items)
    BY <1>1 DEF AnalyseMultiTimeframe
  <2> QED BY <2>1, <2>2, FiniteContradictions
<1>5. PICK list : OtherTopics(list) /\ why = Deduplicate(list \o BlockExplanations(veto))
  BY <1>1, <1>3, <1>4, BlockComesLast
<1>6. ExplainedBlocks = BlockReasons(why)
  BY DEF ExplainedBlocks, BlockReasons
<1>7. Blocks("BULLISH") = Blocks("BEARISH")
  BY <1>1, SameBlocks DEF Blocks
<1>8. \A e : /\ WhyNoTradeBlock(veto[e]).topic = "NO_TRADE_BLOCK"
             /\ {x.code : x \in WhyNoTradeBlock(veto[e]).reasons} = Blocks(e)
  <2> TAKE e
  <2> DEFINE B == {f \in veto[e].findings : f.severity = "BLOCKING"}
             R == WhyNoTradeBlock(veto[e]).reasons
  <2>1. R = {Reason(f.reason, "CRITICAL") : f \in B} /\ WhyNoTradeBlock(veto[e]).topic = "NO_TRADE_BLOCK"
    BY DEF WhyNoTradeBlock, Explanation
  <2>2. \A f : Reason(f.reason, "CRITICAL").code = f.reason
    BY DEF Reason
  <2>3. Blocks(e) = {f.reason : f \in B}
    BY DEF Blocks
  <2> HIDE DEF B, R
  <2>4. \A c : c \in {x.code : x \in R} <=> c \in {f.reason : f \in B}
    BY <2>1, <2>2
  <2> QED BY <2>1, <2>3, <2>4 DEF R
<1>9. CASE \E e \in {"BULLISH", "BEARISH"} : BlockExplanations(veto) = <<WhyNoTradeBlock(veto[e])>>
  <2>1. PICK e \in {"BULLISH", "BEARISH"} : BlockExplanations(veto) = <<WhyNoTradeBlock(veto[e])>>
    BY <1>9
  <2>2. BlockReasons(why) = Blocks(e)
    BY <1>5, <1>8, <2>1, BlockIsKept
  <2> QED BY <1>6, <1>7, <2>2
<1>10. CASE /\ BlockExplanations(veto) = << >>
            /\ veto["BULLISH"].findings = {} /\ veto["BEARISH"].findings = {}
  <2>1. Blocks("BULLISH") = {} /\ Blocks("BEARISH") = {}
    BY <1>10 DEF Blocks
  <2>2. BlockReasons(why) = {}
    BY <1>5, <1>8, <1>10, BlockIsKept
  <2> QED BY <1>6, <2>1, <2>2
<1> QED BY <1>9, <1>10 DEF BlockExplanations

-----------------------------------------------------------------------------
(***************************************************************************)
(* A review that finds a trade sufficient.                                 *)
(***************************************************************************)

\* What every critical check of a sufficient review found.
LEMMA SufficientMeans ==
    ASSUME NEW a, NEW d, NEW sizing, NEW evidence,
           ChecklistVerdict(AssessChecklist(a, d, sizing, evidence)) = "SUFFICIENT"
    PROVE  /\ evidence.stop # "NO"
           /\ sizing # None /\ sizing.outcome = "ALLOWED"
           /\ RewardWarnings(evidence.reward) = {}
           /\ Majors(a.report) = {}
<1> DEFINE results == AssessChecklist(a, d, sizing, evidence)
<1>1. \A i \in CriticalItems : results[i].status # "FAIL" /\ results[i].evaluated
  <2> HIDE DEF results
  <2> QED BY DEF ChecklistVerdict, results
<1>2. /\ results.STOP_DEFINED = StopCheck(evidence.stop, sizing)
      /\ results.RISK_CALCULATED = RiskCheck(sizing)
      /\ results.RISK_REWARD_ACCEPTABLE = RewardCheck(evidence.reward)
      /\ results.POSITION_SIZE_VALID = SizeCheck(sizing)
      /\ results.NO_MAJOR_CONTRADICTION = ContradictionCheck(a)
  BY DEF AssessChecklist
<1> HIDE DEF results
<1>3. \A r \in {StopCheck(evidence.stop, sizing), RiskCheck(sizing), RewardCheck(evidence.reward),
                SizeCheck(sizing), ContradictionCheck(a)} :
         r.status # "FAIL" /\ r.evaluated
  BY <1>1, <1>2 DEF CriticalItems
<1>4. Fail.status = "FAIL" /\ ~NotEvaluated.evaluated
  BY DEF Fail, NotEvaluated, Check
<1>5. evidence.stop # "NO"
  BY <1>3, <1>4 DEF StopCheck
<1>6. sizing # None
  BY <1>3, <1>4 DEF RiskCheck
<1>7. sizing.outcome = "ALLOWED"
  BY <1>3, <1>4, <1>6 DEF SizeCheck
<1>8. RewardWarnings(evidence.reward) = {}
  BY <1>3, <1>4 DEF RewardCheck, RewardWarnings
<1>9. Majors(a.report) = {}
  BY <1>3, <1>4 DEF ContradictionCheck
<1> QED BY <1>5, <1>6, <1>7, <1>8, <1>9

\* A veto of an allowed size without a major contradiction is about something else.
LEMMA VetoOfAllowed ==
    ASSUME NEW a, NEW d, NEW sizing, sizing # None, sizing.outcome = "ALLOWED",
           Majors(a.report) = {}
    PROVE  {f.reason : f \in AssessNoTrade(a, d, sizing).findings}
             \cap {"CONFLICTING_TIMEFRAMES", "RISK_NOT_PERMITTED", "RISK_UNDETERMINED"} = {}
<1> DEFINE denied == {"CONFLICTING_TIMEFRAMES", "RISK_NOT_PERMITTED", "RISK_UNDETERMINED"}
<1>1. \A reason, severity : Finding(reason, severity).reason = reason
  BY DEF Finding
<1>2. \A f \in TimeframeFindings(a) : f.reason \notin denied
  BY <1>1 DEF TimeframeFindings
<1>3. \A f \in RegimeFindings(a) : f.reason \notin denied
  BY <1>1 DEF RegimeFindings
<1>4. \A state : \A f \in StructureFindings(a, state) : f.reason \notin denied
  BY <1>1 DEF StructureFindings
<1>5. \A entry : \A f \in EntryFindings(entry) : f.reason \notin denied
  BY <1>1 DEF EntryFindings
<1>6. SizingFindings(sizing) = {}
  BY DEF SizingFindings
<1>7. AssessNoTrade(a, d, sizing).findings
        = TimeframeFindings(a) \cup RegimeFindings(a)
            \cup StructureFindings(a, a.scenarios[d].state)
            \cup EntryFindings(a.scenarios[d].entry) \cup SizingFindings(sizing)
  BY DEF AssessNoTrade
<1> HIDE DEF denied
<1>8. \A f \in AssessNoTrade(a, d, sizing).findings : f.reason \notin denied
  BY <1>2, <1>3, <1>4, <1>5, <1>6, <1>7
<1> QED BY <1>8 DEF denied

\* A list of explanations none of which finds a size critical.
CalmAboutSize(x) == x.topic = "POSITION_SIZE" => \A r \in x.reasons : r.severity # "CRITICAL"
CalmList(list) == \E H : list \in Seq(H) /\ \A x \in H : CalmAboutSize(x)

LEMMA CalmOne ==
    ASSUME NEW x, CalmAboutSize(x)
    PROVE  CalmList(<<x>>)
<1> DEFINE H == {x}
<1>1. <<x>> \in Seq(H) /\ \A y \in H : CalmAboutSize(y)
  OBVIOUS
<1> HIDE DEF H
<1> QED BY <1>1 DEF CalmList

LEMMA CalmJoined ==
    ASSUME NEW a, NEW b, CalmList(a), CalmList(b)
    PROVE  CalmList(a \o b)
<1>1. PICK A : a \in Seq(A) /\ \A x \in A : CalmAboutSize(x)
  BY DEF CalmList
<1>2. PICK B : b \in Seq(B) /\ \A x \in B : CalmAboutSize(x)
  BY DEF CalmList
<1>3. a \o b \in Seq(A \cup B)
  BY <1>1, <1>2, Joined
<1> QED BY <1>1, <1>2, <1>3 DEF CalmList

\* The explanations of a review find no allowed size critical.
LEMMA CalmReview ==
    ASSUME NEW a, NEW d, NEW sizing, NEW tick, NEW margin, NEW assessment, NEW evidence,
           sizing # None, sizing.outcome = "ALLOWED"
    PROVE  LET said == ReviewTrade(a, d, sizing, tick, margin, assessment, evidence).explanations
           IN  \A i \in DOMAIN said : CalmAboutSize(said[i])
<1> DEFINE case == a.scenarios[d]
           l1 == <<WhyDirection(a, d)>>
           l2 == CaseExplanations(case, d)
           l3 == <<WhyPositionSize(sizing, tick)>>
           l4 == IF margin = None THEN << >> ELSE <<WhyRiskFindings(margin)>>
           l5 == <<WhyNoTradeBlock(assessment)>>
<1>1. \A topic, subject, reasons :
         topic # "POSITION_SIZE" => /\ CalmAboutSize(Explanation(topic, subject, reasons))
                                    /\ CalmAboutSize(Unavailable(topic, subject))
  BY DEF CalmAboutSize, Explanation, Unavailable
<1>2. CalmList(l1)
  BY <1>1, CalmOne DEF WhyDirection
<1>3. CalmList(l2)
  <2> DEFINE w1 == WhyScenarioState(d, case.state, case.requirements)
             w2 == WhyPendingConfirmation(d, case.outstanding)
             w3 == WhySetupQuality(case, d)
             w4 == WhyEntryQuality(case)
  <2>1. l2 = <<w1, w2, w3, w4>>
    BY DEF CaseExplanations
  <2>2. CalmAboutSize(w1) /\ CalmAboutSize(w2) /\ CalmAboutSize(w3) /\ CalmAboutSize(w4)
    BY <1>1 DEF WhyScenarioState, WhyPendingConfirmation, WhySetupQuality, WhyEntryQuality
  <2> DEFINE H == {w1, w2, w3, w4}
  <2>3. \A x \in H : CalmAboutSize(x)
    BY <2>2
  <2> HIDE DEF w1, w2, w3, w4
  <2>4. <<w1, w2, w3, w4>> \in Seq(H)
    OBVIOUS
  <2> HIDE DEF H
  <2>5. CalmList(<<w1, w2, w3, w4>>)
    BY <2>3, <2>4 DEF CalmList
  <2> QED BY <2>1, <2>5
<1>4. CalmList(l3)
  <2>1. \A code, severity : Reason(code, severity).severity = severity
    BY DEF Reason
  <2>2. \A r \in WhyPositionSize(sizing, tick).reasons : r.severity # "CRITICAL"
    BY <2>1 DEF WhyPositionSize, Explanation
  <2> QED BY <2>2, CalmOne DEF CalmAboutSize
<1>5. CalmList(l4)
  <2>1. CalmList(<< >>)
    <3> DEFINE H == {}
    <3>1. << >> \in Seq(H) /\ \A x \in H : CalmAboutSize(x)
      OBVIOUS
    <3> HIDE DEF H
    <3> QED BY <3>1 DEF CalmList
  <2>2. CalmList(<<WhyRiskFindings(margin)>>)
    BY <1>1, CalmOne DEF WhyRiskFindings
  <2> QED BY <2>1, <2>2
<1>6. CalmList(l5)
  BY <1>1, CalmOne DEF WhyNoTradeBlock
<1>7. ReviewTrade(a, d, sizing, tick, margin, assessment, evidence).explanations
        = l1 \o l2 \o l3 \o l4 \o l5
  BY DEF ReviewTrade
<1> HIDE DEF l1, l2, l3, l4, l5
<1>8. CalmList(l1 \o l2 \o l3 \o l4 \o l5)
  BY <1>2, <1>3, <1>4, <1>5, <1>6, CalmJoined
<1>9. \A list : CalmList(list) => \A i \in DOMAIN list : CalmAboutSize(list[i])
  BY DEF CalmList
<1> QED BY <1>7, <1>8, <1>9

\* A review that finds a trade sufficient is denied by nothing else said of it.
LEMMA SufficientStands ==
    ASSUME RequestInv, TellInv, review # None, review.verdict = "SUFFICIENT"
    PROVE  /\ {f.reason : f \in veto[review.direction].findings}
                \cap {"CONFLICTING_TIMEFRAMES", "RISK_NOT_PERMITTED", "RISK_UNDETERMINED"} = {}
           /\ review.warnings \subseteq {"HIGH_MARGIN_UTILIZATION", "EXCESSIVE_EFFECTIVE_LEVERAGE"}
           /\ \A i \in DOMAIN review.explanations : CalmAboutSize(review.explanations[i])
<1> DEFINE sizing == risk.sizing
           margin == MarginOf(sizing)
<1>1. PICK d \in {"BULLISH", "BEARISH"} : \E evidence :
         review = ReviewTrade(analysis, d, sizing, Tick, margin, veto[d], evidence)
  BY DEF TellInv
<1>2. PICK evidence : review = ReviewTrade(analysis, d, sizing, Tick, margin, veto[d], evidence)
  BY <1>1
<1>3. /\ request \in Requests /\ risk = AssessRisk(request)
      /\ veto[d] = AssessNoTrade(analysis, d, sizing)
  BY DEF TellInv, RequestInv
<1> HIDE DEF sizing, margin
<1>4. /\ review.direction = d
      /\ review.verdict = ChecklistVerdict(AssessChecklist(analysis, d, sizing, evidence))
      /\ review.warnings = BeginnerRiskWarnings(margin, sizing, evidence)
  BY <1>2 DEF ReviewTrade
<1>5. /\ evidence.stop # "NO"
      /\ sizing # None /\ sizing.outcome = "ALLOWED"
      /\ RewardWarnings(evidence.reward) = {}
      /\ Majors(analysis.report) = {}
  BY <1>4, SufficientMeans
<1>6. /\ {f.reason : f \in veto[d].findings}
           \cap {"CONFLICTING_TIMEFRAMES", "RISK_NOT_PERMITTED", "RISK_UNDETERMINED"} = {}
      /\ \A i \in DOMAIN review.explanations : CalmAboutSize(review.explanations[i])
  BY <1>2, <1>3, <1>5, VetoOfAllowed, CalmReview
<1>7. margin # None =>
         margin.warnings \subseteq {"HIGH_MARGIN_UTILIZATION", "EXCESSIVE_EFFECTIVE_LEVERAGE"}
  <2> DEFINE lost == Risk!StopDistance(risk.direction, request.entry, request.stop)
                       * request.contract.multiplier.value * sizing.allowed
  <2>1. margin = Risk!AssessMargin(request.contract, request.account, request.entry,
                                   sizing.allowed, request.policy, lost)
    BY <1>5 DEF MarginOf, margin
  <2>2. margin.warnings \cap {"MARGIN_DEFICIT", "MARGIN_UNKNOWN", "RISK_LIMIT_EXCEEDED"} = {}
    BY <1>3, <1>5, <2>1, AllowedPlan DEF sizing
  <2> HIDE DEF lost
  <2>3. margin.warnings \subseteq {"MARGIN_DEFICIT", "MARGIN_UNKNOWN", "HIGH_MARGIN_UTILIZATION",
                                   "EXCESSIVE_EFFECTIVE_LEVERAGE", "RISK_LIMIT_EXCEEDED"}
    BY <2>1 DEF Risk!AssessMargin
  <2> QED BY <2>2, <2>3
<1>8. review.warnings \subseteq {"HIGH_MARGIN_UTILIZATION", "EXCESSIVE_EFFECTIVE_LEVERAGE"}
  <2>1. SizingWarnings(sizing) = {}
    BY <1>5 DEF SizingWarnings
  <2> QED BY <1>4, <1>5, <1>7, <2>1 DEF BeginnerRiskWarnings
<1> QED BY <1>4, <1>6, <1>8

\* TellersStand: whatever was uploaded and asked, the explanation of a block names
\* the reasons that block each direction and no other; and a trade the checklist
\* finds sufficient is denied by no veto of its timeframes or its risk, no warning
\* of its stop, reward, size or margin, and no critical explanation of its size
\* (build_why over assess_no_trade; assess_checklist against
\* beginner_risk_warnings and why_position_size).
THEOREM TellersStand == Spec => []TellersAgree
<1>1. RequestInv /\ TellInv => TellersAgree
  BY BlocksAreTold, SufficientStands DEF TellersAgree, CalmAboutSize
<1> QED BY <1>1, RequestInvariant, TellInvariant, PTL
=============================================================================
