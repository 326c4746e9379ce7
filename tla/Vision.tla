------------------------------- MODULE Vision -------------------------------
(***************************************************************************)
(* Screenshots under review: an upload is checked and sent to the vision   *)
(* provider, its reply becomes a review, and the user confirms, corrects   *)
(* or rejects what was read while structured market data may arrive.       *)
(*                                                                         *)
(* The server keeps no review between requests; `reviews` is the set the   *)
(* caller holds, on which every later operation works.  `said` remembers   *)
(* what the user said last about a field and is only read by properties.   *)
(***************************************************************************)
EXTENDS VisionRules

CONSTANTS
    UploadSlots,        \* the slots that are filled
    Images,             \* the images that may be uploaded
    Replies,            \* what the provider may answer
    Fields,             \* the observed fields that are corrected
    Texts,              \* the values a user or market data may state
    Timeframes,         \* the timeframes a user may confirm
    ExpectedSymbols,    \* the symbol the caller expects, None for none
    Numeric,            \* the fields of numeric kind
    MaxReviews,         \* bound: reviews held
    MaxCorrections      \* bound: corrections per review

\* What a provider lists is a list.
ASSUME VisionInputs ==
    \A reply \in Replies :
        Len(reply.values) \in Nat /\ DOMAIN reply.values = 1 .. Len(reply.values)

VARIABLES
    configured,     \* a vision provider is configured
    upload,         \* the accepted image being analysed, None without one
    reviews,        \* the reviews so far
    structured,     \* Fields -> the structured value, None without one
    answered        \* the status or the code the caller was last given

visionVars == <<configured, upload, reviews, structured, answered>>

VisionInit ==
    /\ configured \in BOOLEAN
    /\ upload = None /\ reviews = <<>> /\ answered = None
    /\ structured = [f \in Fields |-> None]

(***************************************************************************)
(* analyse_screenshot.                                                     *)
(***************************************************************************)

\* get_analyzer answers first, then the image is checked
Analyse(image, slot, expected) ==
    /\ upload = None /\ Len(reviews) < MaxReviews
    /\ LET code == IF configured THEN Intake(image, slot) ELSE "VISION_NOT_CONFIGURED"
       IN  /\ answered' = code
           /\ upload' = IF code = OK THEN [slot |-> slot, expected |-> expected] ELSE None
    /\ UNCHANGED <<configured, reviews, structured>>

\* AnthropicVisionTransport.send raises; the route turns it into a status
ProviderFails(failure) ==
    /\ upload # None
    /\ answered' = StatusFor(failure)
    /\ upload' = None
    /\ UNCHANGED <<configured, reviews, structured>>

ReviewOf(reply) ==
    [slot |-> upload.slot, extraction |-> reply, score |-> ScoreQuality(reply),
     assignment |-> [slot |-> upload.slot, detected |-> DetectedTimeframe(reply),
                     confirmed |-> None],
     mismatch |-> SymbolMismatch(upload.expected, DetectedSymbol(reply)),
     log |-> <<>>, said |-> [f \in Fields |-> None]]

\* ClaudeScreenshotAnalyzer.analyse and review_screenshot
ProviderReplies(reply) ==
    /\ upload # None
    /\ upload' = None
    /\ IF ValidReply(reply)
       THEN /\ reviews' = Append(reviews, ReviewOf(reply))
            /\ answered' = 200
       ELSE /\ answered' = StatusFor("INVALID_OUTPUT")
            /\ UNCHANGED reviews
    /\ UNCHANGED <<configured, structured>>

(***************************************************************************)
(* What the user does with a review.                                       *)
(***************************************************************************)
ConfirmTimeframe(i, timeframe) ==
    /\ reviews[i].assignment.confirmed # timeframe
    /\ reviews' = [reviews EXCEPT ![i].assignment.confirmed = timeframe]
    /\ UNCHANGED <<configured, upload, structured, answered>>

\* record_correction: against the first reading of the field
Correct(i, field, type, value) ==
    /\ Len(reviews[i].log) < MaxCorrections
    /\ \E found \in {OfField(reviews[i].extraction, field)} :
        IF found = {} \/ ~ValidCorrection(type, value)
        THEN answered' = "ValueError" /\ UNCHANGED reviews
        ELSE \E c \in {Correction(reviews[i].extraction.values[Min(found)], type, value)} :
                /\ reviews' = [reviews EXCEPT ![i].log = Append(@, c),
                                              ![i].said[field] = Claimed(c)]
                /\ UNCHANGED answered
    /\ UNCHANGED <<configured, upload, structured>>

\* correct_observation: the caller replays a reading; nothing is kept
CorrectReplayed(field, replayed, type, value) ==
    /\ answered' = ApplyCorrection(field, replayed, type, value, structured[field],
                                   field \in Numeric).code
    /\ UNCHANGED <<configured, upload, reviews, structured>>

StructuredArrives(field, value) ==
    /\ structured[field] # value
    /\ structured' = [structured EXCEPT ![field] = value]
    /\ UNCHANGED <<configured, upload, reviews, answered>>

(***************************************************************************)
(* ScreenshotSetReview: what a set of reviews disagrees about.             *)
(***************************************************************************)
DuplicateSlots ==
    {s \in Slots : Cardinality({i \in DOMAIN reviews : reviews[i].slot = s}) > 1}

SymbolDisagreements ==
    LET detected == {DetectedSymbol(reviews[i].extraction) : i \in DOMAIN reviews} \ {None}
    IN  IF Cardinality(detected) <= 1 THEN {} ELSE detected

HasAnyMismatch ==
    \/ \E i \in DOMAIN reviews : Mismatched(reviews[i].assignment)
    \/ SymbolDisagreements # {} \/ DuplicateSlots # {}

ReadSet ==
    /\ reviews # <<>>
    /\ answered' = IF HasAnyMismatch THEN "MISMATCH" ELSE "AGREED"
    /\ UNCHANGED <<configured, upload, reviews, structured>>

VisionNext ==
    \/ \E image \in Images, slot \in UploadSlots, expected \in ExpectedSymbols :
        Analyse(image, slot, expected)
    \/ ReadSet
    \/ \E failure \in VisionFailures : ProviderFails(failure)
    \/ \E reply \in Replies : ProviderReplies(reply)
    \/ \E i \in DOMAIN reviews :
        \/ \E timeframe \in Timeframes : ConfirmTimeframe(i, timeframe)
        \/ \E field \in Fields, type \in CorrectionTypes, value \in Texts \cup {None} :
            Correct(i, field, type, value)
    \/ \E field \in Fields :
        \/ \E value \in Texts : StructuredArrives(field, value)
        \/ \E type \in CorrectionTypes, value \in Texts \cup {None}, replayed \in Texts :
            CorrectReplayed(field, replayed, type, value)

VisionSpec == VisionInit /\ [][VisionNext]_visionVars

-----------------------------------------------------------------------------
(***************************************************************************)
(* Properties.                                                             *)
(***************************************************************************)

Effective(i, field) ==
    EffectiveValue(reviews[i].extraction, reviews[i].log, field, structured[field],
                   field \in Numeric)

\* the same, had the user never spoken of the field
AsRead(i, field) ==
    EffectiveValue(reviews[i].extraction, <<>>, field, structured[field], field \in Numeric)

\* the user's standing word on a field, as a claim
Words(i, field) == Stated(reviews[i].said[field], "USER_CONFIRMED")

Readings(i, field) == ReadingClaims(reviews[i].extraction, field)

(***************************************************************************)
(* The last word: after any number of confirmations, corrections and       *)
(* rejections, a field's value is the structured one where there is one,   *)
(* else what the user said last, else a reading.  No earlier word of the   *)
(* user is left anywhere: it neither wins nor is listed.  A rejection      *)
(* withdraws the user's words and nothing else: the field is then what it  *)
(* would be had the user never spoken, the reading just rejected included, *)
(* which may win again (effective_value takes every reading for a claim).  *)
(* And whatever is claimed of a field stays in sight, readings rejected or *)
(* overruled too: it agrees with the winner, is listed against it, or is   *)
(* listed as unusable.                                                     *)
(***************************************************************************)
LastWordStands ==
    \A i \in DOMAIN reviews, field \in Fields :
        LET r == Effective(i, field)
            numeric == field \in Numeric
            said == reviews[i].said[field]
            market == MarketValue(structured[field])
            heard == \E word \in Words(i, field) : Usable(word.value, numeric)
        IN  /\ said = None => r = AsRead(i, field)
            /\ r.code = OK =>
                /\ market # None => r.winner.value = market
                /\ market = None /\ heard => r.winner.value = said
                /\ market = None /\ ~heard => r.winner \in Readings(i, field)
                /\ \A c \in {r.winner} \cup r.conflicts \cup r.unusable :
                       c.source = "USER_CONFIRMED" => c \in Words(i, field)
                /\ \A c \in Readings(i, field) \cup Words(i, field) :
                       \/ Usable(c.value, numeric) /\ Agrees(c, r.winner, numeric)
                       \/ c \in (IF Usable(c.value, numeric) THEN r.conflicts ELSE r.unusable)
=============================================================================
