---------------------------- MODULE VisionRules ----------------------------
(***************************************************************************)
(* The rules of screenshot intake, extraction and correction               *)
(* (application/vision, domain/vision, adapters/vision).                   *)
(*                                                                         *)
(* An image is a record of what its header says and of what Pillow, an     *)
(* external library, answers when the image is opened, verified, decoded   *)
(* and converted.  A text is a record of its letters and of the number it  *)
(* reads as, None when it reads as none, so that two spellings of one      *)
(* number differ as texts and agree as numbers.                            *)
(***************************************************************************)
EXTENDS Optional, Integers, Sequences, FiniteSetsExt, SequencesExt

CONSTANT
    ImagePolicy     \* maxBytes, minBytes, maxSide, minSide, maxPixels, maxNormalised

\* the code of the first check that fails
FirstFailure(checks) ==
    LET failed == SelectSeq(checks, LAMBDA check : check[1])
    IN  IF failed = <<>> THEN OK ELSE Head(failed)[2]

(***************************************************************************)
(* Intake.                                                                 *)
(***************************************************************************)

\* _read_jpeg walks the segments: standalone markers and whole segments are
\* passed over, the first frame header answers, anything malformed refuses
ReadJpeg(segments) ==
    LET deciding == SelectSeq(segments, LAMBDA s : s.kind \notin {"STANDALONE", "SEGMENT"})
    IN  IF deciding # <<>> /\ Head(deciding).kind = "FRAME" THEN Head(deciding) ELSE None

\* read_image_facts: what the header says, None when it cannot be read
HeaderFacts(image) ==
    IF image.signature = "JPEG" THEN ReadJpeg(image.segments)
    ELSE IF image.signature \in {"PNG", "WEBP"} /\ image.header # None THEN image.header
    ELSE None

\* accept_screenshot and _check_dimensions
Rejection(image, slot) ==
    LET facts == HeaderFacts(image)
        unread == facts = None \/ facts.width <= 0 \/ facts.height <= 0
        w == IF facts = None THEN 0 ELSE facts.width
        h == IF facts = None THEN 0 ELSE facts.height
    IN  FirstFailure(<<
            <<image.bytes = 0, "EMPTY_UPLOAD">>,
            <<image.bytes > ImagePolicy.maxBytes, "TOO_LARGE">>,
            <<image.bytes < ImagePolicy.minBytes, "TOO_SMALL">>,
            <<unread, "UNREADABLE_IMAGE">>,
            <<w * h > ImagePolicy.maxPixels, "EXCESSIVE_PIXELS">>,
            <<w > ImagePolicy.maxSide \/ h > ImagePolicy.maxSide, "EXCESSIVE_DIMENSIONS">>,
            <<w < ImagePolicy.minSide \/ h < ImagePolicy.minSide, "TOO_SMALL_DIMENSIONS">>>>)

\* _inspect, _verify_structure, _force_decode and _payload over Pillow's answers
DecodeFailure(image) ==
    FirstFailure(<<
        <<image.opens \notin {"PNG", "JPEG", "WEBP", "GIF"}, image.opens>>,
        <<image.opens = "GIF", "UNSUPPORTED_FORMAT">>,
        <<image.frames > 1, "MULTI_FRAME">>,
        <<image.decoded > ImagePolicy.maxPixels, "EXCESSIVE_PIXELS">>,
        <<~image.verifies, "CORRUPT">>,
        <<image.loads # OK, image.loads>>,
        <<~image.converts, "CORRUPT">>,
        <<image.normalised > ImagePolicy.maxNormalised, "NORMALISATION_TOO_LARGE">>>>)

\* accept_and_verify
Intake(image, slot) ==
    FirstFailure(<<
        <<Rejection(image, slot) # OK, Rejection(image, slot)>>,
        <<DecodeFailure(image) # OK, DecodeFailure(image)>>,
        <<image.opens # image.signature, "FORMAT_DISAGREEMENT">>>>)

(***************************************************************************)
(* The provider.                                                           *)
(***************************************************************************)
VisionFailures == {"TIMEOUT", "AUTHENTICATION", "RATE_LIMITED", "PROVIDER_REJECTED",
                   "NETWORK", "UNAVAILABLE", "CONFIGURATION", "INVALID_OUTPUT"}

\* _status_for
StatusFor(failure) ==
    CASE failure \in {"AUTHENTICATION", "CONFIGURATION"} -> 503
      [] failure = "RATE_LIMITED" -> 429
      [] failure = "TIMEOUT" -> 504
      [] OTHER -> 502

ObservationKinds == {"DIRECTLY_VISIBLE", "VISUALLY_INFERRED"}

\* ExtractedValueSchema: one value that says something, read or judged
ValidExtractedValue(v) == v.value.text # "" /\ v.kind \in ObservationKinds

\* _validate with the schemas: JSON text of a whole, strict extraction
ValidReply(reply) ==
    /\ reply.json = "OBJECT"
    /\ \A i \in DOMAIN reply.values : ValidExtractedValue(reply.values[i])
    /\ reply.observedAt # None => reply.aware

(***************************************************************************)
(* Quality: what was read is present, what could not be is absent, and the *)
(* rest is not counted.                                                    *)
(***************************************************************************)
Weights == [READABLE |-> 22, SYMBOL |-> 16, TIMEFRAME |-> 16, LAST_PRICE |-> 10,
            CHART_LARGE_ENOUGH |-> 10, TIMESTAMP_VISIBLE |-> 8,
            INDICATOR_READING |-> 8, NOT_CROPPED |-> 5, NOT_STALE |-> 5]

MINIMUM_COVERAGE == 25      \* per cent of the total weight

WeightOf(dimensions) ==
    MapThenSumSet(LAMBDA d : Weights[d], dimensions)

\* Python's round: halves go to the even neighbour
Rounded(a, b) ==
    LET floor == a \div b
        twice == 2 * (a % b)
    IN  IF twice < b \/ (twice = b /\ floor % 2 = 0) THEN floor ELSE floor + 1

\* _score: the fields that map to a dimension, and readability as a whole
DimensionStates(extraction) ==
    LET read == {extraction.values[i].field : i \in
                    {j \in DOMAIN extraction.values :
                        extraction.values[j].kind = "DIRECTLY_VISIBLE"}}
        judged == {"SYMBOL", "TIMEFRAME", "LAST_PRICE", "INDICATOR_READING"}
        something == extraction.values # <<>> \/ extraction.unreadable # {}
        readable == IF something /\ extraction.values # <<>> THEN {"READABLE"} ELSE {}
    IN  [present |-> (read \cap judged) \cup readable,
         absent |-> ((extraction.unreadable \cap judged) \ read)
                    \cup (IF something THEN {"READABLE"} \ readable ELSE {})]

\* score_quality with unevaluated dimensions excluded; None below the coverage
ScoreQuality(extraction) ==
    LET states == DimensionStates(extraction)
        evaluated == WeightOf(states.present \cup states.absent)
    IN  IF evaluated = 0 \/ 100 * evaluated < MINIMUM_COVERAGE * WeightOf(DOMAIN Weights)
        THEN None
        ELSE Rounded(100 * WeightOf(states.present), evaluated)

(***************************************************************************)
(* Slots.                                                                  *)
(***************************************************************************)
Slots == {"1D", "1H", "15M", "5M"}

Agreement(assignment) ==
    CASE assignment.confirmed # None ->
            IF assignment.confirmed = assignment.slot THEN "AGREES" ELSE "MISMATCH"
      [] assignment.confirmed = None /\ assignment.detected = None -> "UNDETECTED"
      [] OTHER -> IF assignment.detected \notin Slots THEN "UNSUPPORTED_TIMEFRAME"
                  ELSE IF assignment.detected = assignment.slot THEN "AGREES"
                  ELSE "MISMATCH"

Mismatched(assignment) == Agreement(assignment) \in {"MISMATCH", "UNSUPPORTED_TIMEFRAME"}

\* the readings of a field, by their place
OfField(extraction, field) ==
    {i \in DOMAIN extraction.values : extraction.values[i].field = field}

\* _detected_timeframe: the first reading that names a timeframe
DetectedTimeframe(extraction) ==
    LET named == {i \in OfField(extraction, "TIMEFRAME") : extraction.values[i].timeframe # None}
    IN  IF named = {} THEN None ELSE extraction.values[Min(named)].timeframe

DetectedSymbol(extraction) ==
    LET found == OfField(extraction, "SYMBOL")
    IN  IF found = {} THEN None ELSE extraction.values[Min(found)].value.text

\* SymbolAgreement.is_mismatch
SymbolMismatch(expected, detected) ==
    expected # None /\ detected # None /\ expected # detected

(***************************************************************************)
(* Precedence.                                                             *)
(***************************************************************************)
Priority == [STRUCTURED_MARKET_DATA |-> 1, USER_CONFIRMED |-> 2,
             SCREENSHOT_EXTRACTED |-> 4, AI_VISUAL_INFERENCE |-> 5]

SourceOfKind(kind) ==
    IF kind = "DIRECTLY_VISIBLE" THEN "SCREENSHOT_EXTRACTED" ELSE "AI_VISUAL_INFERENCE"

\* A SourcedValue, and its place among those of its source.
Sourced(value, source, place) == [value |-> value, source |-> source, place |-> place]

\* the claim of a source that makes one, or none
Stated(value, source) == IF value = None THEN {} ELSE {Sourced(value, source, 0)}

\* SourcedValue.__post_init__: a blank or, of a number, an unreadable value raises
Usable(value, numeric) == value.text # "" /\ (numeric => value.num # None)

\* agrees_with: numbers by value, words by their letters
Agrees(a, b, numeric) ==
    IF numeric THEN a.value.num = b.value.num ELSE a.value.text = b.value.text

\* a comes from a better source than b, or from the same one and first
Precedes(a, b) ==
    \/ Priority[a.source] < Priority[b.source]
    \/ Priority[a.source] = Priority[b.source] /\ a.place <= b.place

\* resolve: the first candidate of the best source wins, the rest agree or
\* conflict; unusable claims were set aside
Resolve(claims, numeric) ==
    LET candidates == {c \in claims : Usable(c.value, numeric)}
        best == CHOOSE c \in candidates : \A d \in candidates : Precedes(c, d)
    IN  [code |-> OK, winner |-> best, unusable |-> claims \ candidates,
         conflicts |-> {c \in candidates \ {best} : ~Agrees(c, best, numeric)}]

(***************************************************************************)
(* Corrections.                                                            *)
(***************************************************************************)
CorrectionTypes == {"CONFIRMED", "CORRECTED", "REJECTED"}

\* FieldCorrection.__post_init__
ValidCorrection(type, value) ==
    IF type = "CORRECTED" THEN value # None /\ value.text # "" ELSE value = None

Correction(original, type, value) ==
    [field |-> original.field, original |-> original.value, type |-> type, value |-> value]

\* FieldCorrection.effective_value
Claimed(c) ==
    CASE c.type = "REJECTED" -> None
      [] c.type = "CORRECTED" -> c.value
      [] OTHER -> c.original

\* Mutant: a rejection does not replace the correction before it.
LatestForUnrejected(log, field) ==
    Max({0} \cup {i \in DOMAIN log : log[i].field = field /\ log[i].type # "REJECTED"})

\* latest_for: the place of the newest correction of a field, 0 without one
LatestFor(log, field) == Max({0} \cup {i \in DOMAIN log : log[i].field = field})

\* what the user says of a field, None when nothing or no longer
Spoken(log, field) ==
    IF LatestFor(log, field) = 0 THEN None ELSE Claimed(log[LatestFor(log, field)])

\* a structured value that says something
MarketValue(structured) ==
    IF structured = None THEN None
    ELSE IF structured.text = "" THEN None ELSE structured

ReadingClaims(extraction, field) ==
    {Sourced(extraction.values[i].value, SourceOfKind(extraction.values[i].kind), i) :
        i \in OfField(extraction, field)}

\* the claims effective_value collects: readings, the latest correction, market data
Claims(extraction, log, field, structured) ==
    ReadingClaims(extraction, field)
    \cup Stated(Spoken(log, field), "USER_CONFIRMED")
    \cup Stated(MarketValue(structured), "STRUCTURED_MARKET_DATA")

\* effective_value: an unusable structured value propagates its error, other
\* unusable claims are set aside, and only unusable ones are an error
EffectiveValue(extraction, log, field, structured, numeric) ==
    LET claims == Claims(extraction, log, field, structured)
    IN  IF \E c \in claims : c.source = "STRUCTURED_MARKET_DATA" /\ ~Usable(c.value, numeric)
        THEN [code |-> "ValueError"]
        ELSE IF claims = {} THEN [code |-> "NOTHING_CLAIMED"]
        ELSE IF \A c \in claims : ~Usable(c.value, numeric)
        THEN [code |-> "UnusableClaimsError"]
        ELSE Resolve(claims, numeric)

\* apply_correction and _authority: a replayed reading, never trusted as seen
ApplyCorrection(field, replayed, type, value, structured, numeric) ==
    LET original == [field |-> field, value |-> replayed, kind |-> "VISUALLY_INFERRED"]
        c == Correction(original, type, value)
        claims == (IF type = "REJECTED" THEN {} ELSE Stated(replayed, "AI_VISUAL_INFERENCE"))
                  \cup Stated(Claimed(c), "USER_CONFIRMED")
                  \cup Stated(MarketValue(structured), "STRUCTURED_MARKET_DATA")
    IN  IF replayed.text = "" \/ ~ValidCorrection(type, value)
           \/ \E claim \in claims : ~Usable(claim.value, numeric)
        THEN [code |-> "INVALID_CORRECTION"]
        ELSE IF claims = {} THEN [code |-> "NOTHING_CLAIMED"]
        ELSE Resolve(claims, numeric)
=============================================================================
