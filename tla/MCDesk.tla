------------------------------- MODULE MCDesk -------------------------------
(***************************************************************************)
(* The analysis desk for TLC: requests and their answers, and the two uses *)
(* of a language model beside them, screenshot reading and narration.      *)
(* They share no state: a behaviour is of one of the three.                *)
(*                                                                         *)
(* Requests are built from a handful of series: each timeframe rising,     *)
(* falling, ranging, unreadable, chaotic or absent; the same series        *)
(* closing at different times; one series with each defect; and each       *)
(* combination of contract, account and plan.  Beside them, every live     *)
(* series of up to MaxBars bars of three shapes.                           *)
(***************************************************************************)
EXTENDS Analysis, Vision, Synthesis

VARIABLE desk   \* which of the three this behaviour is about

MCInterval == [D1 |-> 8, H1 |-> 4, M15 |-> 2, M5 |-> 1]

\* what the indicators say at every bar of a series
Mood(stack, adx, vol, rsi, hist, rv) ==
    [stack |-> stack, adx |-> adx, vol |-> vol, rsi |-> rsi, hist |-> hist, rv |-> rv]

Bar(tf, time, p, mood) ==
    [symbol |-> "F", tf |-> tf, time |-> time, aware |-> TRUE, closed |-> TRUE, finite |-> TRUE,
     open |-> p[3], high |-> p[1], low |-> p[2], close |-> p[3], volume |-> 1,
     atr |-> 2, rv |-> mood.rv, vma |-> 10, vwap |-> 6, ref |-> 6,
     stack |-> mood.stack, adx |-> mood.adx, vol |-> mood.vol,
     rsi |-> mood.rsi, hist |-> mood.hist]

\* the series of timeframe tf with the given prices, closing at `end`
Series(tf, end, prices, mood) ==
    [i \in DOMAIN prices |->
        Bar(tf, end - (Len(prices) - i + 1) * MCInterval[tf], prices[i], mood)]

\* <<high, low, close>> of each bar: two rising highs and lows, then a break
Rise == <<<<5, 3, 4>>, <<6, 4, 5>>, <<5, 3, 4>>, <<7, 5, 6>>, <<6, 4, 5>>, <<8, 6, 8>>, <<9, 8, 9>>>>
Fall == [i \in DOMAIN Rise |-> <<12 - Rise[i][2], 12 - Rise[i][1], 12 - Rise[i][3]>>]
Flat == <<<<5, 3, 4>>, <<7, 4, 5>>, <<5, 3, 4>>, <<7, 5, 6>>, <<5, 3, 4>>, <<7, 5, 6>>, <<6, 4, 5>>>>
Wide == <<<<5, 4, 5>>, <<6, 5, 5>>, <<5, 3, 4>>, <<7, 4, 5>>, <<5, 2, 4>>, <<6, 4, 5>>, <<6, 5, 5>>>>
Brief == SubSeq(Flat, 1, 2)
Unbroken == SubSeq(Rise, 1, 6)
Ceiling == SubSeq(Flat, 1, 6)

Bull == Mood("BULLISH", 30, "NORMAL", 60, 1, 20)
Bear == Mood("BEARISH", 30, "NORMAL", 25, -1, 20)
Calm == Mood("MIXED", 10, "NORMAL", 50, 0, 20)
Wild == Mood("MIXED", 10, "HIGH", None, 1, 20)
Young == Mood("UNKNOWN", None, "UNKNOWN", None, None, None)
Thin == Mood("MIXED", 10, "LOW", 50, 0, 5)

Kinds == [up |-> <<Rise, Bull>>, down |-> <<Fall, Bear>>, range |-> <<Flat, Calm>>,
          chaos |-> <<Wide, Wild>>, brief |-> <<Brief, Young>>, climb |-> <<Unbroken, Bull>>,
          doubt |-> <<Rise, Bear>>, thin |-> <<Ceiling, Thin>>]

Dataset(tf, rows) == [tf |-> tf, fits |-> TRUE, parses |-> TRUE, rows |-> rows]
Of(tf, end, kind) == Dataset(tf, Series(tf, end, Kinds[kind][1], Kinds[kind][2]))

V(x) == Risk!Verified(x)
Future(multiplier, tickValue, margin) ==
    [valuation |-> "LINEAR", classification |-> None, multiplier |-> multiplier, tick |-> V(1),
     tickValue |-> tickValue, margin |-> margin, maintenance |-> None,
     expiry |-> None, last |-> None]
Account(equity, used) == [equity |-> equity, used |-> used]
FixedPolicy(amount, cap) == [mode |-> "FIXED", fixed |-> amount, fraction |-> None, cap |-> cap,
                           maxUtilisation |-> <<1, 2>>, maxLeverage |-> <<5, 1>>]
SharePolicy(n, d) == [mode |-> "PERCENT", fixed |-> None, fraction |-> <<n, d>>, cap |-> None,
                      maxUtilisation |-> <<1, 2>>, maxLeverage |-> <<5, 1>>]

Request(datasets, contract, account, policy, entry, stop) ==
    [named |-> TRUE, datasets |-> datasets, contract |-> contract, account |-> account,
     policy |-> policy, entry |-> entry, stop |-> stop]
Chart(datasets) == Request(datasets, None, None, None, None, None)

Some(kinds) == kinds \cup {None}
Listed(tf, kind) == IF kind = None THEN << >> ELSE <<Of(tf, 8, kind)>>

\* every mixture of readings across the four timeframes
Mixtures ==
    {Chart(Listed("D1", a) \o Listed("H1", b) \o Listed("M15", c) \o Listed("M5", d)) :
        a \in Some({"up", "down"}), b \in Some({"up", "down", "range", "thin", "brief"}),
        c \in Some({"up", "down", "doubt"}), d \in Some({"up", "down", "climb", "chaos"})}

\* the same climb closing at different times
Staggered ==
    {Chart(<<Of("M5", e[4], "climb"), Of("D1", e[1], "climb"),
             Of("M15", e[3], "climb"), Of("H1", e[2], "climb")>>) : e \in [1..4 -> {8, 10, 12}]}

\* one row of a good series replaced by each kind of defect
Defects(row, after) ==
    {[row EXCEPT !.aware = FALSE], [row EXCEPT !.closed = FALSE], [row EXCEPT !.symbol = "G"],
     [row EXCEPT !.tf = "M15"], [row EXCEPT !.finite = FALSE], [row EXCEPT !.low = 0],
     [row EXCEPT !.low = -1], [row EXCEPT !.high = 1], [row EXCEPT !.volume = 0],
     [row EXCEPT !.volume = -1], [row EXCEPT !.close = row.high], [row EXCEPT !.time = @ + 1],
     [row EXCEPT !.time = @ + 2], [row EXCEPT !.time = @ - 20],
     [after EXCEPT !.symbol = row.symbol]}

Defective ==
    LET good == Series("M5", 8, Rise, Bull)
    IN  {Chart(<<Dataset("M5", [good EXCEPT ![i] = bad])>>) :
            i \in {3}, bad \in Defects(good[3], good[4])}
          \cup {Chart(<<Dataset("M5", [good EXCEPT ![1] = [@ EXCEPT !.tf = "D1"]])>>),
                Chart(<<Dataset("M5", << >>)>>)}

Odd ==
    {Chart(<< >>), [Chart(<<Of("M5", 8, "up")>>) EXCEPT !.named = FALSE],
     Chart(<<[Of("M5", 8, "up") EXCEPT !.tf = "W1"]>>),
     Chart(<<[Of("M5", 8, "up") EXCEPT !.fits = FALSE]>>),
     Chart(<<[Of("M5", 8, "up") EXCEPT !.parses = FALSE], Of("H1", 8, "up")>>),
     Chart(<<Of("M5", 8, "up"), Of("M5", 8, "down")>>),
     Chart(<<Of("M5", 10, "up"), Of("M5", 8, "down")>>),
     Chart(<<Of("D1", 8, "up"), Of("H1", 8, "up"), Of("M15", 8, "up"), Of("M5", 8, "up"),
             Of("M5", 8, "up")>>)}

\* the plan and the account against one chart
Plans ==
    {Request(<<Of("H1", 8, "up")>>, c, a, p, e, s) :
        c \in {None, Future(V(2), None, V(3)), Future(V(2), V(2), V(3)), Future(V(2), V(3), V(3)),
               Future(V(2), None, None), Future(Risk!Unverified(2), None, V(3))},
        a \in {None, Account(10, 0), Account(10, 8), Account(6, 8), Account(0, 0)},
        p \in {FixedPolicy(5, None), FixedPolicy(9, 1), FixedPolicy(20, 0), SharePolicy(1, 2),
               SharePolicy(3, 4)},
        e \in {None, 6}, s \in {4, 5, 6, 9}}

\* what a caller may know beside the analysis
Known(stop, target, quality) == [stop |-> stop, target |-> target, quality |-> quality]
MCEvidences ==
    {Known(s, t, "ACCEPTED") : s \in {None, "YES", "NO"}, t \in {None, 7, 9}}
      \cup {Known("YES", 9, q) : q \in {None, "ACCEPTED_WITH_WARNINGS", "BLOCKED"}}
MCMinimumReward == <<3, 2>>

MCRequests == Mixtures \cup Staggered \cup Defective \cup Odd \cup Plans

\* a high bar, a low bar with a wider ATR, and a bar above the highs
Live(p, atr, vma) == [Bar("M5", 0, p, Bull) EXCEPT !.atr = atr, !.vma = vma]
MCNextBars == {Live(<<6, 4, 5>>, 2, 10), Live(<<4, 2, 3>>, 4, None), Live(<<8, 5, 8>>, 2, 5)}

-----------------------------------------------------------------------------
(***************************************************************************)
(* Screenshots.                                                            *)
(***************************************************************************)
Text(t, n) == [text |-> t, num |-> n]
MCTexts == {Text("8.0", 8), Text("8", 8), Text("9", 9), Text("up", None), Text("", None)}

MCPolicy == [maxBytes |-> 8, minBytes |-> 2, maxSide |-> 6, minSide |-> 2,
             maxPixels |-> 16, maxNormalised |-> 8]

Screen == [bytes |-> 4, signature |-> "PNG", header |-> [width |-> 4, height |-> 4],
          segments |-> <<>>, opens |-> "PNG", frames |-> 1, decoded |-> 16,
          verifies |-> TRUE, loads |-> OK, converts |-> TRUE, normalised |-> 8]

Size(w, h) == [Screen EXCEPT !.header = [width |-> w, height |-> h]]
Photo(segments) == [Screen EXCEPT !.signature = "JPEG", !.opens = "JPEG",
                                 !.segments = segments]
Frame == [kind |-> "FRAME", width |-> 4, height |-> 4]
Passed(kind) == [kind |-> kind]

MCImages ==
    {Screen, [Screen EXCEPT !.bytes = 0], [Screen EXCEPT !.bytes = 9],
     [Screen EXCEPT !.bytes = 1], [Screen EXCEPT !.signature = None],
     Size(0, 4), Size(6, 6), Size(7, 2), Size(1, 4),
     Photo(<<Passed("STANDALONE"), Passed("SEGMENT"), Frame>>),
     Photo(<<Passed("SEGMENT"), Passed("MALFORMED"), Frame>>),
     [Screen EXCEPT !.opens = "GIF"], [Screen EXCEPT !.opens = "UNIDENTIFIED"],
     [Screen EXCEPT !.opens = "WEBP"],
     [Screen EXCEPT !.frames = 2], [Screen EXCEPT !.decoded = 17],
     [Screen EXCEPT !.verifies = FALSE], [Screen EXCEPT !.loads = "TRUNCATED"],
     [Screen EXCEPT !.converts = FALSE], [Screen EXCEPT !.normalised = 9]}

Reading(f, v, kind, tf) == [field |-> f, value |-> v, kind |-> kind, timeframe |-> tf]

Reply(values, unreadable) ==
    [json |-> "OBJECT", values |-> values, unreadable |-> unreadable,
     observedAt |-> None, aware |-> TRUE]

MCReplies ==
    {Reply(<<Reading("LAST_PRICE", Text("8.0", 8), "VISUALLY_INFERRED", None),
             Reading("LAST_PRICE", Text("9", 9), "DIRECTLY_VISIBLE", None)>>, {}),
     Reply(<<Reading("LAST_PRICE", Text("up", None), "DIRECTLY_VISIBLE", None),
             Reading("TIMEFRAME", Text("1H", None), "DIRECTLY_VISIBLE", "1H"),
             Reading("SYMBOL", Text("A", None), "DIRECTLY_VISIBLE", None)>>, {}),
     Reply(<<Reading("SYMBOL", Text("B", None), "DIRECTLY_VISIBLE", None),
             Reading("TIMEFRAME", Text("4H", None), "DIRECTLY_VISIBLE", "4H")>>,
           {"LAST_PRICE"}),
     Reply(<<>>, {"SYMBOL"}),
     Reply(<<Reading("SYMBOL", Text("", None), "DIRECTLY_VISIBLE", None)>>, {}),
     [Reply(<<>>, {}) EXCEPT !.json = "LIST"]}

\* A second screenshot is compared with the first before either is corrected.
SecondBeforeCorrections ==
    Len(reviews) = 2 =>
        /\ \A i \in 1..2 : reviews[i].log = <<>>
        /\ \A f \in Fields : structured[f] = None

(***************************************************************************)
(* Narration.                                                              *)
(***************************************************************************)

Sign(direction, key, strength, confirmed) ==
    [direction |-> direction, key |-> key, strength |-> strength, confirmed |-> confirmed,
     pointInTime |-> FALSE]
Clash(key, severity) == [key |-> key, severity |-> severity]
Judgement(findings, missing, undetermined) ==
    [findings |-> findings, missing |-> missing, undetermined |-> undetermined]
Found(reason, severity) == [reason |-> reason, severity |-> severity]
Scored(score, components) == [score |-> score, components |-> components]

Clear == Judgement(<<>>, <<>>, FALSE)

\* A clean bullish analysis that is over the smaller budget, and its variants.
Analysed ==
    [analysed |-> TRUE, riskDirection |-> None,
     cases |-> [BULLISH |-> [setup |-> Scored(650, 1), entry |-> None],
                BEARISH |-> [setup |-> Scored(400, 1), entry |-> Scored(200, 1)]],
     suitability |-> [BULLISH |-> Clear, BEARISH |-> Clear],
     evidence |-> <<Sign("BULLISH", 1, "STRONG", TRUE), Sign("BULLISH", 2, "WEAK", FALSE),
                    Sign("BULLISH", 2, "STRONG", TRUE), Sign("BEARISH", 3, "MODERATE", FALSE)>>,
     contradictions |-> <<Clash(2, "MINOR"), Clash(1, "MAJOR"), Clash(3, "MINOR")>>,
     indicators |-> <<[key |-> 1, value |-> 275], [key |-> 2, value |-> None]>>,
     sizing |-> None]

Judged(v) == [Analysed EXCEPT !.suitability = [BULLISH |-> v, BEARISH |-> v]]
Sized(outcomeOf) ==
    [Analysed EXCEPT !.sizing = [outcome |-> outcomeOf, contracts |-> 20], !.riskDirection = "LONG"]

MCOutcomes ==
    {Analysed, [Analysed EXCEPT !.analysed = FALSE],
     [Analysed EXCEPT !.analysed = FALSE, !.riskDirection = "SHORT"],
     [Analysed EXCEPT !.riskDirection = "SHORT"],
     [Analysed EXCEPT !.riskDirection = "SHORT", !.suitability = [BULLISH |-> Clear, BEARISH |-> None]],
     [Analysed EXCEPT !.cases["BULLISH"].setup = None],
     [Analysed EXCEPT !.contradictions = <<Clash(1, "MAJOR"), Clash(1, "MAJOR")>>],
     [Analysed EXCEPT !.contradictions = [i \in 1..3 |-> Clash(i, "MAJOR")]],
     [Analysed EXCEPT !.contradictions = [i \in 1..12 |-> Clash(i, "MAJOR")]],
     [Analysed EXCEPT !.contradictions = <<>>,
                      !.evidence = <<Sign("BULLISH", 2, "WEAK", FALSE),
                                     [Sign("NEUTRAL", 4, "WEAK", TRUE) EXCEPT !.pointInTime = TRUE]>>],
     Judged(Judgement(<<Found(1, "BLOCKING"), Found(2, "PENDING")>>, <<1>>, TRUE)),
     Judged(Judgement(<<Found(2, "PENDING")>>, <<>>, FALSE)),
     Judged(Judgement(<<Found(2, "CAUTION"), Found(2, "PENDING")>>, <<>>, FALSE)),
     Judged(Judgement(<<Found(3, "CAUTION")>>, <<1, 2>>, TRUE)),
     Sized("ALLOWED"), Sized("NOT_PERMITTED"), Sized("UNDETERMINED"),
     [Sized("INVALID") EXCEPT !.suitability["BULLISH"] = Judgement(<<Found(1, "CAUTION")>>, <<1>>, FALSE)]}

Window == [window |-> 400, output |-> 100, reserve |-> 50, maxPrompt |-> None,
           baseCharacters |-> 200, entryCharacters |-> 20]
Room(n, neutral, vision) == [maxEntries |-> n, keepNeutral |-> neutral, keepVision |-> vision]
Configured(n, neutral) ==
    [provider |-> TRUE, model |-> TRUE, tokens |-> Window, entries |-> Room(n, neutral, neutral)]

MCSettings ==
    {Configured(20, TRUE), Configured(11, TRUE), Configured(10, FALSE),
     [Configured(20, TRUE) EXCEPT !.provider = FALSE],
     [Configured(20, TRUE) EXCEPT !.tokens = None],
     [Configured(20, TRUE) EXCEPT !.tokens.maxPrompt = 180]}

NoRefs == [l \in {"supporting", "opposing", "missing", "confirmation", "invalidation",
                  "caseSupporting", "caseOpposing", "advocateOpposing",
                  "advocateContradiction", "advocateMissing"} |-> {}]

Plain == [action |-> "NO_TRADE", refs |-> NoRefs, claims |-> {}, limited |-> TRUE, blank |-> None,
          placeholders |-> {}, numbers |-> {}, phrases |-> {}]

Citing(list, ref) == [Plain EXCEPT !.refs[list] = {ref}, !.limited = list \notin
                        {"advocateOpposing", "advocateContradiction", "advocateMissing"}]

NoClaimRefs == [l \in {"evidence", "contradiction", "risk", "suitability", "missing", "fact",
                       "scenario"} |-> {}]
Claiming(type, lists) ==
    [Plain EXCEPT !.claims = {[type |-> type, refs |-> lists @@ NoClaimRefs]}]

MCDraftTexts ==
    {[Plain EXCEPT !.action = a] : a \in Actions}
    \cup {[Plain EXCEPT !.placeholders = {ref}] :
            ref \in {<<"FACT", 1>>, <<"FACT", 99>>, <<"SCEN", 1>>, <<"VIS", 1>>}}
    \cup {[Plain EXCEPT !.numbers = {n}] : n \in {100, 275, 276, 120}}
    \cup {[Plain EXCEPT !.phrases = {phrase}] : phrase \in {"CONFIRMED", "RISK_IS_FINE", "CHANCE"}}
    \cup {[Plain EXCEPT !.limited = FALSE], [Plain EXCEPT !.blank = "summary"],
          [Citing("advocateContradiction", <<"CON", 1>>) EXCEPT !.limited = TRUE],
          Citing("advocateContradiction", <<"CON", 2>>), Citing("advocateOpposing", <<"EV-BEAR", 3>>),
          Citing("advocateMissing", <<"MISS", 1>>), Citing("supporting", <<"EV-BULL", 2>>),
          Citing("confirmation", <<"EV-BULL", 1>>), Citing("invalidation", <<"SCEN", 2>>),
          Citing("missing", <<"SUIT", FindingKey(Found(3, "CAUTION"))>>), Citing("supporting", <<"EV-BULL", 9>>)}
    \cup {Claiming(type, NoClaimRefs) :
            type \in {"ENTRY_CONFIRMED", "SCENARIO_SUPPORTED", "PENDING_CONDITION", "FACT_RELEVANT"}}
    \cup {Claiming("ENTRY_CONFIRMED", "evidence" :> {<<"EV-BULL", k>>}) : k \in {1, 2}}
    \cup {Claiming("RISK_PERMITS_POSITION", "risk" :> {<<"RISK", 1>>}),
          Claiming("BLOCKING_CONDITION", "suitability" :> {<<"SUIT", FindingKey(Found(1, "BLOCKING"))>>}),
          Claiming("RISK_BLOCKS_POSITION", "risk" :> {<<"RISK", 1>>}),
          Claiming("DATA_QUALITY_ACCEPTABLE", "fact" :> {<<"FACT", 1>>}),
          Claiming("DATA_QUALITY_BLOCKED", "fact" :> {<<"FACT", 1>>}),
          Claiming("SCENARIO_SUPPORTED",
                   [scenario |-> {<<"SCEN", 1>>}, evidence |-> {<<"EV-BULL", 1>>}]),
          Claiming("CONTRADICTION_PRESENT", "contradiction" :> {<<"CON", 1>>}),
          Claiming("INFORMATION_MISSING", "missing" :> {<<"MISS", 1>>})}

Sent(d) == [json |-> "OBJECT", schema |-> TRUE, cases |-> <<"BULL", "BEAR", "NEUTRAL">>, draft |-> d]
MCDrafts ==
    {Sent(d) : d \in MCDraftTexts}
    \cup {[Sent(Plain) EXCEPT !.json = "LIST"], [Sent(Plain) EXCEPT !.schema = FALSE],
          [Sent(Plain) EXCEPT !.cases = <<"BULL", "BULL", "NEUTRAL">>]}

-----------------------------------------------------------------------------

DeskInit ==
    /\ VisionInit /\ SynthesisInit /\ Init
    /\ desk \in {"vision", "synthesis", "analysis"}
    /\ desk # "analysis" => request = None
    /\ desk = "analysis" => ~configured

DeskNext ==
    \/ /\ desk = "vision"
       /\ VisionNext
       /\ UNCHANGED <<desk, synthesisVars, vars>>
    \/ /\ desk = "synthesis" /\ ~configured
       /\ SynthesisNext
       /\ UNCHANGED <<desk, visionVars, vars>>
    \/ /\ desk = "analysis"
       /\ Next
       /\ UNCHANGED <<desk, visionVars, synthesisVars>>

DeskSpec == DeskInit /\ [][DeskNext]_<<desk, visionVars, synthesisVars, vars>>
=============================================================================
