---------------------------- MODULE AnalysisRules ----------------------------
(***************************************************************************)
(* The deterministic reading of up to four timeframes (domain/analysis)    *)
(* and the veto over it (domain/suitability): evidence, contradictions,    *)
(* fusion, the two heuristic scores, the scenarios and the reasons not to  *)
(* trade.  Nothing here is probabilistic and nothing here sees an account  *)
(* except the veto.                                                        *)
(*                                                                         *)
(* A view is [role, tf, end, bars, snap]: a validated series, the moment   *)
(* its last bar closed and its structural snapshot.  Indicators sit on the *)
(* bars (see StructureRules): rsi, hist (MACD histogram), vwap, ref (the   *)
(* reference EMA).  Shares, which the code keeps as floats, are exact      *)
(* integers in percent; a rounding tie that binary floats would push one   *)
(* way is here rounded to even.                                            *)
(***************************************************************************)
EXTENDS StructureRules

CONSTANTS
    ReversalLookback,   \* ContradictionConfig.reversal_lookback
    MinimumRoles        \* QualityConfig.minimum_roles_for_alignment

Roles == <<"REGIME", "BIAS", "SETUP", "ENTRY">>      \* broadest first
RoleSet == {Roles[i] : i \in DOMAIN Roles}
RoleRank(r) == CHOOSE i \in DOMAIN Roles : Roles[i] = r

IsDirection(d) == d \in {"BULLISH", "BEARISH"}
Opposite(d) == CASE d = "BULLISH" -> "BEARISH" [] d = "BEARISH" -> "BULLISH" [] OTHER -> d
Opposes(d, e) == IsDirection(d) /\ IsDirection(e) /\ d # e
DirectionOf(side) == IF side = "LONG" THEN "BULLISH" ELSE "BEARISH"

StrengthRank(s) == CASE s = "WEAK" -> 1 [] s = "MODERATE" -> 2 [] s = "STRONG" -> 3

\* Python's round of n / d for d > 0: to the nearest integer, ties to even.
Round(n, d) ==
    LET q == n \div d
        r == 2 * (n % d)
    IN  IF r < d \/ (r = d /\ q % 2 = 0) THEN q ELSE q + 1

Clamp(value, weight) == Max({0, Min({value, weight})})

-----------------------------------------------------------------------------
(* The set of views (MultiTimeframeView.build).                            *)

\* The refusal, or None.  The views are a function on their places in the order
\* supplied; one request names one symbol, so its views cannot differ in it.
BuildRefusal(views, policy) ==
    LET Two(key) == \E i, j \in DOMAIN views : i # j /\ views[i][key] = views[j][key]
        swapped == \E i \in DOMAIN views : policy[views[i].role] # views[i].tf
    IN  IF DOMAIN views = {} THEN "INCOMPLETE_INPUT"
        ELSE IF Two("role") THEN "DUPLICATE_ROLE"
        ELSE IF Two("tf") THEN "DUPLICATE_TIMEFRAME"
        ELSE IF swapped THEN "SWAPPED_TIMEFRAME"
        ELSE None

\* no refusal is the absence of one
ASSUME NoneIsNoRefusal ==
    None \notin {"INCOMPLETE_INPUT", "DUPLICATE_ROLE", "DUPLICATE_TIMEFRAME", "SWAPPED_TIMEFRAME"}

LastBar(v) == v.bars[Len(v.bars)]

-----------------------------------------------------------------------------
(* Evidence (generation.py).  An item is dated by the bar at which it      *)
(* became knowable; pit marks a reading of the last bar only.              *)

Item(v, source, category, direction, strength, confirmed, pit) ==
    [source |-> source, category |-> category, role |-> v.role,
     direction |-> direction, strength |-> strength,
     confirmed |-> confirmed, pit |-> pit]

PointInTime(v, source, category, direction, strength) ==
    Item(v, source, category, direction, strength, Len(v.bars), TRUE)

EventItem(v, source, category, direction, strength, confirmed) ==
    Item(v, source, category, direction, strength, confirmed, FALSE)

EmaAlignment(v) ==
    LET bar == LastBar(v)
        direction == CASE bar.stack = "UNKNOWN" -> "UNAVAILABLE"
                       [] bar.stack = "MIXED" -> "NEUTRAL"
                       [] OTHER -> bar.stack
        strength == CASE ~IsDirection(direction) \/ bar.adx = None -> "WEAK"
                      [] OTHER -> IF bar.adx >= StrongAdx THEN "STRONG" ELSE "MODERATE"
    IN  {PointInTime(v, "EMA_ALIGNMENT", "TREND", direction, strength)}

RsiDirection(rsi) ==
    IF rsi = None THEN "UNAVAILABLE"
    ELSE CASE rsi >= 55 -> "BULLISH" [] rsi <= 45 -> "BEARISH" [] OTHER -> "NEUTRAL"

MacdDirection(hist) ==
    IF hist = None THEN "UNAVAILABLE"
    ELSE CASE hist > 0 -> "BULLISH" [] hist < 0 -> "BEARISH" [] OTHER -> "NEUTRAL"

Momentum(v) ==
    LET bar == LastBar(v)
        r == RsiDirection(bar.rsi)
        m == MacdDirection(bar.hist)
        It(direction, strength) ==
          {PointInTime(v, "MOMENTUM", "MOMENTUM", direction, strength)}
    IN  CASE bar.rsi = None /\ bar.hist = None -> It("UNAVAILABLE", "WEAK")
          [] IsDirection(r) /\ r = m ->
               It(r, IF bar.rsi >= 70 \/ bar.rsi <= 30 THEN "STRONG" ELSE "MODERATE")
          [] IsDirection(r) /\ ~IsDirection(m) -> It(r, "WEAK")
          [] ~IsDirection(r) /\ IsDirection(m) -> It(m, "WEAK")
          [] OTHER -> It("NEUTRAL", "WEAK")

VwapRelationship(v) ==
    LET bar == LastBar(v)
        direction == IF bar.vwap = None THEN "UNAVAILABLE"
                     ELSE CASE bar.close > bar.vwap -> "BULLISH"
                            [] bar.close < bar.vwap -> "BEARISH"
                            [] OTHER -> "NEUTRAL"
    IN  {PointInTime(v, "VWAP", "INTRADAY", direction, "WEAK")}

BiasDirection(bias) ==
    CASE IsDirection(bias) -> bias
      [] bias = "INSUFFICIENT" -> "UNAVAILABLE"
      [] OTHER -> "NEUTRAL"

MarketStructureItem(v) ==
    LET direction == BiasDirection(v.snap.structure.bias)
        strength == CASE ~IsDirection(direction) -> "WEAK"
                      [] OTHER -> IF v.snap.structure.alternates THEN "STRONG" ELSE "MODERATE"
    IN  {PointInTime(v, "MARKET_STRUCTURE", "STRUCTURE", direction, strength)}

StrongBullish == {"STRONG_UPTREND", "BREAKOUT"}
StrongBearish == {"STRONG_DOWNTREND", "BREAKDOWN"}

RegimeDirection(regime) ==
    CASE regime \in StrongBullish \cup {"WEAK_UPTREND"} -> "BULLISH"
      [] regime \in StrongBearish \cup {"WEAK_DOWNTREND"} -> "BEARISH"
      [] OTHER -> "NEUTRAL"

RegimeItem(v) ==
    LET direction == RegimeDirection(v.snap.regime)
        strength == CASE v.snap.regime \in StrongBullish \cup StrongBearish -> "STRONG"
                      [] IsDirection(direction) -> "MODERATE"
                      [] OTHER -> "WEAK"
    IN  {PointInTime(v, "MARKET_REGIME", "REGIME", direction, strength)}

\* A zone's score runs to 100 while the thresholds are 0.66 and 0.33.
ZoneGrade(strength) ==
    CASE 100 * strength >= 66 -> "STRONG"
      [] 100 * strength < 66 /\ 100 * strength >= 33 -> "MODERATE"
      [] OTHER -> "WEAK"

Nearest(zones, close, above) ==
    LET ahead == {z \in zones : IF above THEN z.low > close ELSE z.high < close}
        Gap(z) == IF above THEN z.low - close ELSE close - z.high
    IN  IF ahead = {} THEN None
        ELSE CHOOSE z \in ahead : \A y \in ahead : Gap(z) <= Gap(y)

Levels(v) ==
    LET bar == LastBar(v)
        Of(kind) == {z \in v.snap.zones : z.kind = kind}
        r == Nearest(Of("RESISTANCE"), bar.close, TRUE)
        s == Nearest(Of("SUPPORT"), bar.close, FALSE)
        It(direction, strength) ==
          {PointInTime(v, "SUPPORT_RESISTANCE", "LEVEL", direction, strength)}
        none == bar.atr = None
    IN  IF none THEN It("UNAVAILABLE", "WEAK")
        ELSE IF bar.atr <= 0 THEN It("UNAVAILABLE", "WEAK")
        ELSE (IF r = None THEN {}
              ELSE IF r.low - bar.close <= bar.atr
                   THEN It("BEARISH", ZoneGrade(r.strength)) ELSE {})
               \cup
             (IF s = None THEN {}
              ELSE IF bar.close - s.high <= bar.atr
                   THEN It("BULLISH", ZoneGrade(s.strength)) ELSE {})

StructuralEventItems(v) ==
    {EventItem(v, "STRUCTURAL_EVENT", "STRUCTURE", DirectionOf(e.direction),
               CASE e.type = "CHOCH" -> "STRONG" [] e.type = "BOS" -> "MODERATE"
                 [] OTHER -> "WEAK", e.confirmed) : e \in v.snap.events}

BreakoutVolume(v, e) ==
    CASE e.volume = "CONFIRMED" ->
           EventItem(v, "BREAKOUT_VOLUME", "VOLUME", DirectionOf(e.direction), "MODERATE", e.confirmed)
      [] e.volume = "WEAK" ->
           EventItem(v, "BREAKOUT_VOLUME", "VOLUME", "NEUTRAL", "WEAK", e.confirmed)
      [] OTHER ->
           EventItem(v, "BREAKOUT_VOLUME", "VOLUME", "UNAVAILABLE", "WEAK", e.confirmed)

BreakoutItems(v) ==
    UNION {CASE e.type = "CONFIRMED" ->
                  {EventItem(v, "BREAKOUT", "BREAKOUT", DirectionOf(e.direction),
                             "MODERATE", e.confirmed), BreakoutVolume(v, e)}
             [] e.type = "FALSE_BREAKOUT" ->
                  {EventItem(v, "BREAKOUT", "BREAKOUT", Opposite(DirectionOf(e.direction)),
                             "MODERATE", e.confirmed)}
             [] OTHER -> {} : e \in v.snap.breakouts}

RetestItems(v) ==
    {EventItem(v, "RETEST", "RETEST",
               IF e.type = "HELD" THEN DirectionOf(e.direction)
               ELSE Opposite(DirectionOf(e.direction)),
               IF e.type = "HELD" THEN "STRONG" ELSE "MODERATE", e.confirmed) :
        e \in {r \in v.snap.retests : r.type # "TOUCHED"}}

DivergenceItems(v) ==
    {EventItem(v, "VOLUME_DIVERGENCE", "DIVERGENCE", e.type, "MODERATE", e.confirmed) :
        e \in v.snap.divergences}

BuildTimeframeEvidence(v) ==
    EmaAlignment(v) \cup MarketStructureItem(v) \cup RegimeItem(v) \cup Momentum(v)
      \cup VwapRelationship(v) \cup StructuralEventItems(v) \cup BreakoutItems(v)
      \cup RetestItems(v) \cup DivergenceItems(v) \cup Levels(v)

-----------------------------------------------------------------------------
(* Contradictions.  A reading is what one timeframe says; readings is a    *)
(* function on the roles that have a view.                                 *)

Read(v, items) ==
    LET regime == (CHOOSE x \in items : x.role = v.role /\ x.source = "MARKET_REGIME").direction
        structure == (CHOOSE x \in items : x.role = v.role /\ x.source = "MARKET_STRUCTURE").direction
        direction == CASE Opposes(regime, structure) -> "NEUTRAL"
                       [] IsDirection(regime) /\ ~Opposes(regime, structure) -> regime
                       [] ~IsDirection(regime) /\ IsDirection(structure) -> structure
                       [] OTHER -> IF "UNAVAILABLE" \in {regime, structure}
                                   THEN "UNAVAILABLE" ELSE "NEUTRAL"
    IN  [direction |-> direction, regime |-> regime, structure |-> structure]

Contradiction(type, severity, roles) == [type |-> type, severity |-> severity, roles |-> roles]

IntraTimeframe(readings) ==
    {Contradiction("INTRA_TIMEFRAME_CONFLICT", "MODERATE", {r}) :
        r \in {x \in DOMAIN readings : Opposes(readings[x].regime, readings[x].structure)}}

\* at least moderate evidence on both sides of one timeframe
ConflictingEvidence(readings, items) ==
    LET Side(r, d) == {x \in items : /\ x.role = r /\ x.direction = d
                                     /\ StrengthRank(x.strength) >= 2}
    IN  {Contradiction("EVIDENCE_CONFLICT", "MINOR", {r}) :
            r \in {x \in DOMAIN readings : Side(x, "BULLISH") # {} /\ Side(x, "BEARISH") # {}}}

Against(readings, r, q, type, severity) ==
    IF /\ {r, q} \subseteq DOMAIN readings
       /\ Opposes(readings[r].direction, readings[q].direction)
    THEN {Contradiction(type, severity, {r, q})} ELSE {}

HigherTimeframe(readings) == Against(readings, "REGIME", "BIAS", "HIGHER_TIMEFRAME_CONFLICT", "MAJOR")
SetupAgainstBias(readings) == Against(readings, "BIAS", "SETUP", "SETUP_AGAINST_BIAS", "MODERATE")

\* A strong regime, or a recent CHOCH and a recent confirmed breakout, makes an
\* opposing entry timeframe a reversal rather than a pullback.
ReversalEvidence(v, direction) ==
    LET wanted == IF direction = "BEARISH" THEN "SHORT" ELSE "LONG"
        Recent(S, type) == \E e \in S : /\ e.type = type /\ e.direction = wanted
                                        /\ e.confirmed >= Len(v.bars) - ReversalLookback
    IN  \/ direction = "BEARISH" /\ v.snap.regime \in StrongBearish
        \/ direction = "BULLISH" /\ v.snap.regime \in StrongBullish
        \/ Recent(v.snap.events, "CHOCH") /\ Recent(v.snap.breakouts, "CONFIRMED")

\* What the entry timeframe adds: a contradiction, a pullback, or nothing.
EntryRole(views, readings) ==
    LET higher == {r \in DOMAIN readings \ {"ENTRY"} : IsDirection(readings[r].direction)}
        entry  == readings["ENTRY"].direction
        agreed == {readings[r].direction : r \in higher}
    IN  CASE "ENTRY" \notin DOMAIN readings -> [contradictions |-> {}, pullbacks |-> {}]
          [] OTHER ->
             CASE \A r \in higher : ~Opposes(readings[r].direction, entry) ->
                    [contradictions |-> {}, pullbacks |-> {}]
               [] OTHER ->
                    IF Cardinality(agreed) = 1 /\ ~ReversalEvidence(views["ENTRY"], entry)
                    THEN [contradictions |-> {}, pullbacks |-> agreed]
                    ELSE [contradictions |-> {Contradiction("LOWER_TIMEFRAME_REVERSAL", "MINOR",
                                                            {"ENTRY"} \cup higher)},
                          pullbacks |-> {}]

\* views is a function on roles
DetectContradictions(views, items) ==
    LET readings == [r \in DOMAIN views |-> Read(views[r], items)]
        entry == EntryRole(views, readings)
    IN  [readings |-> readings,
         contradictions |-> IntraTimeframe(readings) \cup ConflictingEvidence(readings, items)
            \cup HigherTimeframe(readings) \cup SetupAgainstBias(readings) \cup entry.contradictions,
         pullbacks |-> entry.pullbacks]

-----------------------------------------------------------------------------
(* Fusion: one group per role and category, whatever the number of items.  *)

BuildGroup(role, category, items) ==
    LET With(d) == {x \in items : x.direction = d}
        direction == CASE With("BULLISH") # {} /\ With("BEARISH") # {} -> "NEUTRAL"
                       [] With("BULLISH") # {} /\ With("BEARISH") = {} -> "BULLISH"
                       [] With("BULLISH") = {} /\ With("BEARISH") # {} -> "BEARISH"
                       [] OTHER -> IF With("NEUTRAL") # {} THEN "NEUTRAL" ELSE "UNAVAILABLE"
    IN  [role |-> role, category |-> category, direction |-> direction,
         strength |-> IF IsDirection(direction)
                      THEN Max({StrengthRank(x.strength) : x \in With(direction)}) ELSE 0]

FuseEvidence(items) ==
    {BuildGroup(k[1], k[2], {x \in items : x.role = k[1] /\ x.category = k[2]}) :
        k \in {<<x.role, x.category>> : x \in items}}

-----------------------------------------------------------------------------
(* Setup quality (quality.py).                                             *)

StrengthShare(rank) == CASE rank = 1 -> 40 [] rank = 2 -> 70 [] rank = 3 -> 100 [] OTHER -> 0
RoleShare(r) == CASE r = "SETUP" -> 20 [] r = "ENTRY" -> 10 [] OTHER -> 35

Score(available, weight, awarded) == [available |-> available, weight |-> weight, awarded |-> awarded]
Unmeasured(weight) == Score(FALSE, weight, 0)

\* The strongest group, and 15% for every further category.
Share(groups) ==
    IF groups = {} THEN 0
    ELSE Min({100, Max({StrengthShare(g.strength) : g \in groups})
                     + 15 * (Cardinality({g.category : g \in groups}) - 1)})

CategoryComponent(groups, direction, categories, weight) ==
    LET relevant == {g \in groups : g.category \in categories}
        graded == {g \in relevant : IsDirection(g.direction)}
        support == {g \in graded : g.direction = direction}
    IN  CASE relevant = {} -> Unmeasured(weight)
          [] relevant # {} /\ graded = {} -> Score(TRUE, weight, 0)
          [] OTHER -> Score(TRUE, weight,
                        Clamp(Round(weight * (Share(support) - Share(graded \ support)), 100), weight))

Readable(readings) == {r \in DOMAIN readings : readings[r].direction # "UNAVAILABLE"}
SumShare(S) == MapThenSumSet(RoleShare, S)

\* Agreement among the timeframes that can be read, by role share; neutral
\* earns half.
TimeframeAlignment(readings, direction, weight) ==
    LET readable == Readable(readings)
        earned == 2 * SumShare({r \in readable : readings[r].direction = direction})
                    + SumShare({r \in readable : readings[r].direction = "NEUTRAL"})
    IN  IF Cardinality(readable) < MinimumRoles THEN Unmeasured(weight)
        ELSE Score(TRUE, weight, Clamp(Round(weight * earned, 2 * SumShare(readable)), weight))

TimeframeCoverage(readings, weight) ==
    Score(TRUE, weight, Clamp(Round(weight * SumShare(Readable(readings)), 100), weight))

RegimeSuitability(groups, direction, weight) ==
    LET regimes == {g \in groups : g.category = "REGIME"}
        support == {g \in regimes : g.direction = direction}
        against == {g \in regimes : Opposes(g.direction, direction)}
        percent == CASE support # {} /\ against = {} -> 100
                     [] support = {} /\ against # {} -> 0
                     [] support # {} /\ against # {} -> 30
                     [] OTHER -> 40
    IN  IF regimes = {} THEN Unmeasured(weight)
        ELSE Score(TRUE, weight, Clamp(Round(weight * percent, 100), weight))

SeverityCost(severity) == CASE severity = "MAJOR" -> 3 [] severity = "MODERATE" -> 2 [] OTHER -> 1

\* each kind of contradiction between the same roles is charged once
ContradictionBurden(contradictions, weight) ==
    Score(TRUE, weight,
          Clamp(weight - MapThenSumSet(LAMBDA c : SeverityCost(c.severity), contradictions), weight))

TotalWeight(scores) == MapThenSumSet(LAMBDA i : scores[i].weight, DOMAIN scores)
Measured(scores) == {i \in DOMAIN scores : scores[i].available}

DataAvailability(scores, weight) ==
    Score(TRUE, weight,
          Clamp(Round(weight * MapThenSumSet(LAMBDA i : scores[i].weight, Measured(scores)),
                      TotalWeight(scores)), weight))

\* points out of a hundred of the weight that could be measured
Total(scores) ==
    LET weight == MapThenSumSet(LAMBDA i : scores[i].weight, Measured(scores))
    IN  IF weight = 0 THEN 0
        ELSE Round(100 * MapThenSumSet(LAMBDA i : scores[i].awarded, Measured(scores)), weight)

ScoreSetup(groups, report, direction) ==
    LET scores == <<CategoryComponent(groups, direction, {"TREND"}, 15),
                    CategoryComponent(groups, direction, {"STRUCTURE"}, 15),
                    CategoryComponent(groups, direction, {"MOMENTUM", "INTRADAY"}, 8),
                    CategoryComponent(groups, direction, {"VOLUME", "DIVERGENCE"}, 8),
                    CategoryComponent(groups, direction, {"LEVEL", "BREAKOUT", "RETEST"}, 10),
                    TimeframeAlignment(report.readings, direction, 16),
                    TimeframeCoverage(report.readings, 8),
                    RegimeSuitability(groups, direction, 8),
                    ContradictionBurden(report.contradictions, 8)>>
    IN  Append(scores, DataAvailability(scores, 4))

-----------------------------------------------------------------------------
(* Entry quality (entry.py): the entry timeframe alone.                    *)

FromCategories(groups, direction, categories, weight) ==
    LET relevant == {g \in groups : g.role = "ENTRY" /\ g.category \in categories}
        graded == {g \in relevant : IsDirection(g.direction)}
        Best(S) == Max({0} \cup {StrengthShare(g.strength) : g \in S})
        support == {g \in graded : g.direction = direction}
    IN  CASE relevant = {} -> Unmeasured(weight)
          [] relevant # {} /\ graded = {} -> Score(TRUE, weight, Round(weight, 2))
          [] OTHER -> Score(TRUE, weight,
                        Clamp(Round(weight * (Best(support) - Best(graded \ support)), 100), weight))

\* Full marks within one ATR of the reference EMA, none beyond three.
Extension(v, weight) ==
    LET bar == LastBar(v)
        away == Abs(bar.close - bar.ref)
    IN  IF bar.ref = None \/ bar.atr = None THEN Unmeasured(weight)
        ELSE IF bar.atr <= 0 THEN Unmeasured(weight)
        ELSE Score(TRUE, weight,
               CASE away <= bar.atr -> weight
                 [] away >= 3 * bar.atr -> 0
                 [] OTHER -> Clamp(Round(weight * (3 * bar.atr - away), 2 * bar.atr), weight))

\* None without an entry timeframe: the question cannot be answered.
ScoreEntry(views, groups, direction) ==
    IF "ENTRY" \notin DOMAIN views THEN None
    ELSE LET scores == <<FromCategories(groups, direction, {"STRUCTURE"}, 20),
                         FromCategories(groups, direction, {"LEVEL"}, 16),
                         FromCategories(groups, direction, {"BREAKOUT", "RETEST"}, 16),
                         FromCategories(groups, direction, {"VOLUME", "DIVERGENCE"}, 12),
                         FromCategories(groups, direction, {"MOMENTUM"}, 12),
                         FromCategories(groups, direction, {"INTRADAY"}, 8),
                         Extension(views["ENTRY"], 16)>>
         IN  [score |-> Total(scores), components |-> scores]

ExtensionOf(entry) == entry.components[7]

-----------------------------------------------------------------------------
(* Scenarios.                                                              *)

RoleAgrees(readings, role, direction) ==
    IF role \notin Readable(readings) THEN "UNKNOWN"
    ELSE IF readings[role].direction = direction THEN "MET" ELSE "UNMET"

GroupAgrees(groups, categories, direction) ==
    LET present == {g \in groups : g.category \in categories}
    IN  IF present = {} THEN "UNKNOWN"
        ELSE IF \E g \in present : g.direction = direction THEN "MET" ELSE "UNMET"

Majors(report) == {c \in report.contradictions : c.severity = "MAJOR"}

Requirements(groups, report, direction) ==
    [BIAS_TIMEFRAME_AGREES       |-> RoleAgrees(report.readings, "BIAS", direction),
     SETUP_TIMEFRAME_AGREES      |-> RoleAgrees(report.readings, "SETUP", direction),
     ENTRY_TIMEFRAME_AGREES      |-> RoleAgrees(report.readings, "ENTRY", direction),
     NO_MAJOR_CONTRADICTION      |-> IF Majors(report) = {} THEN "MET" ELSE "UNMET",
     STRUCTURE_SUPPORTS          |-> GroupAgrees(groups, {"STRUCTURE"}, direction),
     BREAKOUT_OR_RETEST_RESOLVED |-> GroupAgrees(groups, {"BREAKOUT", "RETEST"}, direction)]

Outstanding(requirements) == {c \in DOMAIN requirements : requirements[c] # "MET"}

ScenarioState(groups, report, direction, requirements) ==
    LET supporting == {g \in groups : g.direction = direction}
    IN  CASE "BIAS" \notin Readable(report.readings) -> "UNAVAILABLE"
          [] OTHER ->
             CASE supporting = {} -> "INACTIVE"
               [] supporting # {} /\ report.readings["BIAS"].direction # direction -> "FORMING"
               [] OTHER -> IF Outstanding(requirements) # {}
                           THEN "WAITING_FOR_CONFIRMATION" ELSE "CONFIRMED"

NeutralState(report) ==
    LET said == {report.readings[r].direction : r \in DOMAIN report.readings}
    IN  CASE DOMAIN report.readings = {} -> "UNAVAILABLE"
          [] DOMAIN report.readings # {} /\ "NEUTRAL" \notin said -> "INACTIVE"
          [] OTHER -> IF \E d \in said : IsDirection(d) THEN "FORMING" ELSE "CONFIRMED"

DirectionalScenario(views, groups, report, direction) ==
    LET requirements == Requirements(groups, report, direction)
        components == ScoreSetup(groups, report, direction)
    IN  [state |-> ScenarioState(groups, report, direction, requirements),
         requirements |-> requirements,
         outstanding |-> Outstanding(requirements),
         quality |-> Total(components), components |-> components,
         entry |-> ScoreEntry(views, groups, direction)]

\* The whole multi-timeframe analysis (analyse_multi_timeframe).
AnalyseMultiTimeframe(views) ==
    LET items  == UNION {BuildTimeframeEvidence(views[r]) : r \in DOMAIN views}
        report == DetectContradictions(views, items)
        groups == FuseEvidence(items)
    IN  [items |-> items, report |-> report, groups |-> groups,
         missing |-> RoleSet \ DOMAIN views,
         regimes |-> [r \in DOMAIN views |-> views[r].snap.regime],
         scenarios |-> [d \in {"BULLISH", "BEARISH"} |->
                          DirectionalScenario(views, groups, report, d)],
         neutral |-> NeutralState(report)]
=============================================================================
