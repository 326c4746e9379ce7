--------------------------- MODULE StructureRules ---------------------------
(***************************************************************************)
(* The structural rules of domain/structure: what a series of closed       *)
(* candles shows at its last bar.  Every rule is a function of the whole   *)
(* series, recomputed from nothing each time a bar is added, so what it    *)
(* said about the past could change; module Analysis checks that it never  *)
(* does.                                                                   *)
(*                                                                         *)
(* A bar carries its high, low and close and the value each Phase 1        *)
(* indicator has at it (None while warming up): atr, rv (relative volume), *)
(* vma (volume average), adx, stack (the EMA order) and vol (the           *)
(* volatility state).  Indicators are causal and float-valued, so they     *)
(* enter as data.  Bars are numbered from 1, the code's from 0.            *)
(***************************************************************************)
EXTENDS Optional, Integers, Sequences, FiniteSets, FiniteSetsExt

CONSTANTS
    Left, Right,        \* SwingConfig: bars on each side of a pivot
    EqualTolerance,     \* StructureLabelConfig.equal_tolerance
    BreachTolerance,    \* StructuralEventConfig.breach_tolerance
    MinTouches,         \* ZoneConfig.min_touches
    MaxTouchesScored,   \* ZoneConfig.max_touches_for_score
    FailureWindow,      \* BreakoutConfig.failure_window
    RetestWindow,       \* BreakoutConfig.retest_window
    ResolutionWindow,   \* BreakoutConfig.retest_resolution_window
    VolumeMultiple,     \* BreakoutConfig.volume_confirmation_multiple, tenths
    BreakoutRecency,    \* RegimeConfig.breakout_recency
    StrongAdx, RangeAdx,\* RegimeConfig.strong_adx, range_adx_max
    MaxPrice            \* bound: no price is above it

\* the checks of the configuration objects' __post_init__
ValidConfig ==
    /\ {Left, Right, MinTouches, FailureWindow, RetestWindow,
        ResolutionWindow, VolumeMultiple, BreakoutRecency} \subseteq Nat \ {0}
    /\ {EqualTolerance, BreachTolerance} \subseteq Nat
    /\ RangeAdx <= StrongAdx

ASSUME StructureConfig == ValidConfig

Abs(n) == IF n < 0 THEN -n ELSE n
LastSwing(S) == CHOOSE s \in S : \A t \in S : t.pivot <= s.pivot

-----------------------------------------------------------------------------
(* Swings and their labels.                                                *)

IsPivotHigh(v, i) ==
    /\ \A k \in 1..Left  : v[i] > v[i - k]
    /\ \A k \in 1..Right : v[i] >= v[i + k]

IsPivotLow(v, i) ==
    /\ \A k \in 1..Left  : v[i] < v[i - k]
    /\ \A k \in 1..Right : v[i] <= v[i + k]

\* A pivot is knowable only once the bars to its right have closed.
Swing(type, i, price) ==
    [type |-> type, pivot |-> i, price |-> price, confirmed |-> i + Right]

HighsOf(bars) == [i \in DOMAIN bars |-> bars[i].high]
LowsOf(bars) == [i \in DOMAIN bars |-> bars[i].low]

\* the bars with enough bars on both sides
InnerBars(bars) == (Left + 1)..(Len(bars) - Right)

DetectSwings(bars) ==
    {Swing("HIGH", i, bars[i].high) : i \in {j \in InnerBars(bars) : IsPivotHigh(HighsOf(bars), j)}}
      \cup
    {Swing("LOW", i, bars[i].low) : i \in {j \in InnerBars(bars) : IsPivotLow(LowsOf(bars), j)}}

KnownAt(S, i) == {s \in S : s.confirmed <= i}

OfType(S, type) == {s \in S : s.type = type}

\* the swing of the same kind just before s
Previous(S, s) ==
    LET earlier == {t \in OfType(S, s.type) : t.pivot < s.pivot}
    IN  IF earlier = {} THEN None ELSE LastSwing(earlier)

LabelHigh(price, previous) ==
    CASE previous = None -> "FIRST_HIGH"
      [] previous # None /\ Abs(price - previous.price) <= EqualTolerance -> "EQH"
      [] OTHER -> IF price > previous.price THEN "HH" ELSE "LH"

LabelLow(price, previous) ==
    CASE previous = None -> "FIRST_LOW"
      [] previous # None /\ Abs(price - previous.price) <= EqualTolerance -> "EQL"
      [] OTHER -> IF price > previous.price THEN "HL" ELSE "LL"

DeriveBias(high, low) ==
    CASE high \in {None, "FIRST_HIGH"} \/ low \in {None, "FIRST_LOW"} -> "INSUFFICIENT"
      [] high = "HH" /\ low = "HL" -> "BULLISH"
      [] high = "LH" /\ low = "LL" -> "BEARISH"
      [] high = "LH" /\ low = "HL" -> "CONTRACTING"
      [] high = "HH" /\ low = "LL" -> "EXPANDING"
      [] OTHER -> "AMBIGUOUS"

\* No two swings of a kind in a row (at one pivot, the high comes first).
Alternates(S) ==
    LET Before(s, t) == \/ s.pivot < t.pivot
                        \/ s.pivot = t.pivot /\ s.type = "HIGH" /\ t.type = "LOW"
    IN  \A s, t \in S :
           Before(s, t) /\ s.type = t.type =>
              \E u \in S : Before(s, u) /\ Before(u, t)

LabelSwings(S) ==
    LET highs == OfType(S, "HIGH")
        lows  == OfType(S, "LOW")
        high  == IF highs = {} THEN None
                 ELSE LabelHigh(LastSwing(highs).price, Previous(S, LastSwing(highs)))
        low   == IF lows = {} THEN None
                 ELSE LabelLow(LastSwing(lows).price, Previous(S, LastSwing(lows)))
    IN  [bias |-> DeriveBias(high, low), alternates |-> Alternates(S)]

-----------------------------------------------------------------------------
(* Structural events: a close beyond the latest swing not yet broken.      *)

Directional(bias) == bias \in {"BULLISH", "BEARISH"}

BuildEvent(direction, origin, bias, i) ==
    [type |-> CASE ~Directional(bias) -> "LEVEL_BREAK"
                [] (direction = "LONG") = (bias = "BULLISH") -> "BOS"
                [] OTHER -> "CHOCH",
     direction |-> direction, level |-> origin.price, origin |-> origin.pivot,
     confirmed |-> i]

LatestUnbroken(known, type, broken) ==
    LET open == {s \in OfType(known, type) : s.pivot \notin broken}
    IN  IF open = {} THEN None ELSE LastSwing(open)

\* One bar of the scan: acc holds the events so far and the pivots consumed.
ScanBar(bars, swings, acc, i) ==
    LET known  == KnownAt(swings, i)
        bias   == LabelSwings(known).bias
        upper  == LatestUnbroken(known, "HIGH", acc.highs)
        lower  == LatestUnbroken(known, "LOW", acc.lows)
        up     == upper # None /\ bars[i].close > upper.price + BreachTolerance
        down   == lower # None /\ bars[i].close < lower.price - BreachTolerance
    IN  [events |-> acc.events
                      \cup (IF up THEN {BuildEvent("LONG", upper, bias, i)} ELSE {})
                      \cup (IF down THEN {BuildEvent("SHORT", lower, bias, i)} ELSE {}),
         highs  |-> acc.highs \cup (IF up THEN {upper.pivot} ELSE {}),
         lows   |-> acc.lows \cup (IF down THEN {lower.pivot} ELSE {})]

\* the scan, bar by bar
EventScan(bars, swings) ==
    LET scan[i \in 0..Len(bars)] ==
          IF i = 0 THEN [events |-> {}, highs |-> {}, lows |-> {}]
          ELSE ScanBar(bars, swings, scan[i - 1], i)
    IN  scan

DetectStructuralEvents(bars, swings) == EventScan(bars, swings)[Len(bars)].events

-----------------------------------------------------------------------------
(* Zones: swings of one kind whose prices cluster within half an ATR of    *)
(* the cluster's lowest.                                                   *)

LastDefined(bars, limit) ==
    LET defined == {i \in 1..limit : bars[i].atr # None}
    IN  IF defined = {} THEN None ELSE bars[Max(defined)].atr

\* the lowest price of the cluster a price falls in, for swings of one kind
Anchors(S, atr) ==
    LET prices == {s.price : s \in S}
        anchor[p \in 0..MaxPrice] ==
          LET a == IF p = 0 THEN None ELSE anchor[p - 1]
          IN  CASE p \notin prices -> a
                [] a # None /\ 2 * (p - a) <= atr -> a
                [] OTHER -> p
    IN  anchor

Clusters(S, atr) ==
    LET anchor == Anchors(S, atr)
    IN  {C \in {{s \in S : anchor[s.price] = a} : a \in {anchor[s.price] : s \in S}} :
            Cardinality(C) >= MinTouches}

\* The four parts of a zone's score, each in whole percent.  Recency is the
\* chord of the code's half-life of 50 bars, at most 5 points above it.
TouchesScore(C) == (100 * Min({Cardinality(C), MaxTouchesScored})) \div MaxTouchesScored
RecencyScore(C, limit) == Max({0, 100 - (limit - LastSwing(C).pivot)})

Travel(bars, s, limit) ==
    LET closes == {bars[j].close : j \in s.pivot..Min({limit, s.confirmed})}
    IN  Max({0, IF s.type = "HIGH" THEN s.price - Min(closes) ELSE Max(closes) - s.price})

ReactionScore(bars, C, atr, limit) ==
    Min({100, (100 * MapThenSumSet(LAMBDA s : Travel(bars, s, limit), C))
                \div (2 * atr * Cardinality(C))})

VolumeScore(bars, C) ==
    LET known == {s \in C : bars[s.pivot].rv # None}
    IN  IF known = {} THEN 0
        ELSE Min({100, (5 * MapThenSumSet(LAMBDA s : bars[s.pivot].rv, known))
                          \div Cardinality(known)})

ZoneStrength(bars, C, atr, limit) ==
    (35 * TouchesScore(C) + 25 * RecencyScore(C, limit)
       + 25 * ReactionScore(bars, C, atr, limit) + 15 * VolumeScore(bars, C)) \div 100

BuildZone(bars, C, kind, atr, limit) ==
    [kind |-> kind, low |-> Min({s.price : s \in C}), high |-> Max({s.price : s \in C}),
     strength |-> ZoneStrength(bars, C, atr, limit),
     confirmed |-> Max({s.confirmed : s \in C})]

ZonesFrom(bars, S, kind, atr, limit) ==
    {BuildZone(bars, C, kind, atr, limit) : C \in Clusters(S, atr)}

\* The zones as they stood when bar `limit` closed.
BuildZones(bars, swings, limit) ==
    LET visible == KnownAt(swings, limit)
        atr     == LastDefined(bars, limit)
    IN  IF atr = None \/ visible = {} THEN {}
        ELSE IF atr <= 0 THEN {}
        ELSE ZonesFrom(bars, OfType(visible, "LOW"), "SUPPORT", atr, limit)
               \cup ZonesFrom(bars, OfType(visible, "HIGH"), "RESISTANCE", atr, limit)

Band(z) == [kind |-> z.kind, low |-> z.low, high |-> z.high]

\* Mutant: breaks are read off the zones of the latest bar only.
HistoricalZonesOfToday(bars, swings) == BuildZones(bars, swings, Len(bars))

\* Every band that ever stood, dated by the first confirmation it stood at.
HistoricalZones(bars, swings) ==
    LET checkpoints == {s.confirmed : s \in swings}
        bandsAt == [c \in checkpoints |->
                       {Band(z) : z \in BuildZones(bars, swings, c)}]
    IN  {[kind |-> b.kind, low |-> b.low, high |-> b.high,
          confirmed |-> Min({c \in checkpoints : b \in bandsAt[c]})] :
            b \in UNION {bandsAt[c] : c \in checkpoints}}

-----------------------------------------------------------------------------
(* Breakouts and retests: one lifecycle per zone.                          *)

Upward(z) == z.kind = "RESISTANCE"
ZoneDirection(z) == IF Upward(z) THEN "LONG" ELSE "SHORT"
Beyond(z, price) == IF Upward(z) THEN price > z.high ELSE price < z.low
Returned(z, price) == IF Upward(z) THEN price <= z.high ELSE price >= z.low
Touched(z, bar) == IF Upward(z) THEN bar.high >= z.low ELSE bar.low <= z.high
Reentered(z, bar) == IF Upward(z) THEN bar.low <= z.high ELSE bar.high >= z.low
Through(z, price) == IF Upward(z) THEN price < z.low ELSE price > z.high

VolumeConfirmation(rv) ==
    CASE rv = None -> "UNAVAILABLE"
      [] rv # None /\ rv >= VolumeMultiple -> "CONFIRMED"
      [] OTHER -> "WEAK"

ZoneEvent(type, z, breach, volume, i) ==
    [type |-> type, direction |-> ZoneDirection(z), band |-> Band(z),
     breach |-> breach, volume |-> volume, confirmed |-> i]

\* The breach is false when a close returns within the window, confirmed when
\* the window passes, and unresolved while it runs.
ResolveBreach(bars, z, breach, volume) ==
    LET window == (breach + 1)..(breach + FailureWindow)
        back   == {i \in window \cap DOMAIN bars : Returned(z, bars[i].close)}
    IN  CASE back # {} -> {ZoneEvent("FALSE_BREAKOUT", z, breach, volume, Min(back))}
          [] back = {} /\ breach + FailureWindow <= Len(bars) ->
               {ZoneEvent("CONFIRMED", z, breach, volume, breach + FailureWindow)}
          [] OTHER -> {}

\* Only the first breach of a zone counts, and only the first touch before it.
ZoneLifecycle(bars, z) ==
    LET after    == (z.confirmed + 1)..Len(bars)
        beyond   == {i \in after : Beyond(z, bars[i].close)}
        breach   == IF beyond = {} THEN Len(bars) + 1 ELSE Min(beyond)
        touches  == {i \in after : i < breach /\ Touched(z, bars[i])}
        volume   == VolumeConfirmation(bars[breach].rv)
    IN  (IF touches = {} THEN {}
         ELSE {ZoneEvent("CHALLENGE", z, Min(touches), "UNAVAILABLE", Min(touches))})
          \cup
        (IF beyond = {} THEN {}
         ELSE {ZoneEvent("BREACH", z, breach, volume, breach)}
                \cup ResolveBreach(bars, z, breach, volume))

DetectBreakouts(bars, zones) == UNION {ZoneLifecycle(bars, z) : z \in zones}

RetestEvent(type, b, i) ==
    [type |-> type, direction |-> b.direction, band |-> b.band,
     broken |-> b.confirmed, confirmed |-> i]

ResolveRetest(bars, b, touch) ==
    LET window  == (touch + 1)..Min({touch + ResolutionWindow, Len(bars)})
        decided == {i \in window : \/ Beyond(b.band, bars[i].close)
                                   \/ Through(b.band, bars[i].close)}
    IN  IF decided = {} THEN {}
        ELSE {RetestEvent(IF Beyond(b.band, bars[Min(decided)].close)
                          THEN "HELD" ELSE "FAILED", b, Min(decided))}

\* the retest of one confirmed breakout: its first touch and what came of it
RetestOf(bars, b) ==
    LET window  == (b.confirmed + 1)..Min({Len(bars), b.confirmed + RetestWindow})
        entered == {i \in window : Reentered(b.band, bars[i])}
    IN  IF entered = {} THEN {}
        ELSE {RetestEvent("TOUCHED", b, Min(entered))}
               \cup ResolveRetest(bars, b, Min(entered))

DetectRetests(bars, breakouts) ==
    UNION {RetestOf(bars, b) : b \in OfType(breakouts, "CONFIRMED")}

-----------------------------------------------------------------------------
(* Divergences and the regime.                                             *)

\* A new extreme on a volume average more than 5% lower.
Diverges(bars, s, t) ==
    LET u == bars[s.pivot].vma
        v == bars[t.pivot].vma
    IN  IF u = None \/ v = None THEN FALSE
        ELSE /\ u > 0
             /\ Abs(t.price - s.price) > EqualTolerance
             /\ 100 * (v - u) < -5 * u
             /\ IF t.type = "HIGH" THEN t.price > s.price ELSE t.price < s.price

DetectVolumeDivergence(bars, swings) ==
    {[type |-> IF t.type = "HIGH" THEN "BEARISH" ELSE "BULLISH",
      pivot |-> t.pivot, confirmed |-> t.confirmed] :
        t \in {s \in swings : LET p == Previous(swings, s)
                              IN  IF p = None THEN FALSE ELSE Diverges(bars, p, s)}}

\* The latest confirmed breakout still recent at bar i; between two of one bar
\* the one whose zone was found first.
RecentBreakout(breakouts, zones, i) ==
    LET recent == {e \in breakouts : /\ e.type = "CONFIRMED"
                                     /\ e.confirmed <= i
                                     /\ i - e.confirmed < BreakoutRecency}
        latest == {e \in recent : \A o \in recent : o.confirmed <= e.confirmed}
        Found(e) == CHOOSE z \in zones : Band(z) = e.band
        First(e, o) == \/ Found(e).confirmed < Found(o).confirmed
                       \/ /\ Found(e).confirmed = Found(o).confirmed
                          /\ \/ ~Upward(e.band) /\ Upward(o.band)
                             \/ Upward(e.band) = Upward(o.band) /\ e.band.low <= o.band.low
    IN  IF recent = {} THEN None
        ELSE (CHOOSE e \in latest : \A o \in latest : First(e, o)).direction

VolatilityRange(vol) ==
    CASE vol = "LOW" -> "LOW_VOLATILITY_RANGE"
      [] vol = "HIGH" -> "HIGH_VOLATILITY_RANGE"
      [] OTHER -> "RANGE"

ClassifyRegime(bar, bias, recent) ==
    LET agree == Directional(bias) /\ bar.stack = bias
    IN  IF bar.adx = None \/ bar.stack = "UNKNOWN" THEN "UNCERTAIN"
        ELSE CASE recent # None -> IF recent = "LONG" THEN "BREAKOUT" ELSE "BREAKDOWN"
               [] recent = None /\ agree /\ bias = "BULLISH" ->
                    IF bar.adx >= StrongAdx THEN "STRONG_UPTREND" ELSE "WEAK_UPTREND"
               [] recent = None /\ agree /\ bias = "BEARISH" ->
                    IF bar.adx >= StrongAdx THEN "STRONG_DOWNTREND" ELSE "WEAK_DOWNTREND"
               [] recent = None /\ ~agree /\ bar.adx < RangeAdx
                    /\ bar.vol = "HIGH" /\ bias = "EXPANDING" -> "CHAOTIC"
               [] recent = None /\ ~agree /\ bar.adx < RangeAdx
                    /\ ~Directional(bias) /\ ~(bar.vol = "HIGH" /\ bias = "EXPANDING") ->
                    VolatilityRange(bar.vol)
               [] OTHER -> "UNCERTAIN"

\* The whole structural view of a non-empty series.
AnalyseStructure(bars) ==
    LET swings    == DetectSwings(bars)
        structure == LabelSwings(swings)
        history   == HistoricalZones(bars, swings)
        breakouts == DetectBreakouts(bars, history)
    IN  [swings      |-> swings,
         structure   |-> structure,
         events      |-> DetectStructuralEvents(bars, swings),
         zones       |-> BuildZones(bars, swings, Len(bars)),
         breakouts   |-> breakouts,
         retests     |-> DetectRetests(bars, breakouts),
         divergences |-> DetectVolumeDivergence(bars, swings),
         regime      |-> ClassifyRegime(bars[Len(bars)], structure.bias,
                                        RecentBreakout(breakouts, history, Len(bars)))]
=============================================================================
