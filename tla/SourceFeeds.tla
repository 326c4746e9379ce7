---------------------------- MODULE SourceFeeds ----------------------------
(***************************************************************************)
(* External sources read at a decision time: open interest, news, market   *)
(* breadth and session calendars, and the licence under which a provider's *)
(* data may be carried (backend/app/domain/sourcing/{open_interest, news,  *)
(* breadth,calendar,capability}.py and the readers of                      *)
(* application/sourcing/intelligence.py).                                  *)
(*                                                                         *)
(* A source holds the items its vendor has delivered, in delivery order:   *)
(* late, revised, contradicted or repeated.  The vendor is external.       *)
(***************************************************************************)
EXTENDS FactRules

CONSTANTS
    Setups,         \* [kind, items, up, licence]: a source and what it may deliver
    DecisionTimes,  \* the moments a reader may ask about
    FeedBound,      \* ProviderLimits: items one answer may hold
    FeedAge,        \* max_age of an observation, of a delivery
    Constituents,   \* the universe of the breadth source
    Coverage,       \* min_coverage, as <<numerator, denominator>>
    MaxDelivered    \* bound of the model

\* The kinds of source, and the times their readers compare.
ASSUME FeedSetups == \A s \in Setups :
    /\ s # None
    /\ s.kind \in {"open_interest", "news", "breadth", "calendar", "licence"}
    /\ s.kind = "open_interest" => \A o \in s.items :
           {o.measured, o.received} \subseteq Int /\ (o.published = None \/ o.published \in Int)
    /\ s.kind \in {"news", "breadth"} => \A item \in s.items : item.available \in Int
ASSUME FeedBounds == FeedBound \in Nat /\ DecisionTimes \subseteq Int

VARIABLES
    source,     \* the source, None when none is composed
    feed,       \* the items delivered to it so far
    asked       \* history: one answer, None before it is asked

feedVars == <<source, feed, asked>>

Unavailable == [status |-> "UNAVAILABLE", value |-> None]
Answered(status, value) == [status |-> status, value |-> value]
Largest(S) == CHOOSE x \in S : \A y \in S : y <= x

-----------------------------------------------------------------------------
\* available_at: published when the vendor says when, received otherwise
OpenInterestAvailable(o) ==
    LET said == IF o.published # None THEN o.published ELSE o.received
    IN  IF said >= o.measured THEN said ELSE o.measured

\* open_interest_at
OpenInterestAt(items, at) ==
    LET known == {i \in DOMAIN items : items[i].concerns /\ items[i].authoritative
                                       /\ OpenInterestAvailable(items[i]) <= at}
        latest == Largest({items[i].measured : i \in known})
        measured == {i \in known : items[i].measured = latest}
        top == Largest({items[i].revision : i \in measured})
        values == {items[i].contracts : i \in {j \in measured : items[j].revision = top}}
    IN  IF known = {} THEN Unavailable
        ELSE IF Cardinality(values) > 1 THEN Unavailable
        ELSE Answered(IF at - latest > FeedAge THEN "STALE" ELSE "AVAILABLE", <<latest, values>>)

\* An item j is at odds with the one held under its key when j is read: the
\* first of the highest revision before it, if that is j's own revision.
AtOdds(items, eligible, Key(_), Same(_, _)) ==
    \E j \in eligible, i \in eligible :
        /\ i < j /\ Key(items[i]) = Key(items[j]) /\ items[i].revision = items[j].revision
        /\ \A k \in eligible : (k < j /\ Key(items[k]) = Key(items[j])) =>
               items[k].revision < items[j].revision
                   \/ (items[k].revision = items[j].revision /\ i <= k)
        /\ ~Same(items[i], items[j])
\* What a dict keeps per key: the first item of the highest revision.
LatestOf(items, eligible, Key(_)) ==
    {items[i] : i \in {i \in eligible : \A j \in eligible :
        Key(items[j]) = Key(items[i]) =>
            items[j].revision < items[i].revision
                \/ (items[j].revision = items[i].revision /\ i <= j)}}

\* An item a reader may not have seen yet, let through by its date.
AvailableByDate(item, at) == item.published <= at
\* The moment an item could first be read decides, not the one it is about.
Available(item, at) == item.available <= at

\* news_visible_at; two texts under one revision make the source unusable
NewsVisibleAt(items, at) ==
    LET eligible == {i \in DOMAIN items : Available(items[i], at) /\ items[i].usage # "NONE"
                                          /\ items[i].real}
    IN  IF AtOdds(items, eligible, LAMBDA a : a.id, LAMBDA a, b : a = b) THEN Unavailable
        ELSE Answered("AVAILABLE", LatestOf(items, eligible, LAMBDA a : a.id))

\* breadth_at: an observation outside the universe refuses the whole answer
BreadthAt(items, at) ==
    LET eligible == {i \in DOMAIN items : items[i].observed = 1 /\ Available(items[i], at)}
        seen == LatestOf(items, eligible, LAMBDA a : a.symbol)
        counted(direction) == Cardinality({a \in seen : a.direction = direction})
    IN  IF \/ Constituents = {}
           \/ \E i \in DOMAIN items : items[i].symbol \notin Constituents
           \/ AtOdds(items, eligible, LAMBDA a : a.symbol, LAMBDA a, b : a.direction = b.direction)
           \/ seen = {}
           \/ Cardinality(seen) * Coverage[2] < Coverage[1] * Cardinality(Constituents)
        THEN Unavailable
        ELSE Answered(IF Cardinality(seen) < Cardinality(Constituents) THEN "PARTIAL" ELSE "AVAILABLE",
                      [direction \in {"ADVANCING", "DECLINING", "UNCHANGED"} |-> counted(direction)])

\* answer_from: a day has DayLength moments and its local offset
DayLength == 2
LocalTime(d, at) == at + d.offset
AnswerFrom(items, at) ==
    LET matching == {d \in ToSet(items) : d.concerns /\ LocalTime(d, at) \div DayLength = d.day}
        usable == {d \in matching : d.usable}
        shapes == {<<d.offset, d.kind, d.open>> : d \in usable}
        inside(d) == LocalTime(d, at) % DayLength \in d.open
    IN  IF usable = {} \/ Cardinality(shapes) > 1 THEN Unavailable
        ELSE Answered(IF \E d \in usable : inside(d) THEN "IN_SESSION" ELSE "OUT_OF_SESSION", None)

-----------------------------------------------------------------------------
(***************************************************************************)
(* Licences: what a session may carry, and what the capability page says.  *)
(***************************************************************************)
Simulated == "SIMULATED"

\* authorize_provenance, for market data
AuthorizeProvenance(l, at) ==
    IF l.delivery = Simulated THEN OK
    ELSE IF l.grant = None THEN "PROVENANCE_NOT_GRANTED"
    ELSE FirstRefusal(<<
        <<~l.grant.provider, "GRANT_FOR_ANOTHER_PROVIDER">>,
        <<~l.grant.covers, "GRANT_DOES_NOT_COVER_MARKET_DATA">>,
        <<l.grant.delivery # l.delivery, "GRANT_DELIVERY_MISMATCH">>,
        <<~l.grant.authoritative, "GRANT_NOT_AUTHORITATIVE">>,
        <<l.grant.until # None /\ at >= l.grant.until, "GRANT_LAPSED">>>>)

GrantRefusal(l, at) ==
    IF l.grant = None THEN "NOT_GRANTED"
    ELSE FirstRefusal(<<
        <<~l.grant.provider, "GRANT_FOR_ANOTHER_PROVIDER">>,
        <<~l.grant.covers, "GRANT_DOES_NOT_COVER_CATEGORY">>,
        <<l.delivery = Simulated \/ l.grant.delivery = Simulated, "SIMULATION_IS_NOT_LICENSED">>,
        <<l.grant.delivery # l.delivery, "GRANT_DELIVERY_MISMATCH">>,
        <<~l.grant.authoritative, "GRANT_NOT_AUTHORITATIVE">>,
        <<l.grant.until # None /\ at >= l.grant.until, "GRANT_LAPSED">>>>)

CategoryStatus(l, deliveries, at) ==
    IF ~l.declared THEN "NOT_CONFIGURED"
    ELSE IF GrantRefusal(l, at) # OK THEN "NOT_LICENSED"
    ELSE IF ~l.connected \/ deliveries = {} THEN "UNAVAILABLE"
    ELSE IF at - Largest(deliveries) > FeedAge THEN "STALE" ELSE "AVAILABLE"

LicenceAt(l, items, at) ==
    Answered(CategoryStatus(l, {items[i].available : i \in DOMAIN items}, at),
             AuthorizeProvenance(l, at))

-----------------------------------------------------------------------------
\* _fetch: a source that fails or exceeds its bound is no source at all.
Fetched(s, items) == s.up /\ Len(items) <= FeedBound

AnswerAt(s, items, at) ==
    IF ~Fetched(s, items) THEN Unavailable
    ELSE CASE s.kind = "open_interest" -> OpenInterestAt(items, at)
           [] s.kind = "news"          -> NewsVisibleAt(items, at)
           [] s.kind = "breadth"       -> BreadthAt(items, at)
           [] s.kind = "calendar"      -> AnswerFrom(items, at)
           [] s.kind = "licence"       -> LicenceAt(s.licence, items, at)

FeedInit ==
    /\ source \in Setups
    /\ feed = <<>>
    /\ asked = None

Deliver(item) ==
    /\ Len(feed) < MaxDelivered
    /\ feed' = Append(feed, item)
    /\ UNCHANGED <<source, asked>>

AskSource(at) ==
    /\ asked = None
    /\ asked' = [at |-> at, answer |-> AnswerAt(source, feed, at), count |-> Len(feed)]
    /\ UNCHANGED <<source, feed>>

FeedNext ==
    \/ \E item \in source.items : Deliver(item)
    \/ \E at \in DecisionTimes : AskSource(at)

FeedSpec == FeedInit /\ [][FeedNext]_feedVars

-----------------------------------------------------------------------------
ReadableAt(item) ==
    IF source.kind = "open_interest" THEN OpenInterestAvailable(item) ELSE item.available

\* Items delivered since the answer that were not readable at its moment.
OnlyLater == \A i \in (asked.count + 1) .. Len(feed) : ReadableAt(feed[i]) > asked.at

(***************************************************************************)
(* What a reader was told about a moment holds.  Open interest, news and   *)
(* breadth: items that became readable after the moment change nothing -   *)
(* no revision, retraction or contradiction reaches back - unless the      *)
(* source outgrew its bound or an observation lies outside the universe,   *)
(* which refuse the answer whenever they are available.  Calendar: a       *)
(* session answer may be withdrawn by a contradicting day, never turned    *)
(* into its opposite.  Licence: the check a session is built under and the *)
(* one the capability page shows agree on real market data.                *)
(***************************************************************************)
SourceAnswersHold ==
    (source # None /\ asked # None) =>
        \E again \in {AnswerAt(source, feed, asked.at)} :
            CASE source.kind = "calendar" ->
                     again = asked.answer \/ again = Unavailable \/ asked.answer = Unavailable
              [] source.kind = "licence" ->
                     \/ ~Fetched(source, feed) \/ ~source.licence.declared
                     \/ source.licence.delivery = Simulated
                     \/ (again.status = "NOT_LICENSED") = (again.value # OK)
              [] OTHER ->
                     \/ ~OnlyLater \/ ~Fetched(source, feed)
                     \/ source.kind = "breadth"
                            /\ \E i \in DOMAIN feed : feed[i].symbol \notin Constituents
                     \/ again = asked.answer
=============================================================================
