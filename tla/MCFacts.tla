------------------------------ MODULE MCFacts ------------------------------
(***************************************************************************)
(* Two operators.  Facts of one contract from three documents: the         *)
(* exchange's, a later correction of it, and a provider's that disagrees.  *)
(* In other behaviours no operator acts and one external source delivers   *)
(* its items in every order while a reader asks once.                      *)
(***************************************************************************)
EXTENDS Facts, SourceFeeds

Claim(id, fact, v, reference, authority, from, until, corrects) ==
    [id |-> id, symbol |-> Symbol, fact |-> fact,
     value |-> [type |-> ValueType(fact), v |-> v],
     reference |-> reference, authority |-> authority, from |-> from, until |-> until,
     by |-> "p", origin |-> "MANUAL_ENTRY", corrects |-> corrects]
SubmitOf(claim) == [op |-> "submit", claim |-> claim, fits |-> TRUE]
DecideOf(id, reviewer, outcome, checked) ==
    [op |-> "decide", id |-> id, reviewer |-> reviewer, outcome |-> outcome, checked |-> checked]
PublishOf(record, multiplier, tick, expiry) ==
    [op |-> "publish", record |-> record, multiplier |-> multiplier, tick |-> tick,
     expiry |-> expiry]

Official(id, fact, v) == Claim(id, fact, v, "circular", "EXCHANGE_OFFICIAL", 0, None, None)
Provided(id, fact, v, from) == Claim(id, fact, v, "vendor", "LICENSED_PROVIDER", from, None, None)
Correcting(id, fact, v, record) == Claim(id, fact, v, "erratum", "EXCHANGE_OFFICIAL", 0, None, record)
Approve(id, who) == DecideOf(id, who, "APPROVED", TRUE)
Publish(record, n) == PublishOf(record, "m" \o n, "t" \o n, None)

\* The journal after the claims were submitted at 1, those of `approved` were
\* approved by carol at 1, and `published` were published from them at 1.
ApprovalOf(id) == [id |-> id, reviewer |-> "carol", outcome |-> "APPROVED", checked |-> TRUE, at |-> 1]
CarolOn(s) == [s |-> s, d |-> ApprovalOf(s.id)]
Rows(claims, record, m, t) ==
    LET part(id) == CarolOn(Claimed(CHOOSE c \in claims : c.id = id, 1))
    IN  <<RowOf([record |-> RecordFromApproved(record, part(m), part(t), None),
                 cited |-> <<m, t>>], 1)>>
Start(claims, approved, rows) ==
    [submissions |-> {Claimed(c, 1) : c \in claims},
     decisions |-> {[d |-> ApprovalOf(id), verdict |-> Verdict("APPROVED", None)] : id \in approved},
     records |-> rows]

Exchange == {Official("m1", "MULTIPLIER", 10), Official("t1", "TICK_SIZE", 5)}
Erratum == {Correcting("m2", "MULTIPLIER", 100, "r1"), Correcting("t2", "TICK_SIZE", 5, "r1")}
Vendor(from) == {Provided("m3", "MULTIPLIER", 50, from), Provided("t3", "TICK_SIZE", 5, from)}
Both == {"m1", "t1"}

Level == [o \in Operators |-> 0]
Ahead(who) == [o \in Operators |-> IF o = who THEN 1 ELSE 0]
Given(start, a, b, s) ==
    [start |-> start, scripts |-> [o \in Operators |-> IF o = "alice" THEN a ELSE b], skew |-> s]

\* A record is corrected and contradicted while the reader asks.
Correction(s) ==
    Given(Start(Exchange \cup Erratum, Both, Rows(Exchange, "r1", "m1", "t1")),
          <<Approve("m2", "alice")>>,
          <<Approve("t2", "bob"), Publish("r2", "2")>>, s)
Contradiction(from) ==
    Given(Start(Exchange \cup Vendor(from), Both \cup {"m3", "t3"}, <<>>),
          <<Publish("r1", "1")>>, <<Publish("r3", "3")>>, Level)
TooMany ==
    Given(Start(Exchange \cup Vendor(0), Both \cup {"m3", "t3"}, Rows(Exchange, "r1", "m1", "t1")),
          <<Publish("r4", "1")>>, <<Publish("r3", "3")>>, Level)
Expiring ==
    Given(Start(Exchange, Both, <<>>),
          <<SubmitOf(Official("e1", "EXPIRY_DATE", 2)), Approve("e1", "alice"),
            PublishOf("r1", "m1", "t1", "e1")>>, <<>>, Level)

\* Two reviewers on one submission: approval, rejection, document unread;
\* bob publishes as soon as both facts are approved.
Dispute(outcome, checked) ==
    Given(Start({Official("t1", "TICK_SIZE", 5)}, {"t1"}, <<>>),
          <<SubmitOf(Official("m1", "MULTIPLIER", 10)), Approve("m1", "alice")>>,
          <<DecideOf("m1", "bob", outcome, checked), Publish("r1", "1")>>, Ahead("alice"))

\* one submission id, one record id, used for two things by two people
Clash ==
    Given(Start(Exchange \cup Vendor(0), Both \cup {"m3", "t3"}, <<>>),
          <<SubmitOf(Official("m4", "MULTIPLIER", 10)), Publish("r1", "1")>>,
          <<SubmitOf(Official("m4", "MULTIPLIER", 20)), Publish("r1", "3"),
            PublishOf("r4", "m3", "t1", None)>>, Level)
Malformed ==
    Given(Start({}, {}, <<>>),
          <<[SubmitOf(Official("m1", "MULTIPLIER", 10)) EXCEPT !.fits = FALSE],
            SubmitOf([Claim("m1", "MULTIPLIER", 10, "", "EXCHANGE_OFFICIAL", 0, 3, None)
                        EXCEPT !.origin = "FILE_IMPORT"]),
            Approve("m1", "alice")>>,
          <<SubmitOf(Correcting("m2", "MULTIPLIER", 100, "r1")), Approve("m2", "bob"),
            SubmitOf(Claim("m3", "MULTIPLIER", 0, "d", "SECONDARY", 3, 2, None))>>, Level)

MCScenarios ==
    {Correction(s) : s \in {Level, Ahead("alice"), Ahead("bob")}}
    \cup {Contradiction(from) : from \in {0, 2}}
    \cup {Dispute(outcome, checked) : outcome \in {"APPROVED", "REJECTED"}, checked \in BOOLEAN}
    \cup {TooMany, Expiring, Clash, Malformed}

MCQuestions == [applies : {1, 3}, known : {1, 2}] \cup [applies : {3}, known : {None}]

-----------------------------------------------------------------------------
Observation(measured, published, received, revision, contracts, trusted) ==
    [measured |-> measured, published |-> published, received |-> received,
     revision |-> revision, contracts |-> contracts, concerns |-> TRUE, authoritative |-> trusted]
Article(published, available, revision, status, usage) ==
    [id |-> "a", published |-> published, available |-> available, revision |-> revision,
     status |-> status, usage |-> usage, real |-> TRUE]
Move(symbol, direction, available, revision) ==
    [symbol |-> symbol, direction |-> direction, observed |-> 1, published |-> 1,
     available |-> available, revision |-> revision]
Day(day, offset, open) ==
    [concerns |-> TRUE, day |-> day, offset |-> offset, usable |-> TRUE, available |-> 1,
     kind |-> IF open = {} THEN "HOLIDAY" ELSE "REGULAR", open |-> open]

OpenInterestItems ==
    {Observation(1, 2, 1, 0, 10, TRUE), Observation(1, None, 3, 1, 12, TRUE),
     Observation(1, 3, 3, 1, 13, TRUE), Observation(3, None, 2, 0, 20, TRUE),
     Observation(3, 3, 3, 0, 20, FALSE)}
NewsItems ==
    {Article(1, 1, 0, "PUBLISHED", "DISPLAY_AND_ANALYSIS"), Article(1, 2, 1, "CORRECTED", "ANALYSIS_ONLY"),
     Article(1, 3, 1, "RETRACTED", "ANALYSIS_ONLY"), Article(1, 3, 2, "RETRACTED", "ANALYSIS_ONLY"),
     Article(1, 1, 3, "CORRECTED", "NONE")}
BreadthItems ==
    {Move("x", "ADVANCING", 1, 0), Move("x", "DECLINING", 2, 0), Move("x", "DECLINING", 3, 1),
     Move("y", "UNCHANGED", 2, 0), Move("z", "ADVANCING", 3, 0)}
CalendarItems == {Day(1, 0, {0}), Day(1, 0, {1}), Day(0, 0, {}), Day(1, 1, {0, 1}), Day(1, -1, {0})}

NoLicence == [declared |-> FALSE, delivery |-> "REAL_TIME", grant |-> None, connected |-> FALSE]
Grants == {None} \cup [provider : BOOLEAN, covers : BOOLEAN, delivery : {"REAL_TIME", "DELAYED", Simulated},
                       authoritative : BOOLEAN, until : {None, 2}]
Licences == [declared : BOOLEAN, delivery : {"REAL_TIME", Simulated}, grant : Grants, connected : BOOLEAN]

Source(kind, items, up, licence) == [kind |-> kind, items |-> items, up |-> up, licence |-> licence]
MCSetups ==
    {Source("open_interest", OpenInterestItems, up, NoLicence) : up \in BOOLEAN}
    \cup {Source("news", NewsItems, TRUE, NoLicence), Source("breadth", BreadthItems, TRUE, NoLicence),
          Source("calendar", CalendarItems, TRUE, NoLicence)}
    \cup {Source("licence", {[available |-> 1]}, TRUE, l) : l \in Licences}
MCCoverage == <<1, 2>>

Nobody == Given(Start({}, {}, <<>>), <<>>, <<>>, Level)
MCInit ==
    \/ Init /\ source = None /\ feed = <<>> /\ asked = None
    \/ /\ FeedInit
       /\ skew = Nobody.skew
       /\ op = [o \in Operators |-> [script |-> <<>>, pc |-> "next", held |-> <<>>]]
       /\ clock = 1 /\ submissions = {} /\ decisions = {} /\ records = <<>>
       /\ answers = {} /\ interruptions = 0 /\ told = None
MCNext ==
    \/ source = None /\ Next /\ UNCHANGED feedVars
    \/ source # None /\ FeedNext /\ UNCHANGED vars
MCSpec == MCInit /\ [][MCNext]_<<vars, feedVars>>
=============================================================================
