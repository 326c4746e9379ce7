----------------------------- MODULE FactRules -----------------------------
(***************************************************************************)
(* What the sourcing domain decides, as operators: the review of one       *)
(* submitted contract fact, the assembly of a source record from approved  *)
(* facts, and the choice between the records of one contract               *)
(* (backend/app/domain/sourcing/{review,facts,metadata}.py).               *)
(*                                                                         *)
(* Times are integers, a document is a name ("" is blank), a value is      *)
(* [type, v] or None.  A refusal is the code the program raises; the       *)
(* checks of a function are listed in the order the code makes them.       *)
(***************************************************************************)
EXTENDS Integers, Sequences, FiniteSets, SequencesExt

CONSTANT None

OK == "OK"

\* The code of the first check that fails, OK when none does.
FirstRefusal(checks) ==
    LET failed == {i \in DOMAIN checks : checks[i][1]}
    IN  IF failed = {} THEN OK
        ELSE checks[CHOOSE i \in failed : \A j \in failed : i <= j][2]

Rank == [EXCHANGE_OFFICIAL |-> 2, LICENSED_PROVIDER |-> 1, SECONDARY |-> 0, UNKNOWN |-> 0]
IsAuthority(authority) == Rank[authority] > 0

-----------------------------------------------------------------------------
(***************************************************************************)
(* Review.                                                                 *)
(***************************************************************************)
ValueType(fact) == IF fact = "EXPIRY_DATE" THEN "date" ELSE "decimal"

\* review, past the rejection: what an approval must have in front of it.
ApprovalRefusal(s, d) ==
    FirstRefusal(<<
        <<s.origin = "FILE_IMPORT", "FILE_IMPORT_NOT_VERIFIABLE">>,
        <<s.reference = "", "NO_REFERENCE">>,
        <<~d.checked, "DOCUMENT_NOT_CHECKED">>,
        <<~IsAuthority(s.authority), "NOT_AN_AUTHORITATIVE_SOURCE">>,
        <<s.from = None, "EFFECTIVE_DATE_MISSING">>,
        <<s.value = None, "VALUE_MISSING">>,
        <<s.value # None /\ s.value.type # ValueType(s.fact), "VALUE_TYPE">>,
        <<s.value # None /\ s.value.type = "decimal" /\ s.value.v <= 0, "VALUE_NOT_POSITIVE">>>>)

Verdict(result, code) == [result |-> result, code |-> code]

\* judge: a refusal is a result like the others, never an exception
Judge(s, d) ==
    LET basic == FirstRefusal(<<
                    <<d.id # s.id, "WRONG_SUBMISSION">>,
                    <<d.reviewer = "", "REVIEWER_UNNAMED">>,
                    <<d.at < s.at, "DECIDED_BEFORE_SUBMITTED">>>>)
    IN  CASE basic # OK                       -> Verdict("REFUSED", basic)
          [] basic = OK /\ d.outcome = "REJECTED" -> Verdict("REJECTED", None)
          [] OTHER -> IF ApprovalRefusal(s, d) = OK THEN Verdict("APPROVED", None)
                      ELSE Verdict("REFUSED", ApprovalRefusal(s, d))

\* same_claim, same_decision: the instant they were made apart
SameClaim(s, t) == [s EXCEPT !.at = t.at] = t
SameDecision(d, e) == [d EXCEPT !.at = e.at] = e

-----------------------------------------------------------------------------
(***************************************************************************)
(* record_from_approved.  A part is [s, d]: a submission and the decision  *)
(* that approved it.                                                       *)
(***************************************************************************)
SourceOf(s) == <<s.symbol, s.reference, s.authority, s.from, s.until>>
Earliest(S) == CHOOSE t \in S : \A u \in S : t <= u

AssemblyRefusal(id, multiplier, tick, expiry) ==
    LET parts == {multiplier, tick} \cup (IF expiry = None THEN {} ELSE {expiry})
    IN  FirstRefusal(<<
            <<\E p \in parts : SourceOf(p.s) # SourceOf(multiplier.s), "MIXED_SOURCES">>,
            <<Cardinality({p.s.corrects : p \in parts}) # 1, "MIXED_CORRECTIONS">>,
            <<expiry # None /\ \A p \in {expiry} : p.s.fact # "EXPIRY_DATE", "WRONG_FACT">>,
            <<multiplier.s.fact # "MULTIPLIER", "WRONG_FACT">>,
            <<tick.s.fact # "TICK_SIZE", "WRONG_FACT">>,
            <<multiplier.s.corrects = id, "SELF_CORRECTION">>>>)

RecordFromApproved(id, multiplier, tick, expiry) ==
    LET parts == {multiplier, tick} \cup (IF expiry = None THEN {} ELSE {expiry})
        first == multiplier.s
    IN  [id |-> id, symbol |-> first.symbol, authority |-> first.authority,
         reference |-> first.reference, from |-> first.from, until |-> first.until,
         corrects |-> first.corrects, verified |-> Earliest({p.d.at : p \in parts}),
         by |-> {p.d.reviewer : p \in parts},
         facts |-> [multiplier |-> multiplier.s.value.v, tick_size |-> tick.s.value.v,
                    expiry_date |-> IF expiry = None THEN None ELSE expiry.s.value.v]]

-----------------------------------------------------------------------------
(***************************************************************************)
(* assess_fact_records: which record, if any, may be used.                 *)
(***************************************************************************)
\* the records that pass a test, each in its place in the order
Kept(records, Test(_)) == [i \in {i \in DOMAIN records : Test(records[i])} |-> records[i]]

Refuse(code, superseded) == [code |-> code, record |-> None, superseded |-> superseded,
                             conflicts |-> {}]

AppliesAt(r, moment) == r.from <= moment /\ (r.until = None \/ moment < r.until)

\* contract_state is EXPIRED the day after the expiry date
ExpiredAt(r, moment) == r.facts.expiry_date # None /\ moment > r.facts.expiry_date

\* ContractSourceRecord.is_authoritative: a reviewed record's facts are verified
Authoritative(r) == IsAuthority(r.authority) /\ r.reference # ""

\* The facts on which the chosen record and another one give different values.
Disagreements(chosen, other) ==
    {fact \in DOMAIN chosen.facts :
        chosen.facts[fact] # None /\ other.facts[fact] # None
            /\ chosen.facts[fact] # other.facts[fact]}

\* A disagreement no rule resolves: equals of one date, or a lesser source
\* that claims to be newer than the exchange's record.
Unresolved(chosen, other) ==
    /\ Disagreements(chosen, other) # {}
    /\ IF Rank[other.authority] = Rank[chosen.authority] THEN other.from = chosen.from
       ELSE other.from > chosen.from

\* the sort by (rank, effective_from), newest of the best authority first
Preferred(r, q) ==
    \/ Rank[r.authority] > Rank[q.authority]
    \/ Rank[r.authority] = Rank[q.authority] /\ r.from >= q.from
\* the first of the maximal records: the sort is stable
ChosenOf(fresh) ==
    fresh[CHOOSE i \in DOMAIN fresh :
            /\ \A j \in DOMAIN fresh : Preferred(fresh[i], fresh[j])
            /\ \A j \in DOMAIN fresh : j < i => ~Preferred(fresh[j], fresh[i])]

\* The age of a record is judged at the moment the answer is about.
FreshAtNow(r, judged, now, maxAge) == now - r.verified <= maxAge
Fresh(r, judged, now, maxAge) == judged - r.verified <= maxAge

\* The records that existed for this system by then.  `records` carry known.
KnownBy(records, judged) == Kept(records, LAMBDA r : r.known <= judged)

Choose(fresh, applies, superseded) ==
    IF \E i \in DOMAIN fresh : ExpiredAt(fresh[i], applies) THEN Refuse("EXPIRED", superseded)
    ELSE LET chosen == ChosenOf(fresh)
             others == ToSet(fresh) \ {chosen}
         IN  IF \E other \in others : Unresolved(chosen, other)
             THEN Refuse("CONFLICTING", superseded)
             ELSE [code |-> "USABLE", record |-> chosen.id, superseded |-> superseded,
                   conflicts |-> {<<other.id, Disagreements(chosen, other)>> : other \in
                                    {o \in others : Disagreements(chosen, o) # {}}}]

Assess(records, applies, now, judged, maxAge) ==
    LET reviewed == Kept(records, Authoritative)
        corrected == {reviewed[i].corrects : i \in DOMAIN reviewed} \ {None}
        superseded == {reviewed[i].id : i \in DOMAIN reviewed} \cap corrected
        applicable == Kept(reviewed, LAMBDA r : r.id \notin corrected /\ AppliesAt(r, applies))
        fresh == Kept(applicable, LAMBDA r : Fresh(r, judged, now, maxAge))
    IN  IF DOMAIN reviewed = {} THEN Refuse("NOT_AUTHORITATIVE", {})
        ELSE IF DOMAIN applicable = {} THEN Refuse("NOT_IN_EFFECT", superseded)
        ELSE IF DOMAIN fresh = {} THEN Refuse("STALE", superseded)
        ELSE Choose(fresh, applies, superseded)

\* known = None asks retrospectively, with everything held today.
AssessFactRecords(records, applies, now, maxAge, known) ==
    LET judged == IF known = None \/ known > now THEN now ELSE known
        held == IF known = None THEN records ELSE KnownBy(records, judged)
    IN  IF records = <<>> THEN Refuse("MISSING", {})
        ELSE IF Cardinality({records[i].id : i \in DOMAIN records}) # Len(records)
        THEN Refuse("CONFLICTING", {})
        ELSE IF DOMAIN held = {} THEN Refuse("NOT_YET_KNOWN", {})
        ELSE Assess(held, applies, now, judged, maxAge)

-----------------------------------------------------------------------------
(***************************************************************************)
(* source_status: what the answer says of each field and of itself.        *)
(***************************************************************************)
Reviewable == {"multiplier", "tick_size", "expiry_date"}
FieldsOf(verdict, records) ==
    [field \in Reviewable |->
        IF verdict.code # "USABLE" THEN "UNAVAILABLE"
        ELSE IF \E i \in DOMAIN records :
                    records[i].id = verdict.record /\ records[i].facts[field] # None
        THEN "VERIFIED" ELSE "MISSING"]

ChecksOf(verdict, records) ==
    LET held == records # <<>>
    IN  [claims |-> held,
         authority |-> \E i \in DOMAIN records : Authoritative(records[i]),
         applicable |-> verdict.code \in {"USABLE", "STALE", "EXPIRED", "CONFLICTING"},
         known |-> held /\ verdict.code # "NOT_YET_KNOWN",
         current |-> verdict.code = "USABLE"]
=============================================================================
