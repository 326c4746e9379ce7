------------------------------- MODULE Facts -------------------------------
(***************************************************************************)
(* The contract fact journal: operators who submit, review and publish     *)
(* facts from the command line, each on a machine with its own clock, and  *)
(* a reader who asks which facts were known at a moment                    *)
(* (backend/app/operator/fact_review.py over FactVerificationService,      *)
(* adapters/persistence/fact_store.py and SourceStatusService).            *)
(*                                                                         *)
(* Every store call is one transaction.  A command is a chain of such      *)
(* calls: it may be interrupted between two of them, or after its last     *)
(* one committed and before its operator reads the answer; the operator    *)
(* then runs it again.                                                     *)
(***************************************************************************)
EXTENDS FactRules

CONSTANTS
    Operators,
    Scenarios,      \* [scripts, skew, start]: each operator's commands and clock,
                    \* and the journal as earlier commands left it
    Questions,      \* [applies, known]: what the reader may ask
    Symbol,         \* the contract, in its canonical spelling
    MaxAge,         \* metadata_max_age
    MaxRecords,     \* MAX_RECORDS of source_status
    MaxClock, MaxInterruptions   \* bounds of the model

ASSUME FactBounds == MaxAge \in Nat /\ MaxRecords \in Nat /\ MaxClock \in Nat
ASSUME FactQuestions == \A q \in Questions : q.known = None \/ q.known \in Int

VARIABLES
    clock,          \* true time
    skew,           \* how far each operator's clock is ahead of it
    submissions,    \* rows of fact_submissions: the claim
    decisions,      \* rows of fact_review_decisions: [d, verdict]
    records,        \* rows of contract_fact_records, in sequence order
    op,             \* each operator's remaining commands and program counter
    answers,        \* history: the journalled rows operators were told of
    interruptions,  \* commands cut off so far
    told            \* history: one as-known answer, None before it is asked

vars == <<clock, skew, submissions, decisions, records, op, answers, interruptions, told>>
journal == <<submissions, decisions, records>>

Init ==
    /\ \E sc \in Scenarios :
        /\ skew = sc.skew
        /\ op = [o \in Operators |-> [script |-> sc.scripts[o], pc |-> "next", held |-> <<>>]]
        /\ submissions = sc.start.submissions
        /\ decisions = sc.start.decisions
        /\ records = sc.start.records
    /\ clock = 1
    /\ answers = {} /\ interruptions = 0 /\ told = None

Now(o) == clock + skew[o]
Command(o) == Head(op[o].script)
At(o, pc, verb) == op[o].script # <<>> /\ op[o].pc = pc /\ Command(o).op = verb

Entry(id) == {s \in submissions : s.id = id}
DecisionOn(id) == {j \in decisions : j.d.id = id}
RowsWith(id) == {i \in DOMAIN records : records[i].id = id}

Goto(o, pc, held) == op' = [op EXCEPT ![o] = [script |-> @.script, pc |-> pc, held |-> held]]
Done(o) == op' = [op EXCEPT ![o] = [script |-> Tail(op[o].script), pc |-> "next", held |-> <<>>]]
Again(o) == Goto(o, "next", <<>>)

\* The command ends without a row to show: refused, in conflict, unknown.
Refused(o) == Done(o) /\ UNCHANGED <<answers, interruptions>>

\* The command ends and its operator is told of a row, or is cut off first.
Told(o, row) ==
    \/ Done(o) /\ answers' = answers \cup {row} /\ UNCHANGED interruptions
    \/ /\ interruptions < MaxInterruptions
       /\ interruptions' = interruptions + 1
       /\ Again(o) /\ UNCHANGED answers

-----------------------------------------------------------------------------
(***************************************************************************)
(* submit                                                                  *)
(***************************************************************************)
SubmitRefusal(c) ==
    FirstRefusal(<<
        <<c.claim.symbol # Symbol, "SYMBOL_NOT_CANONICAL">>,
        <<~c.fits, "FIELD_TOO_LONG">>,
        <<c.claim.from # None /\ c.claim.until # None /\ c.claim.until <= c.claim.from,
          "EFFECTIVE_PERIOD_EMPTY">>>>)

Claimed(claim, at) ==
    [id |-> claim.id, symbol |-> claim.symbol, fact |-> claim.fact, value |-> claim.value,
     reference |-> claim.reference, authority |-> claim.authority, from |-> claim.from,
     until |-> claim.until, by |-> claim.by, origin |-> claim.origin,
     corrects |-> claim.corrects, at |-> at]

Submit(o) ==
    /\ At(o, "next", "submit")
    /\ IF SubmitRefusal(Command(o)) # OK THEN Refused(o)
       ELSE Goto(o, "insert", Claimed(Command(o).claim, Now(o)))
            /\ UNCHANGED <<answers, interruptions>>
    /\ UNCHANGED <<clock, skew, journal, told>>

\* append_submission: on conflict do nothing, then compare with what is held.
InsertSubmission(o) ==
    /\ At(o, "insert", "submit")
    /\ \E s \in {op[o].held} :
        \/ /\ Entry(s.id) = {}
           /\ IF s.corrects # None /\ RowsWith(s.corrects) = {}
              THEN Refused(o) /\ UNCHANGED submissions          \* UNKNOWN_CORRECTED_RECORD
              ELSE submissions' = submissions \cup {s} /\ Told(o, [s |-> s])
        \/ /\ Entry(s.id) # {}
           /\ \E held \in Entry(s.id) :
                IF SameClaim(held, s) THEN Told(o, [s |-> held]) ELSE Refused(o)
           /\ UNCHANGED submissions
    /\ UNCHANGED <<clock, skew, decisions, records, told>>

-----------------------------------------------------------------------------
(***************************************************************************)
(* decide                                                                  *)
(***************************************************************************)
DecisionAt(c, at) ==
    [id |-> c.id, reviewer |-> c.reviewer, outcome |-> c.outcome, checked |-> c.checked, at |-> at]

\* The decision is dated when the command starts; the entry is read after.
Decide(o) ==
    /\ At(o, "next", "decide")
    /\ \E d \in {DecisionAt(Command(o), Now(o))} :
        IF Entry(d.id) = {} THEN Refused(o)                      \* UNKNOWN_SUBMISSION
        ELSE IF DecisionOn(d.id) = {}
        THEN \E s \in Entry(d.id) : Goto(o, "judge", [s |-> s, d |-> d])
                                    /\ UNCHANGED <<answers, interruptions>>
        ELSE \E j \in DecisionOn(d.id) :
                IF SameDecision(j.d, d) THEN Told(o, j) ELSE Refused(o)  \* ALREADY_DECIDED
    /\ UNCHANGED <<clock, skew, journal, told>>

\* A reviewer whose insert met another's decision, as a last-write-wins upsert.
AfterConflictOverwriting(o, j, mine) ==
    /\ decisions' = (decisions \ {j}) \cup {mine}
    /\ Told(o, mine)
\* append_decision met a decision already there: the same one is an answer.
AfterConflict(o, j, mine) ==
    /\ UNCHANGED decisions
    /\ IF SameDecision(j.d, mine.d) /\ j.verdict.result = mine.verdict.result
       THEN Told(o, j) ELSE Refused(o)                           \* ALREADY_DECIDED

InsertDecision(o) ==
    /\ At(o, "judge", "decide")
    /\ \E mine \in {[d |-> op[o].held.d, verdict |-> Judge(op[o].held.s, op[o].held.d)]} :
        \/ /\ DecisionOn(mine.d.id) = {}
           /\ decisions' = decisions \cup {mine}
           /\ Told(o, mine)
        \/ \E j \in DecisionOn(mine.d.id) : AfterConflict(o, j, mine)
    /\ UNCHANGED <<clock, skew, submissions, records, told>>

-----------------------------------------------------------------------------
(***************************************************************************)
(* publish                                                                 *)
(***************************************************************************)
ApprovedIn(claims, judged, id) ==
    {[s |-> s, d |-> j.d] : s \in {c \in claims : c.id = id}, j \in
        {k \in judged : k.d.id = id /\ k.verdict.result = "APPROVED"}}
Approved(id) == ApprovedIn(submissions, decisions, id)
Holds(part) == Judge(part.s, part.d).result = "APPROVED"

Cited(c) == <<c.multiplier, c.tick>> \o (IF c.expiry = None THEN <<>> ELSE <<c.expiry>>)

\* _approved: each cited fact is read in a transaction of its own.
ReadEvidence(o) ==
    /\ op[o].pc = "next" /\ op[o].script # <<>> /\ Command(o).op = "publish"
    /\ Len(op[o].held) < Len(Cited(Command(o)))
    /\ \E id \in {Cited(Command(o))[Len(op[o].held) + 1]} :
        IF \E part \in Approved(id) : Holds(part)
        THEN /\ \E part \in Approved(id) : Goto(o, "next", Append(op[o].held, part))
             /\ UNCHANGED <<answers, interruptions>>
        ELSE Refused(o)                          \* NOT_APPROVED, APPROVAL_NO_LONGER_HOLDS
    /\ UNCHANGED <<clock, skew, journal, told>>

ExpiryPart(parts) == IF Len(parts) < 3 THEN None ELSE parts[3]

\* the record and the moment it is recorded at, before the insert
Assemble(o) ==
    /\ At(o, "next", "publish")
    /\ \E parts \in {op[o].held}, c \in {Command(o)} :
        /\ Len(parts) = Len(Cited(c))
        /\ IF AssemblyRefusal(c.record, parts[1], parts[2], ExpiryPart(parts)) # OK
           THEN Refused(o)
           ELSE /\ Goto(o, "insert",
                    [row |-> [record |-> RecordFromApproved(c.record, parts[1], parts[2],
                                                            ExpiryPart(parts)),
                              cited |-> Cited(c)],
                     recorded |-> Now(o)])
                /\ UNCHANGED <<answers, interruptions>>
    /\ UNCHANGED <<clock, skew, journal, told>>

\* The columns of a record row: the values stay with their submissions.
Columns(record) == [k \in DOMAIN record \ {"facts"} |-> record[k]]
RowOf(row, recorded) ==
    [id |-> row.record.id, columns |-> Columns(row.record), cited |-> row.cited,
     recorded |-> recorded]

\* publish_record
InsertRecord(o) ==
    /\ At(o, "insert", "publish")
    /\ \E r \in {op[o].held.row}, at \in {op[o].held.recorded} :
        \/ /\ RowsWith(r.record.id) = {}
           /\ IF \/ r.record.corrects # None /\ RowsWith(r.record.corrects) = {}
                 \/ at < r.record.verified                       \* VERIFIED_AFTER_KNOWN
              THEN Refused(o) /\ UNCHANGED records
              ELSE records' = Append(records, RowOf(r, at)) /\ Told(o, RowOf(r, at))
        \/ /\ \E i \in RowsWith(r.record.id) :
                IF RowOf(r, records[i].recorded) = records[i] THEN Told(o, records[i])
                ELSE Refused(o)                                  \* RECORD_ID_TAKEN
           /\ UNCHANGED records
    /\ UNCHANGED <<clock, skew, submissions, decisions, told>>

-----------------------------------------------------------------------------
(***************************************************************************)
(* SourceStatusService.metadata: records are assembled again from their    *)
(* evidence each time they are read.                                       *)
(***************************************************************************)
PartOf(id) == CHOOSE part \in Approved(id) : TRUE
Reassembled(row) ==
    RecordFromApproved(row.id, PartOf(row.cited[1]), PartOf(row.cited[2]),
                       IF Len(row.cited) < 3 THEN None ELSE PartOf(row.cited[3]))

KnownAt(record, moment) ==
    [k \in DOMAIN record \cup {"known"} |-> IF k = "known" THEN moment ELSE record[k]]
RecordsFor(rows) == [i \in DOMAIN rows |-> KnownAt(Reassembled(rows[i]), rows[i].recorded)]

Metadata(question) ==
    IF Len(records) > MaxRecords THEN Refuse("CONFLICTING", {})
    ELSE AssessFactRecords(RecordsFor(records), question.applies, clock, MaxAge, question.known)

StatusOf(verdict) ==
    [verdict |-> verdict, fields |-> FieldsOf(verdict, RecordsFor(records)),
     checks |-> ChecksOf(verdict, RecordsFor(records))]

Ask(question) ==
    /\ told = None
    /\ told' = [question |-> question, status |-> StatusOf(Metadata(question)),
                count |-> Len(records), at |-> clock]
    /\ UNCHANGED <<clock, skew, journal, op, answers, interruptions>>

-----------------------------------------------------------------------------
Tick ==
    /\ clock < MaxClock
    /\ clock' = clock + 1
    /\ UNCHANGED <<skew, journal, op, answers, interruptions, told>>

\* the process of a command is stopped between two transactions
Interrupt(o) ==
    /\ op[o].script # <<>> /\ (op[o].pc # "next" \/ op[o].held # <<>>)
    /\ interruptions < MaxInterruptions
    /\ interruptions' = interruptions + 1
    /\ Again(o)
    /\ UNCHANGED <<clock, skew, journal, answers, told>>

OperatorStep(o) ==
    \/ Submit(o) \/ InsertSubmission(o)
    \/ Decide(o) \/ InsertDecision(o)
    \/ ReadEvidence(o) \/ Assemble(o) \/ InsertRecord(o)
    \/ Interrupt(o)

\* What a row is written from: approvals that hold, of the facts it cites.
PublishedFrom(claims, judged, row) ==
    LET approved(k) == ApprovedIn(claims, judged, row.cited[k])
        facts == 1 .. Len(row.cited)
    IN  /\ row.cited \in Seq(ToSet(row.cited)) /\ Len(row.cited) \in {2, 3}
        /\ \E parts \in [facts -> UNION {approved(k) : k \in facts}] :
            /\ \A k \in facts : parts[k] \in approved(k) /\ Holds(parts[k])
            /\ AssemblyRefusal(row.id, parts[1], parts[2], ExpiryPart(parts)) = OK
            /\ row = RowOf([record |-> RecordFromApproved(row.id, parts[1], parts[2],
                                                         ExpiryPart(parts)),
                            cited |-> row.cited], row.recorded)

\* The journal as earlier commands leave it: the primary keys of its tables,
\* and no record but from its evidence.
ASSUME FactJournals == \A sc \in Scenarios :
    LET start == sc.start
    IN  /\ \A s, t \in start.submissions : s.id = t.id => s = t
        /\ \A j, k \in start.decisions : j.d.id = k.d.id => j = k
        /\ start.records \in Seq(ToSet(start.records))
        /\ \A i, k \in DOMAIN start.records :
            start.records[i].id = start.records[k].id => i = k
        /\ \A i \in DOMAIN start.records :
            PublishedFrom(start.submissions, start.decisions, start.records[i])

Next ==
    \/ \E o \in Operators : OperatorStep(o)
    \/ \E question \in Questions : Ask(question)
    \/ Tick

Spec == Init /\ [][Next]_vars

-----------------------------------------------------------------------------
(***************************************************************************)
(* An answer about what was known by a moment is history: corrections,     *)
(* disagreeing records, a claim going stale and the passing of time since  *)
(* do not change it.  It stands except in two cases the code cannot        *)
(* exclude: a record stamped at or before that moment (by a clock behind,  *)
(* or in a transaction not yet committed) and inserted after the answer,   *)
(* or a journal that has outgrown MAX_RECORDS.  (source_status.metadata,   *)
(* assess_fact_records with known_by.)                                     *)
(***************************************************************************)
BackDated(q) ==
    \E i \in DOMAIN records : i > told.count /\ records[i].recorded <= q.known
AsKnownAnswersStand ==
    (told # None /\ told.question.known # None) =>
        \E q \in {told.question} :
            \/ q.known > told.at
            \/ BackDated(q)
            \/ Len(records) > MaxRecords
            \/ told.count = 0                  \* MISSING becomes NOT_YET_KNOWN
            \/ Metadata(q) = told.status.verdict

(***************************************************************************)
(* What an operator was told is what the journal holds, for ever: two      *)
(* reviewers who decide one submission at once are never both told their   *)
(* own decision stands, a command run again after it was cut off gets the  *)
(* row it wrote the first time, and no id names two rows.  A published     *)
(* record, whose row holds no value of its own, reads back as it was       *)
(* published, whoever decided or published what since its facts were read  *)
(* one by one: one that did not would make every read of its contract      *)
(* fail.  (append_submission, append_decision, publish_record, _to_record.)*)
(***************************************************************************)
AnswersAreRows ==
    \A row \in answers : \/ \E s \in submissions : row = [s |-> s]
                         \/ row \in decisions
                         \/ \E i \in DOMAIN records : row = records[i]
OneRowPerId ==
    /\ \A s \in submissions : Cardinality(Entry(s.id)) = 1 /\ Cardinality(DecisionOn(s.id)) <= 1
    /\ \A i, k \in DOMAIN records : records[i].id = records[k].id => i = k
ReadsBack(row) ==
    LET part(k) == PartOf(row.cited[k])
    IN  /\ \A k \in DOMAIN row.cited : Approved(row.cited[k]) # {} /\ Holds(part(k))
        /\ AssemblyRefusal(row.id, part(1), part(2),
                           IF Len(row.cited) < 3 THEN None ELSE part(3)) = OK
        /\ Columns(Reassembled(row)) = row.columns
ToldIsJournalled ==
    AnswersAreRows /\ OneRowPerId /\ \A i \in DOMAIN records : ReadsBack(records[i])
=============================================================================
