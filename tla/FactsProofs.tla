---------------------------- MODULE FactsProofs ----------------------------
(***************************************************************************)
(* Proofs about the contract fact journal, for any number of operators,    *)
(* any commands, clocks and starting journal, and any number of commands   *)
(* cut off: what an operator was told stands, ids are unique, a published  *)
(* record always reads back from its evidence as it was published, and an  *)
(* answer about what was known by a moment is not changed by what follows. *)
(* Then the same of the external sources a decision reads.                 *)
(*                                                                         *)
(* A record is published from facts that were read one by one, each in a   *)
(* transaction of its own, and nothing is locked until it is inserted.     *)
(* The invariant says why that is enough: the journal only grows and an    *)
(* id is decided once, so what was approved when it was read is the one    *)
(* approval of its submission whenever it is read again.                   *)
(***************************************************************************)
EXTENDS Facts, SourceFeeds, FiniteSetTheorems, FunctionTheorems, TLAPS

Unique ==
    /\ \A s, t \in submissions : s.id = t.id => s = t
    /\ \A j, k \in decisions : j.d.id = k.d.id => j = k

\* The rows of contract_fact_records.
Published ==
    /\ records \in Seq(ToSet(records))
    /\ \A i, k \in DOMAIN records : records[i].id = records[k].id => i = k
    /\ \A i \in DOMAIN records : PublishedFrom(submissions, decisions, records[i])

\* parts were read for the facts of `cited`, so far
ReadFor(claims, judged, parts, cited) ==
    /\ parts \in Seq(ToSet(parts)) /\ Len(parts) <= Len(cited)
    /\ \A k \in 1 .. Len(parts) :
        parts[k] \in ApprovedIn(claims, judged, cited[k]) /\ Holds(parts[k])

\* What a publishing operator carries from one transaction to the next.
Assembled(claims, judged, c, row) ==
    \E parts :
        /\ ReadFor(claims, judged, parts, Cited(c)) /\ Len(parts) = Len(Cited(c))
        /\ AssemblyRefusal(c.record, parts[1], parts[2], ExpiryPart(parts)) = OK
        /\ row = [record |-> RecordFromApproved(c.record, parts[1], parts[2], ExpiryPart(parts)),
                  cited |-> Cited(c)]
Carries(claims, judged, m) ==
    (m.script # <<>> /\ Head(m.script).op = "publish") =>
        /\ m.pc = "next" => ReadFor(claims, judged, m.held, Cited(Head(m.script)))
        /\ m.pc = "insert" => Assembled(claims, judged, Head(m.script), m.held.row)

Machines ==
    op = [o \in Operators |-> [script |-> op[o].script, pc |-> op[o].pc, held |-> op[o].held]]

IInv ==
    /\ Unique /\ Published /\ AnswersAreRows
    /\ Machines
    /\ \A o \in Operators : Carries(submissions, decisions, op[o])

-----------------------------------------------------------------------------
(***************************************************************************)
(* The journal only grows.                                                 *)
(***************************************************************************)

\* What an operator carries stays what it would carry now.
LEMMA EvidenceStays ==
    ASSUME submissions \subseteq submissions', decisions \subseteq decisions',
           NEW m, Carries(submissions, decisions, m)
    PROVE  Carries(submissions', decisions', m)
<1>1. \A id : ApprovedIn(submissions, decisions, id) \subseteq ApprovedIn(submissions', decisions', id)
  BY DEF ApprovedIn
<1>2. \A parts, cited : ReadFor(submissions, decisions, parts, cited)
                        => ReadFor(submissions', decisions', parts, cited)
  BY <1>1 DEF ReadFor
<1> QED
  BY <1>2 DEF Carries, Assembled

\* A row written from approvals stays written from them.
LEMMA RowStays ==
    ASSUME Unique', submissions \subseteq submissions', decisions \subseteq decisions',
           NEW row, PublishedFrom(submissions, decisions, row)
    PROVE  PublishedFrom(submissions', decisions', row)
<1> DEFINE facts == 1 .. Len(row.cited)
           before(k) == ApprovedIn(submissions, decisions, row.cited[k])
           after(k) == ApprovedIn(submissions', decisions', row.cited[k])
<1>1. \A k \in facts : before(k) \subseteq after(k)
  BY DEF ApprovedIn
<1>2. [facts -> UNION {before(k) : k \in facts}] \subseteq [facts -> UNION {after(k) : k \in facts}]
  BY <1>1
<1> QED
  BY <1>1, <1>2 DEF PublishedFrom

\* A row written from approvals reads back: no read of its contract fails on it.
LEMMA WrittenReadsBack ==
    ASSUME Unique, NEW row, PublishedFrom(submissions, decisions, row)
    PROVE  ReadsBack(row)
<1> DEFINE facts == 1 .. Len(row.cited)
<1>1. PICK parts \in [facts -> UNION {ApprovedIn(submissions, decisions, row.cited[k]) : k \in facts}] :
        /\ \A k \in facts : parts[k] \in ApprovedIn(submissions, decisions, row.cited[k])
                            /\ Holds(parts[k])
        /\ AssemblyRefusal(row.id, parts[1], parts[2], ExpiryPart(parts)) = OK
        /\ row = RowOf([record |-> RecordFromApproved(row.id, parts[1], parts[2], ExpiryPart(parts)),
                        cited |-> row.cited], row.recorded)
  BY DEF PublishedFrom
<1>2. Len(row.cited) \in {2, 3} /\ DOMAIN row.cited = facts /\ Len(parts) = Len(row.cited)
  BY <1>1 DEF PublishedFrom
<1>3. ASSUME NEW k \in facts
      PROVE  Approved(row.cited[k]) = {parts[k]} /\ PartOf(row.cited[k]) = parts[k]
  <2>1. parts[k] \in Approved(row.cited[k])
    BY <1>1 DEF Approved
  <2>2. \A q \in Approved(row.cited[k]) : q = parts[k]
    BY <2>1 DEF Approved, ApprovedIn, Unique
  <2> QED
    BY <2>1, <2>2 DEF PartOf
<1>4. 1 \in facts /\ 2 \in facts /\ (~(Len(row.cited) < 3) => 3 \in facts)
  BY <1>2
<1>5. ExpiryPart(parts) = IF Len(row.cited) < 3 THEN None ELSE PartOf(row.cited[3])
  BY <1>2, <1>3, <1>4 DEF ExpiryPart
<1>6. Reassembled(row) = RecordFromApproved(row.id, parts[1], parts[2], ExpiryPart(parts))
  BY <1>3, <1>4, <1>5 DEF Reassembled
<1>7. row.columns = Columns(Reassembled(row))
  BY <1>1, <1>6 DEF RowOf
<1> QED
  BY <1>1, <1>2, <1>3, <1>4, <1>5, <1>7 DEF ReadsBack

-----------------------------------------------------------------------------
(***************************************************************************)
(* The operator who takes a step, and the others.                          *)
(***************************************************************************)
Apart(o) == Machines' /\ \A x \in Operators \ {o} : op'[x] = op[x]
Rests(o) == Apart(o) /\ op'[o].pc = "next" /\ op'[o].held = <<>>
Moves(o, pc, held) ==
    Apart(o) /\ op'[o].script = op[o].script /\ op'[o].pc = pc /\ op'[o].held = held

\* A sequence of anything is one of its own elements.
LEMMA SeqOfItself ==
    ASSUME NEW S, NEW s \in Seq(S)
    PROVE  s \in Seq(ToSet(s)) /\ DOMAIN s = 1 .. Len(s)
<1>1. DOMAIN s = 1 .. Len(s) /\ Len(s) \in Nat
  OBVIOUS
<1>2. \A i \in 1 .. Len(s) : s[i] \in ToSet(s)
  BY <1>1 DEF ToSet
<1> QED
  BY <1>1, <1>2

\* A record cites two facts, or three.
LEMMA CitedFacts ==
    ASSUME NEW c
    PROVE  /\ Cited(c) \in Seq({c.multiplier, c.tick, c.expiry})
           /\ Cited(c) \in Seq(ToSet(Cited(c)))
           /\ Len(Cited(c)) \in {2, 3} /\ DOMAIN Cited(c) = 1 .. Len(Cited(c))
<1> DEFINE S == {c.multiplier, c.tick, c.expiry}
           tail == IF c.expiry = None THEN <<>> ELSE <<c.expiry>>
<1>1. /\ <<c.multiplier, c.tick>> \in Seq(S) /\ Len(<<c.multiplier, c.tick>>) = 2
      /\ tail \in Seq(S) /\ Len(tail) \in {0, 1}
  <2>1. <<c.multiplier, c.tick>> \in Seq(S) /\ Len(<<c.multiplier, c.tick>>) = 2
    OBVIOUS
  <2>2. <<>> \in Seq(S) /\ Len(<<>>) = 0 /\ <<c.expiry>> \in Seq(S) /\ Len(<<c.expiry>>) = 1
    OBVIOUS
  <2> QED
    BY <2>1, <2>2
<1>2. Cited(c) = <<c.multiplier, c.tick>> \o tail
  BY DEF Cited
<1> HIDE DEF tail
<1>3. Cited(c) \in Seq(S) /\ Len(Cited(c)) \in {2, 3}
  BY <1>1, <1>2
<1> QED
  BY <1>3, SeqOfItself

\* A step between two transactions of one command.
LEMMA GotoMoves ==
    ASSUME Machines, NEW o \in Operators, NEW pc, NEW held, Goto(o, pc, held)
    PROVE  Moves(o, pc, held)
<1>1. /\ DOMAIN op = Operators
      /\ \A x \in Operators :
            op[x] = [script |-> op[x].script, pc |-> op[x].pc, held |-> op[x].held]
  BY DEF Machines
<1>2. op' = [x \in Operators |-> IF x = o THEN [script |-> op[o].script, pc |-> pc, held |-> held]
                                 ELSE op[x]]
  BY <1>1 DEF Goto
<1> QED
  BY <1>1, <1>2 DEF Machines, Moves, Apart

\* A command that is refused, and one that is cut off, leave nothing behind.
LEMMA DoneRests ==
    ASSUME Machines, NEW o \in Operators, Done(o) \/ Again(o)
    PROVE  Rests(o)
<1>1. /\ DOMAIN op = Operators
      /\ \A x \in Operators :
            op[x] = [script |-> op[x].script, pc |-> op[x].pc, held |-> op[x].held]
  BY DEF Machines
<1>2. CASE Done(o)
  <2>1. op' = [x \in Operators |->
                    IF x = o THEN [script |-> Tail(op[o].script), pc |-> "next", held |-> <<>>]
                    ELSE op[x]]
    BY <1>1, <1>2 DEF Done
  <2> QED
    BY <1>1, <2>1 DEF Machines, Rests, Apart
<1>3. CASE Again(o)
  BY <1>3, GotoMoves DEF Again, Moves, Rests
<1> QED
  BY <1>2, <1>3

\* A command that ends: its operator reads the row, or never gets to.
LEMMA ToldRests ==
    ASSUME Machines, NEW o \in Operators, NEW row, Told(o, row)
    PROVE  Rests(o) /\ answers' \subseteq answers \cup {row}
BY DoneRests DEF Told

\* Between commands an operator carries nothing.
LEMMA RestsCarries ==
    ASSUME NEW o \in Operators, Rests(o)
    PROVE  Carries(submissions', decisions', op'[o])
<1>1. \A c : ReadFor(submissions', decisions', <<>>, Cited(c))
  BY CitedFacts DEF ReadFor, ToSet
<1> QED
  BY <1>1 DEF Rests, Carries

\* What the others carry is not disturbed.
LEMMA OthersCarry ==
    ASSUME IInv, submissions \subseteq submissions', decisions \subseteq decisions',
           NEW o \in Operators, Apart(o), Carries(submissions', decisions', op'[o])
    PROVE  \A x \in Operators : Carries(submissions', decisions', op'[x])
BY EvidenceStays DEF IInv, Apart

\* A record is added at the end of the rows: the others keep their places.
LEMMA AddedRow ==
    ASSUME records \in Seq(ToSet(records)), NEW row, records' = Append(records, row)
    PROVE  /\ records' \in Seq(ToSet(records'))
           /\ DOMAIN records' = 1 .. (Len(records) + 1) /\ Len(records) \in Nat
           /\ DOMAIN records = 1 .. Len(records)
           /\ records'[Len(records) + 1] = row
           /\ \A i \in DOMAIN records : records'[i] = records[i] /\ i \in DOMAIN records'
<1> DEFINE S == ToSet(records) \cup {row}
<1>1. records \in Seq(S) /\ row \in S
  OBVIOUS
<1>2. records' \in Seq(S) /\ Len(records') = Len(records) + 1
  BY <1>1
<1>3. \A i \in 1 .. Len(records') : records'[i] \in ToSet(records')
  BY <1>2 DEF ToSet
<1> QED
  BY <1>1, <1>2, <1>3

\* What a step that ends a command must keep.
LEMMA Ended ==
    ASSUME IInv, NEW o \in Operators, Rests(o), Unique', Published',
           submissions \subseteq submissions', decisions \subseteq decisions',
           \A i \in DOMAIN records : i \in DOMAIN records' /\ records'[i] = records[i],
           NEW row, answers' \subseteq answers \cup {row},
           \/ answers' \subseteq answers
           \/ \E s \in submissions' : row = [s |-> s]
           \/ row \in decisions'
           \/ \E i \in DOMAIN records' : row = records'[i]
    PROVE  IInv'
<1>1. \A x \in Operators : Carries(submissions', decisions', op'[x])
  BY RestsCarries, OthersCarry DEF Rests
<1>2. AnswersAreRows'
  BY DEF IInv, AnswersAreRows
<1> QED
  BY <1>1, <1>2 DEF IInv, Rests, Apart

\* What a step to another transaction of the same command must keep.
LEMMA Continued ==
    ASSUME IInv, NEW o \in Operators, NEW pc, NEW held, Moves(o, pc, held),
           UNCHANGED <<journal, answers>>, Carries(submissions', decisions', op'[o])
    PROVE  IInv'
<1>1. \A x \in Operators : Carries(submissions', decisions', op'[x])
  BY OthersCarry DEF Moves, journal
<1>2. Unique' /\ Published' /\ AnswersAreRows'
  BY DEF IInv, Unique, Published, AnswersAreRows, journal
<1> QED
  BY <1>1, <1>2 DEF IInv, Moves, Apart

-----------------------------------------------------------------------------
(***************************************************************************)
(* Each action.                                                            *)
(***************************************************************************)

\* The journal as the scenario gives it.
LEMMA InitIsJournal == Init => IInv
<1> SUFFICES ASSUME Init PROVE IInv
  OBVIOUS
<1>1. PICK sc \in Scenarios :
        /\ op = [o \in Operators |-> [script |-> sc.scripts[o], pc |-> "next", held |-> <<>>]]
        /\ submissions = sc.start.submissions /\ decisions = sc.start.decisions
        /\ records = sc.start.records
  BY DEF Init
<1>2. Unique /\ Published
  BY <1>1, FactJournals DEF Unique, Published
<1>3. Machines
  BY <1>1 DEF Machines
<1>4. ASSUME NEW o \in Operators PROVE Carries(submissions, decisions, op[o])
  <2>1. \A c : ReadFor(submissions, decisions, <<>>, Cited(c))
    BY CitedFacts DEF ReadFor, ToSet
  <2>2. op[o].pc = "next" /\ op[o].held = <<>>
    BY <1>1
  <2> QED
    BY <2>1, <2>2 DEF Carries
<1> QED
  BY <1>2, <1>3, <1>4 DEF IInv, Init, AnswersAreRows

\* A command that is refused changes nothing.
LEMMA RefusedKeeps ==
    ASSUME IInv, NEW o \in Operators, Refused(o), UNCHANGED journal
    PROVE  IInv'
<1>1. Rests(o) /\ answers' = answers
  BY DoneRests DEF Refused, IInv
<1>2. Unique' /\ Published'
  BY DEF IInv, Unique, Published, journal
<1> QED
  BY <1>1, <1>2, Ended DEF journal

\* A row of the journal is told, and nothing else changes.
LEMMA ToldKeeps ==
    ASSUME IInv, NEW o \in Operators, NEW row, Told(o, row), UNCHANGED journal,
           \/ \E s \in submissions : row = [s |-> s]
           \/ row \in decisions
           \/ \E i \in DOMAIN records : row = records[i]
    PROVE  IInv'
<1>1. Rests(o) /\ answers' \subseteq answers \cup {row}
  BY ToldRests DEF IInv
<1>2. Unique' /\ Published'
  BY DEF IInv, Unique, Published, journal
<1> QED
  BY <1>1, <1>2, Ended DEF journal

\* An operator whose command is not a publication carries no evidence.
LEMMA OtherVerb ==
    ASSUME NEW o \in Operators, op[o].script # <<>>, Command(o).op # "publish",
           op'[o].script = op[o].script
    PROVE  Carries(submissions', decisions', op'[o])
BY DEF Carries, Command

\* Checking a submission writes nothing.
LEMMA SubmitKeeps ==
    ASSUME IInv, NEW o \in Operators, Submit(o)
    PROVE  IInv'
<1>1. CASE Refused(o)
  BY <1>1, RefusedKeeps DEF Submit
<1>2. CASE Goto(o, "insert", Claimed(Command(o).claim, Now(o))) /\ UNCHANGED <<answers, interruptions>>
  <2>1. Moves(o, "insert", Claimed(Command(o).claim, Now(o)))
    BY <1>2, GotoMoves DEF IInv
  <2>2. op[o].script # <<>> /\ Command(o).op = "submit" /\ UNCHANGED <<journal, answers>>
    BY <1>2 DEF Submit, At, journal
  <2> QED
    BY <2>1, <2>2, OtherVerb, Continued DEF Moves
<1> QED
  BY <1>1, <1>2 DEF Submit

\* A claim is inserted under an id no other claim has, or met by the one there.
LEMMA InsertSubmissionKeeps ==
    ASSUME IInv, NEW o \in Operators, InsertSubmission(o)
    PROVE  IInv'
<1> DEFINE s == op[o].held
<1>1. CASE UNCHANGED submissions
  <2>1. UNCHANGED journal
    BY <1>1 DEF InsertSubmission, journal
  <2>2. \/ Refused(o)
        \/ \E held \in Entry(s.id) : Told(o, [s |-> held])
        \/ submissions' = submissions \cup {s} /\ Told(o, [s |-> s])
    BY DEF InsertSubmission
  <2>3. CASE Refused(o)
    BY <2>1, <2>3, RefusedKeeps
  <2>4. CASE \E held \in Entry(s.id) : Told(o, [s |-> held])
    BY <2>1, <2>4, ToldKeeps DEF Entry
  <2>5. CASE submissions' = submissions \cup {s} /\ Told(o, [s |-> s])
    BY <1>1, <2>1, <2>5, ToldKeeps
  <2> QED
    BY <2>2, <2>3, <2>4, <2>5
<1>2. CASE ~UNCHANGED submissions
  <2>1. /\ Entry(s.id) = {} /\ submissions' = submissions \cup {s} /\ Told(o, [s |-> s])
        /\ UNCHANGED <<decisions, records>>
    BY <1>2 DEF InsertSubmission
  <2>2. Unique'
    BY <2>1 DEF IInv, Unique, Entry
  <2>3. Published'
    BY <2>1, <2>2, RowStays DEF IInv, Published
  <2>4. Rests(o) /\ answers' \subseteq answers \cup {[s |-> s]}
    BY <2>1, ToldRests DEF IInv
  <2>5. s \in submissions'
    BY <2>1
  <2> HIDE DEF s
  <2> QED
    BY <2>1, <2>2, <2>3, <2>4, <2>5, Ended
<1> QED
  BY <1>1, <1>2

\* A decision is dated and its submission read: nothing is written.
LEMMA DecideKeeps ==
    ASSUME IInv, NEW o \in Operators, Decide(o)
    PROVE  IInv'
<1> DEFINE d == DecisionAt(Command(o), Now(o))
<1>1. UNCHANGED journal /\ op[o].script # <<>> /\ Command(o).op = "decide"
  BY DEF Decide, At
<1>2. \/ Refused(o)
      \/ \E s \in Entry(d.id) : Goto(o, "judge", [s |-> s, d |-> d]) /\ UNCHANGED <<answers, interruptions>>
      \/ \E j \in DecisionOn(d.id) : Told(o, j)
  BY DEF Decide
<1>3. CASE Refused(o)
  BY <1>1, <1>3, RefusedKeeps
<1>4. ASSUME NEW s \in Entry(d.id), Goto(o, "judge", [s |-> s, d |-> d]),
             UNCHANGED <<answers, interruptions>>
      PROVE  IInv'
  <2>1. Moves(o, "judge", [s |-> s, d |-> d])
    BY <1>4, GotoMoves DEF IInv
  <2> QED
    BY <1>1, <1>4, <2>1, OtherVerb, Continued DEF Moves
<1>5. ASSUME NEW j \in DecisionOn(d.id), Told(o, j)
      PROVE  IInv'
  BY <1>1, <1>5, ToldKeeps DEF DecisionOn
<1> QED
  BY <1>2, <1>3, <1>4, <1>5

\* The second of two decisions on a submission is refused or is the first.
LEMMA InsertDecisionKeeps ==
    ASSUME IInv, NEW o \in Operators, InsertDecision(o)
    PROVE  IInv'
<1> DEFINE mine == [d |-> op[o].held.d, verdict |-> Judge(op[o].held.s, op[o].held.d)]
<1>1. UNCHANGED <<submissions, records>>
  BY DEF InsertDecision
<1>2. CASE DecisionOn(mine.d.id) = {} /\ decisions' = decisions \cup {mine} /\ Told(o, mine)
  <2>1. Unique'
    BY <1>1, <1>2 DEF IInv, Unique, DecisionOn
  <2>2. Published'
    BY <1>1, <1>2, <2>1, RowStays DEF IInv, Published
  <2>3. Rests(o) /\ answers' \subseteq answers \cup {mine} /\ mine \in decisions'
    BY <1>2, ToldRests DEF IInv
  <2> HIDE DEF mine
  <2> QED
    BY <1>1, <1>2, <2>1, <2>2, <2>3, Ended
<1>3. ASSUME NEW j \in DecisionOn(mine.d.id), AfterConflict(o, j, mine)
      PROVE  IInv'
  <2>1. UNCHANGED journal /\ (Told(o, j) \/ Refused(o))
    BY <1>1, <1>3 DEF AfterConflict, journal
  <2> QED
    BY <1>3, <2>1, ToldKeeps, RefusedKeeps DEF DecisionOn
<1> QED
  BY <1>2, <1>3 DEF InsertDecision

\* One more cited fact is read: the one approval of it, which still holds.
LEMMA ReadEvidenceKeeps ==
    ASSUME IInv, NEW o \in Operators, ReadEvidence(o)
    PROVE  IInv'
<1> DEFINE c == Command(o)
           held == op[o].held
           n == Len(held) + 1
           id == Cited(c)[n]
<1>1. /\ op[o].pc = "next" /\ op[o].script # <<>> /\ c.op = "publish"
      /\ Len(held) < Len(Cited(c)) /\ UNCHANGED journal
  BY DEF ReadEvidence
<1>2. CASE Refused(o)
  BY <1>1, <1>2, RefusedKeeps
<1>3. ASSUME \E part \in Approved(id) : Holds(part),
             NEW part \in Approved(id), Goto(o, "next", Append(held, part)),
             UNCHANGED <<answers, interruptions>>
      PROVE  IInv'
  <2>1. Holds(part) /\ part \in ApprovedIn(submissions, decisions, id)
    <3>1. PICK q \in Approved(id) : Holds(q)
      BY <1>3
    <3>2. q = part
      BY <3>1 DEF IInv, Unique, Approved, ApprovedIn
    <3> QED
      BY <3>1, <3>2 DEF Approved
  <2>2. ReadFor(submissions, decisions, held, Cited(c))
    BY <1>1 DEF IInv, Carries, Command
  <2>3. /\ held \in Seq(ToSet(held)) /\ Len(held) \in Nat /\ Len(Cited(c)) \in Nat
        /\ n <= Len(Cited(c))
    BY <1>1, <2>2, CitedFacts DEF ReadFor
  <2>4. ReadFor(submissions, decisions, Append(held, part), Cited(c))
    <3> DEFINE S == ToSet(held) \cup {part}
               more == Append(held, part)
    <3>1. held \in Seq(S) /\ part \in S
      BY <2>3
    <3>2. /\ more \in Seq(S) /\ Len(more) = n /\ more[n] = part
          /\ \A k \in 1 .. Len(held) : more[k] = held[k]
      BY <2>3, <3>1
    <3>3. more \in Seq(ToSet(more))
      BY <3>2, SeqOfItself
    <3>4. ASSUME NEW k \in 1 .. Len(more)
          PROVE  more[k] \in ApprovedIn(submissions, decisions, Cited(c)[k]) /\ Holds(more[k])
      <4>1. CASE k = n
        BY <2>1, <3>2, <4>1
      <4>2. CASE k # n
        <5>1. k \in 1 .. Len(held)
          BY <2>3, <3>2, <4>2
        <5> QED
          BY <2>2, <3>2, <5>1 DEF ReadFor
      <4> QED
        BY <4>1, <4>2
    <3> QED
      BY <2>3, <3>2, <3>3, <3>4 DEF ReadFor
  <2>5. Moves(o, "next", Append(held, part))
    BY <1>3, GotoMoves DEF IInv
  <2>6. Carries(submissions', decisions', op'[o])
    BY <1>1, <2>4, <2>5 DEF Moves, Carries, Command, journal
  <2> QED
    BY <1>1, <1>3, <2>5, <2>6, Continued
<1> QED
  BY <1>2, <1>3 DEF ReadEvidence

\* The record is put together from what was read, and dated.
LEMMA AssembleKeeps ==
    ASSUME IInv, NEW o \in Operators, Assemble(o)
    PROVE  IInv'
<1> DEFINE c == Command(o)
           parts == op[o].held
           record == RecordFromApproved(c.record, parts[1], parts[2], ExpiryPart(parts))
           next == [row |-> [record |-> record, cited |-> Cited(c)], recorded |-> Now(o)]
<1>1. /\ op[o].pc = "next" /\ op[o].script # <<>> /\ c.op = "publish"
      /\ Len(parts) = Len(Cited(c)) /\ UNCHANGED journal
  BY DEF Assemble, At
<1>2. CASE Refused(o)
  BY <1>1, <1>2, RefusedKeeps
<1>3. CASE /\ AssemblyRefusal(c.record, parts[1], parts[2], ExpiryPart(parts)) = OK
           /\ Goto(o, "insert", next) /\ UNCHANGED <<answers, interruptions>>
  <2>1. Moves(o, "insert", next)
    BY <1>3, GotoMoves DEF IInv
  <2>2. ReadFor(submissions, decisions, parts, Cited(c))
    BY <1>1 DEF IInv, Carries, Command
  <2>3. Assembled(submissions, decisions, c, next.row)
    BY <1>1, <1>3, <2>2 DEF Assembled
  <2>4. /\ op'[o].script = op[o].script /\ op'[o].pc = "insert"
        /\ op'[o].held.row = next.row
        /\ submissions' = submissions /\ decisions' = decisions
    BY <1>1, <2>1 DEF Moves, journal
  <2> HIDE DEF next
  <2>5. Carries(submissions', decisions', op'[o])
    BY <2>3, <2>4 DEF Carries, Command
  <2> QED
    BY <1>1, <1>3, <2>1, <2>5, Continued
<1> QED
  BY <1>2, <1>3 DEF Assemble

\* A row assembled from approvals is published from them, whenever that is.
LEMMA AssembledIsPublished ==
    ASSUME NEW c, NEW r, Assembled(submissions, decisions, c, r), NEW at
    PROVE  /\ PublishedFrom(submissions, decisions, RowOf(r, at))
           /\ RowOf(r, at).id = r.record.id
<1>1. PICK parts :
        /\ ReadFor(submissions, decisions, parts, Cited(c)) /\ Len(parts) = Len(Cited(c))
        /\ AssemblyRefusal(c.record, parts[1], parts[2], ExpiryPart(parts)) = OK
        /\ r = [record |-> RecordFromApproved(c.record, parts[1], parts[2], ExpiryPart(parts)),
                cited |-> Cited(c)]
  BY DEF Assembled
<1> DEFINE row == RowOf(r, at)
           facts == 1 .. Len(row.cited)
           approved(k) == ApprovedIn(submissions, decisions, row.cited[k])
<1>2. /\ row.id = r.record.id /\ row.cited = Cited(c) /\ row.recorded = at
      /\ row = RowOf([record |-> r.record, cited |-> row.cited], row.recorded)
  BY <1>1 DEF RowOf
<1>3. r.record.id = c.record
  BY <1>1 DEF RecordFromApproved
<1>4. row.cited \in Seq(ToSet(row.cited)) /\ Len(row.cited) \in {2, 3}
  BY <1>2, CitedFacts
<1>5. /\ DOMAIN parts = facts
      /\ \A k \in facts : parts[k] \in approved(k) /\ Holds(parts[k])
  BY <1>1, <1>2 DEF ReadFor
<1>6. parts \in [facts -> UNION {approved(k) : k \in facts}]
  <2>1. parts = [k \in facts |-> parts[k]]
    BY <1>1, <1>5 DEF ReadFor
  <2>2. \A k \in facts : parts[k] \in UNION {approved(j) : j \in facts}
    BY <1>5
  <2> QED
    BY <2>1, <2>2
<1>7. /\ AssemblyRefusal(row.id, parts[1], parts[2], ExpiryPart(parts)) = OK
      /\ row = RowOf([record |-> RecordFromApproved(row.id, parts[1], parts[2], ExpiryPart(parts)),
                      cited |-> row.cited], row.recorded)
  BY <1>1, <1>2, <1>3
<1> HIDE DEF row
<1>8. PublishedFrom(submissions, decisions, row)
  BY <1>4, <1>5, <1>6, <1>7 DEF PublishedFrom
<1> QED
  BY <1>2, <1>8 DEF row

\* A record is inserted under an id no other has, or met by the one there.
LEMMA InsertRecordKeeps ==
    ASSUME IInv, NEW o \in Operators, InsertRecord(o)
    PROVE  IInv'
<1> DEFINE r == op[o].held.row
           at == op[o].held.recorded
           row == RowOf(r, at)
<1>1. /\ op[o].pc = "insert" /\ op[o].script # <<>> /\ Command(o).op = "publish"
      /\ UNCHANGED <<submissions, decisions>>
  BY DEF InsertRecord, At
<1>2. CASE UNCHANGED records /\ Refused(o)
  BY <1>1, <1>2, RefusedKeeps DEF journal
<1>3. ASSUME UNCHANGED records, NEW i \in RowsWith(r.record.id), Told(o, records[i])
      PROVE  IInv'
  BY <1>1, <1>3, ToldKeeps DEF journal, RowsWith
<1>4. CASE RowsWith(r.record.id) = {} /\ records' = Append(records, row) /\ Told(o, row)
  <2>1. Assembled(submissions, decisions, Command(o), r)
    BY <1>1 DEF IInv, Carries, Command
  <2>2. PublishedFrom(submissions, decisions, row) /\ row.id = r.record.id
    BY <2>1, AssembledIsPublished
  <2> HIDE DEF row
  <2>3. /\ records' \in Seq(ToSet(records'))
        /\ DOMAIN records' = 1 .. (Len(records) + 1) /\ Len(records) \in Nat
        /\ DOMAIN records = 1 .. Len(records)
        /\ records'[Len(records) + 1] = row
        /\ \A i \in DOMAIN records : records'[i] = records[i] /\ i \in DOMAIN records'
    BY <1>4, AddedRow DEF IInv, Published
  <2>4. Unique'
    BY <1>1 DEF IInv, Unique
  <2>5. ASSUME NEW i \in DOMAIN records'
        PROVE  i = Len(records) + 1 \/ i \in DOMAIN records
    BY <2>3, <2>5
  <2>6. \A i, k \in DOMAIN records' : records'[i].id = records'[k].id => i = k
    BY <1>4, <2>2, <2>3, <2>5 DEF IInv, Published, RowsWith
  <2>7. \A i \in DOMAIN records' : PublishedFrom(submissions', decisions', records'[i])
    BY <1>1, <2>2, <2>3, <2>5 DEF IInv, Published
  <2>8. Published'
    BY <2>3, <2>6, <2>7 DEF Published
  <2>9. Rests(o) /\ answers' \subseteq answers \cup {row}
    BY <1>4, ToldRests DEF IInv
  <2>10. Len(records) + 1 \in DOMAIN records'
    BY <2>3
  <2> QED
    BY <1>1, <2>3, <2>4, <2>8, <2>9, <2>10, Ended
<1> QED
  BY <1>2, <1>3, <1>4 DEF InsertRecord

\* A command cut off between two transactions leaves the journal as it is.
LEMMA InterruptKeeps ==
    ASSUME IInv, NEW o \in Operators, Interrupt(o)
    PROVE  IInv'
<1>1. Rests(o) /\ UNCHANGED <<journal, answers>>
  BY DoneRests DEF Interrupt, IInv
<1>2. Unique' /\ Published'
  BY <1>1 DEF IInv, Unique, Published, journal
<1> QED
  BY <1>1, <1>2, Ended DEF journal

\* Time passing, a reader's question and a stutter change none of it.
LEMMA RestKeeps ==
    ASSUME IInv, UNCHANGED <<journal, op, answers>>
    PROVE  IInv'
BY DEF IInv, Unique, Published, AnswersAreRows, Machines, journal

\* The invariant is inductive.
LEMMA JournalInvariant == Spec => []IInv
<1>1. IInv /\ [Next]_vars => IInv'
  <2> SUFFICES ASSUME IInv, [Next]_vars PROVE IInv'
    OBVIOUS
  <2>1. ASSUME NEW o \in Operators, OperatorStep(o) PROVE IInv'
    BY <2>1, SubmitKeeps, InsertSubmissionKeeps, DecideKeeps, InsertDecisionKeeps,
       ReadEvidenceKeeps, AssembleKeeps, InsertRecordKeeps, InterruptKeeps DEF OperatorStep
  <2>2. ASSUME NEW question \in Questions, Ask(question) PROVE IInv'
    BY <2>2, RestKeeps DEF Ask
  <2>3. CASE Tick
    BY <2>3, RestKeeps DEF Tick
  <2>4. CASE UNCHANGED vars
    BY <2>4, RestKeeps DEF vars, journal
  <2> QED
    BY <2>1, <2>2, <2>3, <2>4 DEF Next
<1> QED
  BY <1>1, InitIsJournal, PTL DEF Spec

(***************************************************************************)
(* What an operator was told of a submission, a decision or a record is in *)
(* the journal, no id names two rows, and every published record reads     *)
(* back from its evidence as it was published: whatever operators decide,  *)
(* publish and retry at once, with clocks that disagree.                   *)
(***************************************************************************)
THEOREM JournalStands == Spec => []ToldIsJournalled
<1>1. IInv => ToldIsJournalled
  <2> SUFFICES ASSUME IInv PROVE ToldIsJournalled
    OBVIOUS
  <2>1. \A i \in DOMAIN records : ReadsBack(records[i])
    BY WrittenReadsBack DEF IInv, Published
  <2>2. ASSUME NEW s \in submissions
        PROVE  Cardinality(Entry(s.id)) = 1 /\ Cardinality(DecisionOn(s.id)) <= 1
    <3>1. Entry(s.id) = {s}
      BY DEF Entry, IInv, Unique
    <3>2. Cardinality(Entry(s.id)) = 1
      BY <3>1, FS_Singleton
    <3>3. CASE DecisionOn(s.id) = {}
      BY <3>2, <3>3, FS_EmptySet
    <3>4. ASSUME NEW j \in DecisionOn(s.id)
          PROVE  Cardinality(DecisionOn(s.id)) <= 1
      <4>1. DecisionOn(s.id) = {j}
        BY <3>4 DEF DecisionOn, IInv, Unique
      <4> QED
        BY <4>1, FS_Singleton
    <3> QED
      BY <3>2, <3>3, <3>4
  <2> QED
    BY <2>1, <2>2 DEF ToldIsJournalled, OneRowPerId, IInv, Published
<1> QED
  BY <1>1, JournalInvariant, PTL

-----------------------------------------------------------------------------
(***************************************************************************)
(* What was known by a moment.                                             *)
(*                                                                         *)
(* An answer about a moment is a function of the rows recorded by then: a  *)
(* row keeps its place, reads back as it did, and its age is judged at     *)
(* that moment.                                                            *)
(***************************************************************************)
\* the records among the first n rows that existed by a moment
HeldBy(moment, n) ==
    [i \in {i \in 1 .. n : records[i].recorded <= moment} |->
        KnownAt(Reassembled(records[i]), records[i].recorded)]

AnswerFor(q, n) ==
    IF DOMAIN HeldBy(q.known, n) = {} THEN Refuse("NOT_YET_KNOWN", {})
    ELSE Assess(HeldBy(q.known, n), q.applies, q.known, q.known, MaxAge)

ToldOk ==
    told # None =>
        /\ told.question \in Questions /\ told.at \in Int /\ told.at <= clock
        /\ told.count \in Nat /\ told.count <= Len(records)
        /\ (/\ told.question.known # None /\ told.question.known <= told.at
            /\ told.count # 0 /\ told.count <= MaxRecords) =>
              told.status.verdict = AnswerFor(told.question, told.count)

\* Whether a record is fresh does not depend on when the question is asked.
LEMMA AskedWhenever ==
    ASSUME NEW held, NEW applies, NEW now, NEW then, NEW judged
    PROVE  Assess(held, applies, now, judged, MaxAge) = Assess(held, applies, then, judged, MaxAge)
BY DEF Assess, Fresh

\* As many ids as rows.
LEMMA IdsCount ==
    ASSUME NEW n \in Nat, NEW rows, DOMAIN rows = 1 .. n,
           \A i, k \in 1 .. n : rows[i].id = rows[k].id => i = k
    PROVE  Cardinality({rows[i].id : i \in DOMAIN rows}) = n
<1> DEFINE S == {rows[i].id : i \in DOMAIN rows}
           f == [i \in 1 .. n |-> rows[i].id]
<1>1. f \in [1 .. n -> S] /\ (\A x \in S : \E i \in 1 .. n : f[i] = x)
        /\ \A i, k \in 1 .. n : f[i] = f[k] => i = k
  OBVIOUS
<1> HIDE DEF f, S
<1>2. f \in Surjection(1 .. n, S) /\ f \in Injection(1 .. n, S)
  BY <1>1, Fun_IsSurj, Fun_IsInj
<1>3. ExistsBijection(1 .. n, S)
  BY <1>2 DEF ExistsBijection, Bijection
<1> QED BY <1>3, FS_CountingElements DEF S

\* The rows as they are read.
LEMMA RowsRead ==
    ASSUME IInv
    PROVE  LET held == RecordsFor(records)
           IN  /\ Len(records) \in Nat /\ DOMAIN records = 1 .. Len(records)
               /\ DOMAIN held = 1 .. Len(records) /\ Len(held) = Len(records)
               /\ \A i \in 1 .. Len(records) :
                    /\ held[i] = KnownAt(Reassembled(records[i]), records[i].recorded)
                    /\ held[i].id = records[i].id /\ held[i].known = records[i].recorded
<1> DEFINE held == RecordsFor(records)
           n == Len(records)
<1>1. n \in Nat /\ DOMAIN records = 1 .. n
  BY SeqOfItself DEF IInv, Published
<1>2. held = [i \in 1 .. n |-> KnownAt(Reassembled(records[i]), records[i].recorded)]
  BY <1>1 DEF RecordsFor
<1>3. DOMAIN held = 1 .. n /\ \A i \in 1 .. n :
            held[i] = KnownAt(Reassembled(records[i]), records[i].recorded)
  BY <1>2
<1>4. Len(held) = n
  BY <1>1, <1>2
<1>5. \A row : /\ KnownAt(Reassembled(row), row.recorded).id = row.id
               /\ KnownAt(Reassembled(row), row.recorded).known = row.recorded
  BY DEF KnownAt, Reassembled, RecordFromApproved
<1> HIDE DEF held
<1> QED BY <1>1, <1>3, <1>4, <1>5 DEF held

\* The answer about a moment that is past is the one its rows give.
LEMMA AsKnown ==
    ASSUME IInv, clock \in Int, NEW q, q.known \in Int, q.known # None, q.known <= clock,
           Len(records) # 0, Len(records) <= MaxRecords
    PROVE  Metadata(q) = AnswerFor(q, Len(records))
<1> DEFINE rows == RecordsFor(records)
           held == HeldBy(q.known, Len(records))
<1>1. /\ Len(records) \in Nat /\ DOMAIN rows = 1 .. Len(records) /\ Len(rows) = Len(records)
      /\ \A i \in 1 .. Len(records) :
            /\ rows[i] = KnownAt(Reassembled(records[i]), records[i].recorded)
            /\ rows[i].id = records[i].id /\ rows[i].known = records[i].recorded
      /\ DOMAIN records = 1 .. Len(records)
  BY RowsRead
<1>2. Metadata(q) = AssessFactRecords(rows, q.applies, clock, MaxAge, q.known)
  BY <1>1, FactBounds DEF Metadata
<1> HIDE DEF rows
<1>3. Cardinality({rows[i].id : i \in DOMAIN rows}) = Len(rows)
  <2>1. \A i, k \in 1 .. Len(records) : rows[i].id = rows[k].id => i = k
    BY <1>1 DEF IInv, Published
  <2>2. Cardinality({rows[i].id : i \in DOMAIN rows}) = Len(records)
    <3>1. Len(records) \in Nat /\ DOMAIN rows = 1 .. Len(records)
      BY <1>1
    <3> QED BY ONLY <2>1, <3>1, IdsCount
  <2> QED BY <1>1, <2>2
<1>4. rows # <<>> /\ ~(q.known > clock)
  <2>1. 1 \in DOMAIN rows
    BY <1>1
  <2>2. DOMAIN <<>> = {}
    OBVIOUS
  <2>3. rows # <<>>
    BY <2>1, <2>2, Zenon
  <2> QED BY <2>3
<1>5. KnownBy(rows, q.known) = held
  <2>1. {i \in DOMAIN rows : rows[i].known <= q.known}
           = {i \in 1 .. Len(records) : records[i].recorded <= q.known}
    BY <1>1
  <2> QED BY <1>1, <2>1 DEF KnownBy, Kept, HeldBy
<1> HIDE DEF held
<1>6. AssessFactRecords(rows, q.applies, clock, MaxAge, q.known) =
        IF DOMAIN held = {} THEN Refuse("NOT_YET_KNOWN", {})
        ELSE Assess(held, q.applies, clock, q.known, MaxAge)
  BY <1>3, <1>4, <1>5 DEF AssessFactRecords
<1>7. Assess(held, q.applies, clock, q.known, MaxAge)
        = Assess(held, q.applies, q.known, q.known, MaxAge)
  BY AskedWhenever
<1> QED BY <1>2, <1>6, <1>7 DEF AnswerFor, held

\* The journal after a step holds what it held.
Grown ==
    /\ submissions \subseteq submissions' /\ decisions \subseteq decisions'
    /\ Len(records) <= Len(records')
    /\ \A i \in DOMAIN records : i \in DOMAIN records' /\ records'[i] = records[i]

\* A row reads back as it did.
LEMMA ReadAgain ==
    ASSUME IInv, IInv', Grown, NEW i \in DOMAIN records
    PROVE  Reassembled(records[i])' = Reassembled(records[i]) /\ records'[i] = records[i]
<1> DEFINE row == records[i]
           facts == 1 .. Len(row.cited)
<1>1. records'[i] = row /\ PublishedFrom(submissions, decisions, row)
  BY DEF Grown, IInv, Published
<1>2. Len(row.cited) \in {2, 3} /\ \A k \in facts : ApprovedIn(submissions, decisions, row.cited[k]) # {}
  BY <1>1 DEF PublishedFrom
<1>3. ASSUME NEW k \in facts
      PROVE  PartOf(row.cited[k])' = PartOf(row.cited[k])
  <2> DEFINE before == ApprovedIn(submissions, decisions, row.cited[k])
             after == ApprovedIn(submissions', decisions', row.cited[k])
  <2>1. before \subseteq after
    BY DEF Grown, ApprovedIn
  <2>2. \A x, y \in after : x = y
    BY DEF IInv, Unique, ApprovedIn
  <2>3. before = after
    BY <1>2, <2>1, <2>2
  <2> QED BY <1>1, <2>3 DEF PartOf, Approved
<1>4. 1 \in facts /\ 2 \in facts /\ (~(Len(row.cited) < 3) => 3 \in facts)
  BY <1>2
<1>5. Reassembled(row)' = Reassembled(row)
  BY <1>1, <1>3, <1>4 DEF Reassembled
<1> QED BY <1>1, <1>5

\* What the first rows answer, they still answer.
LEMMA AnswerStays ==
    ASSUME IInv, IInv', Grown, NEW q, NEW n \in Nat, n <= Len(records)
    PROVE  AnswerFor(q, n)' = AnswerFor(q, n)
<1>1. 1 .. n \subseteq DOMAIN records
  BY RowsRead
<1>2. \A i \in 1 .. n : records'[i] = records[i] /\ Reassembled(records[i])' = Reassembled(records[i])
  BY <1>1, ReadAgain
<1>3. HeldBy(q.known, n)' = HeldBy(q.known, n)
  BY <1>2 DEF HeldBy
<1> QED BY <1>3 DEF AnswerFor

\* Rows are only ever added, and an operator answers no reader.
LEMMA OperatorsAdd ==
    ASSUME IInv, NEW o \in Operators, OperatorStep(o)
    PROVE  Grown /\ UNCHANGED <<told, clock>>
<1>1. /\ Len(records) \in Nat /\ DOMAIN records = 1 .. Len(records)
  BY RowsRead
<1>2. CASE InsertRecord(o)
  <2>1. UNCHANGED <<submissions, decisions, told, clock>>
        /\ (UNCHANGED records \/ \E row : records' = Append(records, row))
    BY <1>2 DEF InsertRecord
  <2>2. ASSUME NEW row, records' = Append(records, row) PROVE Grown
    <3>1. /\ DOMAIN records' = 1 .. (Len(records) + 1)
          /\ \A i \in DOMAIN records : records'[i] = records[i] /\ i \in DOMAIN records'
          /\ records' \in Seq(ToSet(records'))
      BY <2>2, AddedRow DEF IInv, Published
    <3>2. Len(records') = Len(records) + 1
      BY <1>1, <3>1
    <3> QED BY <1>1, <2>1, <3>1, <3>2 DEF Grown
  <2> QED BY <1>1, <2>1, <2>2 DEF Grown
<1>3. CASE InsertDecision(o)
  BY <1>1, <1>3 DEF InsertDecision, AfterConflict, Grown
<1>4. CASE InsertSubmission(o)
  BY <1>1, <1>4 DEF InsertSubmission, Grown
<1>5. CASE Submit(o) \/ Decide(o) \/ ReadEvidence(o) \/ Assemble(o) \/ Interrupt(o)
  BY <1>1, <1>5 DEF Submit, Decide, ReadEvidence, Assemble, Interrupt, journal, Grown
<1> QED BY <1>2, <1>3, <1>4, <1>5 DEF OperatorStep

\* An answer stands while the journal grows and time passes.
LEMMA AnswerKept ==
    ASSUME IInv, IInv', ToldOk, clock \in Int, clock' \in Int, clock <= clock', Grown,
           UNCHANGED told
    PROVE  ToldOk'
<1>1. ASSUME told # None
      PROVE  AnswerFor(told.question, told.count)' = AnswerFor(told.question, told.count)
  <2>1. told.count \in Nat /\ told.count <= Len(records)
    BY <1>1 DEF ToldOk
  <2> DEFINE q == told.question
             n == told.count
  <2>2. \A y : \A m \in Nat : m <= Len(records) => AnswerFor(y, m)' = AnswerFor(y, m)
    BY AnswerStays
  <2> QED BY <2>1, <2>2
<1>2. Len(records) \in Nat /\ Len(records') \in Nat
  <2>1. Len(records) \in Nat
    BY RowsRead
  <2>2. (Len(records) \in Nat)'
    BY RowsRead
  <2> QED BY <2>1, <2>2
<1> QED BY <1>1, <1>2 DEF ToldOk, Grown

\* An answer is the one its rows give when it is given.
LEMMA AskAnswers ==
    ASSUME IInv, IInv', clock \in Int, NEW question \in Questions, Ask(question)
    PROVE  ToldOk'
<1>1. /\ told' = [question |-> question, status |-> StatusOf(Metadata(question)),
                  count |-> Len(records), at |-> clock]
      /\ UNCHANGED <<submissions, decisions, records, clock>>
  BY DEF Ask, journal
<1>2. Len(records) \in Nat
  BY RowsRead
<1>3. ASSUME question.known # None, question.known <= clock, Len(records) # 0,
             Len(records) <= MaxRecords
      PROVE  Metadata(question) = AnswerFor(question, Len(records))
  BY <1>3, AsKnown, FactQuestions
<1>4. StatusOf(Metadata(question)).verdict = Metadata(question)
  BY DEF StatusOf
<1>5. AnswerFor(question, Len(records))' = AnswerFor(question, Len(records))
  BY <1>1 DEF AnswerFor, HeldBy, Reassembled, PartOf, Approved
<1> DEFINE answer == StatusOf(Metadata(question))
<1> HIDE DEF answer
<1>6. /\ told'.question = question /\ told'.status = answer /\ told'.count = Len(records)
      /\ told'.at = clock
  BY <1>1 DEF answer
<1>7. answer.verdict = Metadata(question)
  BY <1>4 DEF answer
<1> QED BY <1>1, <1>2, <1>3, <1>5, <1>6, <1>7 DEF ToldOk

\* What readers were told follows from the journal, at every moment.
AnswersOk == clock \in Int /\ ToldOk

LEMMA AnswersStep == IInv /\ IInv' /\ AnswersOk /\ [Next]_vars => AnswersOk'
<1> SUFFICES ASSUME IInv, IInv', clock \in Int, ToldOk, [Next]_vars
             PROVE  clock' \in Int /\ ToldOk'
  BY DEF AnswersOk
<1>1. ASSUME NEW o \in Operators, OperatorStep(o) PROVE clock' \in Int /\ ToldOk'
  BY <1>1, OperatorsAdd, AnswerKept
<1>2. ASSUME NEW question \in Questions, Ask(question) PROVE clock' \in Int /\ ToldOk'
  BY <1>2, AskAnswers DEF Ask
<1>3. ASSUME UNCHANGED <<journal, told>>, clock' \in Int, clock <= clock'
      PROVE  ToldOk'
  <2>1. Len(records) \in Nat /\ DOMAIN records = 1 .. Len(records)
    BY RowsRead
  <2>2. Grown
    BY <1>3, <2>1 DEF Grown, journal
  <2> QED BY <1>3, <2>2, AnswerKept
<1>4. CASE Tick
  BY <1>3, <1>4 DEF Tick
<1>5. CASE UNCHANGED vars
  <2>1. UNCHANGED <<journal, told>> /\ clock' = clock
    BY <1>5 DEF vars, journal
  <2> QED BY <2>1, <1>3
<1> QED BY <1>1, <1>2, <1>4, <1>5 DEF Next

LEMMA ToldInvariant == Spec => []AnswersOk
<1>1. Init => AnswersOk
  BY DEF Init, AnswersOk, ToldOk
<1> QED BY <1>1, AnswersStep, JournalInvariant, PTL DEF Spec

(***************************************************************************)
(* An answer about what was known by a moment is history: no correction,   *)
(* disagreeing record, claim going stale or passing of time changes it,    *)
(* whatever operators do at once, unless a record recorded by that moment  *)
(* is inserted afterwards or the journal outgrows MAX_RECORDS              *)
(* (source_status.metadata, assess_fact_records with known_by).            *)
(***************************************************************************)
THEOREM AnswersStand == Spec => []AsKnownAnswersStand
<1>1. IInv /\ AnswersOk => AsKnownAnswersStand
  <2> DEFINE q == told.question
  <2> SUFFICES ASSUME IInv, clock \in Int, ToldOk, told # None, q.known # None,
                      ~(q.known > told.at), ~BackDated(q), ~(Len(records) > MaxRecords),
                      told.count # 0
               PROVE  Metadata(q) = told.status.verdict
    BY DEF AsKnownAnswersStand, AnswersOk
  <2>1. /\ q \in Questions /\ q.known \in Int /\ told.at \in Int /\ told.at <= clock
        /\ told.count \in Nat /\ told.count <= Len(records)
    BY FactQuestions DEF ToldOk
  <2>2. Len(records) \in Nat /\ DOMAIN records = 1 .. Len(records)
    BY RowsRead
  <2>3. Metadata(q) = AnswerFor(q, Len(records))
    <3>1. q.known <= clock /\ Len(records) # 0 /\ Len(records) <= MaxRecords
      BY <2>1, <2>2, FactBounds
    <3> HIDE DEF q
    <3> QED BY <2>1, <3>1, AsKnown
  <2>4. told.status.verdict = AnswerFor(q, told.count)
    BY <2>1, <2>2, FactBounds DEF ToldOk
  <2>5. HeldBy(q.known, Len(records)) = HeldBy(q.known, told.count)
    <3>1. {i \in 1 .. Len(records) : records[i].recorded <= q.known}
            = {i \in 1 .. told.count : records[i].recorded <= q.known}
      BY <2>1, <2>2 DEF BackDated
    <3> QED BY <3>1 DEF HeldBy
  <2> QED BY <2>3, <2>4, <2>5 DEF AnswerFor
<1> QED BY <1>1, JournalInvariant, ToldInvariant, PTL
-----------------------------------------------------------------------------
(***************************************************************************)
(* External sources, for any source, any items in any order and number.    *)
(***************************************************************************)
\* The items a reader had before it when the first n had been delivered.
Heard(n) == [i \in 1 .. n |-> feed[i]]

\* What a reader was told is the answer over the items delivered by then.
HeardOk ==
    /\ source \in Setups /\ feed \in Seq(source.items)
    /\ asked # None =>
        /\ asked.count \in 0 .. Len(feed) /\ asked.at \in DecisionTimes
        /\ asked.answer = AnswerAt(source, Heard(asked.count), asked.at)

\* It stays so: an answer is not changed, and items are only appended.
LEMMA HeardInvariant == FeedSpec => []HeardOk
<1>1. FeedInit => HeardOk
  BY DEF FeedInit, HeardOk
<1>2. HeardOk /\ [FeedNext]_feedVars => HeardOk'
  <2> SUFFICES ASSUME HeardOk, [FeedNext]_feedVars PROVE HeardOk'
    OBVIOUS
  <2>1. ASSUME NEW item \in source.items, Deliver(item) PROVE HeardOk'
    <3>1. /\ feed' \in Seq(source.items) /\ Len(feed') = Len(feed) + 1
          /\ \A i \in 1 .. Len(feed) : feed'[i] = feed[i]
      BY <2>1 DEF Deliver, HeardOk
    <3>2. Len(feed) \in Nat
      BY DEF HeardOk
    <3>3. ASSUME NEW n \in 0 .. Len(feed) PROVE Heard(n)' = Heard(n)
      BY <3>1, <3>2 DEF Heard
    <3>4. UNCHANGED <<source, asked>>
      BY <2>1 DEF Deliver
    <3>5. CASE asked = None
      BY <3>1, <3>4, <3>5 DEF HeardOk
    <3>6. CASE asked # None
      <4>1. asked.count \in 0 .. Len(feed) /\ asked.count \in 0 .. Len(feed')
        BY <3>1, <3>2, <3>6 DEF HeardOk
      <4>2. Heard(asked.count)' = Heard(asked.count)
        BY <3>3, <3>4, <4>1
      <4>3. AnswerAt(source, Heard(asked.count), asked.at)'
              = AnswerAt(source, Heard(asked.count), asked.at)
        BY <3>4, <4>2 DEF AnswerAt, Fetched
      <4> QED BY <3>1, <3>4, <4>1, <4>3 DEF HeardOk
    <3> QED BY <3>5, <3>6
  <2>2. ASSUME NEW at \in DecisionTimes, AskSource(at) PROVE HeardOk'
    <3>1. Heard(Len(feed)) = feed
      BY DEF Heard, HeardOk
    <3>2. UNCHANGED <<source, feed>> /\ asked'.at = at /\ asked'.count = Len(feed)
          /\ asked'.answer = AnswerAt(source, feed, at)
      BY <2>2 DEF AskSource
    <3>3. Heard(asked.count)' = feed
      BY <3>1, <3>2 DEF Heard
    <3>4. Len(feed) \in 0 .. Len(feed)
      BY DEF HeardOk
    <3> QED BY <3>2, <3>3, <3>4 DEF HeardOk, AnswerAt, Fetched
  <2>3. CASE UNCHANGED feedVars
    BY <2>3 DEF feedVars, HeardOk, Heard, AnswerAt, Fetched
  <2> QED BY <2>1, <2>2, <2>3 DEF FeedNext
<1> QED BY <1>1, <1>2, PTL DEF FeedSpec

\* The items an answer about a moment reads.
KnownFigures(items, at) ==
    {i \in DOMAIN items : items[i].concerns /\ items[i].authoritative
                          /\ OpenInterestAvailable(items[i]) <= at}
VisibleArticles(items, at) ==
    {i \in DOMAIN items : Available(items[i], at) /\ items[i].usage # "NONE" /\ items[i].real}
CountedMoves(items, at) ==
    {i \in DOMAIN items : items[i].observed = 1 /\ Available(items[i], at)}

\* Two lists that differ in no item an answer reads give one answer.
LEMMA SameOpenInterest ==
    ASSUME NEW items, NEW others, NEW at, NEW known,
           known = KnownFigures(items, at), known = KnownFigures(others, at),
           \A i \in known : items[i] = others[i]
    PROVE  OpenInterestAt(items, at) = OpenInterestAt(others, at)
<1>1. {items[i].measured : i \in known} = {others[i].measured : i \in known}
  OBVIOUS
<1> DEFINE latest == Largest({items[i].measured : i \in known})
<1>2. latest = Largest({others[i].measured : i \in known})
  BY <1>1
<1> HIDE DEF latest
<1> DEFINE measured == {i \in known : items[i].measured = latest}
<1>3. measured = {i \in known : others[i].measured = latest}
  OBVIOUS
<1>4. \A i \in measured : items[i] = others[i]
  OBVIOUS
<1> HIDE DEF measured
<1>5. {items[i].revision : i \in measured} = {others[i].revision : i \in measured}
  BY <1>4
<1> DEFINE top == Largest({items[i].revision : i \in measured})
<1>6. top = Largest({others[i].revision : i \in measured})
  BY <1>5
<1> HIDE DEF top
<1>7. {items[i].contracts : i \in {j \in measured : items[j].revision = top}}
        = {others[i].contracts : i \in {j \in measured : others[j].revision = top}}
  BY <1>4
<1> DEFINE values == {items[i].contracts : i \in {j \in measured : items[j].revision = top}}
           answer == IF known = {} THEN Unavailable
                     ELSE IF Cardinality(values) > 1 THEN Unavailable
                     ELSE Answered(IF at - latest > FeedAge THEN "STALE" ELSE "AVAILABLE",
                                   <<latest, values>>)
<1>8. OpenInterestAt(items, at) = answer
  BY DEF OpenInterestAt, latest, measured, top, KnownFigures
<1>9. values = {others[i].contracts : i \in {j \in measured : others[j].revision = top}}
  BY <1>7
<1> HIDE DEF values
<1>10. OpenInterestAt(others, at) = answer
  <2> DEFINE knownO == {i \in DOMAIN others : others[i].concerns /\ others[i].authoritative
                                       /\ OpenInterestAvailable(others[i]) <= at}
             latestO == Largest({others[i].measured : i \in knownO})
             measuredO == {i \in knownO : others[i].measured = latestO}
             topO == Largest({others[i].revision : i \in measuredO})
             valuesO == {others[i].contracts : i \in {j \in measuredO : others[j].revision = topO}}
  <2>1. OpenInterestAt(others, at)
          = IF knownO = {} THEN Unavailable
            ELSE IF Cardinality(valuesO) > 1 THEN Unavailable
            ELSE Answered(IF at - latestO > FeedAge THEN "STALE" ELSE "AVAILABLE",
                          <<latestO, valuesO>>)
    BY DEF OpenInterestAt
  <2>2. knownO = known
    BY DEF KnownFigures
  <2>3. latestO = latest
    BY <1>2, <2>2
  <2> HIDE DEF knownO, latestO
  <2>4. measuredO = measured
    BY <1>3, <2>2, <2>3
  <2> HIDE DEF measuredO
  <2>5. topO = top
    BY <1>6, <2>4
  <2> HIDE DEF topO
  <2>6. valuesO = values
    BY <1>9, <2>4, <2>5
  <2> HIDE DEF valuesO
  <2> QED BY <2>1, <2>2, <2>3, <2>6
<1> QED BY <1>8, <1>10

\* The same of news: the contradictions and the latest texts are those of
\* the articles that may be seen.
LEMMA SameNews ==
    ASSUME NEW items, NEW others, NEW at, NEW eligible,
           eligible = VisibleArticles(items, at), eligible = VisibleArticles(others, at),
           \A i \in eligible : items[i] = others[i]
    PROVE  NewsVisibleAt(items, at) = NewsVisibleAt(others, at)
<1>1. AtOdds(items, eligible, LAMBDA a : a.id, LAMBDA a, b : a = b)
        <=> AtOdds(others, eligible, LAMBDA a : a.id, LAMBDA a, b : a = b)
  BY DEF AtOdds
<1>2. LatestOf(items, eligible, LAMBDA a : a.id) = LatestOf(others, eligible, LAMBDA a : a.id)
  BY DEF LatestOf
<1> QED BY <1>1, <1>2 DEF NewsVisibleAt, VisibleArticles

\* The same of breadth, while every observation lies in the universe.
LEMMA SameBreadth ==
    ASSUME NEW items, NEW others, NEW at, NEW eligible,
           eligible = CountedMoves(items, at), eligible = CountedMoves(others, at),
           \A i \in eligible : items[i] = others[i],
           \A i \in DOMAIN items : items[i].symbol \in Constituents,
           \A i \in DOMAIN others : others[i].symbol \in Constituents
    PROVE  BreadthAt(items, at) = BreadthAt(others, at)
<1>1. AtOdds(items, eligible, LAMBDA a : a.symbol, LAMBDA a, b : a.direction = b.direction)
        <=> AtOdds(others, eligible, LAMBDA a : a.symbol, LAMBDA a, b : a.direction = b.direction)
  BY DEF AtOdds
<1>2. LatestOf(items, eligible, LAMBDA a : a.symbol)
        = LatestOf(others, eligible, LAMBDA a : a.symbol)
  BY DEF LatestOf
<1> QED BY <1>1, <1>2 DEF BreadthAt, CountedMoves

\* A set of one element holds one element.
LEMMA OneShape ==
    ASSUME NEW S, IsFiniteSet(S), ~(Cardinality(S) > 1), NEW x \in S, NEW y \in S
    PROVE  x = y
<1>1. Cardinality(S) \in Nat /\ Cardinality(S) # 0
  BY FS_CardinalityType, FS_EmptySet
<1>2. Cardinality(S) = 1
  BY <1>1
<1> QED BY <1>2, FS_Singleton

\* A function of finitely many arguments has finitely many values.
LEMMA ImageFinite ==
    ASSUME NEW f, IsFiniteSet(DOMAIN f), f = [x \in DOMAIN f |-> f[x]]
    PROVE  IsFiniteSet({f[x] : x \in DOMAIN f})
<1> DEFINE T == {f[x] : x \in DOMAIN f}
<1>1. f \in [DOMAIN f -> T] /\ \A y \in T : \E x \in DOMAIN f : f[x] = y
  OBVIOUS
<1>2. f \in Surjection(DOMAIN f, T)
  BY <1>1, Fun_IsSurj
<1> QED BY <1>2, FS_Surjection

\* The rules of the days in a calendar are finitely many.
LEMMA ShapesFinite ==
    ASSUME NEW T, NEW items \in Seq(T), NEW S \in SUBSET ToSet(items)
    PROVE  IsFiniteSet({<<d.offset, d.kind, d.open>> : d \in S})
<1>1. DOMAIN items = 1 .. Len(items) /\ Len(items) \in Nat
      /\ items = [i \in DOMAIN items |-> items[i]]
  OBVIOUS
<1>2. IsFiniteSet(1 .. Len(items))
  <2>1. 1 \in Int /\ Len(items) \in Int
    BY <1>1
  <2> QED BY <2>1, FS_Interval
<1>3. IsFiniteSet(ToSet(items))
  BY <1>1, <1>2, ImageFinite DEF ToSet
<1>4. IsFiniteSet(S)
  BY <1>3, FS_Subset
<1> DEFINE f == [d \in S |-> <<d.offset, d.kind, d.open>>]
<1>5. DOMAIN f = S /\ f = [d \in DOMAIN f |-> f[d]]
  OBVIOUS
<1>6. {f[d] : d \in DOMAIN f} = {<<d.offset, d.kind, d.open>> : d \in S}
  OBVIOUS
<1> HIDE DEF f
<1>7. IsFiniteSet({f[d] : d \in DOMAIN f})
  BY <1>4, <1>5, ImageFinite
<1> QED BY <1>6, <1>7

\* Two calendars, one with every day of the other, are not in opposition.
LEMMA CalendarStands ==
    ASSUME NEW T, NEW items \in Seq(T), NEW others \in Seq(T), NEW at,
           ToSet(others) \subseteq ToSet(items),
           AnswerFrom(items, at) # Unavailable, AnswerFrom(others, at) # Unavailable
    PROVE  AnswerFrom(items, at) = AnswerFrom(others, at)
<1> DEFINE usable(days) == {d \in {d \in ToSet(days) :
                                d.concerns /\ LocalTime(d, at) \div DayLength = d.day} : d.usable}
           shapes(days) == {<<d.offset, d.kind, d.open>> : d \in usable(days)}
           inside(d) == LocalTime(d, at) % DayLength \in d.open
           said(days) == Answered(IF \E d \in usable(days) : inside(d) THEN "IN_SESSION"
                                  ELSE "OUT_OF_SESSION", None)
<1>1. ASSUME NEW days
      PROVE  AnswerFrom(days, at) = IF usable(days) = {} \/ Cardinality(shapes(days)) > 1
                                    THEN Unavailable ELSE said(days)
  BY DEF AnswerFrom
<1>2. /\ usable(items) # {} /\ ~(Cardinality(shapes(items)) > 1)
      /\ usable(others) # {} /\ AnswerFrom(items, at) = said(items)
      /\ AnswerFrom(others, at) = said(others)
  BY <1>1
<1>3. usable(others) \subseteq usable(items) /\ usable(items) \subseteq ToSet(items)
  OBVIOUS
<1>4. IsFiniteSet(shapes(items))
  BY <1>3, ShapesFinite
<1> HIDE DEF usable
<1>5. ASSUME NEW d \in usable(items), NEW e \in usable(items)
      PROVE  inside(d) <=> inside(e)
  <2>1. <<d.offset, d.kind, d.open>> \in shapes(items) /\ <<e.offset, e.kind, e.open>> \in shapes(items)
    OBVIOUS
  <2>2. <<d.offset, d.kind, d.open>> = <<e.offset, e.kind, e.open>>
    <3>1. ~(Cardinality(shapes(items)) > 1)
      BY <1>2
    <3> HIDE DEF shapes
    <3> QED BY ONLY <1>4, <2>1, <3>1, OneShape
  <2>3. d.offset = e.offset /\ d.open = e.open
    BY <2>2
  <2>4. LocalTime(d, at) = LocalTime(e, at)
    BY <2>3 DEF LocalTime
  <2> QED BY <2>3, <2>4
<1> HIDE DEF inside
<1>6. (\E d \in usable(items) : inside(d)) <=> (\E d \in usable(others) : inside(d))
  BY <1>2, <1>3, <1>5
<1>7. said(items) = said(others)
  BY <1>6
<1> QED BY <1>2, <1>7

-----------------------------------------------------------------------------
\* Which check fails first does not matter to whether one does.
LEMMA SomeRefusal ==
    ASSUME NEW n \in 1 .. 6, NEW checks, DOMAIN checks = 1 .. n,
           \A i \in 1 .. n : checks[i][2] # OK
    PROVE  FirstRefusal(checks) = OK <=> \A i \in 1 .. n : ~checks[i][1]
<1> DEFINE failed == {i \in DOMAIN checks : checks[i][1]}
           first == CHOOSE i \in failed : \A j \in failed : i <= j
<1>1. CASE failed = {}
  BY <1>1 DEF FirstRefusal
<1>2. CASE failed # {}
  <2>1. failed \subseteq 1 .. 6
    OBVIOUS
  <2> HIDE DEF failed
  <2>2. \E i \in failed : \A j \in failed : i <= j
    <3>1. \A j \in failed : j \in {1, 2, 3, 4, 5, 6}
      BY <2>1
    <3>2. CASE 1 \in failed  BY <3>1, <3>2
    <3>3. CASE 1 \notin failed /\ 2 \in failed  BY <3>1, <3>3
    <3>4. CASE 1 \notin failed /\ 2 \notin failed /\ 3 \in failed  BY <3>1, <3>4
    <3>5. CASE 1 \notin failed /\ 2 \notin failed /\ 3 \notin failed
      BY <1>2, <3>1, <3>5
    <3> QED BY <3>2, <3>3, <3>4, <3>5
  <2>3. first \in failed
    BY <2>2
  <2>4. first \in 1 .. n /\ checks[first][1]
    BY <2>3 DEF failed
  <2>5. FirstRefusal(checks) = checks[first][2]
    BY <1>2 DEF FirstRefusal, failed
  <2> HIDE DEF first
  <2> QED BY <2>4, <2>5
<1> QED BY <1>1, <1>2

\* Off simulation, a session is built under a licence exactly when the page
\* shows one: the page looks for simulated grants too, which cannot match.
LEMMA LicencesAgree ==
    ASSUME NEW l, NEW at, l.delivery # Simulated
    PROVE  GrantRefusal(l, at) = OK <=> AuthorizeProvenance(l, at) = OK
<1>1. CASE l.grant = None
  BY <1>1 DEF GrantRefusal, AuthorizeProvenance, OK
<1>2. CASE l.grant # None
  <2> DEFINE a == <<
        <<~l.grant.provider, "GRANT_FOR_ANOTHER_PROVIDER">>,
        <<~l.grant.covers, "GRANT_DOES_NOT_COVER_MARKET_DATA">>,
        <<l.grant.delivery # l.delivery, "GRANT_DELIVERY_MISMATCH">>,
        <<~l.grant.authoritative, "GRANT_NOT_AUTHORITATIVE">>,
        <<l.grant.until # None /\ at >= l.grant.until, "GRANT_LAPSED">>>>
             b == <<
        <<~l.grant.provider, "GRANT_FOR_ANOTHER_PROVIDER">>,
        <<~l.grant.covers, "GRANT_DOES_NOT_COVER_CATEGORY">>,
        <<l.delivery = Simulated \/ l.grant.delivery = Simulated, "SIMULATION_IS_NOT_LICENSED">>,
        <<l.grant.delivery # l.delivery, "GRANT_DELIVERY_MISMATCH">>,
        <<~l.grant.authoritative, "GRANT_NOT_AUTHORITATIVE">>,
        <<l.grant.until # None /\ at >= l.grant.until, "GRANT_LAPSED">>>>
  <2>1. AuthorizeProvenance(l, at) = FirstRefusal(a) /\ GrantRefusal(l, at) = FirstRefusal(b)
    BY <1>2 DEF AuthorizeProvenance, GrantRefusal
  <2>2. DOMAIN a = 1 .. 5 /\ DOMAIN b = 1 .. 6
    OBVIOUS
  <2>3. \A i \in 1 .. 5 : a[i][2] # OK
    BY DEF OK
  <2>4. \A i \in 1 .. 6 : b[i][2] # OK
    BY DEF OK
  <2>5. (\A i \in 1 .. 5 : ~a[i][1]) <=> \A i \in 1 .. 6 : ~b[i][1]
    <3>1. (\A i \in 1 .. 5 : ~a[i][1])
            <=> ~a[1][1] /\ ~a[2][1] /\ ~a[3][1] /\ ~a[4][1] /\ ~a[5][1]
      <4> HIDE DEF a
      <4> QED OBVIOUS
    <3>2. (\A i \in 1 .. 6 : ~b[i][1])
            <=> ~b[1][1] /\ ~b[2][1] /\ ~b[3][1] /\ ~b[4][1] /\ ~b[5][1] /\ ~b[6][1]
      <4> HIDE DEF b
      <4> QED OBVIOUS
    <3>3. /\ a[1][1] <=> b[1][1]
          /\ a[2][1] <=> b[2][1]
          /\ a[3][1] <=> b[4][1]
          /\ a[4][1] <=> b[5][1]
          /\ a[5][1] <=> b[6][1]
      OBVIOUS
    <3>4. b[3][1] => b[4][1]
      BY DEF Simulated
    <3> HIDE DEF a, b
    <3> QED BY <3>1, <3>2, <3>3, <3>4
  <2> HIDE DEF a, b
  <2>6. FirstRefusal(a) = OK <=> \A i \in 1 .. 5 : ~a[i][1]
    BY <2>2, <2>3, SomeRefusal
  <2>7. FirstRefusal(b) = OK <=> \A i \in 1 .. 6 : ~b[i][1]
    BY <2>2, <2>4, SomeRefusal
  <2> QED BY <2>1, <2>5, <2>6, <2>7
<1> QED BY <1>1, <1>2

\* What a reader had is a part of what is delivered now.
LEMMA HeardIsPrefix ==
    ASSUME HeardOk, asked # None
    PROVE  /\ Len(feed) \in Nat /\ DOMAIN feed = 1 .. Len(feed) /\ asked.count \in 0 .. Len(feed)
           /\ DOMAIN Heard(asked.count) = 1 .. asked.count
           /\ Len(Heard(asked.count)) = asked.count
           /\ Heard(asked.count) \in Seq(source.items)
           /\ \A i \in 1 .. asked.count : Heard(asked.count)[i] = feed[i]
           /\ \A i \in 1 .. Len(feed) : feed[i] \in source.items
           /\ asked.at \in Int
<1>1. Len(feed) \in Nat /\ DOMAIN feed = 1 .. Len(feed) /\ asked.count \in 0 .. Len(feed)
      /\ \A i \in 1 .. Len(feed) : feed[i] \in source.items
  BY DEF HeardOk
<1>2. DOMAIN Heard(asked.count) = 1 .. asked.count
      /\ \A i \in 1 .. asked.count : Heard(asked.count)[i] = feed[i]
  BY DEF Heard
<1>3. Heard(asked.count) \in Seq(source.items) /\ Len(Heard(asked.count)) = asked.count
  BY <1>1 DEF Heard
<1>4. asked.at \in Int
  BY FeedBounds DEF HeardOk
<1> QED BY <1>1, <1>2, <1>3, <1>4

\* The items read by a moment are those read when it was asked about, when
\* only later ones were delivered since.
LEMMA SameRead ==
    ASSUME HeardOk, asked # None, OnlyLater, source.kind # "licence", source.kind # "calendar",
           NEW i \in 1 .. Len(feed), ReadableAt(feed[i]) <= asked.at
    PROVE  i \in 1 .. asked.count
<1>1. ReadableAt(feed[i]) \in Int
  <2>1. feed[i] \in source.items /\ source \in Setups
    BY HeardIsPrefix DEF HeardOk
  <2>2. CASE source.kind = "open_interest"
    BY <2>1, <2>2, FeedSetups DEF ReadableAt, OpenInterestAvailable
  <2>3. CASE source.kind \in {"news", "breadth"}
    BY <2>1, <2>3, FeedSetups DEF ReadableAt
  <2> QED BY <2>1, <2>2, <2>3, FeedSetups
<1>2. i \in (asked.count + 1) .. Len(feed) => ReadableAt(feed[i]) > asked.at
  BY DEF OnlyLater
<1> QED BY <1>1, <1>2, HeardIsPrefix

\* Items readable only later change nothing.
LEMMA LaterItemsHidden ==
    ASSUME HeardOk, asked # None, OnlyLater,
           source.kind \in {"open_interest", "news", "breadth"},
           source.kind = "breadth" => \A i \in DOMAIN feed : feed[i].symbol \in Constituents,
           Fetched(source, feed)
    PROVE  AnswerAt(source, feed, asked.at) = AnswerAt(source, Heard(asked.count), asked.at)
<1> DEFINE heard == Heard(asked.count)
           at == asked.at
<1>1. /\ Len(feed) \in Nat /\ DOMAIN feed = 1 .. Len(feed) /\ asked.count \in 0 .. Len(feed)
      /\ DOMAIN heard = 1 .. asked.count /\ Len(heard) = asked.count
      /\ \A i \in 1 .. asked.count : heard[i] = feed[i]
  BY HeardIsPrefix
<1>2. Fetched(source, heard)
  <2>1. source.up /\ Len(feed) <= FeedBound
    BY DEF Fetched
  <2>2. FeedBound \in Int
    BY FeedBounds
  <2> QED BY <1>1, <2>1, <2>2 DEF Fetched
<1>3. \A i \in 1 .. Len(feed) : ReadableAt(feed[i]) <= at => i \in 1 .. asked.count
  BY SameRead
<1>4. 1 .. asked.count \subseteq 1 .. Len(feed)
  BY <1>1
<1> HIDE DEF heard, at
<1>5. CASE source.kind = "open_interest"
  <2>1. \A i \in KnownFigures(feed, at) : i \in 1 .. asked.count /\ feed[i] = heard[i]
    BY <1>1, <1>3, <1>5 DEF ReadableAt, KnownFigures
  <2>2. KnownFigures(feed, at) = KnownFigures(heard, at)
    BY <1>1, <1>4, <2>1 DEF KnownFigures
  <2>3. OpenInterestAt(feed, at) = OpenInterestAt(heard, at)
    BY ONLY <2>1, <2>2, SameOpenInterest
  <2> QED BY <1>2, <1>5, <2>3 DEF AnswerAt, heard, at
<1>6. CASE source.kind = "news"
  <2>1. \A i \in VisibleArticles(feed, at) : i \in 1 .. asked.count /\ feed[i] = heard[i]
    BY <1>1, <1>3, <1>6 DEF ReadableAt, Available, VisibleArticles
  <2>2. VisibleArticles(feed, at) = VisibleArticles(heard, at)
    BY <1>1, <1>4, <2>1 DEF VisibleArticles
  <2>3. NewsVisibleAt(feed, at) = NewsVisibleAt(heard, at)
    BY ONLY <2>1, <2>2, SameNews
  <2> QED BY <1>2, <1>6, <2>3 DEF AnswerAt, heard, at
<1>7. CASE source.kind = "breadth"
  <2>1. \A i \in CountedMoves(feed, at) : i \in 1 .. asked.count /\ feed[i] = heard[i]
    BY <1>1, <1>3, <1>7 DEF ReadableAt, Available, CountedMoves
  <2>2. CountedMoves(feed, at) = CountedMoves(heard, at)
    BY <1>1, <1>4, <2>1 DEF CountedMoves
  <2>3. (\A i \in DOMAIN feed : feed[i].symbol \in Constituents)
        /\ \A i \in DOMAIN heard : heard[i].symbol \in Constituents
    BY <1>1, <1>4, <1>7
  <2>4. BreadthAt(feed, at) = BreadthAt(heard, at)
    BY ONLY <2>1, <2>2, <2>3, SameBreadth
  <2> QED BY <1>2, <1>7, <2>4 DEF AnswerAt, heard, at
<1> QED BY <1>5, <1>6, <1>7

\* A calendar with more days is not one that says the opposite.
LEMMA CalendarAnswers ==
    ASSUME HeardOk, asked # None, source.kind = "calendar",
           asked.answer # Unavailable, AnswerAt(source, feed, asked.at) # Unavailable
    PROVE  AnswerAt(source, feed, asked.at) = asked.answer
<1> DEFINE heard == Heard(asked.count)
<1>1. asked.answer = AnswerFrom(heard, asked.at)
      /\ AnswerAt(source, feed, asked.at) = AnswerFrom(feed, asked.at)
  BY DEF HeardOk, AnswerAt
<1>2. ToSet(heard) \subseteq ToSet(feed)
  BY HeardIsPrefix DEF ToSet
<1>3. heard \in Seq(source.items) /\ feed \in Seq(source.items)
  BY HeardIsPrefix DEF HeardOk
<1> HIDE DEF heard
<1> QED BY <1>1, <1>2, <1>3, CalendarStands

\* What the capability page and the session say of one licence agree.
LEMMA LicenceAnswers ==
    ASSUME source.kind = "licence", Fetched(source, feed), source.licence.declared,
           source.licence.delivery # Simulated, NEW at
    PROVE  LET again == AnswerAt(source, feed, at)
           IN  (again.status = "NOT_LICENSED") = (again.value # OK)
<1> DEFINE l == source.licence
           deliveries == {feed[i].available : i \in DOMAIN feed}
<1>1. AnswerAt(source, feed, at) = Answered(CategoryStatus(l, deliveries, at),
                                            AuthorizeProvenance(l, at))
  BY DEF AnswerAt, LicenceAt
<1> HIDE DEF deliveries
<1>2. CategoryStatus(l, deliveries, at) = "NOT_LICENSED" <=> GrantRefusal(l, at) # OK
  BY DEF CategoryStatus
<1>3. GrantRefusal(l, at) = OK <=> AuthorizeProvenance(l, at) = OK
  BY LicencesAgree
<1> QED BY <1>1, <1>2, <1>3 DEF Answered

(***************************************************************************)
(* What a reader of an external source was told about a moment holds,      *)
(* whatever the source delivers, in whatever order: items readable only    *)
(* later change nothing of open interest, news and breadth, a calendar is  *)
(* never contradicted into its opposite, and the two licence checks agree  *)
(* (open_interest_at, news_visible_at, breadth_at, answer_from,            *)
(* authorize_provenance, grant_refusal).                                   *)
(***************************************************************************)
THEOREM SourcesStand == FeedSpec => []SourceAnswersHold
<1>1. HeardOk => SourceAnswersHold
  <2> SUFFICES ASSUME HeardOk, source # None, asked # None
               PROVE  SourceAnswersHold
    BY DEF SourceAnswersHold
  <2>1. source.kind \in {"open_interest", "news", "breadth", "calendar", "licence"}
    BY FeedSetups DEF HeardOk
  <2>2. asked.answer = AnswerAt(source, Heard(asked.count), asked.at)
    BY DEF HeardOk
  <2>3. CASE source.kind = "calendar"
    BY <2>3, CalendarAnswers DEF SourceAnswersHold
  <2>4. CASE source.kind = "licence"
    BY <2>4, LicenceAnswers DEF SourceAnswersHold
  <2>5. CASE source.kind \in {"open_interest", "news", "breadth"}
    <3>1. \/ ~OnlyLater \/ ~Fetched(source, feed)
          \/ source.kind = "breadth" /\ \E i \in DOMAIN feed : feed[i].symbol \notin Constituents
          \/ AnswerAt(source, feed, asked.at) = asked.answer
      BY <2>2, <2>5, LaterItemsHidden
    <3> HIDE DEF OnlyLater
    <3> QED BY <2>5, <3>1 DEF SourceAnswersHold
  <2> QED BY <2>1, <2>3, <2>4, <2>5
<1> QED BY <1>1, HeardInvariant, PTL
=============================================================================
