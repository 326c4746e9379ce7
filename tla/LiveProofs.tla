----------------------------- MODULE LiveProofs -----------------------------
(***************************************************************************)
(* Proofs about live data.  First the books and the market state, for any  *)
(* number of timeframes, any provider, and any limits on what a book may   *)
(* record.  Then sessions and the browsers that watch them, for any number *)
(* of sessions, clients and handlers, any queue, page, retention and       *)
(* buffer: what a client is missing is found by following the notices      *)
(* still queued for it, since each entry between its cursor and the newest *)
(* one is queued, or a demand to resynchronise is; that an analysis never  *)
(* replaces a newer one rests on the analysis lock.                        *)
(***************************************************************************)
EXTENDS LiveState, LiveClient, FiniteSetTheorems, SequenceTheorems, WellFoundedInduction, TLAPS

\* A finite set has an element of least weight.
LEMMA FiniteLeast ==
    ASSUME NEW S, IsFiniteSet(S), S # {}, NEW weight, \A x \in S : weight[x] \in Int
    PROVE  \E m \in S : \A x \in S : weight[m] <= weight[x]
<1> DEFINE Least(T) == \E m \in T : \A x \in T : weight[m] <= weight[x]
           Bad == {T \in SUBSET S : T # {} /\ ~Least(T)}
<1> SUFFICES ASSUME Bad # {} PROVE FALSE
  OBVIOUS
<1>1. IsWellFoundedOn(StrictSubsetOrdering(S), SUBSET S)
  BY FS_StrictSubsetOrderingWellFounded, FS_FiniteSubsetsOfFinite
<1>2. Bad \subseteq SUBSET S
  OBVIOUS
<1>3. PICK T \in Bad : \A U \in Bad : <<U, T>> \notin StrictSubsetOrdering(S)
  <2> HIDE DEF Bad
  <2> QED BY <1>1, <1>2, WFMin
<1>4. PICK x \in T : TRUE
  OBVIOUS
<1> DEFINE U == T \ {x}
<1>5. U \notin Bad
  <2>1. <<U, T>> \in StrictSubsetOrdering(S)
    BY <1>4 DEF StrictSubsetOrdering
  <2> QED BY <1>3, <2>1
<1>6. CASE U = {}
  <2>1. T = {x}
    BY <1>4, <1>6
  <2> QED BY <2>1
<1>7. CASE U # {}
  <2>1. PICK m \in U : \A y \in U : weight[m] <= weight[y]
    BY <1>5, <1>7
  <2>2. weight[m] \in Int /\ weight[x] \in Int /\ \A y \in T : weight[y] \in Int
    BY <2>1
  <2>3. CASE weight[m] <= weight[x]
    <3>1. \A y \in T : weight[m] <= weight[y]
      BY <2>1, <2>3
    <3> QED BY <3>1, <2>1
  <2>4. CASE weight[x] <= weight[m]
    <3>1. \A y \in T : weight[x] <= weight[y]
      BY <2>1, <2>2, <2>4
    <3> QED BY <3>1, <1>4
  <2> QED BY <2>2, <2>3, <2>4
<1> QED BY <1>6, <1>7

First(b, t) == t \in Times(b) /\ \A u \in Times(b) : t <= u
LastTime(b, t) == t \in Times(b) /\ \A u \in Times(b) : u <= t

\* The confirmed sequence is finite and ordered by its open times.
Dated(b) == Times(b) \subseteq Int /\ IsFiniteSet(Times(b))

\* Oldest and Newest name the ends of a sequence that has candles.
LEMMA Ends ==
    ASSUME NEW b, Dated(b), Times(b) # {}
    PROVE  First(b, Oldest(b)) /\ LastTime(b, Newest(b))
<1>1. \E m \in Times(b) : \A x \in Times(b) : m <= x
  <2> DEFINE w == [x \in Times(b) |-> x]
  <2>1. \A x \in Times(b) : w[x] \in Int
    BY DEF Dated
  <2> HIDE DEF w
  <2>2. PICK m \in Times(b) : \A x \in Times(b) : w[m] <= w[x]
    BY <2>1, FiniteLeast DEF Dated
  <2> QED BY <2>2 DEF w
<1>2. \E m \in Times(b) : \A x \in Times(b) : x <= m
  <2> DEFINE w == [x \in Times(b) |-> -x]
  <2>1. \A x \in Times(b) : w[x] \in Int
    BY DEF Dated
  <2> HIDE DEF w
  <2>2. PICK m \in Times(b) : \A x \in Times(b) : w[m] <= w[x]
    BY <2>1, FiniteLeast DEF Dated
  <2> QED BY <2>2 DEF w, Dated
<1> QED BY <1>1, <1>2 DEF First, LastTime, Oldest, Newest

\* Ends are unique.
LEMMA EndsUnique ==
    ASSUME NEW b, Dated(b), NEW t
    PROVE  /\ First(b, t) => t = Oldest(b)
           /\ LastTime(b, t) => t = Newest(b)
<1>1. Times(b) # {} => First(b, Oldest(b)) /\ LastTime(b, Newest(b))
  BY Ends
<1> QED BY <1>1 DEF First, LastTime, Dated

Fields == DOMAIN EmptyBook
SeqAt(b, t) == b.closed[t].seq
Sequenced(b) == b.sequenced = TRUE
Unsequenced(b) == b.sequenced = FALSE
BookObserved(o) == o.time \in Int /\ (o.seq = None \/ o.seq \in Nat)

\* The number n is recorded as not received.
Accounted(b, n) == n \in b.missing \/ (b.overflowed /\ n <= b.unenumerated)

JumpRecorded(b) ==
    /\ DOMAIN b = Fields
    /\ IsFiniteSet(b.jumps) /\ \A d \in b.jumps : d.before \in Int
    /\ IsFiniteSet(b.missing) /\ b.missing \subseteq Nat
    /\ b.overflowed \in BOOLEAN
    /\ b.overflowed => b.unenumerated \in Nat
    /\ b.unenumerated = None \/ b.unenumerated \in Nat

\* Numbers grow with the open times, and the last one belongs to the newest candle.
Numbered(b) ==
    /\ Times(b) = {} => b.last = None
    /\ b.sequenced = TRUE =>
         /\ \A t \in Times(b) : SeqAt(b, t) \in Nat
         /\ \A t, u \in Times(b) : t < u => SeqAt(b, t) < SeqAt(b, u)
         /\ \A t \in Times(b) : LastTime(b, t) => b.last = SeqAt(b, t)

\* Why two adjacent candles are an interval apart, or the record that says they are not.
Bridged(b, p, t) ==
    \/ \E d \in b.jumps : t <= d.before
    \/ b.sequenced = FALSE /\ t = p + Interval
    \/ /\ b.sequenced = TRUE
       /\ t = p + Interval * (SeqAt(b, t) - SeqAt(b, p))
       /\ \A n \in Int : SeqAt(b, p) < n /\ n < SeqAt(b, t) => Accounted(b, n)

Explained(b) == \A p, t \in Times(b) : Adjacent(b, p, t) => Bridged(b, p, t)

Loose(b) == Dated(b) /\ JumpRecorded(b) /\ Numbered(b) /\ Explained(b)

\* Nothing is recorded about what the window has left behind.
Trimmed(b) ==
    /\ b.sequenced = None => Times(b) = {}
    /\ Times(b) = {} => b.jumps = {}
    /\ \A t \in Times(b) : First(b, t) =>
         /\ \A d \in b.jumps : t < d.before
         /\ b.sequenced = TRUE => \A n \in b.missing : SeqAt(b, t) < n

Good(b) == Loose(b) /\ Trimmed(b)

Same(b, c, fields) == \A f \in fields : c[f] = b[f]

\* The fields of a book.
LEMMA FieldNames ==
    Fields = {"closed", "forming", "sequenced", "last", "missing", "overflowed", "unenumerated",
              "jumps", "conflicts", "awaiting", "unresolvedTrimmed", "version", "freshness"}
BY DEF Fields, EmptyBook

\* Placed adds one candle and touches nothing else.
LEMMA PlacedFacts ==
    ASSUME NEW b, DOMAIN b = Fields, NEW o, NEW c, c = Placed(b, o)
    PROVE  /\ DOMAIN c = Fields
           /\ Times(c) = Times(b) \cup {o.time}
           /\ c.closed[o.time] = [seq |-> o.seq, value |-> o.value]
           /\ \A t \in Times(b) : t # o.time => c.closed[t] = b.closed[t]
           /\ Same(b, c, Fields \ {"closed"})
BY FieldNames DEF Placed, Times, Same

\* Recording a discontinuity drops at most the oldest one, so what it dropped is
\* outlived by a younger record.
LEMMA RecordJumpFacts ==
    ASSUME NEW b, JumpRecorded(b), NEW time \in Int, NEW kind, NEW c, c = RecordJump(b, time, kind)
    PROVE  /\ DOMAIN c = Fields
           /\ Same(b, c, Fields \ {"jumps"})
           /\ IsFiniteSet(c.jumps) /\ \A d \in c.jumps : d.before \in Int
           /\ \E e \in c.jumps : time <= e.before
           /\ \A d \in b.jumps : \E e \in c.jumps : d.before <= e.before
<1> DEFINE new == [before |-> time, kind |-> kind]
           grown == b.jumps \cup {new}
           oldest == CHOOSE d \in grown : \A e \in grown : d.before <= e.before
<1>1. new.before = time /\ \A d \in grown : d.before \in Int
  BY DEF JumpRecorded
<1>2. IsFiniteSet(grown)
  BY FS_AddElement DEF JumpRecorded
<1> HIDE DEF new
<1>3. /\ DOMAIN c = Fields
      /\ Same(b, c, Fields \ {"jumps"})
      /\ c.jumps = IF Cardinality(grown) > MaxRecordedIssues THEN grown \ {oldest} ELSE grown
  BY FieldNames DEF RecordJump, Same, JumpRecorded, new
<1>4. oldest \in grown /\ \A e \in grown : oldest.before <= e.before
  <2> DEFINE w == [d \in grown |-> d.before]
  <2>1. grown # {} /\ \A d \in grown : w[d] \in Int /\ w[d] = d.before
    BY <1>1
  <2> HIDE DEF w, grown
  <2>2. PICK m \in grown : \A x \in grown : w[m] <= w[x]
    BY <1>2, <2>1, FiniteLeast
  <2>3. \E e \in grown : \A x \in grown : e.before <= x.before
    BY <2>1, <2>2
  <2> QED BY <2>3
<1> HIDE DEF oldest
<1>5. CASE Cardinality(grown) > MaxRecordedIssues
  <2>1. c.jumps = grown \ {oldest}
    BY <1>3, <1>5
  <2>2. grown \ {oldest} # {}
    <3> SUFFICES ASSUME grown = {oldest} PROVE FALSE
      BY <1>4
    <3>1. Cardinality(grown) = 1
      BY FS_Singleton
    <3> QED BY <1>5, <3>1, LiveConstants DEF LiveConstants
  <2>3. PICK e \in grown \ {oldest} : TRUE
    BY <2>2
  <2>4. \A d \in grown : \E x \in c.jumps : d.before <= x.before
    <3> TAKE d \in grown
    <3>1. CASE d = oldest
      BY <3>1, <2>1, <2>3, <1>4
    <3>2. CASE d # oldest
      BY <3>2, <2>1, <1>1
    <3> QED BY <3>1, <3>2
  <2>5. IsFiniteSet(c.jumps)
    BY <1>2, <2>1, FS_RemoveElement
  <2>6. new \in grown /\ b.jumps \subseteq grown
    OBVIOUS
  <2> HIDE DEF grown
  <2> QED BY <1>1, <1>3, <2>1, <2>4, <2>5, <2>6
<1>6. CASE ~(Cardinality(grown) > MaxRecordedIssues)
  <2>1. c.jumps = grown
    BY <1>3, <1>6
  <2>2. new \in grown /\ b.jumps \subseteq grown
    OBVIOUS
  <2> HIDE DEF grown
  <2>3. \A d \in grown : \E e \in c.jumps : d.before <= e.before
    BY <1>1, <2>1
  <2> QED BY <1>1, <1>2, <1>3, <2>1, <2>2, <2>3
<1> QED BY <1>5, <1>6

\* Recording a range loses no number: each is enumerated or below the remembered one.
LEMMA RecordMissingFacts ==
    ASSUME NEW b, JumpRecorded(b), NEW first \in Nat, NEW last \in Nat,
           NEW c, c = RecordMissing(b, first, last)
    PROVE  /\ Same(b, c, Fields \ {"missing", "overflowed", "unenumerated"})
           /\ JumpRecorded(c)
           /\ \A n \in Int : Accounted(b, n) => Accounted(c, n)
           /\ \A n \in Int : first <= n /\ n <= last => Accounted(c, n)
<1> DEFINE noted == Cardinality(b.missing)
           room == IF noted < MaxMissingSequences THEN MaxMissingSequences - noted ELSE 0
           spills == last - first + 1 > room
<1>1. c = [b EXCEPT
            !.missing = @ \cup {n \in first..last : n < first + room},
            !.overflowed = @ \/ spills,
            !.unenumerated = IF spills /\ (b.unenumerated = None \/ last > b.unenumerated)
                             THEN last ELSE @]
  BY Zenon DEF RecordMissing
<1> HIDE DEF room, spills
<1>2. /\ DOMAIN c = Fields
      /\ Same(b, c, Fields \ {"missing", "overflowed", "unenumerated"})
      /\ c.missing = b.missing \cup {n \in first..last : n < first + room}
      /\ c.unenumerated = IF spills /\ (b.unenumerated = None \/ last > b.unenumerated)
                          THEN last ELSE b.unenumerated
  BY <1>1, FieldNames DEF Same, JumpRecorded
<1>3. c.overflowed \in BOOLEAN /\ (c.overflowed <=> b.overflowed \/ spills)
  <2>1. c.overflowed = (b.overflowed \/ spills)
    BY <1>1, FieldNames DEF JumpRecorded
  <2> QED BY <2>1
<1>4. room \in Int
  <2>1. noted \in Int
    BY FS_CardinalityType DEF JumpRecorded
  <2> HIDE DEF noted
  <2> QED BY <2>1, LiveConstants DEF room, LiveConstants
<1>5. b.missing \subseteq c.missing /\ c.missing \subseteq Nat /\ IsFiniteSet(c.missing)
  <2> DEFINE fresh == {n \in first..last : n < first + room}
  <2>1. IsFiniteSet(fresh)
    <3>1. IsFiniteSet(first..last) /\ fresh \in SUBSET (first..last)
      BY FS_Interval
    <3> QED BY <3>1, FS_Subset
  <2>2. fresh \subseteq Nat
    OBVIOUS
  <2> HIDE DEF fresh
  <2>3. c.missing = b.missing \cup fresh
    BY <1>2 DEF fresh
  <2>4. IsFiniteSet(b.missing \cup fresh)
    BY <2>1, FS_Union DEF JumpRecorded
  <2> QED BY <2>2, <2>3, <2>4 DEF JumpRecorded
<1>6. \A n \in Int : first <= n /\ n <= last => Accounted(c, n)
  <2> SUFFICES ASSUME NEW n \in Int, first <= n, n <= last, n \notin c.missing
               PROVE  c.overflowed /\ n <= c.unenumerated
    BY DEF Accounted
  <2>1. n \in first..last /\ ~(n < first + room)
    BY <1>2
  <2>2. spills
    BY <2>1, <1>4 DEF spills
  <2>3. c.unenumerated \in Int /\ last <= c.unenumerated
    BY <1>2, <2>2, LiveConstants DEF LiveConstants, JumpRecorded
  <2> QED BY <1>3, <2>2, <2>3
<1>7. ASSUME NEW n \in Int, Accounted(b, n)
      PROVE  Accounted(c, n)
  <2>1. CASE n \in b.missing
    BY <2>1, <1>5 DEF Accounted
  <2>2. CASE n \notin b.missing
    <3>1. b.overflowed /\ n <= b.unenumerated /\ b.unenumerated \in Nat
      BY <1>7, <2>2 DEF Accounted, JumpRecorded
    <3>2. c.unenumerated \in Int /\ b.unenumerated <= c.unenumerated
      BY <1>2, <3>1, LiveConstants DEF LiveConstants
    <3> QED BY <1>3, <3>1, <3>2 DEF Accounted
  <2> QED BY <2>1, <2>2
<1>8. /\ c.overflowed => c.unenumerated \in Nat
      /\ c.unenumerated = None \/ c.unenumerated \in Nat
  <2>1. CASE spills
    BY <1>2, <2>1 DEF JumpRecorded
  <2>2. CASE ~spills
    BY <1>2, <1>3, <2>2 DEF JumpRecorded
  <2> QED BY <2>1, <2>2
<1>9. c.jumps = b.jumps
  BY <1>2, FieldNames DEF Same
<1> QED BY <1>2, <1>3, <1>5, <1>6, <1>7, <1>8, <1>9 DEF JumpRecorded

Noted == {"missing", "overflowed", "unenumerated", "jumps"}

\* What is recorded in k about b's candles is no less than what b recorded.
Keeps(b, k) ==
    /\ JumpRecorded(k) /\ Same(b, k, Fields \ Noted)
    /\ \A d \in b.jumps : \E e \in k.jumps : d.before <= e.before
    /\ \A n \in Int : Accounted(b, n) => Accounted(k, n)

\* The records of k bridge the distance from the newest candle of b to o.
Joins(b, k, o) ==
    Times(b) # {} =>
      \/ \E e \in k.jumps : o.time <= e.before
      \/ Unsequenced(b) /\ o.time = Newest(b) + Interval
      \/ /\ Sequenced(b)
         /\ o.time = Newest(b) + Interval * (o.seq - b.last)
         /\ \A n \in Int : b.last < n /\ n < o.seq => Accounted(k, n)

\* The number of o continues those of b.
Numbers(b, o) ==
    Sequenced(b) => o.seq \in Nat /\ (Times(b) # {} => o.seq > b.last)

\* After the check of a new newest candle its distance is bridged, and whatever was
\* bridged before still is.
LEMMA CheckCoverageFacts ==
    ASSUME NEW b, Loose(b), Sequenced(b), Times(b) # {},
           NEW o, BookObserved(o), Numbers(b, o),
           NEW step, step = o.seq - b.last,
           NEW c, c = CheckCoverage(b, o.time, step)
    PROVE  Keeps(b, c) /\ Joins(b, c, o)
<1> USE DEF Sequenced, Unsequenced
<1> DEFINE p == Newest(b)
           time == o.time
           seq == o.seq
           moved == time - p
<1>0. time \in Int /\ seq \in Nat /\ seq > b.last
  BY DEF BookObserved, Numbers
<1> SUFFICES /\ Same(b, c, Fields \ Noted)
             /\ JumpRecorded(c)
             /\ \A d \in b.jumps : \E e \in c.jumps : d.before <= e.before
             /\ \A n \in Int : Accounted(b, n) => Accounted(c, n)
             /\ \/ \E e \in c.jumps : time <= e.before
                \/ /\ time = Newest(b) + Interval * (seq - b.last)
                   /\ \A n \in Int : b.last < n /\ n < seq => Accounted(c, n)
  BY Zenon DEF Keeps, Joins
<1> HIDE DEF time, seq
<1>1. p \in Int /\ b.last \in Nat
  <2>1. LastTime(b, p) /\ p \in Times(b) /\ Dated(b)
    BY Ends DEF Loose, LastTime
  <2> HIDE DEF p
  <2> QED BY <2>1 DEF Loose, Numbered, Dated
<1>2. step \in Nat /\ step >= 1 /\ step = seq - b.last
  BY <1>0, <1>1 DEF seq
<1>3. JumpRecorded(b) /\ \A d \in b.jumps : d.before \in Int
  BY DEF Loose, JumpRecorded
<1> HIDE DEF p
<1>4. CASE moved = Interval * step /\ step > 1
  <2>1. c = RecordMissing(b, b.last + 1, b.last + step - 1)
    BY <1>4 DEF CheckCoverage, p, time
  <2>2. b.last + 1 \in Nat /\ b.last + step - 1 \in Nat /\ b.last + step - 1 = seq - 1
    BY <1>0, <1>1, <1>2
  <2>3. /\ Same(b, c, Fields \ {"missing", "overflowed", "unenumerated"})
        /\ JumpRecorded(c)
        /\ \A n \in Int : Accounted(b, n) => Accounted(c, n)
        /\ \A n \in Int : b.last + 1 <= n /\ n <= b.last + step - 1 => Accounted(c, n)
    <3> DEFINE lo == b.last + 1
               hi == b.last + step - 1
    <3>1. lo \in Nat /\ hi \in Nat /\ c = RecordMissing(b, lo, hi)
      BY <2>1, <2>2
    <3> HIDE DEF lo, hi
    <3>2. /\ Same(b, c, Fields \ {"missing", "overflowed", "unenumerated"})
          /\ JumpRecorded(c)
          /\ \A n \in Int : Accounted(b, n) => Accounted(c, n)
          /\ \A n \in Int : lo <= n /\ n <= hi => Accounted(c, n)
      BY <3>1, <1>3, RecordMissingFacts
    <3> QED BY <3>2 DEF lo, hi
  <2>4. Same(b, c, Fields \ Noted) /\ c.jumps = b.jumps
    BY <2>3, FieldNames DEF Same, Noted
  <2>5. time = p + Interval * step
    BY <1>0, <1>1, <1>2, <1>4, LiveConstants DEF LiveConstants
  <2>6. \A n \in Int : b.last < n /\ n < seq => Accounted(c, n)
    BY <2>2, <2>3, <1>0, <1>1
  <2>7. time = Newest(b) + Interval * (seq - b.last)
    BY <2>5, <1>2 DEF p
  <2> QED BY <1>3, <2>3, <2>4, <2>6, <2>7
<1>5. CASE moved = Interval * step /\ ~(step > 1)
  <2>1. c = b
    BY <1>5 DEF CheckCoverage, p, time
  <2>2. time = p + Interval * step
    BY <1>0, <1>1, <1>2, <1>5, LiveConstants DEF LiveConstants
  <2>3. \A n \in Int : ~(b.last < n /\ n < seq)
    BY <1>0, <1>1, <1>2, <1>5
  <2>4. Same(b, c, Fields \ Noted)
    BY <2>1 DEF Same
  <2>5. \A d \in b.jumps : \E e \in c.jumps : d.before <= e.before
    BY <1>3, <2>1
  <2>6. time = Newest(b) + Interval * (seq - b.last)
    BY <2>2, <1>2 DEF p
  <2> QED BY <1>3, <2>1, <2>3, <2>4, <2>5, <2>6
<1>6. CASE moved # Interval * step
  <2>1. PICK kind : c = RecordJump(b, time, kind)
    BY <1>6, Zenon DEF CheckCoverage, p, time
  <2>2. /\ DOMAIN c = Fields
        /\ Same(b, c, Fields \ {"jumps"})
        /\ IsFiniteSet(c.jumps) /\ \A d \in c.jumps : d.before \in Int
        /\ \E e \in c.jumps : time <= e.before
        /\ \A d \in b.jumps : \E e \in c.jumps : d.before <= e.before
    BY <1>0, <1>3, <2>1, RecordJumpFacts
  <2>3. /\ Same(b, c, Fields \ Noted)
        /\ c.missing = b.missing /\ c.overflowed = b.overflowed
        /\ c.unenumerated = b.unenumerated
    BY <2>2, FieldNames DEF Same, Noted
  <2>4. JumpRecorded(c)
    BY <1>3, <2>2, <2>3 DEF JumpRecorded
  <2>5. \A n \in Int : Accounted(b, n) => Accounted(c, n)
    BY <2>3 DEF Accounted
  <2> QED BY <2>2, <2>3, <2>4, <2>5
<1> QED BY <1>4, <1>5, <1>6

\* What was bridged stays bridged when records only become more.
LEMMA BridgedKept ==
    ASSUME NEW b, Dated(b), NEW c, NEW p \in Times(b), NEW t \in Times(b), Bridged(b, p, t),
           \A d \in b.jumps : d.before \in Int,
           \A d \in c.jumps : d.before \in Int,
           c.sequenced = b.sequenced, c.closed[p] = b.closed[p], c.closed[t] = b.closed[t],
           \A d \in b.jumps : \E e \in c.jumps : d.before <= e.before,
           \A n \in Int : Accounted(b, n) => Accounted(c, n)
    PROVE  Bridged(c, p, t)
<1>0. p \in Int /\ t \in Int
  BY DEF Dated
<1>1. SeqAt(c, p) = SeqAt(b, p) /\ SeqAt(c, t) = SeqAt(b, t)
  BY DEF SeqAt
<1>2. CASE \E d \in b.jumps : t <= d.before
  <2>1. PICK d \in b.jumps : t <= d.before
    BY <1>2
  <2>2. PICK e \in c.jumps : d.before <= e.before
    OBVIOUS
  <2>3. t <= e.before
    BY <1>0, <2>1, <2>2
  <2> QED BY <2>3 DEF Bridged
<1>3. CASE b.sequenced = FALSE /\ t = p + Interval
  BY <1>3 DEF Bridged
<1>4. CASE /\ b.sequenced = TRUE
           /\ t = p + Interval * (SeqAt(b, t) - SeqAt(b, p))
           /\ \A n \in Int : SeqAt(b, p) < n /\ n < SeqAt(b, t) => Accounted(b, n)
  BY <1>1, <1>4 DEF Bridged
<1> QED BY <1>2, <1>3, <1>4 DEF Bridged

\* A candle placed after the newest one keeps the book loose, once the distance
\* between the two is bridged.
LEMMA NewestPlaced ==
    ASSUME NEW b, Loose(b), b.sequenced \in BOOLEAN, NEW k, Keeps(b, k),
           NEW o, BookObserved(o), \A t \in Times(b) : t < o.time, Numbers(b, o), Joins(b, k, o),
           NEW q, q = Placed(k, o),
           NEW c, DOMAIN c = Fields, Same(q, c, Fields \ {"last"}),
           Sequenced(b) => c.last = o.seq
    PROVE  /\ Loose(c)
           /\ Same(k, c, Fields \ {"closed", "last"})
           /\ Times(c) = Times(b) \cup {o.time}
           /\ LastTime(c, o.time)
           /\ \A t \in Times(b) : c.closed[t] = b.closed[t]
           /\ c.closed[o.time] = [seq |-> o.seq, value |-> o.value]
<1> USE DEF Sequenced, Unsequenced
<1>0. /\ JumpRecorded(k) /\ Same(b, k, Fields \ Noted)
      /\ \A d \in b.jumps : \E e \in k.jumps : d.before <= e.before
      /\ \A n \in Int : Accounted(b, n) => Accounted(k, n)
  BY DEF Keeps
<1>1. /\ DOMAIN c = Fields
      /\ Same(k, c, Fields \ {"closed", "last"})
      /\ Times(c) = Times(b) \cup {o.time}
      /\ c.closed[o.time] = [seq |-> o.seq, value |-> o.value]
      /\ \A t \in Times(b) : c.closed[t] = b.closed[t]
  <2>1. k.closed = b.closed /\ Times(k) = Times(b)
    BY <1>0, FieldNames DEF Same, Noted, Times
  <2>2. /\ DOMAIN q = Fields
        /\ Times(q) = Times(k) \cup {o.time}
        /\ q.closed[o.time] = [seq |-> o.seq, value |-> o.value]
        /\ \A t \in Times(k) : t # o.time => q.closed[t] = k.closed[t]
        /\ Same(k, q, Fields \ {"closed"})
    <3>1. DOMAIN k = Fields
      BY <1>0 DEF JumpRecorded
    <3> QED BY <3>1, FieldNames DEF Placed, Times, Same
  <2>3. \A t \in Times(b) : t # o.time
    BY DEF Loose, Dated, BookObserved
  <2>4. c.closed = q.closed /\ Same(q, c, Fields \ {"last"})
    BY <2>2, FieldNames DEF Same
  <2> QED BY <2>1, <2>2, <2>3, <2>4 DEF Same, Times
<1>2. /\ c.jumps = k.jumps /\ c.missing = k.missing /\ c.overflowed = k.overflowed
      /\ c.unenumerated = k.unenumerated /\ c.sequenced = b.sequenced
  BY <1>0, <1>1, FieldNames DEF Same, Noted
<1>3. JumpRecorded(c)
  BY <1>0, <1>1, <1>2 DEF JumpRecorded
<1>4. Dated(c)
  <2>1. IsFiniteSet(Times(b) \cup {o.time})
    BY FS_AddElement, Zenon DEF Loose, Dated
  <2> QED BY <1>1, <2>1 DEF Loose, Dated, BookObserved
<1>5. LastTime(c, o.time)
  BY <1>1, <1>4 DEF LastTime, Dated, Loose
<1>6. \A t \in Times(b) : SeqAt(c, t) = SeqAt(b, t)
  BY <1>1 DEF SeqAt
<1>7. SeqAt(c, o.time) = o.seq
  BY <1>1 DEF SeqAt
<1>8. Numbered(c)
  <2>1. Times(c) # {}
    BY <1>1
  <2> SUFFICES ASSUME b.sequenced = TRUE
               PROVE  /\ \A t \in Times(c) : SeqAt(c, t) \in Nat
                      /\ \A t, u \in Times(c) : t < u => SeqAt(c, t) < SeqAt(c, u)
                      /\ \A t \in Times(c) : LastTime(c, t) => c.last = SeqAt(c, t)
    BY <1>2, <2>1 DEF Numbered
  <2>2. /\ \A t \in Times(b) : SeqAt(b, t) \in Nat
        /\ \A t, u \in Times(b) : t < u => SeqAt(b, t) < SeqAt(b, u)
        /\ \A t \in Times(b) : LastTime(b, t) => b.last = SeqAt(b, t)
    BY DEF Loose, Numbered
  <2>7. o.seq \in Nat /\ (Times(b) # {} => o.seq > b.last) /\ c.last = o.seq
    BY DEF Numbers
  <2>3. \A t \in Times(c) : SeqAt(c, t) \in Nat
    BY <1>1, <1>6, <1>7, <2>2, <2>7
  <2>4. \A t \in Times(b) : SeqAt(b, t) < o.seq
    <3> TAKE t \in Times(b)
    <3> DEFINE p == Newest(b)
    <3>1. LastTime(b, p) /\ p \in Times(b) /\ t <= p
      BY Ends DEF Loose, LastTime
    <3> HIDE DEF p
    <3>2. SeqAt(b, p) = b.last /\ b.last < o.seq
      BY <2>2, <2>7, <3>1
    <3>3. t \in Int /\ p \in Int
      BY <3>1 DEF Loose, Dated
    <3>4. SeqAt(b, t) <= SeqAt(b, p)
      BY <2>2, <3>1, <3>3
    <3> QED BY <2>2, <2>7, <3>1, <3>2, <3>4
  <2>5. \A t, u \in Times(c) : t < u => SeqAt(c, t) < SeqAt(c, u)
    <3> SUFFICES ASSUME NEW t \in Times(c), NEW u \in Times(c), t < u
                 PROVE  SeqAt(c, t) < SeqAt(c, u)
      OBVIOUS
    <3>1. t \in Times(b)
      BY <1>1, <1>4, <1>5 DEF LastTime, Dated
    <3>2. CASE u = o.time
      BY <3>1, <3>2, <1>6, <1>7, <2>4
    <3>3. CASE u \in Times(b)
      BY <3>1, <3>3, <1>6, <2>2
    <3> QED BY <1>1, <3>2, <3>3
  <2>6. \A t \in Times(c) : LastTime(c, t) => c.last = SeqAt(c, t)
    BY <1>1, <1>4, <1>5, <1>7, <2>7, EndsUnique
  <2> QED BY <2>3, <2>5, <2>6
<1>9. Explained(c)
  <2> SUFFICES ASSUME NEW p \in Times(c), NEW t \in Times(c), Adjacent(c, p, t)
               PROVE  Bridged(c, p, t)
    BY DEF Explained
  <2>1. p < t /\ \A u \in Times(c) : u <= p \/ t <= u
    BY DEF Adjacent
  <2>2. p \in Times(b)
    BY <1>1, <1>4, <1>5, <2>1 DEF LastTime, Dated
  <2>3. CASE t \in Times(b)
    <3>1. Adjacent(b, p, t)
      BY <1>1, <2>1 DEF Adjacent
    <3>2. Bridged(b, p, t)
      BY <2>2, <2>3, <3>1 DEF Loose, Explained
    <3>3. \A n \in Int : Accounted(b, n) => Accounted(c, n)
      BY <1>0, <1>2 DEF Accounted
    <3> QED BY <1>0, <2>2, <2>3, <3>2, <3>3, <1>1, <1>2, BridgedKept DEF Loose, JumpRecorded
  <2>4. CASE t = o.time
    <3>1. LastTime(b, p)
      <4>1. \A u \in Times(b) : u < o.time /\ u \in Int /\ o.time \in Int
        BY DEF Loose, Dated, BookObserved
      <4> QED BY <1>1, <2>1, <2>2, <2>4, <4>1 DEF LastTime
    <3>2. p = Newest(b) /\ Times(b) # {}
      BY <2>2, <3>1, EndsUnique DEF Loose
    <3>3. b.sequenced = TRUE => SeqAt(c, p) = b.last
      BY <1>6, <2>2, <3>1 DEF Loose, Numbered
    <3>4. \A n \in Int : Accounted(k, n) => Accounted(c, n)
      BY <1>2 DEF Accounted
    <3>5. CASE \E e \in k.jumps : o.time <= e.before
      BY <2>4, <3>5, <1>2 DEF Bridged
    <3>6. CASE b.sequenced = FALSE /\ o.time = Newest(b) + Interval
      BY <2>4, <3>2, <3>6, <1>2 DEF Bridged
    <3>7. CASE /\ b.sequenced = TRUE
               /\ o.time = Newest(b) + Interval * (o.seq - b.last)
               /\ \A n \in Int : b.last < n /\ n < o.seq => Accounted(k, n)
      BY <2>4, <3>2, <3>3, <3>4, <3>7, <1>2, <1>7 DEF Bridged
    <3> QED BY <3>2, <3>5, <3>6, <3>7 DEF Joins
  <2> QED BY <1>1, <2>3, <2>4
<1> QED BY <1>1, <1>3, <1>4, <1>5, <1>8, <1>9 DEF Loose

\* A time between candles has a nearest one on each side.
LEMMA Neighbours ==
    ASSUME NEW b, Dated(b), NEW x \in Int
    PROVE  /\ (\E t \in Times(b) : t < x) =>
                 \E p \in Times(b) : p < x /\ \A u \in Times(b) : u < x => u <= p
           /\ (\E t \in Times(b) : x < t) =>
                 \E p \in Times(b) : x < p /\ \A u \in Times(b) : x < u => p <= u
<1>1. ASSUME \E t \in Times(b) : t < x
      PROVE  \E p \in Times(b) : p < x /\ \A u \in Times(b) : u < x => u <= p
  <2> DEFINE S == {t \in Times(b) : t < x}
             w == [t \in S |-> -t]
  <2>1. S # {} /\ S \in SUBSET Times(b)
    BY <1>1
  <2>2. IsFiniteSet(S)
    <3> HIDE DEF S
    <3> QED BY <2>1, FS_Subset DEF Dated
  <2>3. \A t \in S : w[t] \in Int /\ w[t] = -t /\ t \in Int
    BY DEF Dated
  <2>4. \E m \in S : \A t \in S : w[m] <= w[t]
    <3> HIDE DEF S, w
    <3> QED BY <2>1, <2>2, <2>3, FiniteLeast
  <2>5. PICK m \in S : \A t \in S : w[m] <= w[t]
    BY <2>4
  <2>6. \A t \in S : t <= m
    <3> HIDE DEF S, w
    <3> QED BY <2>3, <2>5
  <2> QED BY <2>6
<1>2. ASSUME \E t \in Times(b) : x < t
      PROVE  \E p \in Times(b) : x < p /\ \A u \in Times(b) : x < u => p <= u
  <2> DEFINE S == {t \in Times(b) : x < t}
             w == [t \in S |-> t]
  <2>1. S # {} /\ S \in SUBSET Times(b)
    BY <1>2
  <2>2. IsFiniteSet(S)
    <3> HIDE DEF S
    <3> QED BY <2>1, FS_Subset DEF Dated
  <2>3. \A t \in S : w[t] \in Int /\ w[t] = t /\ t \in Int
    BY DEF Dated
  <2>4. \E m \in S : \A t \in S : w[m] <= w[t]
    <3> HIDE DEF S, w
    <3> QED BY <2>1, <2>2, <2>3, FiniteLeast
  <2>5. PICK m \in S : \A t \in S : w[m] <= w[t]
    BY <2>4
  <2>6. \A t \in S : m <= t
    <3> HIDE DEF S, w
    <3> QED BY <2>3, <2>5
  <2> QED BY <2>6
<1> QED BY <1>1, <1>2

Late(b, o) ==
    b.last # None /\ ~(o.seq > b.last) /\ o.seq \in b.missing /\ FitsItsGap(b, o)
LateFilled(b, o) == [Placed(b, o) EXCEPT !.missing = @ \ {o.seq}]
Filled(b, c, o) ==
    /\ Loose(c)
    /\ Same(b, c, Fields \ {"closed", "missing"})
    /\ Times(c) = Times(b) \cup {o.time}
    /\ \E p \in Times(b) : p < o.time
    /\ \E t \in Times(b) : o.time < t
    /\ \A t \in Times(b) : c.closed[t] = b.closed[t]
    /\ c.closed[o.time] = [seq |-> o.seq, value |-> o.value]

\* A late candle that fits its gap lies strictly inside the sequence and splits
\* the distance it is placed in.
LEMMA LateFillPlaced ==
    ASSUME NEW b, Good(b), Sequenced(b), NEW o, BookObserved(o), o.time \notin Times(b),
           Late(b, o), NEW c, c = LateFilled(b, o)
    PROVE  Filled(b, c, o)
<1> USE DEF Sequenced, Late, LateFilled
<1>0. /\ Dated(b) /\ JumpRecorded(b) /\ Times(b) \subseteq Int /\ o.time \in Int /\ o.seq \in Nat
      /\ \A t \in Times(b) : t # o.time
  BY DEF Good, Loose, Dated, BookObserved, JumpRecorded
<1>1. /\ DOMAIN c = Fields
      /\ Same(b, c, Fields \ {"closed", "missing"})
      /\ c.missing = b.missing \ {o.seq}
      /\ Times(c) = Times(b) \cup {o.time}
      /\ c.closed[o.time] = [seq |-> o.seq, value |-> o.value]
      /\ \A t \in Times(b) : c.closed[t] = b.closed[t]
  <2> DEFINE q == Placed(b, o)
  <2>1. /\ DOMAIN q = Fields
        /\ Times(q) = Times(b) \cup {o.time}
        /\ q.closed[o.time] = [seq |-> o.seq, value |-> o.value]
        /\ \A t \in Times(b) : t # o.time => q.closed[t] = b.closed[t]
        /\ Same(b, q, Fields \ {"closed"})
    BY <1>0, PlacedFacts DEF JumpRecorded
  <2> HIDE DEF q
  <2>2. /\ DOMAIN c = Fields /\ c.closed = q.closed /\ c.missing = q.missing \ {o.seq}
        /\ Same(q, c, Fields \ {"missing"})
    BY <2>1, FieldNames DEF Same, q
  <2> QED BY <1>0, <2>1, <2>2, FieldNames DEF Same, Times
<1>2. /\ c.jumps = b.jumps /\ c.overflowed = b.overflowed /\ c.last = b.last
      /\ c.unenumerated = b.unenumerated /\ c.sequenced = b.sequenced
  BY <1>1, FieldNames DEF Same
<1>3. JumpRecorded(c)
  <2>1. IsFiniteSet(c.missing) /\ c.missing \subseteq Nat
    BY <1>0, <1>1, FS_RemoveElement DEF JumpRecorded
  <2> QED BY <1>0, <1>1, <1>2, <2>1 DEF JumpRecorded
<1>4. Dated(c)
  <2>1. IsFiniteSet(Times(b) \cup {o.time})
    BY <1>0, FS_AddElement, Zenon DEF Dated
  <2> QED BY <1>0, <1>1, <2>1 DEF Dated
<1>5. /\ \A t \in Times(b) : SeqAt(c, t) = SeqAt(b, t)
      /\ SeqAt(c, o.time) = o.seq
  BY <1>1 DEF SeqAt
<1>6. /\ \A t \in Times(b) : SeqAt(b, t) \in Nat
      /\ \A t, u \in Times(b) : t < u => SeqAt(b, t) < SeqAt(b, u)
      /\ \A t \in Times(b) : LastTime(b, t) => b.last = SeqAt(b, t)
      /\ Times(b) # {}
  BY DEF Good, Loose, Numbered
<1>7. /\ \A t \in Times(b) : (t < o.time /\ \A u \in Times(b) : u < o.time => u <= t) =>
              /\ SeqAt(b, t) < o.seq
              /\ o.time = t + Interval * (o.seq - SeqAt(b, t))
      /\ \A t \in Times(b) : (o.time < t /\ \A u \in Times(b) : o.time < u => t <= u) =>
              o.seq < SeqAt(b, t)
  <2> DEFINE before == {t \in Times(b) : t < o.time}
             after == {t \in Times(b) : t > o.time}
  <2>1. /\ \A t \in before : (\A u \in before : u <= t) =>
              /\ b.closed[t].seq < o.seq
              /\ o.time = t + Interval * (o.seq - b.closed[t].seq)
        /\ \A t \in after : (\A u \in after : t <= u) => b.closed[t].seq > o.seq
    BY Zenon DEF FitsItsGap
  <2> QED BY <1>0, <1>6, <2>1 DEF SeqAt
<1>8. \E t \in Times(b) : t < o.time
  <2> SUFFICES ASSUME \A t \in Times(b) : ~(t < o.time) PROVE FALSE
    OBVIOUS
  <2> DEFINE f == Oldest(b)
  <2>1. First(b, f) /\ f \in Times(b) /\ \A u \in Times(b) : f <= u
    BY <1>0, <1>6, Ends DEF First
  <2> HIDE DEF f
  <2>2. SeqAt(b, f) < o.seq
    BY <2>1 DEF Good, Trimmed
  <2>3. o.time < f /\ \A u \in Times(b) : o.time < u => f <= u
    BY <1>0, <2>1
  <2>4. o.seq < SeqAt(b, f)
    BY <1>7, <2>1, <2>3
  <2> QED BY <1>0, <1>6, <2>1, <2>2, <2>4
<1>9. \E t \in Times(b) : o.time < t
  <2> SUFFICES ASSUME \A t \in Times(b) : ~(o.time < t) PROVE FALSE
    OBVIOUS
  <2> DEFINE l == Newest(b)
  <2>1. LastTime(b, l) /\ l \in Times(b) /\ \A u \in Times(b) : u <= l
    BY <1>0, <1>6, Ends DEF LastTime
  <2> HIDE DEF l
  <2>2. b.last = SeqAt(b, l)
    BY <1>6, <2>1
  <2>3. l < o.time
    BY <1>0, <2>1
  <2>4. SeqAt(b, l) < o.seq
    BY <1>7, <2>1, <2>3
  <2> QED BY <1>0, <1>6, <2>1, <2>2, <2>4
<1>10. PICK p \in Times(b) : p < o.time /\ \A u \in Times(b) : u < o.time => u <= p
  BY <1>0, <1>8, Neighbours
<1>11. PICK t \in Times(b) : o.time < t /\ \A u \in Times(b) : o.time < u => t <= u
  BY <1>0, <1>9, Neighbours
<1>12. /\ SeqAt(b, p) < o.seq /\ o.seq < SeqAt(b, t)
       /\ o.time = p + Interval * (o.seq - SeqAt(b, p))
       /\ p \in Int /\ t \in Int /\ SeqAt(b, p) \in Nat /\ SeqAt(b, t) \in Nat
  BY <1>0, <1>6, <1>7, <1>10, <1>11
<1>13. /\ \A u \in Times(b) : u < o.time => SeqAt(b, u) < o.seq
       /\ \A u \in Times(b) : o.time < u => o.seq < SeqAt(b, u)
  <2>1. ASSUME NEW u \in Times(b), u < o.time PROVE SeqAt(b, u) < o.seq
    <3>1. u = p \/ u < p
      BY <1>0, <1>10, <2>1
    <3> QED BY <1>0, <1>6, <1>10, <1>12, <2>1, <3>1
  <2>2. ASSUME NEW u \in Times(b), o.time < u PROVE o.seq < SeqAt(b, u)
    <3>1. u = t \/ t < u
      BY <1>0, <1>11, <2>2
    <3> QED BY <1>0, <1>6, <1>11, <1>12, <2>2, <3>1
  <2> QED BY <2>1, <2>2
<1>14. Numbered(c)
  <2>1. \A u \in Times(c) : SeqAt(c, u) \in Nat
    BY <1>0, <1>1, <1>5, <1>6
  <2>2. \A u, v \in Times(c) : u < v => SeqAt(c, u) < SeqAt(c, v)
    BY <1>0, <1>1, <1>5, <1>6, <1>13
  <2>3. \A u \in Times(c) : LastTime(c, u) => c.last = SeqAt(c, u)
    <3> SUFFICES ASSUME NEW u \in Times(c), LastTime(c, u) PROVE c.last = SeqAt(c, u)
      OBVIOUS
    <3>1. u \in Times(b) /\ LastTime(b, u)
      <4>1. \A v \in Times(c) : v <= u
        BY DEF LastTime
      <4>2. t <= u
        BY <1>1, <4>1
      <4>3. u # o.time
        BY <1>0, <1>11, <4>2
      <4> QED BY <1>1, <4>1, <4>3 DEF LastTime
    <3> QED BY <1>2, <1>5, <1>6, <3>1
  <2> QED BY <1>1, <2>1, <2>2, <2>3 DEF Numbered
<1>15. \A n \in Int : Accounted(b, n) /\ n # o.seq => Accounted(c, n)
  BY <1>1, <1>2 DEF Accounted
<1>16. Explained(c)
  <2> SUFFICES ASSUME NEW x \in Times(c), NEW y \in Times(c), Adjacent(c, x, y)
               PROVE  Bridged(c, x, y)
    BY DEF Explained
  <2>1. x < y /\ \A u \in Times(c) : u <= x \/ y <= u
    BY DEF Adjacent
  <2>2. Adjacent(b, p, t)
    BY <1>0, <1>10, <1>11 DEF Adjacent
  <2>3. Bridged(b, p, t)
    BY <2>2, <1>10, <1>11 DEF Good, Loose, Explained
  <2>4. \/ \E d \in b.jumps : t <= d.before
        \/ /\ t = p + Interval * (SeqAt(b, t) - SeqAt(b, p))
           /\ \A n \in Int : SeqAt(b, p) < n /\ n < SeqAt(b, t) => Accounted(b, n)
    BY <2>3 DEF Bridged
  <2>5. CASE x = o.time
    <3>1. y = t
      <4>1. y \in Times(b) /\ y \in Int /\ o.time < y
        BY <1>0, <1>1, <2>1, <2>5
      <4>2. t <= y
        BY <1>11, <4>1
      <4>3. t <= o.time \/ y <= t
        BY <1>1, <2>1, <2>5
      <4> QED BY <1>0, <1>11, <4>1, <4>2, <4>3
    <3>2. CASE \E d \in b.jumps : t <= d.before
      BY <1>2, <3>1, <3>2 DEF Bridged
    <3>3. CASE /\ t = p + Interval * (SeqAt(b, t) - SeqAt(b, p))
               /\ \A n \in Int : SeqAt(b, p) < n /\ n < SeqAt(b, t) => Accounted(b, n)
      <4>1. t = o.time + Interval * (SeqAt(b, t) - o.seq)
        BY <1>0, <1>12, <3>3, LiveConstants DEF LiveConstants
      <4>2. ASSUME NEW n \in Int, o.seq < n, n < SeqAt(b, t)
            PROVE  Accounted(c, n)
        <5>1. SeqAt(b, p) < o.seq /\ SeqAt(b, p) \in Int /\ o.seq \in Int
          BY <1>0, <1>12
        <5>2. SeqAt(b, p) < n /\ n # o.seq
          BY <4>2, <5>1
        <5> QED BY <1>15, <3>3, <4>2, <5>2
      <4> QED BY <1>2, <1>5, <2>5, <3>1, <4>1, <4>2 DEF Bridged
    <3> QED BY <2>4, <3>2, <3>3
  <2>6. CASE y = o.time
    <3>1. x = p
      <4>1. x \in Times(b) /\ x \in Int /\ x < o.time
        BY <1>0, <1>1, <2>1, <2>6
      <4>2. x <= p
        BY <1>10, <4>1
      <4>3. p <= x \/ o.time <= p
        BY <1>1, <2>1, <2>6
      <4> QED BY <1>0, <1>10, <4>1, <4>2, <4>3
    <3>2. CASE \E d \in b.jumps : t <= d.before
      <4>1. PICK d \in b.jumps : t <= d.before
        BY <3>2
      <4>2. o.time <= d.before
        BY <1>0, <1>11, <1>12, <4>1 DEF JumpRecorded
      <4> QED BY <1>2, <2>6, <4>2 DEF Bridged
    <3>3. CASE /\ t = p + Interval * (SeqAt(b, t) - SeqAt(b, p))
               /\ \A n \in Int : SeqAt(b, p) < n /\ n < SeqAt(b, t) => Accounted(b, n)
      <4>2. ASSUME NEW n \in Int, SeqAt(b, p) < n, n < o.seq
            PROVE  Accounted(c, n)
        <5>1. o.seq < SeqAt(b, t) /\ SeqAt(b, t) \in Int /\ o.seq \in Int
          BY <1>0, <1>12
        <5>2. n < SeqAt(b, t) /\ n # o.seq
          BY <4>2, <5>1
        <5> QED BY <1>15, <3>3, <4>2, <5>2
      <4> QED BY <1>2, <1>5, <1>12, <2>6, <3>1, <4>2 DEF Bridged
    <3> QED BY <2>4, <3>2, <3>3
  <2>7. CASE x # o.time /\ y # o.time
    <3>1. x \in Times(b) /\ y \in Times(b)
      BY <1>1, <2>7
    <3>2. Adjacent(b, x, y)
      BY <1>1, <2>1 DEF Adjacent
    <3>3. Bridged(b, x, y)
      BY <3>1, <3>2 DEF Good, Loose, Explained
    <3>4. y <= o.time \/ o.time <= x
      BY <1>1, <2>1
    <3>5. ~(SeqAt(b, x) < o.seq /\ o.seq < SeqAt(b, y))
      BY <1>0, <1>6, <1>13, <2>7, <3>1, <3>4
    <3>6. CASE \E d \in b.jumps : y <= d.before
      BY <1>2, <3>6 DEF Bridged
    <3>7. CASE /\ y = x + Interval * (SeqAt(b, y) - SeqAt(b, x))
               /\ \A n \in Int : SeqAt(b, x) < n /\ n < SeqAt(b, y) => Accounted(b, n)
      <4>1. \A n \in Int : SeqAt(b, x) < n /\ n < SeqAt(b, y) => Accounted(c, n)
        BY <1>15, <3>5, <3>7
      <4> QED BY <1>2, <1>5, <3>1, <3>7, <4>1 DEF Bridged
    <3> QED BY <3>3, <3>6, <3>7 DEF Bridged
  <2> QED BY <2>5, <2>6, <2>7
<1>17. Loose(c)
  BY <1>3, <1>4, <1>14, <1>16 DEF Loose
<1> QED BY <1>1, <1>8, <1>9, <1>17, Zenon DEF Filled

Untrimmed == {"forming", "sequenced", "last", "awaiting", "version", "freshness"}

\* Trimming takes the oldest candle when there are too many, and with it only what
\* was recorded about numbers and times no candle of the window precedes.
LEMMA TrimFacts ==
    ASSUME NEW b, Loose(b), Times(b) # {}, b.sequenced \in BOOLEAN,
           NEW c, c = Trim(b)
    PROVE  /\ Good(c)
           /\ Same(b, c, Untrimmed)
           /\ Times(c) \subseteq Times(b)
           /\ \A t \in Times(c) : c.closed[t] = b.closed[t]
           /\ \A t \in Times(b) \ Times(c) : First(b, t)
           /\ \A t \in Times(b) : LastTime(b, t) => t \in Times(c)
<1> DEFINE d == DropOldest(b)
           j == RetireJumps(d)
           a == Oldest(b)
<1>0. Dated(b) /\ JumpRecorded(b) /\ Times(b) \subseteq Int /\ IsFiniteSet(Times(b)) /\ DOMAIN b = Fields
  BY DEF Loose, Dated, JumpRecorded
<1>1. First(b, a) /\ a \in Times(b) /\ \A t \in Times(b) : First(b, t) => t = a
  BY <1>0, Ends, EndsUnique DEF First
<1> HIDE DEF a
<1>2. /\ DOMAIN d = Fields
      /\ Same(b, d, Fields \ {"closed", "conflicts", "unresolvedTrimmed"})
      /\ Times(d) # {} /\ Times(d) \in SUBSET Times(b)
      /\ \A t \in Times(b) \ Times(d) : t = a
      /\ \A t \in Times(d) : d.closed[t] = b.closed[t]
  <2>1. CASE Cardinality(Times(b)) > MaxClosedCandles
    <3> DEFINE rest == [t \in Times(b) \ {a} |-> b.closed[t]]
               fewer == b.conflicts \ {a}
               more == b.unresolvedTrimmed + (IF a \in b.conflicts THEN 1 ELSE 0)
    <3>1. d = [b EXCEPT !.closed = rest, !.conflicts = fewer, !.unresolvedTrimmed = more]
      BY <2>1, Zenon DEF DropOldest, a
    <3>2. Times(b) \ {a} # {}
      <4> SUFFICES ASSUME Times(b) = {a} PROVE FALSE
        BY <1>1
      <4>1. Cardinality(Times(b)) = 1
        BY FS_Singleton
      <4> QED BY <2>1, <4>1, LiveConstants DEF LiveConstants
    <3> HIDE DEF rest, fewer, more
    <3>3. /\ DOMAIN d = Fields /\ d.closed = rest
          /\ Same(b, d, Fields \ {"closed", "conflicts", "unresolvedTrimmed"})
      BY <1>0, <3>1, FieldNames DEF Same
    <3>4. DOMAIN rest = Times(b) \ {a} /\ \A t \in Times(b) \ {a} : rest[t] = b.closed[t]
      BY DEF rest
    <3> QED BY <3>2, <3>3, <3>4 DEF Times
  <2>2. CASE ~(Cardinality(Times(b)) > MaxClosedCandles)
    <3>1. d = b
      BY <2>2 DEF DropOldest
    <3> QED BY <1>0, <3>1 DEF Same
  <2> QED BY <2>1, <2>2
<1> HIDE DEF d
<1>3. Dated(d)
  BY <1>0, <1>2, FS_Subset DEF Dated
<1> DEFINE f == Oldest(d)
<1>4. First(d, f) /\ f \in Times(d) /\ f \in Int
  BY <1>2, <1>3, Ends DEF First, Dated
<1> HIDE DEF f
<1>5. /\ DOMAIN j = Fields
      /\ Same(d, j, Fields \ {"jumps", "unresolvedTrimmed"})
      /\ j.jumps = {e \in d.jumps : ~(e.before <= f)}
  <2> DEFINE gone == {e \in d.jumps : e.before <= f}
             more == d.unresolvedTrimmed + Cardinality(gone)
  <2>1. j = [d EXCEPT !.jumps = @ \ gone, !.unresolvedTrimmed = more]
    BY Zenon DEF RetireJumps, f
  <2> HIDE DEF more
  <2>2. DOMAIN j = Fields /\ Same(d, j, Fields \ {"jumps", "unresolvedTrimmed"})
        /\ j.jumps = d.jumps \ gone
    BY <1>2, <2>1, FieldNames DEF Same
  <2> QED BY <2>2
<1> HIDE DEF j
<1>6. /\ j.closed = d.closed /\ Times(j) = Times(d)
      /\ j.missing = b.missing /\ j.overflowed = b.overflowed
      /\ j.unenumerated = b.unenumerated /\ j.sequenced = b.sequenced
      /\ j.jumps = {e \in b.jumps : ~(e.before <= f)}
      /\ Same(b, j, Untrimmed)
  BY <1>2, <1>5, FieldNames DEF Same, Times, Untrimmed
<1>7. Oldest(j) = f
  BY <1>6 DEF Oldest, f
<1>8. /\ DOMAIN c = Fields
      /\ Same(j, c, Fields \ {"missing", "overflowed", "unenumerated", "unresolvedTrimmed"})
      /\ b.sequenced = FALSE => c = j
      /\ b.sequenced = TRUE =>
           /\ c.missing = {n \in j.missing : ~(n <= SeqAt(j, f))}
           /\ \/ c.overflowed = j.overflowed /\ c.unenumerated = j.unenumerated
              \/ /\ c.overflowed = FALSE /\ c.unenumerated = None
                 /\ j.unenumerated # None /\ j.unenumerated <= SeqAt(j, f)
  <2>1. CASE b.sequenced = FALSE
    <3>1. c = j
      BY <2>1, Zenon DEF Trim, j, d
    <3> QED BY <1>5, <2>1, <3>1 DEF Same
  <2>2. CASE b.sequenced = TRUE
    <3>1. c = RetireMissing(j)
      BY <2>2, Zenon DEF Trim, j, d
    <3> DEFINE floor == SeqAt(j, f)
               gone == {n \in j.missing : n <= floor}
               retired == j.overflowed /\ j.unenumerated # None /\ j.unenumerated <= floor
               more == j.unresolvedTrimmed + Cardinality(gone) + (IF retired THEN 1 ELSE 0)
               left == j.overflowed /\ ~retired
               mark == IF retired THEN None ELSE j.unenumerated
    <3>2. c = [j EXCEPT !.missing = j.missing \ gone, !.overflowed = left,
                        !.unenumerated = mark, !.unresolvedTrimmed = more]
      <4>1. j.closed[Oldest(j)].seq = floor
        BY <1>7 DEF SeqAt
      <4> QED BY <3>1, <4>1 DEF RetireMissing
    <3>3. (left = j.overflowed /\ mark = j.unenumerated)
          \/ (left = FALSE /\ mark = None /\ j.unenumerated # None /\ j.unenumerated <= floor)
      BY <1>0, <1>6 DEF JumpRecorded
    <3> HIDE DEF left, mark, more
    <3>4. /\ DOMAIN c = Fields
          /\ Same(j, c, Fields \ {"missing", "overflowed", "unenumerated", "unresolvedTrimmed"})
          /\ c.missing = j.missing \ gone /\ c.overflowed = left /\ c.unenumerated = mark
      BY <1>5, <3>2, FieldNames DEF Same
    <3>5. c.missing = {n \in j.missing : ~(n <= SeqAt(j, f))}
      BY <3>4
    <3> QED BY <2>2, <3>3, <3>4, <3>5
  <2> QED BY <2>1, <2>2
<1>9. /\ c.closed = d.closed /\ Times(c) = Times(d) /\ Same(b, c, Untrimmed)
      /\ c.jumps = {e \in b.jumps : ~(e.before <= f)}
      /\ c.sequenced = b.sequenced /\ c.last = b.last
  BY <1>6, <1>8, FieldNames DEF Same, Times, Untrimmed
<1>10. /\ \A t \in Times(c) : c.closed[t] = b.closed[t] /\ SeqAt(c, t) = SeqAt(b, t) /\ t \in Int
       /\ SeqAt(j, f) = SeqAt(b, f)
  BY <1>0, <1>2, <1>4, <1>6, <1>9 DEF SeqAt
<1>21. ASSUME b.sequenced = TRUE
       PROVE  /\ c.missing = {n \in b.missing : ~(n <= SeqAt(b, f))}
              /\ \/ c.overflowed = b.overflowed /\ c.unenumerated = b.unenumerated
                 \/ b.unenumerated <= SeqAt(b, f)
  <2>1. c.missing = {n \in j.missing : ~(n <= SeqAt(j, f))}
    BY <1>8, <1>21, Zenon
  <2>2. \/ c.overflowed = j.overflowed /\ c.unenumerated = j.unenumerated
        \/ j.unenumerated <= SeqAt(j, f)
    BY <1>8, <1>21, Zenon
  <2>3. SeqAt(j, f) = SeqAt(b, f) /\ j.missing = b.missing /\ j.unenumerated = b.unenumerated
        /\ j.overflowed = b.overflowed
    BY <1>6, <1>10
  <2> QED BY <2>1, <2>2, <2>3, Zenon
<1>11. First(c, f) /\ \A t \in Times(c) : First(c, t) => t = f
  BY <1>3, <1>4, <1>9, EndsUnique DEF First, f, Oldest, Dated
<1>12. \A t \in Times(b) : LastTime(b, t) => t \in Times(c)
  <2> SUFFICES ASSUME NEW t \in Times(b), LastTime(b, t), t \notin Times(c) PROVE FALSE
    OBVIOUS
  <2>1. t = a
    BY <1>2, <1>9
  <2>2. PICK u \in Times(c) : u \in Times(b) /\ u # a
    BY <1>2, <1>9, <2>1
  <2> QED BY <1>0, <1>1, <2>1, <2>2 DEF First, LastTime
<1>13. Dated(c)
  BY <1>3, <1>9 DEF Dated
<1>14. JumpRecorded(c)
  <2>1. IsFiniteSet(c.jumps) /\ \A e \in c.jumps : e.before \in Int
    <3>1. c.jumps \in SUBSET b.jumps
      BY <1>9
    <3> QED BY <1>0, <3>1, FS_Subset DEF JumpRecorded
  <2>2. CASE b.sequenced = FALSE
    <3>1. c.missing = b.missing /\ c.overflowed = b.overflowed
          /\ c.unenumerated = b.unenumerated
      BY <1>6, <1>8, <2>2
    <3> QED BY <1>0, <1>8, <2>1, <3>1 DEF JumpRecorded
  <2>3. CASE b.sequenced = TRUE
    <3>1. c.missing \in SUBSET b.missing
      BY <1>6, <1>8, <2>3
    <3>2. IsFiniteSet(c.missing) /\ c.missing \subseteq Nat
      BY <1>0, <3>1, FS_Subset DEF JumpRecorded
    <3>3. /\ c.overflowed \in BOOLEAN
          /\ c.overflowed => c.unenumerated \in Nat
          /\ c.unenumerated = None \/ c.unenumerated \in Nat
      BY <1>0, <1>6, <1>8, <2>3 DEF JumpRecorded
    <3> QED BY <1>8, <2>1, <3>2, <3>3 DEF JumpRecorded
  <2> QED BY <2>2, <2>3
<1>15. ASSUME b.sequenced = TRUE
       PROVE  /\ \A t \in Times(b) : SeqAt(b, t) \in Nat
              /\ \A t, u \in Times(b) : t < u => SeqAt(b, t) < SeqAt(b, u)
              /\ \A t \in Times(b) : LastTime(b, t) => b.last = SeqAt(b, t)
  BY <1>15 DEF Loose, Numbered
<1>16. Numbered(c)
  <2> SUFFICES ASSUME b.sequenced = TRUE
               PROVE  /\ \A t \in Times(c) : SeqAt(c, t) \in Nat
                      /\ \A t, u \in Times(c) : t < u => SeqAt(c, t) < SeqAt(c, u)
                      /\ \A t \in Times(c) : LastTime(c, t) => c.last = SeqAt(c, t)
    BY <1>2, <1>9 DEF Numbered
  <2>1. \A t \in Times(c) : LastTime(c, t) => LastTime(b, t)
    <3> SUFFICES ASSUME NEW t \in Times(c), LastTime(c, t) PROVE LastTime(b, t)
      OBVIOUS
    <3> DEFINE l == Newest(b)
    <3>1. LastTime(b, l) /\ l \in Times(b)
      BY <1>0, Ends DEF LastTime
    <3> HIDE DEF l
    <3>2. l \in Times(c) /\ LastTime(c, l)
      BY <1>2, <1>9, <1>12, <3>1 DEF LastTime
    <3>3. t = l
      BY <1>13, <3>2, EndsUnique
    <3> QED BY <3>1, <3>3
  <2>2. Times(c) \subseteq Times(b)
    BY <1>2, <1>9
  <2> QED BY <1>9, <1>10, <1>15, <2>1, <2>2
<1>17. ASSUME b.sequenced = TRUE, NEW n \in Int, SeqAt(b, f) < n, Accounted(b, n)
       PROVE  Accounted(c, n)
  <2>0. SeqAt(b, f) \in Int
    <3>1. f \in Times(b)
      BY <1>2, <1>4
    <3>2. \A t \in Times(b) : SeqAt(b, t) \in Nat
      BY <1>15, <1>17
    <3> QED BY <3>1, <3>2
  <2>1. CASE n \in b.missing
    <3>1. n \in c.missing
      <4>1. ~(n <= SeqAt(b, f))
        BY <1>17, <2>0
      <4>2. c.missing = {m \in b.missing : ~(m <= SeqAt(b, f))}
        BY <1>17, <1>21
      <4> QED BY <2>1, <4>1, <4>2
    <3> QED BY <3>1 DEF Accounted
  <2>2. CASE n \notin b.missing
    <3>1. b.overflowed /\ n <= b.unenumerated /\ b.unenumerated \in Nat
      BY <1>0, <1>17, <2>2 DEF Accounted, JumpRecorded
    <3>2. c.overflowed = b.overflowed /\ c.unenumerated = b.unenumerated
      <4>1. ~(b.unenumerated <= SeqAt(b, f))
        BY <1>17, <2>0, <3>1
      <4> QED BY <1>17, <1>21, <4>1
    <3> QED BY <3>1, <3>2 DEF Accounted
  <2> QED BY <2>1, <2>2
<1>18. Explained(c)
  <2> SUFFICES ASSUME NEW x \in Times(c), NEW y \in Times(c), Adjacent(c, x, y)
               PROVE  Bridged(c, x, y)
    BY DEF Explained
  <2>1. /\ x < y /\ \A u \in Times(c) : u <= x \/ y <= u
        /\ x \in Times(b) /\ y \in Times(b) /\ x \in Int /\ y \in Int /\ f <= x
    BY <1>2, <1>9, <1>10, <1>11 DEF Adjacent, First
  <2>2. Adjacent(b, x, y)
    <3>1. ASSUME NEW u \in Times(b) PROVE u <= x \/ y <= u
      <4>1. CASE u \in Times(c)
        BY <2>1, <4>1
      <4>2. CASE u \notin Times(c)
        BY <1>1, <1>2, <1>9, <2>1, <4>2 DEF First
      <4> QED BY <4>1, <4>2
    <3> QED BY <2>1, <3>1 DEF Adjacent
  <2>3. Bridged(b, x, y)
    BY <2>1, <2>2 DEF Loose, Explained
  <2>4. CASE \E e \in b.jumps : y <= e.before
    <3>1. PICK e \in b.jumps : y <= e.before
      BY <2>4
    <3>2. e \in c.jumps
      BY <1>0, <1>4, <1>9, <2>1, <3>1 DEF JumpRecorded
    <3> QED BY <3>1, <3>2 DEF Bridged
  <2>5. CASE b.sequenced = FALSE /\ y = x + Interval
    BY <1>9, <2>5 DEF Bridged
  <2>6. CASE /\ b.sequenced = TRUE
             /\ y = x + Interval * (SeqAt(b, y) - SeqAt(b, x))
             /\ \A n \in Int : SeqAt(b, x) < n /\ n < SeqAt(b, y) => Accounted(b, n)
    <3>1. SeqAt(b, f) <= SeqAt(b, x) /\ SeqAt(b, f) \in Int /\ SeqAt(b, x) \in Int
      <4>1. f \in Times(b) /\ (f = x \/ f < x)
        BY <1>2, <1>4, <2>1
      <4>2. /\ \A t \in Times(b) : SeqAt(b, t) \in Nat
            /\ \A t, u \in Times(b) : t < u => SeqAt(b, t) < SeqAt(b, u)
        BY <1>15, <2>6
      <4> QED BY <2>1, <4>1, <4>2
    <3>2. ASSUME NEW n \in Int, SeqAt(b, x) < n, n < SeqAt(b, y)
          PROVE  Accounted(c, n)
      <4>1. SeqAt(b, f) < n
        BY <3>1, <3>2
      <4>2. Accounted(b, n)
        BY <2>6, <3>2
      <4> QED BY <1>17, <2>6, <4>1, <4>2
    <3> QED BY <1>9, <1>10, <2>6, <3>2 DEF Bridged
  <2> QED BY <2>3, <2>4, <2>5, <2>6 DEF Bridged
<1>19. Trimmed(c)
  <2>1. c.sequenced # None /\ Times(c) # {}
    BY <1>2, <1>9, LiveConstants DEF LiveConstants
  <2>2. \A e \in c.jumps : f < e.before
    BY <1>0, <1>4, <1>9 DEF JumpRecorded
  <2>3. ASSUME b.sequenced = TRUE, NEW n \in c.missing PROVE SeqAt(c, f) < n
    <3>1. n \in Nat /\ ~(n <= SeqAt(b, f))
      BY <1>0, <1>21, <2>3 DEF JumpRecorded
    <3>2. SeqAt(b, f) \in Nat /\ SeqAt(c, f) = SeqAt(b, f)
      BY <1>2, <1>4, <1>9, <1>10, <1>15, <2>3
    <3> QED BY <3>1, <3>2
  <2> QED BY <1>9, <1>11, <2>1, <2>2, <2>3 DEF Trimmed
<1>20. \A t \in Times(b) \ Times(c) : First(b, t)
  BY <1>1, <1>2, <1>9
<1> QED BY <1>2, <1>9, <1>10, <1>12, <1>13, <1>14, <1>16, <1>18, <1>19, <1>20 DEF Good, Loose

-----------------------------------------------------------------------------
(***************************************************************************)
(* What one observation may do to a book.                                  *)
(***************************************************************************)

\* The confirmed sequence is as it was.
Untouched(b, c) ==
    /\ Same(b, c, Fields \ {"forming", "sequenced", "conflicts", "freshness"})
    /\ Times(c) = Times(b)

\* One candle was added, newest or into a recorded gap, and the oldest may have left.
Extended(b, c, o) ==
    /\ c.version = b.version + 1
    /\ o.time \in Times(c) /\ o.time \notin Times(b)
    /\ Times(c) \subseteq Times(b) \cup {o.time}
    /\ \A t \in Times(c) : t # o.time => c.closed[t] = b.closed[t]
    /\ \A t \in Times(b) \ Times(c) : First(b, t)
    /\ \/ (\A t \in Times(b) : t < o.time) /\ c.awaiting = FALSE
       \/ /\ \E t \in Times(b) : t < o.time
          /\ c.closed[o.time].seq \in b.missing
          /\ c.awaiting = b.awaiting

\* The book p is b with the candle o in it, at its end or in a recorded gap.
Carries(b, p, o, awaiting) ==
    /\ Loose(p) /\ Times(p) = Times(b) \cup {o.time} /\ p.sequenced = b.sequenced
    /\ \A t \in Times(b) : p.closed[t] = b.closed[t]
    /\ p.closed[o.time].seq = o.seq
    /\ p.version = b.version
    /\ \/ (\A t \in Times(b) : t < o.time) /\ awaiting = FALSE
       \/ /\ \E t \in Times(b) : t < o.time
          /\ \E t \in Times(b) : o.time < t
          /\ o.seq \in b.missing
          /\ awaiting = b.awaiting

Settle(p, forming, awaiting, version) ==
    [p EXCEPT !.forming = forming, !.awaiting = awaiting, !.version = version]

\* Placing, settling and trimming one confirmed candle.
LEMMA SettledAndTrimmed ==
    ASSUME NEW b, Good(b), b.sequenced \in BOOLEAN, NEW o, BookObserved(o), o.time \notin Times(b),
           NEW p, NEW forming, NEW awaiting, NEW version,
           Carries(b, p, o, awaiting), version = p.version + 1,
           NEW c, c = Trim(Touch(Settle(p, forming, awaiting, version)))
    PROVE  Good(c) /\ Extended(b, c, o)
<1> USE DEF Carries, Settle
<1> DEFINE q == Touch([p EXCEPT !.forming = forming, !.awaiting = awaiting, !.version = version])
<1>1. /\ DOMAIN q = Fields
      /\ Same(p, q, Fields \ {"forming", "awaiting", "version", "freshness"})
      /\ q.awaiting = awaiting /\ q.version = version
  BY FieldNames DEF Touch, Same, Loose, JumpRecorded
<1>2. c = Trim(q)
  OBVIOUS
<1> HIDE DEF q
<1>3. /\ q.closed = p.closed /\ q.jumps = p.jumps /\ q.missing = p.missing
      /\ q.overflowed = p.overflowed /\ q.unenumerated = p.unenumerated
      /\ q.sequenced = p.sequenced /\ q.last = p.last /\ Times(q) = Times(p)
  BY <1>1, FieldNames DEF Same, Times
<1>4. Loose(q)
  <2>1. Dated(q) /\ JumpRecorded(q)
    BY <1>1, <1>3 DEF Loose, Dated, JumpRecorded
  <2>2. \A t : SeqAt(q, t) = SeqAt(p, t) /\ (LastTime(q, t) <=> LastTime(p, t))
    BY <1>3 DEF SeqAt, LastTime
  <2>3. Numbered(q)
    BY <1>3, <2>2 DEF Loose, Numbered
  <2>4. Explained(q)
    <3>1. \A x, y : Adjacent(q, x, y) => Adjacent(p, x, y)
      BY <1>3 DEF Adjacent
    <3>2. \A n : Accounted(p, n) => Accounted(q, n)
      BY <1>3 DEF Accounted
    <3>3. \A x, y : Bridged(p, x, y) => Bridged(q, x, y)
      BY <1>3, <2>2, <3>2 DEF Bridged
    <3> QED BY <1>3, <3>1, <3>3 DEF Loose, Explained
  <2> QED BY <2>1, <2>3, <2>4 DEF Loose
<1>5. /\ Good(c)
      /\ Same(q, c, Untrimmed)
      /\ Times(c) \subseteq Times(q)
      /\ \A t \in Times(c) : c.closed[t] = q.closed[t]
      /\ \A t \in Times(q) \ Times(c) : First(q, t)
      /\ \A t \in Times(q) : LastTime(q, t) => t \in Times(c)
  BY <1>2, <1>3, <1>4, TrimFacts
<1>6. /\ c.version = b.version + 1 /\ c.awaiting = awaiting
  BY <1>1, <1>5 DEF Same, Untrimmed
<1>7. Times(q) \subseteq Int /\ Times(b) \subseteq Int /\ o.time \in Int
  BY <1>4 DEF Loose, Dated, Good, BookObserved
<1>8. o.time \in Times(c)
  <2>1. CASE \A t \in Times(b) : t < o.time
    BY <1>3, <1>5, <1>7, <2>1 DEF LastTime
  <2>2. CASE \E t \in Times(b) : t < o.time
    BY <1>3, <1>5, <1>7, <2>2 DEF First
  <2> QED BY <2>1, <2>2
<1>9. \A t \in Times(b) \ Times(c) : First(b, t)
  BY <1>3, <1>5 DEF First
<1>10. c.closed[o.time].seq = o.seq
  BY <1>3, <1>5, <1>8
<1>11. Times(c) \subseteq Times(b) \cup {o.time} /\ \A t \in Times(c) : t # o.time => c.closed[t] = b.closed[t]
  BY <1>3, <1>5
<1> QED BY <1>5, <1>6, <1>8, <1>9, <1>10, <1>11, Zenon DEF Extended

\* Learning whether a provider numbers its candles changes nothing else.
LEMMA KnownFacts ==
    ASSUME NEW b, Good(b), NEW flag \in BOOLEAN, b.sequenced \in {None, flag},
           NEW known, known = [b EXCEPT !.sequenced = flag]
    PROVE  /\ Good(known) /\ known.sequenced = flag
           /\ Same(b, known, Fields \ {"sequenced"}) /\ Times(known) = Times(b)
<1>1. /\ DOMAIN known = Fields /\ known.sequenced = flag
      /\ Same(b, known, Fields \ {"sequenced"})
  BY FieldNames DEF Same, Good, Loose, JumpRecorded
<1>2. /\ known.closed = b.closed /\ known.jumps = b.jumps /\ known.missing = b.missing
      /\ known.overflowed = b.overflowed /\ known.unenumerated = b.unenumerated
      /\ known.last = b.last /\ Times(known) = Times(b)
  BY <1>1, FieldNames DEF Same, Times
<1>3. Dated(known) /\ JumpRecorded(known)
  BY <1>1, <1>2 DEF Good, Loose, Dated, JumpRecorded
<1>4. CASE Times(b) = {}
  <2>1. Numbered(known) /\ Explained(known) /\ Trimmed(known)
    BY <1>1, <1>2, <1>4 DEF Good, Loose, Numbered, Explained, Trimmed
  <2> QED BY <1>1, <1>2, <1>3, <2>1 DEF Good, Loose
<1>5. CASE Times(b) # {}
  <2>1. b.sequenced = flag
    BY <1>5 DEF Good, Trimmed
  <2>2. \A t : SeqAt(known, t) = SeqAt(b, t) /\ (LastTime(known, t) <=> LastTime(b, t))
               /\ (First(known, t) <=> First(b, t))
    BY <1>2 DEF SeqAt, LastTime, First
  <2>3. Numbered(known) /\ Trimmed(known)
    BY <1>1, <1>2, <2>1, <2>2 DEF Good, Loose, Numbered, Trimmed
  <2>4. Explained(known)
    <3>1. \A x, y : Adjacent(known, x, y) => Adjacent(b, x, y)
      BY <1>2 DEF Adjacent
    <3>2. \A n : Accounted(b, n) => Accounted(known, n)
      BY <1>2 DEF Accounted
    <3>3. \A x, y : Bridged(b, x, y) => Bridged(known, x, y)
      BY <1>1, <1>2, <2>1, <2>2, <3>2 DEF Bridged
    <3> QED BY <1>2, <3>1, <3>3 DEF Good, Loose, Explained
  <2> QED BY <1>1, <1>2, <1>3, <2>3, <2>4 DEF Good, Loose
<1> QED BY <1>4, <1>5

Placing(b, o, answer) ==
    \/ answer.outcome = "ACCEPTED" /\ \A t \in Times(b) : t < o.time
    \/ /\ answer.outcome = "LATE_FILL"
       /\ \E t \in Times(b) : t < o.time
       /\ \E t \in Times(b) : o.time < t
       /\ o.seq \in b.missing

\* A placement that is not refused is a loose book with the candle in it.
Fitted(b, o, answer) ==
    /\ Loose(answer.book) /\ Times(answer.book) = Times(b) \cup {o.time}
    /\ answer.book.sequenced = b.sequenced
    /\ \A t \in Times(b) : answer.book.closed[t] = b.closed[t]
    /\ answer.book.closed[o.time].seq = o.seq
    /\ answer.book.version = b.version /\ answer.book.awaiting = b.awaiting
    /\ Placing(b, o, answer)

\* A numbered candle is refused, or fitted at the end or into its gap.
LEMMA PlaceSequencedFacts ==
    ASSUME NEW b, Good(b), Sequenced(b), NEW o, BookObserved(o), o.seq \in Nat,
           o.time \notin Times(b), NEW answer, answer = PlaceSequenced(b, o)
    PROVE  answer.outcome = "ORDER_VIOLATION" \/ Fitted(b, o, answer)
<1>0. Dated(b) /\ Loose(b) /\ JumpRecorded(b) /\ DOMAIN b = Fields /\ Times(b) \subseteq Int /\ o.time \in Int
  BY DEF Good, Loose, Dated, JumpRecorded, BookObserved
<1>1. CASE b.last = None \/ o.seq > b.last
  <2>1. CASE Times(b) # {} /\ o.time <= Newest(b)
    BY <1>1, <2>1 DEF PlaceSequenced, Answer
  <2>2. CASE ~(Times(b) # {} /\ o.time <= Newest(b))
    <3> DEFINE k == IF b.last # None /\ Times(b) # {}
                    THEN CheckCoverage(b, o.time, o.seq - b.last) ELSE b
               q == Placed(k, o)
               c == [q EXCEPT !.last = o.seq]
    <3>1. answer.outcome = "ACCEPTED" /\ answer.book = c
      <4>1. answer = Answer("ACCEPTED", c)
        BY <1>1, <2>2, Zenon DEF PlaceSequenced
      <4> QED BY <4>1 DEF Answer
    <3>2. \A t \in Times(b) : t < o.time
      <4> TAKE t \in Times(b)
      <4>1. LastTime(b, Newest(b))
        BY <1>0, Ends
      <4>2. Newest(b) \in Int /\ t \in Int /\ t <= Newest(b) /\ ~(o.time <= Newest(b))
        BY <1>0, <2>2, <4>1 DEF LastTime
      <4> QED BY <1>0, <4>2
    <3>3. Times(b) # {} => b.last \in Nat
      <4> SUFFICES ASSUME Times(b) # {} PROVE b.last \in Nat
        OBVIOUS
      <4>1. LastTime(b, Newest(b)) /\ Newest(b) \in Times(b)
        BY <1>0, Ends DEF LastTime
      <4> QED BY <1>0, <4>1 DEF Loose, Numbered, Sequenced
    <3>4. Times(b) # {} => b.last # None /\ o.seq > b.last
      BY <1>1, <3>3, LiveConstants DEF LiveConstants
    <3>5. Numbers(b, o) /\ Keeps(b, k) /\ Joins(b, k, o)
      <4>0. Numbers(b, o)
        BY <3>4 DEF Numbers
      <4>1. CASE Times(b) # {}
        <5> DEFINE step == o.seq - b.last
        <5>1. k = CheckCoverage(b, o.time, step)
          BY <3>4, <4>1
        <5>2. step = o.seq - b.last
          OBVIOUS
        <5> HIDE DEF k, step
        <5> QED BY <1>0, <4>0, <4>1, <5>1, <5>2, CheckCoverageFacts
      <4>2. CASE Times(b) = {}
        <5>1. k = b
          BY <4>2
        <5>2. \A d \in b.jumps : d.before <= d.before
          BY <1>0 DEF JumpRecorded
        <5> HIDE DEF k
        <5> QED BY <1>0, <4>0, <4>2, <5>1, <5>2 DEF Same, Keeps, Joins
      <4> QED BY <4>1, <4>2
    <3> HIDE DEF k
    <3>6. DOMAIN q = Fields /\ Same(k, q, Fields \ {"closed"})
      BY <3>5, PlacedFacts DEF JumpRecorded, Keeps
    <3> HIDE DEF q
    <3>7. DOMAIN c = Fields /\ Same(q, c, Fields \ {"last"}) /\ c.last = o.seq
      BY <3>6, FieldNames DEF Same
    <3> HIDE DEF c
    <3>8. /\ Loose(c)
          /\ Same(k, c, Fields \ {"closed", "last"})
          /\ Times(c) = Times(b) \cup {o.time}
          /\ \A t \in Times(b) : c.closed[t] = b.closed[t]
          /\ c.closed[o.time] = [seq |-> o.seq, value |-> o.value]
      <4>1. b.sequenced \in BOOLEAN
        BY DEF Sequenced
      <4>2. q = Placed(k, o)
        BY DEF q
      <4> QED BY <1>0, <3>2, <3>5, <3>7, <4>1, <4>2, NewestPlaced
    <3>9. /\ c.sequenced = b.sequenced /\ c.version = b.version /\ c.awaiting = b.awaiting
          /\ c.closed[o.time].seq = o.seq
      BY <3>5, <3>8, FieldNames DEF Same, Noted, Keeps
    <3> QED BY <3>1, <3>2, <3>8, <3>9 DEF Fitted, Placing
  <2> QED BY <2>1, <2>2
<1>2. CASE ~(b.last = None \/ o.seq > b.last)
  <2>1. CASE o.seq \in b.missing /\ FitsItsGap(b, o)
    <3> DEFINE c == [Placed(b, o) EXCEPT !.missing = @ \ {o.seq}]
    <3>1. answer.outcome = "LATE_FILL" /\ answer.book = c
      <4>1. answer = Answer("LATE_FILL", c)
        BY <1>2, <2>1, Zenon DEF PlaceSequenced
      <4> QED BY <4>1 DEF Answer
    <3>2. /\ Loose(c)
          /\ Same(b, c, Fields \ {"closed", "missing"})
          /\ Times(c) = Times(b) \cup {o.time}
          /\ \E p \in Times(b) : p < o.time
          /\ \E t \in Times(b) : o.time < t
          /\ \A t \in Times(b) : c.closed[t] = b.closed[t]
          /\ c.closed[o.time] = [seq |-> o.seq, value |-> o.value]
      <4>1. Late(b, o)
        BY <1>2, <2>1, Zenon DEF Late
      <4>2. c = LateFilled(b, o)
        BY DEF LateFilled
      <4> HIDE DEF c
      <4>3. Filled(b, c, o)
        BY <4>1, <4>2, LateFillPlaced
      <4> QED BY <4>3, Zenon DEF Filled
    <3> HIDE DEF c
    <3>3. /\ c.sequenced = b.sequenced /\ c.version = b.version /\ c.awaiting = b.awaiting
          /\ c.closed[o.time].seq = o.seq
      BY <3>2, FieldNames DEF Same
    <3> QED BY <2>1, <3>1, <3>2, <3>3 DEF Fitted, Placing
  <2>2. CASE ~(o.seq \in b.missing /\ FitsItsGap(b, o))
    BY <1>2, <2>2 DEF PlaceSequenced, Answer
  <2> QED BY <2>1, <2>2
<1> QED BY <1>1, <1>2

\* A candle without a number is refused, or fitted at the end.
LEMMA PlaceUnsequencedFacts ==
    ASSUME NEW b, Good(b), Unsequenced(b), NEW o, BookObserved(o),
           o.time \notin Times(b), NEW answer, answer = PlaceUnsequenced(b, o)
    PROVE  answer.outcome = "LATE_UNSEQUENCED" \/ Fitted(b, o, answer)
<1>0. Dated(b) /\ Loose(b) /\ JumpRecorded(b) /\ DOMAIN b = Fields /\ Times(b) \subseteq Int /\ o.time \in Int
  BY DEF Good, Loose, Dated, JumpRecorded, BookObserved
<1>1. CASE Times(b) # {} /\ o.time < Newest(b)
  BY <1>1 DEF PlaceUnsequenced, Answer
<1>2. CASE ~(Times(b) # {} /\ o.time < Newest(b))
  <2> DEFINE k == IF Times(b) # {} /\ o.time # Newest(b) + Interval
                  THEN RecordJump(b, o.time, "TEMPORAL_GAP") ELSE b
             c == Placed(k, o)
  <2>1. answer.outcome = "ACCEPTED" /\ answer.book = c
    <3>1. answer = Answer("ACCEPTED", c)
      BY <1>2, Zenon DEF PlaceUnsequenced
    <3> QED BY <3>1 DEF Answer
  <2>2. \A t \in Times(b) : t < o.time
    <3> TAKE t \in Times(b)
    <3>1. LastTime(b, Newest(b))
      BY <1>0, Ends
    <3>2. Newest(b) \in Int /\ t \in Int /\ t <= Newest(b) /\ ~(o.time < Newest(b))
          /\ Newest(b) # o.time
      BY <1>0, <1>2, <3>1 DEF LastTime
    <3> QED BY <1>0, <3>2
  <2>3. Numbers(b, o)
    BY DEF Numbers, Sequenced, Unsequenced
  <2>4. Keeps(b, k) /\ Joins(b, k, o)
    <3>1. CASE Times(b) # {} /\ o.time # Newest(b) + Interval
      <4> DEFINE time == o.time
                 kind == "TEMPORAL_GAP"
      <4>1. k = RecordJump(b, time, kind) /\ time \in Int
        BY <1>0, <3>1
      <4> HIDE DEF k, time, kind
      <4>2. /\ DOMAIN k = Fields
            /\ Same(b, k, Fields \ {"jumps"})
            /\ IsFiniteSet(k.jumps) /\ \A d \in k.jumps : d.before \in Int
            /\ \E e \in k.jumps : time <= e.before
            /\ \A d \in b.jumps : \E e \in k.jumps : d.before <= e.before
        BY <1>0, <4>1, RecordJumpFacts
      <4>3. /\ Same(b, k, Fields \ Noted)
            /\ k.missing = b.missing /\ k.overflowed = b.overflowed
            /\ k.unenumerated = b.unenumerated
        BY <4>2, FieldNames DEF Same, Noted
      <4>4. JumpRecorded(k)
        BY <1>0, <4>2, <4>3 DEF JumpRecorded
      <4>5. \A n \in Int : Accounted(b, n) => Accounted(k, n)
        BY <4>3 DEF Accounted
      <4> QED BY <4>2, <4>3, <4>4, <4>5 DEF Keeps, Joins, time
    <3>2. CASE ~(Times(b) # {} /\ o.time # Newest(b) + Interval)
      <4>1. k = b
        BY <3>2
      <4>2. \A d \in b.jumps : d.before <= d.before
        BY <1>0 DEF JumpRecorded
      <4> HIDE DEF k
      <4> QED BY <1>0, <3>2, <4>1, <4>2 DEF Same, Keeps, Joins
    <3> QED BY <3>1, <3>2
  <2> HIDE DEF k
  <2>5. DOMAIN c = Fields /\ Same(k, c, Fields \ {"closed"})
    BY <2>4, PlacedFacts DEF JumpRecorded, Keeps
  <2>6. c = Placed(k, o)
    OBVIOUS
  <2> HIDE DEF c
  <2>7. Same(c, c, Fields \ {"last"})
    BY DEF Same
  <2>8. /\ Loose(c)
        /\ Times(c) = Times(b) \cup {o.time}
        /\ \A t \in Times(b) : c.closed[t] = b.closed[t]
        /\ c.closed[o.time] = [seq |-> o.seq, value |-> o.value]
    <3>1. b.sequenced \in BOOLEAN /\ ~Sequenced(b)
      BY DEF Sequenced, Unsequenced
    <3> QED BY <1>0, <2>2, <2>3, <2>4, <2>5, <2>6, <2>7, <3>1, NewestPlaced
  <2>9. /\ c.sequenced = b.sequenced /\ c.version = b.version /\ c.awaiting = b.awaiting
        /\ c.closed[o.time].seq = o.seq
    BY <2>4, <2>5, <2>8, FieldNames DEF Same, Noted, Keeps
  <2> QED BY <2>1, <2>2, <2>8, <2>9 DEF Fitted, Placing
<1> QED BY <1>1, <1>2

\* What an answer to one observation means for the book.
Answered(b, o, answer) ==
    /\ Good(answer.book)
    /\ \/ Untouched(b, answer.book)
       \/ answer.outcome \notin Refusals /\ Extended(b, answer.book, o)

\* A confirmed candle the book did not have is refused, or placed, settled and trimmed.
LEMMA ApplyPlacedFacts ==
    ASSUME NEW b, Good(b), b.awaiting \in BOOLEAN, NEW o, BookObserved(o), o.time \notin Times(b),
           \/ b.sequenced = None
           \/ Sequenced(b) /\ o.seq # None
           \/ Unsequenced(b) /\ o.seq = None,
           NEW answer, answer = ApplyPlaced(b, o)
    PROVE  Answered(b, o, answer)
<1> DEFINE known == IF b.sequenced = None THEN [b EXCEPT !.sequenced = o.seq # None] ELSE b
           placed == IF known.sequenced THEN PlaceSequenced(known, o)
                                        ELSE PlaceUnsequenced(known, o)
           p == placed.book
           forming == IF p.forming # None /\ p.forming <= o.time THEN None ELSE p.forming
           awaiting == p.awaiting /\ placed.outcome # "ACCEPTED"
           settled == [p EXCEPT !.forming = forming, !.awaiting = awaiting,
                                !.version = p.version + 1]
<1>1. answer = IF placed.outcome \in {"ACCEPTED", "LATE_FILL"}
               THEN Answer(placed.outcome, Trim(Touch(settled)))
               ELSE Answer(placed.outcome, known)
  BY Zenon DEF ApplyPlaced
<1>2. /\ Good(known) /\ Same(b, known, Fields \ {"sequenced"}) /\ Times(known) = Times(b)
      /\ \/ Sequenced(known) /\ o.seq \in Nat
         \/ Unsequenced(known) /\ o.seq = None
  <2> DEFINE flag == o.seq # None
  <2>1. flag \in BOOLEAN
    OBVIOUS
  <2>2. CASE b.sequenced = None
    <3>1. known = [b EXCEPT !.sequenced = flag]
      BY <2>2
    <3>2. b.sequenced \in {None, flag}
      BY <2>2
    <3> HIDE DEF known, flag
    <3>3. Good(known) /\ known.sequenced = flag
          /\ Same(b, known, Fields \ {"sequenced"}) /\ Times(known) = Times(b)
      BY <2>1, <3>1, <3>2, KnownFacts
    <3>4. \/ Sequenced(known) /\ o.seq \in Nat
          \/ Unsequenced(known) /\ o.seq = None
      BY <3>3 DEF flag, Sequenced, Unsequenced, BookObserved
    <3> QED BY <3>3, <3>4
  <2>3. CASE b.sequenced # None
    <3>1. known = b
      BY <2>3
    <3>2. \/ Sequenced(b) /\ o.seq \in Nat
          \/ Unsequenced(b) /\ o.seq = None
      BY <2>3 DEF BookObserved
    <3> HIDE DEF known
    <3> QED BY <3>1, <3>2 DEF Same
  <2> QED BY <2>2, <2>3
<1> HIDE DEF known
<1>3. \/ placed.outcome \in {"ORDER_VIOLATION", "LATE_UNSEQUENCED"}
      \/ Fitted(known, o, placed)
  <2>1. CASE Sequenced(known) /\ o.seq \in Nat
    <3>1. placed = PlaceSequenced(known, o)
      BY <2>1, Zenon DEF Sequenced
    <3> HIDE DEF placed
    <3> QED BY <1>2, <2>1, <3>1, PlaceSequencedFacts
  <2>2. CASE Unsequenced(known) /\ o.seq = None
    <3>1. placed = PlaceUnsequenced(known, o)
      BY <2>2, Zenon DEF Unsequenced
    <3> HIDE DEF placed
    <3> QED BY <1>2, <2>2, <3>1, PlaceUnsequencedFacts
  <2> QED BY <1>2, <2>1, <2>2
<1> HIDE DEF placed
<1>4. /\ known.version = b.version /\ known.awaiting = b.awaiting /\ known.missing = b.missing
      /\ known.closed = b.closed
  BY <1>2, FieldNames DEF Same
<1>5. CASE placed.outcome \notin {"ACCEPTED", "LATE_FILL"}
  <2>1. answer = Answer(placed.outcome, known)
    BY <1>1, <1>5, Zenon
  <2>2. answer.book = known
    BY <2>1 DEF Answer
  <2>3. Untouched(b, known)
    BY <1>2 DEF Untouched, Same
  <2> QED BY <1>2, <2>2, <2>3 DEF Answered
<1>6. CASE placed.outcome \in {"ACCEPTED", "LATE_FILL"}
  <2> DEFINE c == Trim(Touch(settled))
  <2>1. answer = Answer(placed.outcome, c)
    BY <1>1, <1>6, Zenon
  <2>2. answer.book = c /\ answer.outcome = placed.outcome
    BY <2>1 DEF Answer
  <2>3. Fitted(known, o, placed)
    BY <1>3, <1>6
  <2>4. /\ Loose(p) /\ Times(p) = Times(known) \cup {o.time} /\ p.sequenced = known.sequenced
        /\ \A t \in Times(known) : p.closed[t] = known.closed[t]
        /\ p.closed[o.time].seq = o.seq /\ p.version = known.version
        /\ p.awaiting = known.awaiting /\ Placing(known, o, placed)
    BY <2>3, Zenon DEF Fitted
  <2>5. \/ (\A t \in Times(known) : t < o.time) /\ awaiting = FALSE
        \/ /\ \E t \in Times(known) : t < o.time
           /\ \E t \in Times(known) : o.time < t
           /\ o.seq \in known.missing
           /\ awaiting = known.awaiting
    <3>1. CASE placed.outcome = "ACCEPTED"
      BY <2>4, <3>1 DEF Placing
    <3>2. CASE placed.outcome = "LATE_FILL"
      <4>1. awaiting = known.awaiting
        BY <1>4, <2>4, <3>2
      <4> HIDE DEF awaiting
      <4> QED BY <2>4, <3>2, <4>1 DEF Placing
    <3> QED BY <1>6, <3>1, <3>2
  <2>6. known.sequenced \in BOOLEAN
    BY <1>2 DEF Sequenced, Unsequenced
  <2> DEFINE version == p.version + 1
  <2>7. c = Trim(Touch(Settle(p, forming, awaiting, version))) /\ version = p.version + 1
    BY DEF Settle
  <2> HIDE DEF c, p, forming, awaiting, settled, version
  <2>11. Carries(known, p, o, awaiting)
    BY <2>4, <2>5, Zenon DEF Carries
  <2>8. Good(c) /\ Extended(known, c, o)
    BY <1>2, <2>6, <2>7, <2>11, SettledAndTrimmed
  <2>9. Extended(b, c, o)
    BY <1>2, <1>4, <2>8 DEF Extended, First
  <2>10. answer.outcome \notin Refusals
    BY <1>6, <2>2 DEF Refusals
  <2> QED BY <2>2, <2>8, <2>9, <2>10 DEF Answered
<1> QED BY <1>5, <1>6

Passing == {"forming", "conflicts", "awaiting", "freshness"}

\* What is forming, contested, awaited or fresh is no part of what makes a book good.
LEMMA PassingFacts ==
    ASSUME NEW b, Good(b), NEW c, DOMAIN c = Fields, Same(b, c, Fields \ Passing)
    PROVE  Good(c) /\ Times(c) = Times(b)
<1>1. /\ c.closed = b.closed /\ c.jumps = b.jumps /\ c.missing = b.missing
      /\ c.overflowed = b.overflowed /\ c.unenumerated = b.unenumerated
      /\ c.sequenced = b.sequenced /\ c.last = b.last /\ Times(c) = Times(b)
  BY FieldNames DEF Same, Times, Passing
<1>2. \A t : SeqAt(c, t) = SeqAt(b, t) /\ (LastTime(c, t) <=> LastTime(b, t))
             /\ (First(c, t) <=> First(b, t))
  BY <1>1 DEF SeqAt, LastTime, First
<1>3. Dated(c) /\ JumpRecorded(c)
  BY <1>1 DEF Good, Loose, Dated, JumpRecorded
<1>4. Numbered(c) /\ Trimmed(c)
  BY <1>1, <1>2 DEF Good, Loose, Numbered, Trimmed
<1>5. Explained(c)
  <2>1. \A x, y : Adjacent(c, x, y) => Adjacent(b, x, y)
    BY <1>1 DEF Adjacent
  <2>2. \A n : Accounted(b, n) => Accounted(c, n)
    BY <1>1 DEF Accounted
  <2>3. \A x, y : Bridged(b, x, y) => Bridged(c, x, y)
    BY <1>1, <1>2, <2>2 DEF Bridged
  <2> QED BY <1>1, <2>1, <2>3 DEF Good, Loose, Explained
<1> QED BY <1>1, <1>3, <1>4, <1>5 DEF Good, Loose

\* Every observation, closed or forming, keeps a book good and touches its
\* confirmed sequence in one of the two permitted ways.
LEMMA ApplyFacts ==
    ASSUME NEW b, Good(b), b.awaiting \in BOOLEAN, NEW o \in Observation,
           NEW answer, answer = Apply(b, o)
    PROVE  Answered(b, o, answer)
<1>0. BookObserved(o) /\ DOMAIN b = Fields
  BY DEF Observation, BookObserved, Good, Loose, JumpRecorded
<1>1. ASSUME NEW c, answer.book = c, DOMAIN c = Fields,
             Same(b, c, Fields \ {"forming", "conflicts", "freshness"})
      PROVE  Answered(b, o, answer)
  <2>1. Same(b, c, Fields \ Passing)
    BY <1>1 DEF Same, Passing
  <2>2. Good(c) /\ Times(c) = Times(b)
    BY <1>1, <2>1, PassingFacts
  <2>3. Untouched(b, c)
    BY <1>1, <2>2 DEF Untouched, Same
  <2> QED BY <1>1, <2>2, <2>3 DEF Answered
<1>2. CASE ~o.closed
  <2>1. answer = ApplyForming(b, o)
    BY <1>2, Zenon DEF Apply
  <2>2. CASE Times(b) # {} /\ o.time <= Newest(b)
    <3>1. answer.book = b
      BY <2>1, <2>2 DEF ApplyForming, Answer
    <3> QED BY <1>0, <1>1, <3>1 DEF Same
  <2>3. CASE ~(Times(b) # {} /\ o.time <= Newest(b))
    <3> DEFINE c == Touch([b EXCEPT !.forming = o.time])
    <3>1. answer.book = c
      BY <2>1, <2>3 DEF ApplyForming, Answer
    <3>2. DOMAIN c = Fields /\ Same(b, c, Fields \ {"forming", "conflicts", "freshness"})
      BY <1>0, FieldNames DEF Same, Touch
    <3> HIDE DEF c
    <3> QED BY <1>1, <3>1, <3>2
  <2> QED BY <2>2, <2>3
<1>3. CASE o.closed
  <2>1. answer = ApplyClosed(b, o)
    BY <1>3, Zenon DEF Apply
  <2>2. CASE o.time \in Times(b)
    <3> DEFINE c == [b EXCEPT !.conflicts = @ \cup {o.time}]
    <3>1. answer.book = b \/ answer.book = c
      BY <2>1, <2>2 DEF ApplyClosed, Answer
    <3>2. DOMAIN c = Fields /\ Same(b, c, Fields \ {"forming", "conflicts", "freshness"})
      BY <1>0, FieldNames DEF Same
    <3>3. Same(b, b, Fields \ {"forming", "conflicts", "freshness"})
      BY DEF Same
    <3> HIDE DEF c
    <3> QED BY <1>0, <1>1, <3>1, <3>2, <3>3
  <2>3. CASE o.time \notin Times(b) /\ b.sequenced # None /\ b.sequenced # (o.seq # None)
    <3>1. answer = Answer("MIXED_SEQUENCING", b)
      BY <2>1, <2>3, Zenon DEF ApplyClosed
    <3>2. answer.book = b
      BY <3>1 DEF Answer
    <3> QED BY <1>0, <1>1, <3>2 DEF Same
  <2>4. CASE o.time \notin Times(b) /\ ~(b.sequenced # None /\ b.sequenced # (o.seq # None))
    <3>1. answer = ApplyPlaced(b, o)
      BY <2>1, <2>4, Zenon DEF ApplyClosed
    <3>2. \/ b.sequenced = None
          \/ Sequenced(b) /\ o.seq # None
          \/ Unsequenced(b) /\ o.seq = None
      <4>1. b.sequenced = None \/ b.sequenced = (o.seq # None)
        BY <2>4, Zenon
      <4>2. CASE o.seq = None
        BY <4>1, <4>2 DEF Unsequenced
      <4>3. CASE o.seq # None
        BY <4>1, <4>3 DEF Sequenced
      <4> QED BY <4>2, <4>3
    <3> QED BY <1>0, <2>4, <3>1, <3>2, ApplyPlacedFacts
  <2> QED BY <2>2, <2>3, <2>4
<1> QED BY <1>2, <1>3

-----------------------------------------------------------------------------
(***************************************************************************)
(* The market state.                                                       *)
(***************************************************************************)

\* The inductive invariant: every book is good, and only a stream that was lost
\* has a book that waits for proof of coverage.
LiveInv ==
    /\ DOMAIN books = Timeframes
    /\ \A tf \in Timeframes :
         Good(books[tf]) /\ books[tf].awaiting \in BOOLEAN /\ books[tf].version \in Nat
    /\ connection \in {"INITIALIZING", "CONNECTED"} =>
         \A tf \in Timeframes : ~books[tf].awaiting

\* A book goes from b to c by an observation, or without a change of its sequence.
BookStep(b, c) ==
    /\ Good(c) /\ c.awaiting \in BOOLEAN /\ c.version \in Nat
    /\ \/ /\ c.closed = b.closed /\ c.version = b.version /\ (c.awaiting = b.awaiting \/ c.awaiting)
       \/ \E o : BookObserved(o) /\ Extended(b, c, o)

\* The book of a new session is good.
LEMMA EmptyBookGood == Good(EmptyBook) /\ EmptyBook.awaiting = FALSE /\ EmptyBook.version = 0
<1> DEFINE b == EmptyBook
<1>1. /\ DOMAIN b = Fields /\ Times(b) = {} /\ b.jumps = {} /\ b.missing = {}
      /\ b.overflowed = FALSE /\ b.unenumerated = None /\ b.sequenced = None /\ b.last = None
      /\ b.awaiting = FALSE /\ b.version = 0
  BY DEF EmptyBook, Fields, Times
<1> HIDE DEF b
<1>2. Dated(b) /\ JumpRecorded(b)
  BY <1>1, FS_EmptySet DEF Dated, JumpRecorded
<1>3. Numbered(b) /\ Explained(b) /\ Trimmed(b)
  BY <1>1, LiveConstants DEF Numbered, Explained, Trimmed, LiveConstants
<1>4. Good(b) /\ b.awaiting = FALSE /\ b.version = 0
  BY <1>1, <1>2, <1>3 DEF Good, Loose
<1> QED BY <1>4 DEF b

\* Every step of the market state takes every book by a book step.
LEMMA LiveStep ==
    ASSUME LiveInv, [MarketNext]_marketVars
    PROVE  LiveInv' /\ \A tf \in Timeframes : BookStep(books[tf], books'[tf])
<1>0. /\ DOMAIN books = Timeframes
      /\ \A tf \in Timeframes :
           Good(books[tf]) /\ books[tf].awaiting \in BOOLEAN /\ books[tf].version \in Nat
                /\ DOMAIN books[tf] = Fields
  BY DEF LiveInv, Good, Loose, JumpRecorded
<1>1. \A tf \in Timeframes : BookStep(books[tf], books[tf])
  BY <1>0 DEF BookStep
<1>2. CASE SignalConnected
  <2>1. books' = books /\ connection' \in {"CONNECTED", "TERMINATED", "RECOVERING"}
        /\ (connection' = "CONNECTED" => connection = "INITIALIZING")
    BY <1>2 DEF SignalConnected
  <2> QED BY <1>0, <1>1, <2>1 DEF LiveInv
<1>3. CASE SignalDisconnected
  <2>1. connection' = "DISCONNECTED"
        /\ books' = [tf \in Timeframes |-> MarkDisconnected(books[tf])]
    BY <1>3 DEF SignalDisconnected
  <2>2. ASSUME NEW tf \in Timeframes
        PROVE  /\ Good(books'[tf]) /\ books'[tf].awaiting \in BOOLEAN /\ books'[tf].version \in Nat
               /\ BookStep(books[tf], books'[tf])
    <3> DEFINE b == books[tf]
               c == MarkDisconnected(b)
    <3>1. /\ DOMAIN c = Fields /\ c.awaiting = TRUE
          /\ Same(b, c, Fields \ {"forming", "awaiting"})
      BY <1>0, FieldNames DEF MarkDisconnected, Same
    <3>2. books'[tf] = c
      BY <2>1
    <3> HIDE DEF c
    <3>3. Same(b, c, Fields \ Passing)
      BY <3>1 DEF Same, Passing
    <3>4. c.closed = b.closed /\ c.version = b.version
      BY <3>1, FieldNames DEF Same
    <3>5. Good(c)
      <4>1. Good(b)
        BY <1>0
      <4> HIDE DEF b
      <4> QED BY <3>1, <3>3, <4>1, PassingFacts
    <3>6. BookStep(b, c) /\ c.awaiting \in BOOLEAN /\ c.version \in Nat
      BY <1>0, <3>1, <3>4, <3>5 DEF BookStep
    <3> QED BY <3>2, <3>5, <3>6
  <2>3. DOMAIN books' = Timeframes
    BY <2>1
  <2> QED BY <2>1, <2>2, <2>3 DEF LiveInv
<1>4. CASE Terminate
  <2>1. books' = books /\ connection' = "TERMINATED"
    BY <1>4 DEF Terminate
  <2> QED BY <1>0, <1>1, <2>1 DEF LiveInv
<1>5. ASSUME NEW tf \in Timeframes, NEW o \in Observations[tf], ApplyEvent(tf, o)
      PROVE  LiveInv' /\ \A x \in Timeframes : BookStep(books[x], books'[x])
  <2> DEFINE b == books[tf]
             answer == Apply(b, o)
             c == answer.book
  <2>1. o \in Observation
    BY LiveInputs DEF LiveInputs
  <2>2. Answered(b, o, answer)
    <3>1. Good(b) /\ b.awaiting \in BOOLEAN
      BY <1>0
    <3> HIDE DEF b
    <3> QED BY <2>1, <3>1, ApplyFacts
  <2>3. /\ books' = [books EXCEPT ![tf] = c]
        /\ connection \in {"CONNECTED", "RECOVERING"}
        /\ connection' \in {connection, "CONNECTED"}
        /\ (connection' = "CONNECTED" /\ connection # "CONNECTED" =>
              \A x \in Timeframes : ~books'[x].awaiting)
    BY <1>5, Zenon DEF ApplyEvent
  <2>4. BookObserved(o)
    BY <2>1 DEF Observation, BookObserved
  <2>5. b.awaiting \in BOOLEAN /\ b.version \in Nat
    BY <1>0
  <2> HIDE DEF b, c, answer
  <2>6. \/ Untouched(b, c)
        \/ Extended(b, c, o)
    BY <2>2 DEF Answered, c
  <2>7. Good(c)
    BY <2>2 DEF Answered, c
  <2>8. BookStep(b, c) /\ (c.awaiting => b.awaiting)
    <3>1. CASE Untouched(b, c)
      <4>1. c.closed = b.closed /\ c.version = b.version /\ c.awaiting = b.awaiting
        BY <3>1, FieldNames DEF Untouched, Same
      <4> QED BY <2>5, <2>7, <4>1 DEF BookStep
    <3>2. CASE Extended(b, c, o)
      <4>1. c.version = b.version + 1 /\ (c.awaiting = FALSE \/ c.awaiting = b.awaiting)
        BY <3>2 DEF Extended
      <4>2. c.awaiting \in BOOLEAN /\ c.version \in Nat /\ (c.awaiting => b.awaiting)
        <5>1. c.version \in Nat
          BY <2>5, <4>1
        <5>2. c.awaiting \in BOOLEAN
          BY <2>5, <4>1, Zenon
        <5>3. c.awaiting => b.awaiting
          BY <4>1, Zenon
        <5> QED BY <5>1, <5>2, <5>3
      <4> QED BY <2>4, <2>7, <3>2, <4>2 DEF BookStep
    <3> QED BY <2>6, <3>1, <3>2
  <2>9. /\ DOMAIN books' = Timeframes /\ books'[tf] = c
        /\ \A x \in Timeframes : x # tf => books'[x] = books[x]
    BY <1>0, <2>3
  <2>10. \A x \in Timeframes : BookStep(books[x], books'[x])
    BY <1>1, <2>8, <2>9 DEF b
  <2>11. connection' \in {"INITIALIZING", "CONNECTED"} => \A x \in Timeframes : ~books'[x].awaiting
    <3>1. CASE connection = "CONNECTED"
      <4>1. \A x \in Timeframes : ~books[x].awaiting
        BY <3>1 DEF LiveInv
      <4> QED BY <2>8, <2>9, <4>1 DEF b
    <3>2. CASE connection # "CONNECTED"
      BY <2>3, <3>2
    <3> QED BY <3>1, <3>2
  <2>12. \A x \in Timeframes :
           Good(books'[x]) /\ books'[x].awaiting \in BOOLEAN /\ books'[x].version \in Nat
    BY <2>10 DEF BookStep
  <2> QED BY <2>9, <2>10, <2>11, <2>12 DEF LiveInv
<1>6. ASSUME NEW tf \in Timeframes, BookGoesStale(tf)
      PROVE  LiveInv' /\ \A x \in Timeframes : BookStep(books[x], books'[x])
  <2> DEFINE b == books[tf]
             c == [b EXCEPT !.freshness = "STALE"]
  <2>1. books' = [books EXCEPT ![tf] = c] /\ connection' = connection
    BY <1>6 DEF BookGoesStale
  <2>2. DOMAIN b = Fields /\ Good(b) /\ b.awaiting \in BOOLEAN /\ b.version \in Nat
    BY <1>0
  <2>3. DOMAIN c = Fields /\ Same(b, c, Fields \ {"freshness"})
    BY <2>2, FieldNames DEF Same
  <2> HIDE DEF b, c
  <2>4. Same(b, c, Fields \ Passing)
    BY <2>3 DEF Same, Passing
  <2>5. c.closed = b.closed /\ c.version = b.version /\ c.awaiting = b.awaiting
    BY <2>3, FieldNames DEF Same
  <2>6. Good(c)
    BY <2>2, <2>3, <2>4, PassingFacts
  <2>7. BookStep(b, c)
    BY <2>2, <2>5, <2>6 DEF BookStep
  <2>8. /\ DOMAIN books' = Timeframes /\ books'[tf] = c
        /\ \A x \in Timeframes : x # tf => books'[x] = books[x]
    BY <1>0, <2>1
  <2>9. \A x \in Timeframes : BookStep(books[x], books'[x]) /\ books'[x].awaiting = books[x].awaiting
    BY <1>1, <2>5, <2>7, <2>8 DEF b
  <2>10. \A x \in Timeframes :
           Good(books'[x]) /\ books'[x].awaiting \in BOOLEAN /\ books'[x].version \in Nat
    BY <2>9 DEF BookStep
  <2> QED BY <2>1, <2>8, <2>9, <2>10 DEF LiveInv
<1>7. CASE UNCHANGED marketVars
  BY <1>0, <1>1, <1>7 DEF marketVars, LiveInv
<1> QED
  BY <1>2, <1>3, <1>4, <1>5, <1>6, <1>7 DEF MarketNext

\* The books are good in every state of every session.
LEMMA LiveInvariant == Market => []LiveInv
<1>1. MarketInit => LiveInv
  <2> SUFFICES ASSUME MarketInit PROVE LiveInv
    OBVIOUS
  <2>1. books = [tf \in Timeframes |-> EmptyBook]
    BY DEF MarketInit
  <2>2. \A tf \in Timeframes : books[tf] = EmptyBook
    BY <2>1
  <2>3. ASSUME NEW tf \in Timeframes
        PROVE  /\ Good(books[tf]) /\ books[tf].version \in Nat
               /\ books[tf].awaiting \in BOOLEAN /\ ~books[tf].awaiting
    <3>1. Good(books[tf]) /\ books[tf].awaiting = FALSE /\ books[tf].version = 0
      BY <2>2, EmptyBookGood, Zenon
    <3>2. books[tf].version \in Nat
      BY <3>1
    <3> QED BY <3>1, <3>2, Zenon
  <2>4. DOMAIN books = Timeframes
    BY <2>1
  <2> QED BY <2>3, <2>4 DEF LiveInv
<1>2. LiveInv /\ [MarketNext]_marketVars => LiveInv'
  BY LiveStep
<1> QED BY <1>1, <1>2, PTL DEF Market

\* A good book that claims to be complete is contiguous.
LEMMA GoodComplete ==
    ASSUME NEW b, Good(b), Integrity(b) = "COMPLETE"
    PROVE  Contiguous(b)
<1>1. b.missing = {} /\ ~b.overflowed /\ b.jumps = {}
  BY DEF Integrity
<1> SUFFICES ASSUME NEW p \in Times(b), NEW t \in Times(b), Adjacent(b, p, t)
             PROVE  t = p + Interval
  BY DEF Contiguous
<1>2. Bridged(b, p, t) /\ p \in Int /\ t \in Int /\ p < t
  BY DEF Good, Loose, Explained, Adjacent, Dated
<1>3. CASE b.sequenced = FALSE /\ t = p + Interval
  BY <1>3
<1>4. CASE /\ b.sequenced = TRUE
           /\ t = p + Interval * (SeqAt(b, t) - SeqAt(b, p))
           /\ \A n \in Int : SeqAt(b, p) < n /\ n < SeqAt(b, t) => Accounted(b, n)
  <2> DEFINE m == SeqAt(b, p)
             n == SeqAt(b, t)
  <2>1. m \in Nat /\ n \in Nat /\ m < n
    BY <1>2, <1>4 DEF Good, Loose, Numbered
  <2>2. \A i \in Int : ~(m < i /\ i < n)
    BY <1>1, <1>4 DEF Accounted
  <2> HIDE DEF m, n
  <2>3. ~(m < m + 1 /\ m + 1 < n)
    BY <2>1, <2>2
  <2>4. n - m = 1
    BY <2>1, <2>3
  <2>5. t = p + Interval * (n - m)
    BY <1>4 DEF m, n
  <2> QED BY <1>2, <2>4, <2>5, LiveConstants DEF LiveConstants
<1> QED BY <1>1, <1>2, <1>3, <1>4 DEF Bridged

\* Completeness is proven, never assumed (state.py, book.py).
THEOREM CompletenessIsProven == Market => []CompleteMeansContiguous
<1>1. LiveInv => CompleteMeansContiguous
  BY GoodComplete DEF LiveInv, CompleteMeansContiguous
<1> QED BY <1>1, LiveInvariant, PTL

\* No step rewrites a confirmed candle.
LEMMA StepRewritesNothing ==
    ASSUME NEW b, Good(b), b.version \in Nat, NEW c, BookStep(b, c)
    PROVE  /\ ~Rewrites(b, c)
           /\ c.closed # b.closed <=> c.version = b.version + 1
           /\ c.closed = b.closed <=> c.version = b.version
<1>1. CASE c.closed = b.closed /\ c.version = b.version
  BY <1>1 DEF Rewrites, Times
<1>2. ASSUME NEW o, BookObserved(o), Extended(b, c, o)
      PROVE  /\ ~Rewrites(b, c)
             /\ c.closed # b.closed /\ c.version = b.version + 1
  <2>1. /\ c.version = b.version + 1
        /\ o.time \in Times(c) /\ o.time \notin Times(b)
        /\ Times(c) \subseteq Times(b) \cup {o.time}
        /\ \A t \in Times(c) : t # o.time => c.closed[t] = b.closed[t]
        /\ \A t \in Times(b) \ Times(c) : First(b, t)
        /\ \/ \A t \in Times(b) : t < o.time
           \/ /\ \E t \in Times(b) : t < o.time
              /\ c.closed[o.time].seq \in b.missing
    BY <1>2, Zenon DEF Extended
  <2>2. Times(b) \subseteq Int /\ o.time \in Int
    BY <1>2 DEF Good, Loose, Dated, BookObserved
  <2>3. c.closed # b.closed
    BY <2>1 DEF Times
  <2>4. \A t \in Times(b) \cap Times(c) : b.closed[t] = c.closed[t]
    BY <2>1
  <2>5. ASSUME NEW t \in Times(b) \ Times(c), NEW u \in Times(c), u < t
        PROVE  FALSE
    <3>1. t \in Int /\ \A v \in Times(b) : t <= v
      BY <2>1, <2>2, <2>5 DEF First
    <3>2. u = o.time
      BY <2>1, <2>2, <2>5, <3>1
    <3> QED BY <2>1, <2>2, <2>5, <3>1, <3>2
  <2>6. ASSUME NEW t \in Times(c) \ Times(b), NEW u \in Times(b), t < u
        PROVE  c.closed[t].seq \in b.missing
    <3>1. t = o.time
      BY <2>1, <2>6
    <3> QED BY <2>1, <2>2, <2>6, <3>1
  <2> QED BY <2>1, <2>3, <2>4, <2>5, <2>6 DEF Rewrites
<1> QED BY <1>1, <1>2 DEF BookStep

\* A confirmed candle is never rewritten, and the version tells (book.py).
THEOREM ConfirmedStands == Market => ConfirmedNeverRewritten
<1>1. LiveInv /\ [MarketNext]_marketVars =>
        \A tf \in Timeframes :
          /\ ~Rewrites(books[tf], books'[tf])
          /\ books'[tf].closed # books[tf].closed <=>
                books'[tf].version = books[tf].version + 1
          /\ books'[tf].closed = books[tf].closed <=>
                books'[tf].version = books[tf].version
  <2> SUFFICES ASSUME LiveInv, [MarketNext]_marketVars, NEW tf \in Timeframes
               PROVE  /\ ~Rewrites(books[tf], books'[tf])
                      /\ books'[tf].closed # books[tf].closed <=>
                            books'[tf].version = books[tf].version + 1
                      /\ books'[tf].closed = books[tf].closed <=>
                            books'[tf].version = books[tf].version
    OBVIOUS
  <2> DEFINE b == books[tf]
  <2>1. PICK c : c = books'[tf]
    OBVIOUS
  <2>2. Good(b) /\ b.version \in Nat /\ BookStep(b, c)
    BY <2>1, LiveStep DEF LiveInv
  <2> HIDE DEF b
  <2>3. /\ ~Rewrites(b, c)
        /\ c.closed # b.closed <=> c.version = b.version + 1
        /\ c.closed = b.closed <=> c.version = b.version
    BY <2>2, StepRewritesNothing
  <2> QED BY <2>1, <2>3 DEF b
<1> QED BY <1>1, LiveInvariant, PTL DEF Market, ConfirmedNeverRewritten

\* Only a new newest candle ends the wait.
LEMMA StepProves ==
    ASSUME NEW b, Good(b), b.awaiting \in BOOLEAN, NEW c, BookStep(b, c),
           b.awaiting, ~c.awaiting, Times(b) # {}
    PROVE  Newest(c) > Newest(b)
<1>1. PICK o : BookObserved(o) /\ Extended(b, c, o)
  BY DEF BookStep
<1>2. /\ o.time \in Times(c) /\ Times(c) \subseteq Times(b) \cup {o.time}
      /\ \A t \in Times(b) : t < o.time
  BY <1>1 DEF Extended
<1>3. Dated(b) /\ Dated(c) /\ Times(b) \subseteq Int /\ Times(c) \subseteq Int /\ o.time \in Int
  BY <1>1 DEF BookStep, Good, Loose, Dated, BookObserved
<1>4. LastTime(c, o.time)
  BY <1>2, <1>3 DEF LastTime
<1>5. Newest(c) = o.time
  BY <1>3, <1>4, EndsUnique
<1>6. Newest(b) \in Times(b)
  BY <1>3, Ends DEF LastTime
<1> QED BY <1>2, <1>3, <1>5, <1>6

\* Connection restored is not coverage restored (state.py).
THEOREM CoverageIsProven == Market => RecoveryIsProven
<1>1. LiveInv /\ [MarketNext]_marketVars =>
        /\ connection' = "CONNECTED" => \A tf \in Timeframes : ~books'[tf].awaiting
        /\ \A tf \in Timeframes :
             books[tf].awaiting /\ ~books'[tf].awaiting =>
               Times(books[tf]) = {} \/ Newest(books'[tf]) > Newest(books[tf])
  <2> SUFFICES ASSUME LiveInv, [MarketNext]_marketVars
               PROVE  /\ connection' = "CONNECTED" => \A tf \in Timeframes : ~books'[tf].awaiting
                      /\ \A tf \in Timeframes :
                           books[tf].awaiting /\ ~books'[tf].awaiting =>
                             Times(books[tf]) = {} \/ Newest(books'[tf]) > Newest(books[tf])
    OBVIOUS
  <2>1. LiveInv'
    BY LiveStep
  <2>2. connection' = "CONNECTED" => \A tf \in Timeframes : ~books'[tf].awaiting
    BY <2>1 DEF LiveInv
  <2>3. ASSUME NEW tf \in Timeframes, books[tf].awaiting, ~books'[tf].awaiting,
               Times(books[tf]) # {}
        PROVE  Newest(books'[tf]) > Newest(books[tf])
    <3> DEFINE b == books[tf]
    <3>1. PICK c : c = books'[tf]
      OBVIOUS
    <3>2. /\ Good(b) /\ b.awaiting \in BOOLEAN /\ BookStep(b, c)
          /\ b.awaiting /\ ~c.awaiting /\ Times(b) # {}
      BY <2>3, <3>1, LiveStep DEF LiveInv
    <3> HIDE DEF b
    <3>3. Newest(c) > Newest(b)
      BY <3>2, StepProves
    <3> QED BY <3>1, <3>3 DEF b
  <2> QED BY <2>2, <2>3
<1> QED BY <1>1, LiveInvariant, PTL DEF Market, RecoveryIsProven

-----------------------------------------------------------------------------
(***************************************************************************)
(* What is known of a session, of a queue and of a client.                 *)
(***************************************************************************)
EntryFields ==
    {"task", "cancelled", "script", "buffer", "overflowed", "conn", "reason", "reconnects",
     "integrity", "fresh", "version", "seenConn", "seenStatus", "seq", "oldest", "requested",
     "origin", "analysing", "cached"}

EntryOk(e) ==
    /\ DOMAIN e = EntryFields
    /\ e.seq \in Nat /\ e.oldest \in Nat /\ e.version \in Nat
    /\ e.cached # None => e.cached \in Nat /\ e.cached <= e.version

\* The notice brings entry n, or tells its reader to resynchronise.
Brings(notice, n) == notice = Notice("TIMELINE", n) \/ notice.kind = "RESYNC_REQUIRED"

\* Every entry after the cursor, up to the last, is brought by one of the first k items.
Covers(items, k, cursor, last) ==
    \A n \in (cursor + 1)..last : \E j \in 1..k : Brings(items[j], n)

\* No item is ahead of the timeline, and one that moves the cursor without an entry
\* comes after the entries it moves over.
ItemsOk(items, cursor, last) ==
    \A i \in 1..Len(items) :
        /\ items[i].cursor <= last
        /\ items[i].kind \in {"STATE", "END"} => Covers(items, i - 1, cursor, items[i].cursor)

QueueOk(q, cursor, last) ==
    /\ q \in Subscribers
    /\ ItemsOk(q.items, cursor, last)
    /\ ~q.closed => Len(q.items) <= QueueSize /\ Covers(q.items, Len(q.items), cursor, last)

Phases == {"OFF", "OPENING", "FIRST_PAGE", "NEXT_PAGE", "CONNECTING", "OPEN", "LOST",
           "RESYNC", "CLOSED", "GONE"}
Asks == [kind : {"CANCEL", "ANALYSIS"}, by : Stoppers \cup Analysers, cursor : Nat \cup {None}]
ClientStates ==
    [session : Sessions \cup {None}, phase : Phases, cursor : Nat, timeline : SUBSET Nat,
     gap : BOOLEAN, snapshot : Nat, from : Nat, ended : BOOLEAN, asks : SUBSET Asks,
     passed : SUBSET Nat]

\* What the client has of the timeline, or has been taken past.
Spanned(x) == Spans(x, x.timeline \cup x.passed)

\* The page that a resynchronisation waits for continues what the client has.
Reached(x) ==
    x.phase \in {"RESYNC", "NEXT_PAGE"} /\ ~x.gap =>
        x.from <= x.cursor /\ \A n \in x.from + 1 .. x.cursor : n \in x.timeline \cup x.passed

\* No answer is ahead of the timeline.
AnswersOk(x, last) == \A q \in x.asks : q.cursor # None => q.cursor <= last

\* Two states that have the same of the timeline, and the same answers to come.
Alike(x, y) ==
    /\ y.session = x.session /\ y.cursor = x.cursor /\ y.timeline = x.timeline
    /\ y.passed = x.passed /\ y.asks = x.asks

ClientOk(x, q, es) ==
    /\ x \in ClientStates
    /\ \/ x = NoClient
       \/ /\ x.session \in DOMAIN es /\ x.phase # "OFF"
          /\ x.cursor <= es[x.session].seq /\ x.snapshot <= es[x.session].seq
          /\ AnswersOk(x, es[x.session].seq)
    /\ x.phase = "CONNECTING" => x.snapshot <= x.cursor
    /\ q # None <=> x.phase = "OPEN"
    /\ q # None => q.session = x.session /\ QueueOk(q, x.cursor, es[x.session].seq)
    /\ x.gap \/ Spanned(x)
    /\ Reached(x)

ClientsOk ==
    /\ client \in [Clients -> ClientStates]
    /\ DOMAIN subs = Clients
    /\ \A c \in Clients : ClientOk(client[c], subs[c], entries)

AnalyserStates ==
    [phase : {"IDLE", "LOCK", "SLOT", "RUN"}, session : Sessions \cup {None},
     version : Nat \cup {None}]
Holding(a) == analysers[a].phase \in {"SLOT", "RUN"}

AnalysesOk ==
    /\ analysers \in [Analysers -> AnalyserStates]
    /\ \A a \in Analysers :
        LET x == analysers[a]
            e == entries[x.session]
        IN  /\ x.phase # "IDLE" => x.session \in DOMAIN entries
            /\ Holding(a) => e.analysing
            /\ x.phase = "RUN" =>
                  /\ x.version \in Nat /\ x.version <= e.version
                  /\ e.cached # None => e.cached <= x.version
    /\ \A a, b \in Analysers :
        Holding(a) /\ Holding(b) /\ a # b => analysers[a].session # analysers[b].session

EntriesOk ==
    /\ DOMAIN entries \subseteq Sessions /\ held \subseteq DOMAIN entries
    /\ \A s \in DOMAIN entries : EntryOk(entries[s])
    /\ DOMAIN stoppers = Stoppers
    /\ \A h \in Stoppers : stoppers[h].op # "IDLE" => stoppers[h].session \in DOMAIN entries
    /\ shutdown.sessions \subseteq DOMAIN entries

IInv == EntriesOk /\ AnalysesOk /\ ClientsOk

-----------------------------------------------------------------------------
(***************************************************************************)
(* What becomes of an entry.                                               *)
(***************************************************************************)
\* Whatever happens to a session but an analysis of it.
Grows(e, f) ==
    /\ EntryOk(f)
    /\ e.seq <= f.seq /\ e.version <= f.version
    /\ f.cached = e.cached /\ f.analysing = e.analysing

\* The constants that the proofs use.
LEMMA Bounds == /\ QueueSize \in Nat \ {0} /\ Retention \in Nat \ {0}
                /\ PageMax \in Nat \ {0}
BY WorkspaceConstants

\* The greater of two numbers.
LEMMA MaxOfTwo ==
    ASSUME NEW a \in Int, NEW b \in Int
    PROVE  /\ Max({a, b}) \in {a, b}
           /\ Max({a, b}) >= a /\ Max({a, b}) >= b
<1>1. \E x \in {a, b} : \A y \in {a, b} : x >= y
  <2>1. CASE a >= b
    BY <2>1
  <2>2. CASE b >= a
    BY <2>2
  <2> QED BY <2>1, <2>2
<1> QED BY <1>1 DEF Max

\* Growing twice is growing.
LEMMA GrowsOn ==
    ASSUME NEW e, NEW f, NEW g, EntryOk(e), Grows(e, f), Grows(f, g)
    PROVE  Grows(e, g)
BY DEF Grows, EntryOk

\* A change that leaves numbers, version and cache alone is one.
LEMMA GrowsSame ==
    ASSUME NEW e, NEW f, EntryOk(e), DOMAIN f = DOMAIN e,
           f.seq = e.seq, f.oldest = e.oldest, f.version = e.version,
           f.cached = e.cached, f.analysing = e.analysing
    PROVE  Grows(e, f)
BY DEF Grows, EntryOk

\* _append adds to the timeline.
LEMMA GrowsAppended ==
    ASSUME NEW e, EntryOk(e), NEW n \in Nat
    PROVE  Grows(e, Appended(e, n)) /\ Appended(e, n).seq = e.seq + n
<1> DEFINE k == e.seq + n - Retention + 1
<1>1. k \in Int /\ e.oldest \in Int
  BY Bounds DEF EntryOk
<1> HIDE DEF k
<1>2. Max({e.oldest, k}) \in Int /\ Max({e.oldest, k}) >= e.oldest
  BY <1>1, MaxOfTwo
<1> USE DEF k
<1> QED BY <1>2 DEF Appended, Grows, EntryOk, EntryFields

\* So does _evaluate.
LEMMA GrowsEvaluated ==
    ASSUME NEW e, EntryOk(e)
    PROVE  Grows(e, Evaluated(e))
<1>1. Grows(e, e)
  BY GrowsSame
<1> DEFINE f == [e EXCEPT !.seenStatus = Status(e)]
<1>2. Grows(e, f)
  BY GrowsSame DEF EntryOk, EntryFields
<1>3. EntryOk(f)
  BY <1>2 DEF Grows
<1>4. Grows(f, Appended(f, 1))
  BY <1>3, GrowsAppended
<1> QED BY <1>1, <1>2, <1>4, GrowsOn DEF Evaluated

\* And the records with what _after_change makes of them.
LEMMA GrowsRecorded ==
    ASSUME NEW e, EntryOk(e), NEW n \in Nat
    PROVE  Grows(e, Recorded(e, n)) /\ Recorded(e, n).origin = e.origin
<1> DEFINE changes == (IF e.conn = e.seenConn THEN 0 ELSE 1)
                        + (IF Status(e) = e.seenStatus THEN 0 ELSE 1)
           k == e.seq + n + changes - Retention + 1
           f == Recorded(e, n)
<1>1. changes \in Nat
  OBVIOUS
<1>2. /\ f = [e EXCEPT !.seenConn = e.conn, !.seenStatus = Status(e),
                       !.seq = @ + n + changes, !.oldest = Max({@, k})]
  BY DEF Recorded
<1> HIDE DEF f, changes
<1>3. k \in Int /\ e.oldest \in Int
  BY <1>1, Bounds DEF EntryOk
<1> HIDE DEF k
<1>4. Max({e.oldest, k}) \in Int /\ Max({e.oldest, k}) >= e.oldest
  BY <1>3, MaxOfTwo
<1>5. /\ DOMAIN f = EntryFields
      /\ f.seq = e.seq + n + changes /\ f.oldest = Max({e.oldest, k})
      /\ f.version = e.version /\ f.cached = e.cached /\ f.analysing = e.analysing
      /\ f.origin = e.origin
  BY <1>2 DEF EntryOk, EntryFields
<1> QED BY <1>1, <1>4, <1>5 DEF Grows, EntryOk, f

\* terminate changes the connection only.
LEMMA GrowsTerminated ==
    ASSUME NEW e, EntryOk(e), NEW reason
    PROVE  Grows(e, Terminated(e, reason))
BY DEF Grows, Terminated, EntryOk, EntryFields

\* _finish ends a session once.
LEMMA GrowsFinished ==
    ASSUME NEW e, EntryOk(e)
    PROVE  Grows(e, Finished(e))
<1>1. Grows(e, e)
  BY GrowsSame
<1> DEFINE reason == IF e.requested # None THEN "CANCELLED" ELSE "PROVIDER_ERROR"
           t == Terminated(e, reason)
           f == [t EXCEPT !.origin = EndOrigin(e)]
<1>2. Grows(e, t)
  BY GrowsTerminated
<1>3. EntryOk(t)
  BY <1>2 DEF Grows
<1>4. Grows(t, f)
  <2> HIDE DEF t
  <2> QED BY <1>3, GrowsSame DEF EntryOk, EntryFields
<1>5. EntryOk(f)
  BY <1>4 DEF Grows
<1> HIDE DEF t, f
<1>6. Grows(f, Recorded(f, 1))
  BY <1>5, GrowsRecorded
<1>7. Grows(e, Recorded(f, 1))
  BY <1>2, <1>4, <1>6, <1>3, <1>5, GrowsOn
<1> QED BY <1>1, <1>7 DEF Finished, f, t, reason

\* A request to end says so and cancels the task.
LEMMA GrowsRequestEnd ==
    ASSUME NEW e, EntryOk(e), NEW origin
    PROVE  Grows(e, RequestEnd(e, origin))
BY DEF Grows, RequestEnd, EntryOk, EntryFields

\* What an event or a signal does to the market.
LEMMA GrowsApplied ==
    ASSUME NEW e, EntryOk(e), NEW item
    PROVE  Grows(e, Applied(e, item))
<1>0. Grows(e, e)
  BY GrowsSame
<1>1. Grows(e, Observed(e, item))
  BY <1>0 DEF Observed, Grows, EntryOk, EntryFields
<1>2. Grows(e, Signalled(e, item))
  <2>1. CASE item = "CONNECTED" /\ e.conn = "DISCONNECTED"
    <3> DEFINE f == [e EXCEPT !.reconnects = @ + 1]
    <3>1. Grows(e, f)
      BY GrowsSame DEF EntryOk, EntryFields
    <3>2. EntryOk(f)
      BY <3>1 DEF Grows
    <3>3. Grows(f, Terminated(f, "RECONNECT_LIMIT"))
      BY <3>2, GrowsTerminated
    <3>4. Grows(e, Terminated(f, "RECONNECT_LIMIT"))
      BY <3>1, <3>2, <3>3, GrowsOn
    <3>5. Grows(e, [e EXCEPT !.conn = "RECOVERING", !.reconnects = @ + 1])
      BY DEF Grows, EntryOk, EntryFields
    <3> QED BY <2>1, <3>4, <3>5 DEF Signalled
  <2>2. CASE item = "CONNECTED" /\ e.conn = "INITIALIZING"
    BY <2>2, GrowsSame DEF Signalled, EntryOk, EntryFields
  <2>3. CASE item = "DISCONNECTED"
    BY <2>3, <1>0 DEF Grows, Signalled, EntryOk, EntryFields
  <2>4. CASE item \in {"END", "OVERFLOW"}
    BY <2>4, GrowsTerminated DEF Signalled
  <2>5. CASE /\ item \notin {"DISCONNECTED", "END", "OVERFLOW"}
             /\ ~(item = "CONNECTED" /\ e.conn \in {"INITIALIZING", "DISCONNECTED"})
    BY <2>5, <1>0 DEF Signalled
  <2> QED BY <2>1, <2>2, <2>3, <2>4, <2>5
<1> QED BY <1>1, <1>2 DEF Applied

-----------------------------------------------------------------------------
(***************************************************************************)
(* What becomes of a queue.                                                *)
(***************************************************************************)
\* One notice per entry.
LEMMA EntriesSeq ==
    ASSUME NEW n \in Nat, NEW m \in Nat, n <= m
    PROVE  /\ Entries(n, m) \in Seq(Notices)
           /\ Len(Entries(n, m)) = m - n
           /\ \A i \in 1..(m - n) : Entries(n, m)[i] = Notice("TIMELINE", n + i)
<1>1. m - n \in Nat
  OBVIOUS
<1>2. \A i \in 1..(m - n) : Notice("TIMELINE", n + i) \in Notices
  BY DEF Notice, Notices
<1> DEFINE k == m - n
<1>3. Entries(n, m) = [i \in 1..k |-> Notice("TIMELINE", n + i)]
  BY DEF Entries
<1>4. k \in Nat /\ \A i \in 1..k : Notice("TIMELINE", n + i) \in Notices
  BY <1>1, <1>2
<1> HIDE DEF k
<1>5. [i \in 1..k |-> Notice("TIMELINE", n + i)] \in Seq(Notices)
  BY <1>4
<1>6. Len([i \in 1..k |-> Notice("TIMELINE", n + i)]) = k
  BY <1>4
<1> QED BY <1>3, <1>5, <1>6 DEF k

\* The items of two queues, one after the other.
LEMMA Joined ==
    ASSUME NEW a \in Seq(Notices), NEW b \in Seq(Notices)
    PROVE  /\ Len(a) \in Nat /\ Len(b) \in Nat /\ Len(a \o b) = Len(a) + Len(b)
           /\ a \o b \in Seq(Notices)
           /\ \A i \in 1..Len(a) : (a \o b)[i] = a[i]
           /\ \A i \in 1..Len(b) : Len(a) + i \in 1..Len(a \o b) /\ (a \o b)[Len(a) + i] = b[i]
OBVIOUS

\* Three queues in a row are the same however they are joined.
LEMMA Regrouped ==
    ASSUME NEW a \in Seq(Notices), NEW b \in Seq(Notices), NEW c \in Seq(Notices)
    PROVE  (a \o b) \o c = a \o (b \o c)
BY ConcatAssociative

\* More items cover as much, and the first of a longer queue what the shorter did.
LEMMA CoversOn ==
    ASSUME NEW a \in Seq(Notices), NEW b \in Seq(Notices), NEW cursor \in Nat,
           NEW last \in Nat, NEW k \in 0..Len(a), NEW l \in Nat, k <= l,
           Covers(a, k, cursor, last)
    PROVE  Covers(a \o b, l, cursor, last)
<1> SUFFICES ASSUME NEW n \in (cursor + 1)..last
             PROVE  \E j \in 1..l : Brings((a \o b)[j], n)
  BY DEF Covers
<1>1. PICK j \in 1..k : Brings(a[j], n)
  BY DEF Covers
<1>2. j \in 1..l /\ j \in 1..Len(a) /\ (a \o b)[j] = a[j]
  OBVIOUS
<1> QED BY <1>1, <1>2

\* A queue that is in order stays so when notices in order are added to it.
LEMMA ItemsJoin ==
    ASSUME NEW a \in Seq(Notices), NEW b \in Seq(Notices), NEW cursor \in Nat,
           NEW n \in Nat, NEW m \in Nat, n <= m, ItemsOk(a, cursor, n),
           \A i \in 1..Len(b) :
              /\ b[i].cursor <= m
              /\ b[i].kind \in {"STATE", "END"} =>
                    Covers(a \o b, Len(a) + i - 1, cursor, b[i].cursor)
    PROVE  ItemsOk(a \o b, cursor, m)
<1> SUFFICES ASSUME NEW i \in 1..Len(a \o b)
             PROVE  /\ (a \o b)[i].cursor <= m
                    /\ (a \o b)[i].kind \in {"STATE", "END"} =>
                          Covers(a \o b, i - 1, cursor, (a \o b)[i].cursor)
  BY DEF ItemsOk
<1>1. CASE i \in 1..Len(a)
  <2>1. (a \o b)[i] = a[i] /\ a[i] \in Notices
    BY <1>1
  <2>2. a[i].cursor \in Nat /\ a[i].cursor <= n
    BY <1>1, <2>1 DEF ItemsOk, Notices
  <2>3. a[i].kind \in {"STATE", "END"} => Covers(a, i - 1, cursor, a[i].cursor)
    BY <1>1 DEF ItemsOk
  <2>4. i - 1 \in 0..Len(a) /\ i - 1 \in Nat /\ i - 1 <= i - 1
    BY <1>1
  <2>5. a[i].kind \in {"STATE", "END"} => Covers(a \o b, i - 1, cursor, a[i].cursor)
    BY <2>2, <2>3, <2>4, CoversOn
  <2> QED BY <2>1, <2>2, <2>5
<1>2. CASE i \notin 1..Len(a)
  <2>1. PICK j \in 1..Len(b) : i = Len(a) + j
    <3>1. i - Len(a) \in 1..Len(b) /\ i = Len(a) + (i - Len(a))
      BY <1>2
    <3> QED BY <3>1
  <2>2. (a \o b)[i] = b[j]
    BY <2>1
  <2> QED BY <2>1, <2>2
<1> QED BY <1>1, <1>2

\* The entries after the last covered number extend what is covered.
LEMMA CoversEntries ==
    ASSUME NEW a \in Seq(Notices), NEW cursor \in Nat, NEW n \in Nat, NEW m \in Nat, n <= m,
           Covers(a, Len(a), cursor, n)
    PROVE  Covers(a \o Entries(n, m), Len(a \o Entries(n, m)), cursor, m)
<1> DEFINE b == Entries(n, m)
<1>0. /\ b \in Seq(Notices) /\ Len(b) = m - n
      /\ \A i \in 1..(m - n) : b[i] = Notice("TIMELINE", n + i)
  BY EntriesSeq
<1> HIDE DEF b
<1>1. Len(a \o b) = Len(a) + Len(b) /\ Len(a) \in Nat
  BY <1>0
<1> SUFFICES ASSUME NEW x \in (cursor + 1)..m
             PROVE  \E j \in 1..Len(a \o b) : Brings((a \o b)[j], x)
  BY DEF Covers, b
<1>2. CASE x <= n
  <2>1. PICK j \in 1..Len(a) : Brings(a[j], x)
    BY <1>2 DEF Covers
  <2>2. j \in 1..Len(a \o b) /\ (a \o b)[j] = a[j]
    BY <1>0, <1>1
  <2> QED BY <2>1, <2>2
<1>3. CASE x > n
  <2>1. x - n \in 1..Len(b) /\ n + (x - n) = x
    BY <1>0, <1>3
  <2>2. b[x - n] = Notice("TIMELINE", x)
    BY <1>0, <2>1
  <2>3. Len(a) + (x - n) \in 1..Len(a \o b) /\ (a \o b)[Len(a) + (x - n)] = b[x - n]
    BY <1>0, <1>1, <2>1
  <2> QED BY <2>2, <2>3 DEF Brings
<1> QED BY <1>2, <1>3

\* Entries are never out of order.
LEMMA ItemsEntries ==
    ASSUME NEW a \in Seq(Notices), NEW cursor \in Nat, NEW k \in Nat, NEW n \in Nat,
           NEW m \in Nat, n <= m, k <= m, ItemsOk(a, cursor, n)
    PROVE  ItemsOk(a \o Entries(k, m), cursor, m)
<1>1. \A i \in 1..Len(Entries(k, m)) :
        Entries(k, m)[i].cursor <= m /\ Entries(k, m)[i].kind = "TIMELINE"
  <2> SUFFICES ASSUME NEW i \in 1..Len(Entries(k, m))
               PROVE  Entries(k, m)[i].cursor <= m /\ Entries(k, m)[i].kind = "TIMELINE"
    OBVIOUS
  <2>1. i \in 1..(m - k) /\ Entries(k, m)[i] = Notice("TIMELINE", k + i)
    BY EntriesSeq
  <2> QED BY <2>1 DEF Notice
<1>2. Entries(k, m) \in Seq(Notices)
  BY EntriesSeq
<1> QED BY <1>1, <1>2, ItemsJoin

\* A notice that names the newest entry may follow what covers it.
LEMMA ItemsNotice ==
    ASSUME NEW a \in Seq(Notices), NEW b \in Seq(Notices), NEW cursor \in Nat, NEW m \in Nat,
           Len(b) = 1, b[1].cursor = m,
           ItemsOk(a, cursor, m), Covers(a, Len(a), cursor, m)
    PROVE  /\ a \o b \in Seq(Notices)
           /\ ItemsOk(a \o b, cursor, m)
           /\ Covers(a \o b, Len(a \o b), cursor, m)
<1>0. a \o b \in Seq(Notices) /\ Len(a \o b) = Len(a) + Len(b) /\ Len(a) \in Nat
  BY Joined, Zenon
<1>1. a \o b \in Seq(Notices) /\ Len(a \o b) = Len(a) + 1 /\ Len(a) \in Nat
  BY <1>0, Zenon
<1>2. Len(a) \in 0..Len(a) /\ Len(a) + 1 \in Nat
  BY <1>1
<1>3. Covers(a \o b, Len(a), cursor, m) /\ Covers(a \o b, Len(a) + 1, cursor, m)
  BY <1>1, <1>2, CoversOn
<1>4. ASSUME NEW i \in 1..Len(b)
      PROVE  /\ b[i].cursor <= m
             /\ b[i].kind \in {"STATE", "END"} =>
                   Covers(a \o b, Len(a) + i - 1, cursor, b[i].cursor)
  <2>1. i = 1 /\ Len(a) + i - 1 = Len(a)
    BY <1>1
  <2> QED BY <2>1, <1>3
<1>5. ItemsOk(a \o b, cursor, m)
  BY <1>4, ItemsJoin
<1> QED BY <1>1, <1>3, <1>5

\* push keeps a queue in order, or replaces it.
LEMMA PushOk ==
    ASSUME NEW q \in Subscribers, ~q.closed, Len(q.items) <= QueueSize,
           NEW notices \in Seq(Notices), NEW cursor \in Nat, NEW m \in Nat,
           ItemsOk(q.items \o notices, cursor, m),
           Covers(q.items \o notices, Len(q.items \o notices), cursor, m)
    PROVE  QueueOk(Push(q, notices), cursor, m) /\ Push(q, notices).session = q.session
<1>0. q.items \in Seq(Notices) /\ q.session \in Sessions /\ Len(q.items) \in Nat
  BY DEF Subscribers
<1>1. CASE Len(q.items) + Len(notices) <= QueueSize
  <2>1. Push(q, notices) = [session |-> q.session, items |-> q.items \o notices,
                            closed |-> q.closed]
    BY <1>1 DEF Push, Subscribers
  <2>2. q.items \o notices \in Seq(Notices) /\ Len(q.items \o notices) <= QueueSize
    BY <1>0, <1>1
  <2>3. [session |-> q.session, items |-> q.items \o notices, closed |-> q.closed] \in Subscribers
    BY <1>0, <2>2 DEF Subscribers
  <2> QED BY <2>1, <2>2, <2>3 DEF QueueOk
<1>2. CASE ~(Len(q.items) + Len(notices) <= QueueSize)
  <2> DEFINE refused == notices[QueueSize - Len(q.items) + 1]
             last == <<Notice("RESYNC_REQUIRED", refused.cursor)>>
  <2>1. QueueSize - Len(q.items) + 1 \in 1..Len(notices)
    BY <1>0, <1>2, Bounds
  <2>2. refused.cursor \in Nat /\ refused.cursor <= m
    <3>1. Len(q.items) + (QueueSize - Len(q.items) + 1) \in 1..Len(q.items \o notices)
          /\ (q.items \o notices)[Len(q.items) + (QueueSize - Len(q.items) + 1)] = refused
      BY <1>0, <2>1, Joined
    <3>2. refused \in Notices
      BY <2>1
    <3> QED BY <3>1, <3>2 DEF ItemsOk, Notices
  <2> HIDE DEF refused
  <2>3. Push(q, notices) = [session |-> q.session, items |-> last, closed |-> TRUE]
    BY <1>2 DEF Push, Subscribers, refused
  <2>4. last \in Seq(Notices) /\ Len(last) = 1 /\ last[1].kind = "RESYNC_REQUIRED"
        /\ last[1].cursor = refused.cursor
    BY <2>2 DEF Notices, Notice
  <2> HIDE DEF last
  <2>5. ItemsOk(last, cursor, m)
    BY <2>2, <2>4 DEF ItemsOk
  <2>6. [session |-> q.session, items |-> last, closed |-> TRUE] \in Subscribers
    BY <1>0, <2>4 DEF Subscribers
  <2> QED BY <2>3, <2>5, <2>6 DEF QueueOk
<1> QED BY <1>1, <1>2

\* A queue r is what q becomes while its session goes from entry n to entry m.
Heard(q, r, n, m) ==
    \/ r = q /\ n = m
    \/ \E ending \in {<<>>, <<Notice("END", m)>>} :
        LET pushed == Push(q, Entries(n, m) \o ending)
        IN  r \in {pushed, [pushed EXCEPT !.closed = TRUE]}

\* No news leaves a reader without what it needs.
LEMMA HeardOk ==
    ASSUME NEW q, NEW r, NEW n \in Nat, NEW m \in Nat, n <= m, NEW cursor \in Nat,
           QueueOk(q, cursor, n), Heard(q, r, n, m)
    PROVE  QueueOk(r, cursor, m) /\ r.session = q.session
<1>0. q \in Subscribers /\ q.items \in Seq(Notices)
  BY DEF QueueOk, Subscribers
<1>1. CASE r = q /\ n = m
  BY <1>1
<1>2. ASSUME NEW ending \in {<<>>, <<Notice("END", m)>>}
      PROVE  LET pushed == Push(q, Entries(n, m) \o ending)
             IN  QueueOk(pushed, cursor, m) /\ pushed.session = q.session
  <2>1. CASE q.closed
    <3>1. Push(q, Entries(n, m) \o ending) = q
      BY <2>1 DEF Push
    <3>2. ItemsOk(q.items, cursor, m)
      <4>1. \A i \in 1..Len(q.items) : q.items[i].cursor \in Nat
        <5>1. \A i \in 1..Len(q.items) : q.items[i] \in Notices
          BY <1>0
        <5> QED BY <5>1 DEF Notices
      <4> QED BY <4>1 DEF ItemsOk, QueueOk
    <3> QED BY <3>1, <3>2, <2>1 DEF QueueOk
  <2>2. CASE ~q.closed
    <3> DEFINE e == Entries(n, m)
               a == q.items \o e
    <3>1. e \in Seq(Notices)
      BY EntriesSeq
    <3>2. Covers(a, Len(a), cursor, m)
      BY <1>0, <2>2, CoversEntries DEF QueueOk
    <3>3. ItemsOk(a, cursor, m)
      BY <1>0, ItemsEntries DEF QueueOk
    <3> HIDE DEF e
    <3>4. a \in Seq(Notices) /\ e \o <<>> = e
      BY <3>1, <1>0
    <3>5. CASE ending = <<>>
      BY <3>1, <3>2, <3>3, <3>4, <3>5, <1>0, <2>2, PushOk DEF QueueOk, e
    <3>6. CASE ending = <<Notice("END", m)>>
      <4>1. /\ a \o ending \in Seq(Notices) /\ ItemsOk(a \o ending, cursor, m)
            /\ Covers(a \o ending, Len(a \o ending), cursor, m)
        <5>1. ending \in Seq(Notices) /\ Len(ending) = 1 /\ ending[1].cursor = m
          BY <3>6 DEF Notice, Notices
        <5> HIDE DEF a
        <5> QED BY <5>1, <3>2, <3>3, <3>4, ItemsNotice
      <4>2. ending \in Seq(Notices)
        BY <3>6 DEF Notice, Notices
      <4>3. a \o ending = q.items \o (e \o ending) /\ e \o ending \in Seq(Notices)
        <5>1. e \o ending \in Seq(Notices)
          BY <3>1, <4>2
        <5>2. (q.items \o e) \o ending = q.items \o (e \o ending)
          BY <1>0, <3>1, <4>2, Regrouped
        <5> QED BY <5>1, <5>2
      <4> QED BY <4>1, <4>3, <1>0, <2>2, PushOk DEF QueueOk, e
    <3> QED BY <3>5, <3>6
  <2> QED BY <2>1, <2>2
<1>3. ASSUME NEW p, QueueOk(p, cursor, m)
      PROVE  QueueOk([p EXCEPT !.closed = TRUE], cursor, m)
             /\ [p EXCEPT !.closed = TRUE].session = p.session
  BY <1>3 DEF QueueOk, Subscribers
<1> QED BY <1>1, <1>2, <1>3 DEF Heard

-----------------------------------------------------------------------------
(***************************************************************************)
(* What a step does to the sessions and to the queues.                     *)
(***************************************************************************)
EntriesGrow ==
    /\ DOMAIN entries \subseteq DOMAIN entries' /\ DOMAIN entries' \subseteq Sessions
    /\ \A s \in DOMAIN entries' : EntryOk(entries'[s])
    /\ \A s \in DOMAIN entries :
        entries[s].seq <= entries'[s].seq /\ entries[s].version <= entries'[s].version

AnalysesKept ==
    \A s \in DOMAIN entries :
        entries'[s].cached = entries[s].cached /\ entries'[s].analysing = entries[s].analysing

\* The queue of c hears what becomes of its session.
Follows(c) ==
    /\ subs[c] = None => subs'[c] = None
    /\ subs[c] # None => Heard(subs[c], subs'[c], entries[subs[c].session].seq,
                               entries'[subs[c].session].seq)
SubsFollow == DOMAIN subs' = Clients /\ \A c \in Clients : Follows(c)

SubsOk ==
    /\ DOMAIN subs = Clients
    /\ \A c \in Clients :
        subs[c] # None => subs[c] \in Subscribers /\ subs[c].session \in DOMAIN entries

\* The cache moves forward.
CacheForward ==
    \A s \in DOMAIN entries :
        entries[s].cached # None => entries'[s].cached >= entries[s].cached

\* The queues that clients hold are queues of sessions that exist.
LEMMA ClientsSubs ==
    ASSUME ClientsOk, DOMAIN entries \subseteq Sessions
    PROVE  SubsOk
<1> SUFFICES ASSUME NEW c \in Clients, subs[c] # None
             PROVE  subs[c] \in Subscribers /\ subs[c].session \in DOMAIN entries
  BY DEF SubsOk, ClientsOk
<1>1. ClientOk(client[c], subs[c], entries)
  BY DEF ClientsOk
<1>2. client[c] # NoClient
  BY <1>1 DEF ClientOk, NoClient
<1> QED BY <1>1, <1>2 DEF ClientOk, QueueOk

\* Readers of a session hear of what becomes of it.
LEMMA ToldHeard ==
    ASSUME NEW c \in Clients, NEW s, NEW e, subs[c] # None, subs[c] \in Subscribers
    PROVE  IF subs[c].session = s
           THEN Heard(subs[c], Told(s, e)[c], entries[s].seq, e.seq)
           ELSE Told(s, e)[c] = subs[c]
<1> DEFINE end == IF entries[s].origin = None /\ e.origin # None
                  THEN <<Notice("END", e.seq)>> ELSE <<>>
           news == Entries(entries[s].seq, e.seq)
<1>1. Told(s, e)[c] = IF Reads(c, s) THEN Push(subs[c], news \o end) ELSE subs[c]
  BY DEF Told
<1>2. CASE subs[c].session # s
  BY <1>1, <1>2 DEF Reads
<1>3. CASE subs[c].session = s
  <2>1. end \in {<<>>, <<Notice("END", e.seq)>>}
    OBVIOUS
  <2>2. Told(s, e)[c] = Push(subs[c], news \o end)
    BY <1>1, <1>3 DEF Reads, Push
  <2> HIDE DEF end, news
  <2>3. Heard(subs[c], Push(subs[c], news \o end), entries[s].seq, e.seq)
    <3> USE DEF news
    <3> QED BY <2>1 DEF Heard
  <2> QED BY <1>3, <2>2, <2>3
<1> QED BY <1>2, <1>3

\* A client without a queue is told nothing.
LEMMA ToldNothing ==
    ASSUME NEW c \in Clients, NEW s, NEW e, subs[c] = None
    PROVE  Told(s, e)[c] = None
BY DEF Told, Reads

\* A client whose queue is told of an update follows it.
LEMMA ToldFollows ==
    ASSUME SubsOk, NEW s \in DOMAIN entries, NEW e, entries' = [entries EXCEPT ![s] = e],
           NEW c \in Clients, subs'[c] = Told(s, e)[c]
    PROVE  Follows(c)
<1>1. CASE subs[c] = None
  BY <1>1, ToldNothing DEF Follows
<1>2. CASE subs[c] # None
  <2>1. subs[c] \in Subscribers
    BY <1>2 DEF SubsOk
  <2>2. CASE subs[c].session = s
    <3>1. entries'[s].seq = e.seq
      OBVIOUS
    <3>2. Heard(subs[c], Told(s, e)[c], entries[s].seq, e.seq)
      BY <1>2, <2>1, <2>2, ToldHeard
    <3> QED BY <1>2, <2>2, <3>1, <3>2 DEF Follows
  <2>3. CASE subs[c].session # s
    <3>1. Told(s, e)[c] = subs[c]
      BY <1>2, <2>1, <2>3, ToldHeard
    <3>2. entries'[subs[c].session] = entries[subs[c].session]
      BY <2>3, <1>2 DEF SubsOk
    <3> QED BY <1>2, <3>1, <3>2 DEF Heard, Follows
  <2> QED BY <2>2, <2>3
<1> QED BY <1>1, <1>2

\* An update of one session.
LEMMA Updated ==
    ASSUME EntriesOk, SubsOk, NEW s \in DOMAIN entries, NEW e, EntryOk(e),
           entries[s].seq <= e.seq, entries[s].version <= e.version, Update(s, e)
    PROVE  /\ EntriesGrow /\ SubsFollow
           /\ entries' = [entries EXCEPT ![s] = e]
<1>1. entries' = [entries EXCEPT ![s] = e] /\ subs' = Told(s, e)
  BY DEF Update
<1>2. EntriesGrow
  BY <1>1 DEF EntriesGrow, EntriesOk, EntryOk
<1>3. DOMAIN subs' = Clients
  BY <1>1 DEF Told
<1>4. \A c \in Clients : Follows(c)
  BY <1>1, ToldFollows
<1> QED BY <1>1, <1>2, <1>3, <1>4 DEF SubsFollow

\* A step that numbers nothing and pushes nothing.
LEMMA Unheard ==
    ASSUME SubsOk, subs' = subs,
           \A s \in DOMAIN entries : entries'[s].seq = entries[s].seq
    PROVE  SubsFollow
BY DEF SubsFollow, Follows, SubsOk, Heard

\* Whatever an analysis leaves alone keeps its cache.
LEMMA KeptForward ==
    ASSUME EntriesOk, AnalysesKept
    PROVE  CacheForward
BY DEF EntriesOk, AnalysesKept, CacheForward, EntryOk

\* Analyses in progress are not disturbed by the life of their session.
LEMMA AnalysesUndisturbed ==
    ASSUME AnalysesOk, EntriesOk, EntriesGrow, AnalysesKept, analysers' = analysers
    PROVE  AnalysesOk'
<1>1. analysers' \in [Analysers -> AnalyserStates]
  BY DEF AnalysesOk
<1>2. \A a \in Analysers : Holding(a)' <=> Holding(a)
  BY DEF Holding
<1>3. ASSUME NEW a \in Analysers
      PROVE  LET x == analysers[a]
                 e == entries'[x.session]
             IN  /\ x.phase # "IDLE" => x.session \in DOMAIN entries'
                 /\ Holding(a) => e.analysing
                 /\ x.phase = "RUN" =>
                       /\ x.version \in Nat /\ x.version <= e.version
                       /\ e.cached # None => e.cached <= x.version
  <2> DEFINE x == analysers[a]
  <2>1. CASE x.phase = "IDLE"
    BY <2>1 DEF Holding
  <2>2. CASE x.phase # "IDLE"
    <3>1. x.session \in DOMAIN entries /\ x.session \in DOMAIN entries'
      BY <2>2 DEF AnalysesOk, EntriesGrow
    <3>2. /\ entries'[x.session].cached = entries[x.session].cached
          /\ entries'[x.session].analysing = entries[x.session].analysing
      BY <3>1 DEF AnalysesKept
    <3>3. /\ entries[x.session].version <= entries'[x.session].version
          /\ entries[x.session].version \in Nat /\ entries'[x.session].version \in Nat
      BY <3>1 DEF EntriesGrow, EntriesOk, EntryOk
    <3>4. /\ Holding(a) => entries[x.session].analysing
          /\ x.phase = "RUN" =>
                /\ x.version \in Nat /\ x.version <= entries[x.session].version
                /\ entries[x.session].cached # None =>
                      entries[x.session].cached <= x.version
      BY DEF AnalysesOk
    <3> QED BY <3>1, <3>2, <3>3, <3>4
  <2> QED BY <2>1, <2>2
<1>4. \A a, b \in Analysers :
        Holding(a) /\ Holding(b) /\ a # b => analysers'[a].session # analysers'[b].session
  BY DEF AnalysesOk
<1> QED BY <1>1, <1>2, <1>3, <1>4 DEF AnalysesOk

\* What hears its queue stays in order with its session.
LEMMA ClientHears ==
    ASSUME NEW x, NEW q, NEW r, NEW es, NEW fs, ClientOk(x, q, es),
           DOMAIN es \subseteq DOMAIN fs,
           \A s \in DOMAIN es : es[s].seq \in Nat /\ fs[s].seq \in Nat /\ es[s].seq <= fs[s].seq,
           q = None => r = None,
           q # None => Heard(q, r, es[x.session].seq, fs[x.session].seq)
    PROVE  ClientOk(x, r, fs)
<1>0. x.session \in DOMAIN es /\ AnswersOk(x, es[x.session].seq)
        => AnswersOk(x, fs[x.session].seq)
  <2> SUFFICES ASSUME x.session \in DOMAIN es, AnswersOk(x, es[x.session].seq),
                      NEW a \in x.asks, a.cursor # None
               PROVE  a.cursor <= fs[x.session].seq
    BY DEF AnswersOk
  <2>1. a.cursor \in Nat /\ a.cursor <= es[x.session].seq
    BY DEF AnswersOk, ClientOk, ClientStates, Asks
  <2> QED BY <2>1
<1>1. CASE q = None
  BY <1>0, <1>1 DEF ClientOk, ClientStates
<1>2. CASE q # None
  <2>1. x # NoClient
    BY <1>2 DEF ClientOk, NoClient
  <2>2. /\ x.session \in DOMAIN es /\ x.session \in DOMAIN fs
        /\ es[x.session].seq \in Nat /\ fs[x.session].seq \in Nat
        /\ es[x.session].seq <= fs[x.session].seq
    BY <2>1 DEF ClientOk
  <2>3. x.cursor \in Nat /\ x.snapshot \in Nat
    BY DEF ClientOk, ClientStates
  <2>4. QueueOk(r, x.cursor, fs[x.session].seq) /\ r.session = q.session
    <3> DEFINE n == es[x.session].seq
               m == fs[x.session].seq
               k == x.cursor
    <3>1. QueueOk(q, k, n)
      BY <1>2 DEF ClientOk
    <3>2. Heard(q, r, n, m)
      BY <1>2
    <3>3. n \in Nat /\ m \in Nat /\ n <= m /\ k \in Nat
      BY <2>2, <2>3
    <3> HIDE DEF n, m, k
    <3>4. QueueOk(r, k, m) /\ r.session = q.session
      BY <3>1, <3>2, <3>3, HeardOk
    <3> QED BY <3>4 DEF k, m
  <2>5. r # None
    BY <2>4, WorkspaceConstants DEF QueueOk
  <2> QED BY <1>0, <1>2, <2>2, <2>3, <2>4, <2>5 DEF ClientOk
<1> QED BY <1>1, <1>2

\* A client that does nothing itself.
LEMMA ClientFollows ==
    ASSUME EntriesOk, EntriesGrow, NEW c \in Clients, Follows(c),
           ClientOk(client[c], subs[c], entries)
    PROVE  ClientOk(client[c], subs'[c], entries')
<1>1. \A s \in DOMAIN entries : /\ entries[s].seq \in Nat /\ entries'[s].seq \in Nat
                                /\ entries[s].seq <= entries'[s].seq
  BY DEF EntriesOk, EntriesGrow, EntryOk
<1>2. subs[c] # None => subs[c].session = client[c].session
  BY DEF ClientOk
<1>3. /\ subs[c] = None => subs'[c] = None
      /\ subs[c] # None => Heard(subs[c], subs'[c], entries[client[c].session].seq,
                                 entries'[client[c].session].seq)
  BY <1>2 DEF Follows
<1>4. DOMAIN entries \subseteq DOMAIN entries'
  BY DEF EntriesGrow
<1> QED BY <1>1, <1>3, <1>4, ClientHears

-----------------------------------------------------------------------------
(***************************************************************************)
(* The workspace's own steps.                                              *)
(***************************************************************************)
\* What every step of the workspace, and of a client, leaves true of the sessions.
StepOk == EntriesOk' /\ AnalysesOk' /\ EntriesGrow /\ SubsFollow /\ CacheForward

\* A step that is no analysis, from what it does to sessions, queues and handlers.
LEMMA Lives ==
    ASSUME EntriesOk, AnalysesOk, EntriesGrow, AnalysesKept, SubsFollow,
           analysers' = analysers, held' \subseteq DOMAIN entries',
           DOMAIN stoppers' = Stoppers,
           \A h \in Stoppers : stoppers'[h].op # "IDLE" => stoppers'[h].session \in DOMAIN entries',
           shutdown'.sessions \subseteq DOMAIN entries'
    PROVE  StepOk
<1>1. EntriesOk'
  BY DEF EntriesOk, EntriesGrow
<1>2. AnalysesOk'
  BY AnalysesUndisturbed
<1>3. CacheForward
  BY KeptForward
<1> QED BY <1>1, <1>2, <1>3 DEF StepOk

\* A step of one session: its entry grows and its readers are told.
LEMMA Grown ==
    ASSUME EntriesOk, AnalysesOk, SubsOk, NEW s \in DOMAIN entries, NEW e,
           Grows(entries[s], e), Update(s, e),
           UNCHANGED <<held, stoppers, analysers, shutdown>>
    PROVE  StepOk
<1>1. EntriesGrow /\ SubsFollow /\ entries' = [entries EXCEPT ![s] = e]
  BY Updated DEF Grows
<1>2. AnalysesKept
  BY <1>1 DEF AnalysesKept, Grows
<1>3. /\ held' \subseteq DOMAIN entries' /\ DOMAIN stoppers' = Stoppers
      /\ \A h \in Stoppers :
            stoppers'[h].op # "IDLE" => stoppers'[h].session \in DOMAIN entries'
      /\ shutdown'.sessions \subseteq DOMAIN entries'
  BY <1>1 DEF EntriesOk
<1> QED BY <1>1, <1>2, <1>3, Lives

\* A change of the task alone.
LEMMA GrowsTask ==
    ASSUME NEW e, EntryOk(e), NEW task
    PROVE  Grows(e, [e EXCEPT !.task = task])
BY DEF Grows, EntryOk, EntryFields

\* Every step of a session's task makes its entry grow.
LEMMA TaskGrows ==
    ASSUME EntriesOk, NEW s \in Sessions, Task(s) \/ Breaks(s) \/ Deadline(s)
    PROVE  /\ s \in DOMAIN entries /\ UNCHANGED OtherThanEntries
           /\ \E e : Grows(entries[s], e) /\ Update(s, e)
<1> DEFINE old == entries[s]
<1>0. s \in DOMAIN entries
  BY DEF Task, Start, Read, Backfill, Close, Cancelled, Breaks, Deadline, Running
<1>1. EntryOk(old)
  BY <1>0 DEF EntriesOk
<1>2. UNCHANGED OtherThanEntries
  BY Zenon DEF Task, Start, Read, Backfill, Close, Cancelled, Breaks, Deadline
<1> HIDE DEF old
<1>3. ASSUME NEW e, EntryOk(e)
      PROVE  /\ \A task : Grows(e, [e EXCEPT !.task = task])
             /\ \A reason : Grows(e, Terminated(e, reason))
             /\ Grows(e, Finished(e)) /\ Grows(e, Recorded(e, 1)) /\ Grows(e, e)
  BY <1>3, GrowsTask, GrowsTerminated, GrowsFinished, GrowsRecorded, GrowsSame
<1>4. ASSUME NEW e, NEW f, NEW g, EntryOk(e), Grows(e, f), EntryOk(f) => Grows(f, g)
      PROVE  Grows(e, g)
  BY <1>4, GrowsOn DEF Grows
<1>5. ASSUME Start(s) PROVE \E e : Grows(old, e) /\ Update(s, e)
  <2>1. CASE Update(s, [old EXCEPT !.task = "READING"])
    BY <2>1, <1>1, <1>3
  <2>2. CASE Update(s, Finished([Terminated(old, "PROVIDER_ERROR") EXCEPT !.task = "DONE"]))
    <3> DEFINE t == Terminated(old, "PROVIDER_ERROR")
               f == [t EXCEPT !.task = "DONE"]
    <3>1. Grows(old, t)
      BY <1>1, <1>3
    <3>2. EntryOk(t) => Grows(t, f)
      BY <1>3
    <3> HIDE DEF t
    <3>3. Grows(old, f)
      BY <1>1, <1>4, <3>1, <3>2
    <3>4. EntryOk(f) => Grows(f, Finished(f))
      <4> HIDE DEF f
      <4> QED BY <1>3
    <3>5. Grows(old, Finished(f))
      <4> HIDE DEF f
      <4> QED BY <1>1, <1>4, <3>3, <3>4
    <3> QED BY <2>2, <3>5 DEF t
  <2> QED BY <1>5, <2>1, <2>2 DEF Start, old
<1>6. ASSUME Read(s) PROVE \E e : Grows(old, e) /\ Update(s, e)
  <2> DEFINE item == NextItem(old)
             popped == [old EXCEPT !.buffer = IF item = "OVERFLOW" \/ @ = <<>> THEN @ ELSE Tail(@)]
             after == Applied(popped, item)
             f == [after EXCEPT !.task = NextTask(old, after)]
  <2>1. Update(s, Recorded(f, 1))
    BY <1>6 DEF Read, old
  <2>2. Grows(old, popped)
    <3> HIDE DEF item
    <3> QED BY <1>1, GrowsSame DEF EntryOk, EntryFields
  <2>3. EntryOk(popped) => Grows(popped, after)
    <3> HIDE DEF popped, item
    <3> QED BY GrowsApplied DEF after
  <2>4. EntryOk(after) => Grows(after, f)
    <3> HIDE DEF after
    <3> QED BY <1>3 DEF f
  <2>5. EntryOk(f) => Grows(f, Recorded(f, 1))
    <3> HIDE DEF f
    <3> QED BY <1>3
  <2> HIDE DEF item, popped, after, f
  <2>6. Grows(old, after)
    BY <1>1, <1>4, <2>2, <2>3
  <2>7. Grows(old, f)
    BY <1>1, <1>4, <2>6, <2>4
  <2>8. Grows(old, Recorded(f, 1))
    BY <1>1, <1>4, <2>7, <2>5
  <2> QED BY <2>1, <2>8
<1>7. ASSUME Backfill(s) PROVE \E e : Grows(old, e) /\ Update(s, e)
  <2> DEFINE back == [old EXCEPT !.task = "READING"]
             seen == Observed(back, "CANDLE")
  <2>1. Update(s, back) \/ Update(s, Recorded(seen, 1))
    BY <1>7 DEF Backfill, old
  <2>2. Grows(old, back)
    BY <1>1, <1>3
  <2>3. EntryOk(back) => Grows(back, seen)
    <3> HIDE DEF back
    <3> QED BY GrowsApplied DEF Applied, seen
  <2> HIDE DEF back, seen
  <2>4. EntryOk(seen) => Grows(seen, Recorded(seen, 1))
    BY <1>3
  <2>5. Grows(old, seen)
    BY <1>1, <1>4, <2>2, <2>3
  <2>6. Grows(old, Recorded(seen, 1))
    BY <1>1, <1>4, <2>5, <2>4
  <2> QED BY <2>1, <2>2, <2>6
<1>8. ASSUME NEW f, Grows(old, f), Update(s, Finished(f))
      PROVE  \E e : Grows(old, e) /\ Update(s, e)
  <2>1. EntryOk(f) => Grows(f, Finished(f))
    BY <1>3
  <2>2. Grows(old, Finished(f))
    BY <1>1, <1>4, <1>8, <2>1
  <2> QED BY <1>8, <2>2
<1>9. ASSUME Close(s) PROVE \E e : Grows(old, e) /\ Update(s, e)
  <2>1. Grows(old, [old EXCEPT !.task = "DONE"]) /\ Update(s, Finished([old EXCEPT !.task = "DONE"]))
    BY <1>1, <1>3, <1>9 DEF Close, old
  <2> QED BY <2>1, <1>8
<1>10. ASSUME Cancelled(s) PROVE \E e : Grows(old, e) /\ Update(s, e)
  <2> DEFINE done == [old EXCEPT !.task = "DONE"]
             t == Terminated(done, "CANCELLED")
  <2>1. Update(s, done) \/ Update(s, Finished(done)) \/ Update(s, Finished(t))
    BY <1>10 DEF Cancelled, old
  <2>2. Grows(old, done)
    BY <1>1, <1>3
  <2>3. EntryOk(done) => Grows(done, t)
    <3> HIDE DEF done
    <3> QED BY <1>3 DEF t
  <2> HIDE DEF done, t
  <2>4. Grows(old, t)
    BY <1>1, <1>4, <2>2, <2>3
  <2> QED BY <2>1, <2>2, <2>4, <1>8
<1>11. ASSUME Breaks(s) PROVE \E e : Grows(old, e) /\ Update(s, e)
  <2> DEFINE t == Terminated(old, "PROVIDER_ERROR")
  <2>1. \/ Update(s, [old EXCEPT !.task = "CLOSING"])
        \/ Update(s, [t EXCEPT !.task = "CLOSING"])
    BY <1>11 DEF Breaks, old
  <2>2. Grows(old, t)
    BY <1>1, <1>3
  <2> HIDE DEF t
  <2>3. EntryOk(t) => Grows(t, [t EXCEPT !.task = "CLOSING"])
    BY <1>3
  <2>4. Grows(old, [t EXCEPT !.task = "CLOSING"])
    BY <1>1, <1>4, <2>2, <2>3
  <2>5. Grows(old, [old EXCEPT !.task = "CLOSING"])
    BY <1>1, <1>3
  <2> QED BY <2>1, <2>4, <2>5
<1>12. ASSUME Deadline(s) PROVE \E e : Grows(old, e) /\ Update(s, e)
  <2> DEFINE stopped == IF old.task = "CLOSING" THEN old ELSE Terminated(old, "CANCELLED")
             f == [stopped EXCEPT !.task = "DONE",
                                  !.requested = IF @ = None THEN "DEADLINE" ELSE @]
  <2>1. Update(s, Finished(f))
    BY <1>12 DEF Deadline, old
  <2>2. Grows(old, stopped)
    BY <1>1, <1>3
  <2>3. EntryOk(stopped) => Grows(stopped, f)
    <3> HIDE DEF stopped
    <3> QED BY DEF Grows, EntryOk, EntryFields
  <2> HIDE DEF stopped, f
  <2>4. Grows(old, f)
    BY <1>1, <1>4, <2>2, <2>3
  <2> QED BY <2>1, <2>4, <1>8
<1>13. \E e : Grows(old, e) /\ Update(s, e)
  BY <1>5, <1>6, <1>7, <1>9, <1>10, <1>11, <1>12 DEF Task
<1> QED BY <1>0, <1>2, <1>13 DEF old

\* So a task's step keeps the sessions, the analyses and the queues in order.
LEMMA TaskStep ==
    ASSUME EntriesOk, AnalysesOk, SubsOk, NEW s \in Sessions,
           Task(s) \/ Breaks(s) \/ Deadline(s)
    PROVE  StepOk
<1>1. PICK e : Grows(entries[s], e) /\ Update(s, e)
  BY TaskGrows
<1> QED BY <1>1, TaskGrows, Grown DEF OtherThanEntries

\* A step that changes neither what sessions are to analyses and readers, nor the queues.
LEMMA Silent ==
    ASSUME EntriesOk, AnalysesOk, SubsOk, subs' = subs, analysers' = analysers,
           DOMAIN entries' = DOMAIN entries,
           \A s \in DOMAIN entries :
              Grows(entries[s], entries'[s]) /\ entries'[s].seq = entries[s].seq,
           held' \subseteq DOMAIN entries, DOMAIN stoppers' = Stoppers,
           \A h \in Stoppers : stoppers'[h].op # "IDLE" => stoppers'[h].session \in DOMAIN entries,
           shutdown'.sessions \subseteq DOMAIN entries
    PROVE  StepOk
<1>1. EntriesGrow
  BY DEF EntriesGrow, Grows, EntriesOk
<1>2. AnalysesKept
  BY DEF AnalysesKept, Grows
<1>3. SubsFollow
  BY Unheard
<1> QED BY <1>1, <1>2, <1>3, Lives

\* Sessions that are left as they are.
LEMMA GrowsNot ==
    ASSUME EntriesOk
    PROVE  \A s \in DOMAIN entries : Grows(entries[s], entries[s])
BY GrowsSame DEF EntriesOk

\* The provider offers its next item.
LEMMA OfferStep ==
    ASSUME EntriesOk, AnalysesOk, SubsOk, NEW s \in Sessions, Offer(s) \/ GoesStale(s)
    PROVE  StepOk
<1>1. /\ s \in DOMAIN entries /\ DOMAIN entries' = DOMAIN entries
      /\ \A i \in DOMAIN entries : i # s => entries'[i] = entries[i]
      /\ subs' = subs /\ UNCHANGED OtherThanEntries
  BY DEF Offer, GoesStale
<1>2. EntryOk(entries[s])
  BY <1>1 DEF EntriesOk
<1>3. Grows(entries[s], entries'[s]) /\ entries'[s].seq = entries[s].seq
  <2>1. CASE Offer(s)
    <3>1. CASE Len(entries[s].buffer) >= BufferSize
      <4>1. entries'[s] = [entries[s] EXCEPT !.script = <<>>, !.overflowed = TRUE]
        BY <2>1, <1>1, <3>1 DEF Offer
      <4> QED BY <4>1, <1>2 DEF Grows, EntryOk, EntryFields
    <3>2. CASE ~(Len(entries[s].buffer) >= BufferSize)
      <4>1. entries'[s] = [entries[s] EXCEPT !.script = Tail(@),
                             !.buffer = Append(@, Head(entries[s].script))]
        BY <2>1, <1>1, <3>2 DEF Offer
      <4> QED BY <4>1, <1>2 DEF Grows, EntryOk, EntryFields
    <3> QED BY <3>1, <3>2
  <2>2. CASE GoesStale(s)
    BY <2>2, <1>1, <1>2 DEF GoesStale, Grows, EntryOk, EntryFields
  <2> QED BY <2>1, <2>2
<1>4. \A i \in DOMAIN entries :
        Grows(entries[i], entries'[i]) /\ entries'[i].seq = entries[i].seq
  BY <1>1, <1>3, GrowsNot
<1>5. UNCHANGED <<analysers, held, stoppers, shutdown>>
  BY <1>1 DEF OtherThanEntries
<1> QED BY <1>1, <1>4, <1>5, Silent DEF EntriesOk

\* Asking, and being let in: no session starts yet.
LEMMA AskStep ==
    ASSUME EntriesOk, AnalysesOk, SubsOk,
           \/ \E k \in Creators : CreateAsk(k) \/ CreateAdmit(k)
           \/ MinutePasses \/ ShutdownAsk
    PROVE  StepOk
<1>1. /\ UNCHANGED <<entries, subs, analysers, stoppers>>
      /\ held' \subseteq held /\ shutdown'.sessions = shutdown.sessions
  <2>1. CASE \E k \in Creators : CreateAsk(k)
    BY <2>1 DEF CreateAsk
  <2>2. CASE \E k \in Creators : CreateAdmit(k)
    BY <2>2 DEF CreateAdmit
  <2>3. CASE MinutePasses
    BY <2>3 DEF MinutePasses
  <2>4. CASE ShutdownAsk
    BY <2>4 DEF ShutdownAsk
  <2> QED BY <2>1, <2>2, <2>3, <2>4
<1> QED BY <1>1, GrowsNot, Silent DEF EntriesOk

\* The source opened: the session, if there is one, is new.
LEMMA OpenedStep ==
    ASSUME EntriesOk, AnalysesOk, SubsOk, NEW k \in Creators, CreateOpened(k)
    PROVE  StepOk
<1>0. UNCHANGED <<subs, analysers, stoppers, shutdown>>
  BY DEF CreateOpened
<1>1. CASE UNCHANGED <<held, entries>>
  BY <1>0, <1>1, GrowsNot, Silent DEF EntriesOk
<1>2. CASE ~UNCHANGED <<held, entries>>
  <2> DEFINE s == CHOOSE i \in Sessions : i \notin DOMAIN entries
  <2>1. /\ Sessions # DOMAIN entries /\ held' = held \cup {s}
        /\ entries' = [i \in DOMAIN entries \cup {s} |-> IF i = s THEN NewEntry ELSE entries[i]]
    BY <1>2 DEF CreateOpened
  <2>2. \E i \in Sessions : i \notin DOMAIN entries
    BY <2>1 DEF EntriesOk
  <2>3. s \in Sessions /\ s \notin DOMAIN entries
    BY <2>2
  <2> HIDE DEF s
  <2>4. EntryOk(NewEntry)
    BY DEF EntryOk, EntryFields, NewEntry
  <2>5. /\ DOMAIN entries' = DOMAIN entries \cup {s} /\ entries'[s] = NewEntry
        /\ \A i \in DOMAIN entries : entries'[i] = entries[i]
    BY <2>1, <2>3
  <2>6. EntriesGrow
    BY <2>3, <2>4, <2>5 DEF EntriesGrow, EntriesOk, EntryOk
  <2>7. AnalysesKept
    BY <2>5 DEF AnalysesKept
  <2>8. SubsFollow
    BY <1>0, <2>5, Unheard
  <2>9. /\ held' \subseteq DOMAIN entries' /\ DOMAIN stoppers' = Stoppers
        /\ \A h \in Stoppers :
              stoppers'[h].op # "IDLE" => stoppers'[h].session \in DOMAIN entries'
        /\ shutdown'.sessions \subseteq DOMAIN entries'
    BY <1>0, <2>1, <2>5 DEF EntriesOk
  <2> QED BY <1>0, <2>6, <2>7, <2>8, <2>9, Lives
<1> QED BY <1>1, <1>2

\* A session, or all of them, is told to end.
LEMMA EndAskStep ==
    ASSUME EntriesOk, AnalysesOk, SubsOk,
           \/ ShutdownCollect
           \/ \E h \in Stoppers, s \in Sessions, op \in {"CANCEL", "REMOVE"} : StopAsk(h, s, op)
    PROVE  StepOk
<1>0. \A e, origin : EntryOk(e) => /\ Grows(e, RequestEnd(e, origin))
                                   /\ RequestEnd(e, origin).seq = e.seq
  BY GrowsRequestEnd DEF RequestEnd, EntryOk, EntryFields
<1>1. CASE ShutdownCollect
  <2>1. /\ entries' = [s \in DOMAIN entries |->
                         IF s \in held THEN RequestEnd(entries[s], "SHUTDOWN") ELSE entries[s]]
        /\ shutdown'.sessions = held /\ UNCHANGED <<held, stoppers, analysers, subs>>
    BY <1>1 DEF ShutdownCollect
  <2>2. \A s \in DOMAIN entries :
          Grows(entries[s], entries'[s]) /\ entries'[s].seq = entries[s].seq
    BY <2>1, <1>0, GrowsNot DEF EntriesOk
  <2> QED BY <2>1, <2>2, Silent DEF EntriesOk
<1>2. ASSUME NEW h \in Stoppers, NEW s \in Sessions, NEW op \in {"CANCEL", "REMOVE"},
             StopAsk(h, s, op)
      PROVE  StepOk
  <2>1. /\ s \in held /\ s \in DOMAIN entries
        /\ entries' = [entries EXCEPT ![s] = RequestEnd(@, "USER_CANCELLED")]
        /\ stoppers' = [stoppers EXCEPT ![h] = [op |-> op, session |-> s]]
        /\ UNCHANGED <<held, shutdown, analysers, subs>>
    BY <1>2 DEF StopAsk, EntriesOk
  <2>2. \A i \in DOMAIN entries :
          Grows(entries[i], entries'[i]) /\ entries'[i].seq = entries[i].seq
    BY <2>1, <1>0, GrowsNot DEF EntriesOk
  <2> QED BY <2>1, <2>2, Silent DEF EntriesOk
<1> QED BY <1>1, <1>2

\* What a queue is once its session is told of an update: pushed to, and still its own.
LEMMA ToldPushed ==
    ASSUME NEW c \in Clients, NEW s, NEW e, subs[c] # None, subs[c] \in Subscribers,
           subs[c].session = s
    PROVE  \E ending \in {<<>>, <<Notice("END", e.seq)>>} :
              Told(s, e)[c] = Push(subs[c], Entries(entries[s].seq, e.seq) \o ending)
<1> DEFINE end == IF entries[s].origin = None /\ e.origin # None
                  THEN <<Notice("END", e.seq)>> ELSE <<>>
           news == Entries(entries[s].seq, e.seq)
<1>1. end \in {<<>>, <<Notice("END", e.seq)>>}
  OBVIOUS
<1>2. Told(s, e)[c] = IF Reads(c, s) THEN Push(subs[c], news \o end) ELSE subs[c]
  BY DEF Told
<1>3. Told(s, e)[c] = Push(subs[c], news \o end)
  BY <1>2 DEF Reads, Push
<1> HIDE DEF end, news
<1>4. \E ending \in {<<>>, <<Notice("END", e.seq)>>} :
        Told(s, e)[c] = Push(subs[c], news \o ending)
  BY <1>1, <1>3
<1> QED BY <1>4 DEF news

\* Closing the readers of sessions that end, once they were told.
LEMMA ToldAndClosed ==
    ASSUME NEW c \in Clients, NEW ended, NEW queues, NEW s, NEW e,
           subs[c] # None, subs[c] \in Subscribers, subs[c].session = s,
           queues[c] = Told(s, e)[c]
    PROVE  Heard(subs[c], ReadersClosed(ended, queues)[c], entries[s].seq, e.seq)
<1>1. PICK ending \in {<<>>, <<Notice("END", e.seq)>>} :
        queues[c] = Push(subs[c], Entries(entries[s].seq, e.seq) \o ending)
  BY ToldPushed
<1>2. ReadersClosed(ended, queues)[c] \in {queues[c], [queues[c] EXCEPT !.closed = TRUE]}
  BY DEF ReadersClosed
<1> QED BY <1>1, <1>2 DEF Heard

\* cancel and remove return.
LEMMA StopReturnStep ==
    ASSUME EntriesOk, AnalysesOk, SubsOk, NEW h \in Stoppers, StopReturn(h)
    PROVE  StepOk
<1> DEFINE s == stoppers[h].session
           f == Finished(entries[s])
<1>1. /\ s \in DOMAIN entries /\ entries' = [entries EXCEPT ![s] = f]
      /\ UNCHANGED <<analysers, shutdown>> /\ held' \subseteq held
      /\ stoppers' = [stoppers EXCEPT ![h] = [op |-> "IDLE", session |-> None]]
      /\ subs' = Told(s, f) \/ subs' = ReadersClosed({s}, Told(s, f))
  BY DEF StopReturn, AfterStop, EntriesOk
<1>2. Grows(entries[s], f)
  BY <1>1, GrowsFinished DEF EntriesOk
<1> HIDE DEF s, f
<1>3. EntriesGrow
  BY <1>1, <1>2 DEF EntriesGrow, EntriesOk, Grows, EntryOk
<1>4. AnalysesKept
  BY <1>1, <1>2 DEF AnalysesKept, Grows
<1>5. SubsFollow
  <2>1. CASE subs' = Told(s, f)
    <3>1. Update(s, f)
      BY <1>1, <2>1 DEF Update
    <3> QED BY <1>1, <1>2, <3>1, Updated DEF Grows
  <2>2. CASE subs' = ReadersClosed({s}, Told(s, f))
    <3>1. DOMAIN subs' = Clients
      BY <2>2 DEF ReadersClosed
    <3>2. ASSUME NEW c \in Clients, subs[c] = None
          PROVE  subs'[c] = None
      <4>1. Told(s, f)[c] = None
        BY <3>2, ToldNothing
      <4> QED BY <2>2, <4>1 DEF ReadersClosed
    <3>3. ASSUME NEW c \in Clients, subs[c] # None
          PROVE  Heard(subs[c], subs'[c], entries[subs[c].session].seq,
                       entries'[subs[c].session].seq)
      <4>0. subs[c] \in Subscribers /\ subs[c].session \in DOMAIN entries
        BY <3>3 DEF SubsOk
      <4>1. CASE subs[c].session = s
        <5>1. Heard(subs[c], subs'[c], entries[s].seq, f.seq)
          BY <2>2, <3>3, <4>0, <4>1, ToldAndClosed
        <5> QED BY <1>1, <4>1, <5>1
      <4>2. CASE subs[c].session # s
        <5>1. Told(s, f)[c] = subs[c]
          BY <3>3, <4>0, <4>2, ToldHeard
        <5>2. subs'[c] = subs[c]
          BY <2>2, <4>2, <5>1 DEF ReadersClosed
        <5>3. entries'[subs[c].session] = entries[subs[c].session]
          BY <1>1, <4>0, <4>2
        <5> QED BY <5>2, <5>3 DEF Heard
      <4> QED BY <4>1, <4>2
    <3> QED BY <3>1, <3>2, <3>3 DEF SubsFollow, Follows
  <2> QED BY <1>1, <2>1, <2>2
<1>6. /\ held' \subseteq DOMAIN entries' /\ DOMAIN stoppers' = Stoppers
      /\ \A i \in Stoppers : stoppers'[i].op # "IDLE" => stoppers'[i].session \in DOMAIN entries'
      /\ shutdown'.sessions \subseteq DOMAIN entries'
  BY <1>1 DEF EntriesOk
<1> QED BY <1>1, <1>3, <1>4, <1>5, <1>6, Lives

\* So does shutdown, for every session it waited for.
LEMMA ShutdownReturnStep ==
    ASSUME EntriesOk, AnalysesOk, SubsOk, ShutdownReturn
    PROVE  StepOk
<1> DEFINE queues == [c \in Clients |-> IF subs[c] = None THEN None
                        ELSE Told(subs[c].session, entries'[subs[c].session])[c]]
<1>1. /\ entries' = [s \in DOMAIN entries |->
                       IF s \in shutdown.sessions THEN Finished(entries[s]) ELSE entries[s]]
      /\ subs' = ReadersClosed(shutdown.sessions, queues)
      /\ shutdown'.sessions = shutdown.sessions
      /\ UNCHANGED <<held, stoppers, analysers>>
  <2>1. shutdown' = [shutdown EXCEPT !.phase = "DONE"]
    BY DEF ShutdownReturn
  <2>2. shutdown'.sessions = shutdown.sessions
    BY <2>1
  <2> QED BY <2>2, Zenon DEF ShutdownReturn, AfterStop
<1>2. \A s \in DOMAIN entries : Grows(entries[s], entries'[s])
  BY <1>1, GrowsFinished, GrowsNot DEF EntriesOk
<1>3. EntriesGrow
  BY <1>1, <1>2 DEF EntriesGrow, EntriesOk, Grows
<1>4. AnalysesKept
  BY <1>1, <1>2 DEF AnalysesKept, Grows
<1>5. SubsFollow
  <2>1. DOMAIN subs' = Clients
    BY <1>1 DEF ReadersClosed
  <2>2. ASSUME NEW c \in Clients, subs[c] = None
        PROVE  subs'[c] = None
    BY <1>1, <2>2 DEF ReadersClosed
  <2>3. ASSUME NEW c \in Clients, subs[c] # None
        PROVE  Heard(subs[c], subs'[c], entries[subs[c].session].seq,
                     entries'[subs[c].session].seq)
    <3>0. subs[c] \in Subscribers
      BY <2>3 DEF SubsOk
    <3>1. queues[c] = Told(subs[c].session, entries'[subs[c].session])[c]
      BY <2>3
    <3> HIDE DEF queues
    <3> QED BY <1>1, <2>3, <3>0, <3>1, ToldAndClosed
  <2> QED BY <2>1, <2>2, <2>3 DEF SubsFollow, Follows
<1>6. /\ held' \subseteq DOMAIN entries' /\ DOMAIN stoppers' = Stoppers
      /\ \A i \in Stoppers : stoppers'[i].op # "IDLE" => stoppers'[i].session \in DOMAIN entries'
      /\ shutdown'.sessions \subseteq DOMAIN entries'
  BY <1>1 DEF EntriesOk
<1> QED BY <1>1, <1>3, <1>4, <1>5, <1>6, Lives

-----------------------------------------------------------------------------
(***************************************************************************)
(* Analyses: the lock of a session is held by one handler at a time.       *)
(***************************************************************************)
\* What is known of a handler, from the entry of the session it analyses.
AnalyserOk(x, es) ==
    /\ x.phase # "IDLE" => x.session \in DOMAIN es
    /\ x.phase \in {"SLOT", "RUN"} => es[x.session].analysing
    /\ x.phase = "RUN" =>
          /\ x.version \in Nat /\ x.version <= es[x.session].version
          /\ es[x.session].cached # None => es[x.session].cached <= x.version

\* AnalysesOk, handler by handler.
LEMMA AnalysesAre ==
    AnalysesOk <=>
      /\ analysers \in [Analysers -> AnalyserStates]
      /\ \A a \in Analysers : AnalyserOk(analysers[a], entries)
      /\ \A a, b \in Analysers :
           /\ analysers[a].phase \in {"SLOT", "RUN"} /\ analysers[b].phase \in {"SLOT", "RUN"}
           /\ a # b
           => analysers[a].session # analysers[b].session
BY DEF AnalysesOk, AnalyserOk, Holding

\* A handler that holds no lock, or the lock of another session, sees nothing change.
LEMMA AnalyserElsewhere ==
    ASSUME NEW x, NEW es, NEW fs, AnalyserOk(x, es), DOMAIN fs = DOMAIN es, NEW t,
           \A s \in DOMAIN es : s # t => fs[s] = es[s],
           x.phase \in {"SLOT", "RUN"} => x.session # t
    PROVE  AnalyserOk(x, fs)
BY DEF AnalyserOk

\* An analysis is asked for.
LEMMA AnalyseAskStep ==
    ASSUME EntriesOk, AnalysesOk, SubsOk, NEW a \in Analysers, NEW s \in Sessions,
           AnalyseAsk(a, s)
    PROVE  StepOk
<1>1. /\ UNCHANGED <<entries, held, stoppers, shutdown, subs>> /\ s \in DOMAIN entries
      /\ analysers' = [analysers EXCEPT ![a] = [phase |-> "LOCK", session |-> s,
                                                version |-> None]]
  BY DEF AnalyseAsk, EntriesOk
<1>2. EntriesGrow
  BY <1>1 DEF EntriesGrow, EntriesOk, EntryOk
<1>3. AnalysesKept /\ SubsFollow
  BY <1>1, Unheard DEF AnalysesKept
<1>4. CacheForward
  BY <1>3, KeptForward
<1>5. EntriesOk'
  BY <1>1 DEF EntriesOk
<1>6. AnalysesOk'
  <2>1. analysers \in [Analysers -> AnalyserStates]
    BY DEF AnalysesOk
  <2>2. analysers' \in [Analysers -> AnalyserStates]
    BY <1>1, <2>1 DEF AnalyserStates
  <2>3. ASSUME NEW b \in Analysers PROVE AnalyserOk(analysers'[b], entries')
    BY <1>1, <2>1, AnalysesAre DEF AnalyserOk
  <2>4. \A b, c \in Analysers :
          /\ analysers'[b].phase \in {"SLOT", "RUN"} /\ analysers'[c].phase \in {"SLOT", "RUN"}
          /\ b # c
          => analysers'[b].session # analysers'[c].session
    BY <1>1, <2>1, AnalysesAre
  <2> QED BY <2>2, <2>3, <2>4 DEF AnalysesOk, AnalyserOk, Holding
<1> QED BY <1>2, <1>3, <1>4, <1>5, <1>6 DEF StepOk

\* The lock is taken: nobody else holds the lock of that session.
LEMMA AnalyseLockStep ==
    ASSUME EntriesOk, AnalysesOk, SubsOk, NEW a \in Analysers, AnalyseLock(a)
    PROVE  StepOk
<1> DEFINE t == analysers[a].session
<1>0. analysers \in [Analysers -> AnalyserStates]
  BY DEF AnalysesOk
<1>1. /\ UNCHANGED <<held, stoppers, shutdown, subs>> /\ t \in DOMAIN entries
      /\ ~entries[t].analysing
      /\ analysers' = [analysers EXCEPT ![a].phase = "SLOT"]
      /\ entries' = [entries EXCEPT ![t].analysing = TRUE]
  BY AnalysesAre DEF AnalyseLock, AnalyserOk, MayAnalyse
<1>2. EntryOk(entries[t])
  BY <1>1 DEF EntriesOk
<1>3. /\ EntryOk(entries'[t]) /\ entries'[t].seq = entries[t].seq
      /\ entries'[t].version = entries[t].version /\ entries'[t].cached = entries[t].cached
      /\ entries'[t].analysing = TRUE
      /\ DOMAIN entries' = DOMAIN entries
      /\ \A s \in DOMAIN entries : s # t => entries'[s] = entries[s]
  BY <1>1, <1>2 DEF EntryOk, EntryFields
<1>4. /\ analysers'[a].phase = "SLOT" /\ analysers'[a].session = t
      /\ analysers'[a].version = analysers[a].version
      /\ analysers'[a] \in AnalyserStates
      /\ \A b \in Analysers : b # a => analysers'[b] = analysers[b]
      /\ DOMAIN analysers' = Analysers
  BY <1>0, <1>1 DEF AnalyserStates
<1>4a. \A b \in Analysers : analysers[b].phase \in {"SLOT", "RUN"} => analysers[b].session # t
  BY <1>1, AnalysesAre DEF AnalyserOk
<1> HIDE DEF t
<1>5. EntriesGrow
  BY <1>3 DEF EntriesGrow, EntriesOk, EntryOk
<1>6. CacheForward
  BY <1>3 DEF CacheForward, EntriesOk, EntryOk
<1>7. SubsFollow
  BY <1>1, <1>3, Unheard
<1>8. EntriesOk'
  BY <1>1, <1>3 DEF EntriesOk
<1>9. AnalysesOk'
  <2>1. analysers' \in [Analysers -> AnalyserStates]
    BY <1>0, <1>1 DEF AnalyserStates
  <2>2. ASSUME NEW b \in Analysers PROVE AnalyserOk(analysers'[b], entries')
    <3>1. CASE b = a
      BY <3>1, <1>1, <1>3, <1>4 DEF AnalyserOk
    <3>2. CASE b # a
      <4>1. AnalyserOk(analysers[b], entries)
        BY AnalysesAre
      <4> QED BY <3>2, <4>1, <1>3, <1>4, <1>4a, AnalyserElsewhere
    <3> QED BY <3>1, <3>2
  <2>3. \A b, c \in Analysers :
          /\ analysers'[b].phase \in {"SLOT", "RUN"} /\ analysers'[c].phase \in {"SLOT", "RUN"}
          /\ b # c
          => analysers'[b].session # analysers'[c].session
    BY <1>4, <1>4a, AnalysesAre
  <2> QED BY <2>1, <2>2, <2>3 DEF AnalysesOk, AnalyserOk, Holding
<1> QED BY <1>5, <1>6, <1>7, <1>8, <1>9 DEF StepOk

\* The handler returns, with the cache where it was or ahead of it.
LEMMA AnalysisDoneStep ==
    ASSUME EntriesOk, AnalysesOk, SubsOk, NEW a \in Analysers,
           analysers[a].phase \in {"SLOT", "RUN"}, NEW e, EntryOk(e),
           e.seq = entries[analysers[a].session].seq,
           e.version = entries[analysers[a].session].version,
           entries[analysers[a].session].cached # None =>
              e.cached >= entries[analysers[a].session].cached,
           AnalysisDone(a, e)
    PROVE  StepOk
<1> DEFINE t == analysers[a].session
           f == [e EXCEPT !.analysing = FALSE]
           g == Appended(f, 1)
<1>0. analysers \in [Analysers -> AnalyserStates]
  BY DEF AnalysesOk
<1>1. /\ UNCHANGED <<held, stoppers, shutdown>> /\ t \in DOMAIN entries
      /\ analysers' = [analysers EXCEPT ![a] = [phase |-> "IDLE", session |-> None,
                                                version |-> None]]
      /\ Update(t, g)
  BY AnalysesAre DEF AnalysisDone, AnalyserOk
<1>2. EntryOk(f) /\ f.seq = e.seq /\ f.version = e.version /\ f.cached = e.cached
  BY DEF EntryOk, EntryFields
<1> HIDE DEF f
<1>3. Grows(f, g)
  BY <1>2, GrowsAppended
<1>4. /\ EntryOk(g) /\ entries[t].seq <= g.seq /\ entries[t].version <= g.version
      /\ g.cached = e.cached
  BY <1>2, <1>3 DEF Grows
<1> HIDE DEF g
<1>5. EntriesGrow /\ SubsFollow /\ entries' = [entries EXCEPT ![t] = g]
  BY <1>1, <1>4, Updated
<1>6. CacheForward
  BY <1>4, <1>5 DEF CacheForward, EntriesOk, EntryOk
<1>7. EntriesOk'
  BY <1>1, <1>5 DEF EntriesOk, EntriesGrow
<1>8. AnalysesOk'
  <2>1. analysers' \in [Analysers -> AnalyserStates]
    BY <1>0, <1>1 DEF AnalyserStates
  <2>2. ASSUME NEW b \in Analysers PROVE AnalyserOk(analysers'[b], entries')
    <3>1. CASE b = a
      BY <3>1, <1>0, <1>1 DEF AnalyserOk
    <3>2. CASE b # a
      <4>1. AnalyserOk(analysers[b], entries) /\ analysers'[b] = analysers[b]
        BY <1>0, <1>1, <3>2, AnalysesAre
      <4>2. analysers[b].phase \in {"SLOT", "RUN"} => analysers[b].session # t
        BY <3>2, AnalysesAre
      <4>3. /\ DOMAIN entries' = DOMAIN entries
            /\ \A s \in DOMAIN entries : s # t => entries'[s] = entries[s]
        BY <1>5
      <4> HIDE DEF t
      <4> QED BY <4>1, <4>2, <4>3, AnalyserElsewhere
    <3> QED BY <3>1, <3>2
  <2>3. \A b, c \in Analysers :
          /\ analysers'[b].phase \in {"SLOT", "RUN"} /\ analysers'[c].phase \in {"SLOT", "RUN"}
          /\ b # c
          => analysers'[b].session # analysers'[c].session
    BY <1>0, <1>1, AnalysesAre
  <2> QED BY <2>1, <2>2, <2>3 DEF AnalysesOk, AnalyserOk, Holding
<1> QED BY <1>5, <1>6, <1>7, <1>8 DEF StepOk

\* An analysis starts, or returns at once.
LEMMA AnalyseStartStep ==
    ASSUME EntriesOk, AnalysesOk, SubsOk, NEW a \in Analysers, AnalyseStart(a)
    PROVE  StepOk
<1> DEFINE t == analysers[a].session
           e == entries[t]
<1>0. /\ analysers \in [Analysers -> AnalyserStates]
      /\ analysers[a].phase = "SLOT" /\ t \in DOMAIN entries /\ e.analysing
  BY AnalysesAre DEF AnalyseStart, AnalyserOk
<1>1. EntryOk(e)
  BY <1>0 DEF EntriesOk
<1>2. CASE AnalysisDone(a, e)
  BY <1>0, <1>1, <1>2, AnalysisDoneStep DEF EntryOk
<1>3. CASE ~AnalysisDone(a, e)
  <2>1. /\ UNCHANGED <<entries, held, stoppers, shutdown, subs>>
        /\ analysers' = [analysers EXCEPT ![a].phase = "RUN", ![a].version = e.version]
    BY <1>3 DEF AnalyseStart
  <2>2. EntriesGrow
    BY <2>1 DEF EntriesGrow, EntriesOk, EntryOk
  <2>3. AnalysesKept /\ SubsFollow
    BY <2>1, Unheard DEF AnalysesKept
  <2>4. CacheForward
    BY <2>3, KeptForward
  <2>5. EntriesOk'
    BY <2>1 DEF EntriesOk
  <2>6. /\ analysers'[a].phase = "RUN" /\ analysers'[a].session = t
        /\ analysers'[a].version = e.version
        /\ \A b \in Analysers : b # a => analysers'[b] = analysers[b]
        /\ analysers' \in [Analysers -> AnalyserStates]
    BY <1>0, <1>1, <2>1 DEF AnalyserStates, EntryOk
  <2>7. AnalysesOk'
    <3>1. ASSUME NEW b \in Analysers PROVE AnalyserOk(analysers'[b], entries')
      <4>1. CASE b = a
        BY <4>1, <1>0, <1>1, <2>1, <2>6 DEF AnalyserOk, EntryOk
      <4>2. CASE b # a
        BY <4>2, <2>1, <2>6, AnalysesAre
      <4> QED BY <4>1, <4>2
    <3>2. \A b, c \in Analysers :
            /\ analysers'[b].phase \in {"SLOT", "RUN"}
            /\ analysers'[c].phase \in {"SLOT", "RUN"}
            /\ b # c
            => analysers'[b].session # analysers'[c].session
      BY <1>0, <2>6, AnalysesAre
    <3> QED BY <2>6, <3>1, <3>2 DEF AnalysesOk, AnalyserOk, Holding
  <2> QED BY <2>2, <2>3, <2>4, <2>5, <2>7 DEF StepOk
<1> QED BY <1>2, <1>3

\* An analysis ends, with an answer or without.
LEMMA AnalyseEndStep ==
    ASSUME EntriesOk, AnalysesOk, SubsOk, NEW a \in Analysers, AnalyseEnd(a)
    PROVE  StepOk
<1> DEFINE t == analysers[a].session
           e == entries[t]
           v == analysers[a].version
           f == [e EXCEPT !.cached = v]
<1>0. /\ analysers[a].phase = "RUN" /\ t \in DOMAIN entries
      /\ v \in Nat /\ v <= e.version /\ (e.cached # None => e.cached <= v)
  BY AnalysesAre DEF AnalyseEnd, AnalyserOk
<1>1. EntryOk(e)
  BY <1>0 DEF EntriesOk
<1>2. CASE AnalysisDone(a, e)
  BY <1>0, <1>1, <1>2, AnalysisDoneStep DEF EntryOk
<1>3. CASE AnalysisDone(a, f)
  <2>1. EntryOk(f) /\ f.seq = e.seq /\ f.version = e.version /\ f.cached = v
    BY <1>0, <1>1 DEF EntryOk, EntryFields
  <2>2. e.cached # None => f.cached >= e.cached
    BY <1>0, <1>1, <2>1 DEF EntryOk
  <2> HIDE DEF f
  <2> QED BY <1>0, <1>3, <2>1, <2>2, AnalysisDoneStep
<1> QED BY <1>2, <1>3 DEF AnalyseEnd

\* Every step of the workspace.
LEMMA WorkspaceStep ==
    ASSUME EntriesOk, AnalysesOk, SubsOk, Workspace
    PROVE  StepOk
<1>1. ASSUME NEW s \in Sessions, Offer(s) \/ Task(s) \/ Breaks(s) \/ Deadline(s) \/ GoesStale(s)
      PROVE  StepOk
  BY <1>1, OfferStep, TaskStep
<1>2. ASSUME NEW k \in Creators, CreateAsk(k) \/ CreateAdmit(k) \/ CreateOpened(k)
      PROVE  StepOk
  BY <1>2, AskStep, OpenedStep
<1>3. ASSUME \/ MinutePasses \/ ShutdownAsk
      PROVE  StepOk
  BY <1>3, AskStep
<1>4. ASSUME \/ ShutdownCollect
             \/ \E h \in Stoppers, s \in Sessions, op \in {"CANCEL", "REMOVE"} : StopAsk(h, s, op)
      PROVE  StepOk
  BY <1>4, EndAskStep
<1>5. ASSUME NEW a \in Analysers, Analyse(a)
      PROVE  StepOk
  BY <1>5, AnalyseLockStep, AnalyseStartStep, AnalyseEndStep DEF Analyse
<1> QED BY <1>1, <1>2, <1>3, <1>4, <1>5, StopReturnStep, ShutdownReturnStep, AnalyseAskStep
    DEF Workspace

-----------------------------------------------------------------------------
(***************************************************************************)
(* What a client does itself.                                              *)
(***************************************************************************)
\* What a step of one client asks of the rest.
LEMMA ClientMoves ==
    ASSUME EntriesOk, AnalysesOk, ClientsOk, NEW c \in Clients, NEW next,
           client' = [client EXCEPT ![c] = next],
           UNCHANGED <<held, stoppers, analysers, shutdown>>,
           EntriesGrow, AnalysesKept, DOMAIN subs' = Clients,
           \A d \in Clients : d # c => Follows(d),
           ClientOk(next, subs'[c], entries')
    PROVE  EntriesOk' /\ AnalysesOk' /\ ClientsOk' /\ CacheForward
<1>1. EntriesOk'
  BY DEF EntriesOk, EntriesGrow
<1>2. AnalysesOk'
  BY AnalysesUndisturbed
<1>3. CacheForward
  BY KeptForward
<1>4. next \in ClientStates /\ client \in [Clients -> ClientStates]
  BY DEF ClientOk, ClientsOk
<1>5. client' \in [Clients -> ClientStates]
  BY <1>4
<1>6. ASSUME NEW d \in Clients PROVE ClientOk(client'[d], subs'[d], entries')
  <2>1. CASE d = c
    BY <1>4, <2>1
  <2>2. CASE d # c
    <3>1. ClientOk(client[d], subs[d], entries)
      BY DEF ClientsOk
    <3>2. ClientOk(client[d], subs'[d], entries')
      BY <2>2, <3>1, ClientFollows
    <3> QED BY <1>4, <2>2, <3>2
  <2> QED BY <2>1, <2>2
<1>7. ClientsOk'
  BY <1>5, <1>6 DEF ClientsOk
<1> QED BY <1>1, <1>2, <1>3, <1>7

\* A read of the API evaluates the session and tells its readers.
LEMMA EvaluatedUpdate ==
    ASSUME EntriesOk, SubsOk, NEW s \in DOMAIN entries, Update(s, Evaluated(entries[s]))
    PROVE  /\ EntriesGrow /\ SubsFollow /\ AnalysesKept
           /\ entries'[s] = Evaluated(entries[s]) /\ EntryOk(entries'[s])
           /\ entries[s].seq <= entries'[s].seq
<1> DEFINE e == Evaluated(entries[s])
<1>1. EntryOk(entries[s])
  BY DEF EntriesOk
<1>2. Grows(entries[s], e)
  BY <1>1, GrowsEvaluated
<1> HIDE DEF e
<1>3. Update(s, e)
  BY DEF e
<1>4. EntryOk(e) /\ entries[s].seq <= e.seq /\ entries[s].version <= e.version
  BY <1>2 DEF Grows
<1>5. EntriesGrow /\ SubsFollow /\ entries' = [entries EXCEPT ![s] = e]
  BY <1>3, <1>4, Updated
<1>6. AnalysesKept
  BY <1>2, <1>5 DEF AnalysesKept, Grows
<1> QED BY <1>4, <1>5, <1>6 DEF e

\* Nothing happens to the sessions and queues of the others.
LEMMA OthersFollow ==
    ASSUME EntriesOk, SubsOk, entries' = entries, NEW c,
           \A d \in Clients : d # c => subs'[d] = subs[d]
    PROVE  /\ EntriesGrow /\ AnalysesKept
           /\ \A d \in Clients : d # c => Follows(d)
BY DEF EntriesGrow, AnalysesKept, Follows, Heard, EntriesOk, EntryOk

\* What every client that has chosen a session has.
LEMMA ClientHas ==
    ASSUME EntriesOk, ClientsOk, NEW c \in Clients, client[c].phase # "OFF"
    PROVE  LET x == client[c]
               e == entries[x.session]
           IN  /\ x \in ClientStates /\ x.session \in DOMAIN entries /\ EntryOk(e)
               /\ x.cursor <= e.seq /\ x.snapshot <= e.seq
               /\ x.phase # "OPEN" => subs[c] = None
               /\ x.gap \/ Spanned(x)
               /\ AnswersOk(x, e.seq) /\ Reached(x)
<1>1. ClientOk(client[c], subs[c], entries)
  BY DEF ClientsOk
<1>2. client[c] # NoClient
  BY DEF NoClient
<1> QED BY <1>1, <1>2 DEF ClientOk, EntriesOk

\* A client without a queue.
LEMMA QueuelessOk ==
    ASSUME NEW y \in ClientStates, NEW es, y.session \in DOMAIN es,
           y.phase \notin {"OFF", "OPEN"}, y.cursor <= es[y.session].seq,
           y.snapshot <= es[y.session].seq, y.phase = "CONNECTING" => y.snapshot <= y.cursor,
           AnswersOk(y, es[y.session].seq), y.gap \/ Spanned(y), Reached(y)
    PROVE  ClientOk(y, None, es)
BY DEF ClientOk

\* A client that only moves on with what it has.
LEMMA AlikeOk ==
    ASSUME NEW x \in ClientStates, NEW y \in ClientStates, Alike(x, y), x.gap \/ Spanned(x),
           y.gap \/ y.gap = x.gap, NEW last, AnswersOk(x, last),
           \/ y.phase \notin {"RESYNC", "NEXT_PAGE"}
           \/ y.from = x.cursor
           \/ /\ y.from = x.from /\ y.gap = x.gap
              /\ x.phase \in {"RESYNC", "NEXT_PAGE"} /\ Reached(x)
    PROVE  (y.gap \/ Spanned(y)) /\ AnswersOk(y, last) /\ Reached(y)
<1>0. /\ x.cursor \in Nat /\ x.gap \in BOOLEAN /\ y.gap \in BOOLEAN
      /\ y.cursor = x.cursor /\ y.timeline = x.timeline /\ y.passed = x.passed
      /\ y.asks = x.asks
  BY DEF ClientStates, Alike
<1>1. (y.gap \/ Spanned(y)) /\ AnswersOk(y, last)
  <2>1. Spanned(x) => Spanned(y)
    BY <1>0 DEF Spanned, Spans
  <2>2. AnswersOk(y, last)
    BY <1>0 DEF AnswersOk
  <2> QED BY <1>0, <2>1, <2>2
<1>2. CASE y.from = x.cursor
  <2>1. y.from <= y.cursor /\ \A n \in y.from + 1 .. y.cursor : FALSE
    BY <1>0, <1>2
  <2> QED BY <1>1, <2>1 DEF Reached
<1>3. CASE y.phase \notin {"RESYNC", "NEXT_PAGE"}
  BY <1>1, <1>3 DEF Reached
<1>4. CASE y.from = x.from /\ y.gap = x.gap /\ x.phase \in {"RESYNC", "NEXT_PAGE"} /\ Reached(x)
  BY <1>0, <1>1, <1>4 DEF Reached
<1> QED BY <1>1, <1>2, <1>3, <1>4

\* Answers stay within a timeline that grows.
LEMMA AnswersLast ==
    ASSUME NEW x \in ClientStates, NEW n \in Nat, NEW m \in Nat, n <= m, AnswersOk(x, n)
    PROVE  AnswersOk(x, m)
<1> SUFFICES ASSUME NEW a \in x.asks, a.cursor # None PROVE a.cursor <= m
  BY DEF AnswersOk
<1>1. a.cursor \in Nat /\ a.cursor <= n
  BY DEF AnswersOk, ClientStates, Asks
<1> QED BY <1>1

\* One that leaves its stream keeps the rest.
LEMMA PhaseOk ==
    ASSUME NEW x \in ClientStates, NEW es, x.session \in DOMAIN es,
           x.cursor <= es[x.session].seq, x.snapshot <= es[x.session].seq,
           AnswersOk(x, es[x.session].seq), x.gap \/ Spanned(x),
           NEW phase \in {"LOST", "GONE", "CLOSED", "RESYNC"}, NEW y, Alike(x, y),
           y \in ClientStates, y.phase = phase, y.snapshot = x.snapshot,
           y.gap \/ y.gap = x.gap, phase = "RESYNC" => y.from = x.cursor
    PROVE  ClientOk(y, None, es)
<1>1. (y.gap \/ Spanned(y)) /\ AnswersOk(y, es[x.session].seq) /\ Reached(y)
  BY AlikeOk
<1>2. y.session = x.session /\ y.cursor = x.cursor
  BY DEF Alike
<1> QED BY <1>1, <1>2, QueuelessOk

\* A client whose connection is lost.
LEMMA LostOk ==
    ASSUME NEW c \in Clients, NEW es, client[c] \in ClientStates,
           client[c].session \in DOMAIN es,
           client[c].cursor <= es[client[c].session].seq,
           client[c].snapshot <= es[client[c].session].seq,
           AnswersOk(client[c], es[client[c].session].seq),
           client[c].gap \/ Spanned(client[c])
    PROVE  Lost(c) \in ClientStates /\ Lost(c).phase = "LOST" /\ ClientOk(Lost(c), None, es)
<1> DEFINE x == client[c]
           y == Lost(c)
<1>1. /\ y \in ClientStates /\ y.phase = "LOST" /\ Alike(x, y)
      /\ y.snapshot = x.snapshot /\ y.gap = x.gap
  BY DEF Lost, ClientStates, Phases, Alike
<1> HIDE DEF y, x
<1>2. ClientOk(y, None, es)
  <2> USE DEF x
  <2> QED BY <1>1, PhaseOk
<1> QED BY <1>1, <1>2 DEF y

\* open: a session is chosen.
LEMMA ChooseStep ==
    ASSUME EntriesOk, AnalysesOk, ClientsOk, SubsOk, NEW c \in Clients, NEW s \in Sessions,
           Choose(c, s)
    PROVE  EntriesOk' /\ AnalysesOk' /\ ClientsOk' /\ CacheForward
<1> DEFINE next == [NoClient EXCEPT !.session = s, !.phase = "OPENING"]
<1>1. /\ client' = [client EXCEPT ![c] = next] /\ UNCHANGED <<entries, subs>>
      /\ UNCHANGED <<held, stoppers, analysers, shutdown>>
      /\ s \in DOMAIN entries /\ client[c].phase = "OFF"
  BY DEF Choose, OnlyClient, EntriesOk
<1>2. EntriesGrow /\ AnalysesKept /\ \A d \in Clients : d # c => Follows(d)
  BY <1>1, OthersFollow
<1>3. subs[c] = None
  BY <1>1 DEF ClientsOk, ClientOk
<1>4. entries[s].seq \in Nat
  BY <1>1 DEF EntriesOk, EntryOk
<1>5. /\ NoClient \in ClientStates /\ NoClient.cursor = 0 /\ NoClient.snapshot = 0
      /\ NoClient.timeline = {} /\ NoClient.asks = {}
  BY DEF NoClient, ClientStates, Phases
<1>6. /\ next \in ClientStates /\ next.session = s /\ next.phase = "OPENING"
      /\ next.cursor = 0 /\ next.snapshot = 0 /\ next.timeline = {} /\ next.asks = {}
  BY <1>5 DEF ClientStates, Phases
<1> HIDE DEF next
<1>7. ClientOk(next, None, entries)
  <2>1. Spanned(next) /\ Reached(next) /\ AnswersOk(next, entries[s].seq)
    BY <1>6 DEF Spanned, Spans, Reached, AnswersOk
  <2> QED BY <1>1, <1>4, <1>6, <2>1, QueuelessOk
<1>8. DOMAIN subs' = Clients
  BY <1>1 DEF SubsOk
<1> QED BY <1>1, <1>2, <1>3, <1>7, <1>8, ClientMoves

\* A client that learns its session is gone.
LEMMA GoneStep ==
    ASSUME EntriesOk, AnalysesOk, ClientsOk, SubsOk, NEW c \in Clients,
           client[c].phase \notin {"OFF", "OPEN"}, OnlyClient(c, Gone(c)),
           UNCHANGED <<entries, subs>>
    PROVE  EntriesOk' /\ AnalysesOk' /\ ClientsOk' /\ CacheForward
<1> DEFINE next == Gone(c)
<1>1. /\ client' = [client EXCEPT ![c] = next]
      /\ UNCHANGED <<held, stoppers, analysers, shutdown>>
  BY DEF OnlyClient
<1>2. EntriesGrow /\ AnalysesKept /\ \A d \in Clients : d # c => Follows(d)
  BY OthersFollow
<1>3. /\ client[c] \in ClientStates /\ client[c].session \in DOMAIN entries
      /\ client[c].cursor <= entries[client[c].session].seq
      /\ client[c].snapshot <= entries[client[c].session].seq
      /\ subs[c] = None
      /\ client[c].gap \/ Spanned(client[c])
      /\ AnswersOk(client[c], entries[client[c].session].seq)
  BY ClientHas
<1>4. /\ next \in ClientStates /\ next.phase = "GONE" /\ Alike(client[c], next)
      /\ next.snapshot = client[c].snapshot /\ next.gap = client[c].gap
  BY <1>3 DEF Gone, ClientStates, Phases, Alike
<1> HIDE DEF next
<1>5. ClientOk(next, None, entries)
  BY <1>3, <1>4, PhaseOk
<1>6. DOMAIN subs' = Clients
  BY DEF SubsOk
<1> QED BY <1>1, <1>2, <1>3, <1>5, <1>6, ClientMoves

\* The snapshot is read.
LEMMA ReadSnapshotStep ==
    ASSUME EntriesOk, AnalysesOk, ClientsOk, SubsOk, NEW c \in Clients, ReadSnapshot(c)
    PROVE  EntriesOk' /\ AnalysesOk' /\ ClientsOk' /\ CacheForward
<1> DEFINE x == client[c]
           s == x.session
           e == Evaluated(entries[s])
           next == [x EXCEPT !.snapshot = e.seq, !.ended = Lifecycle(e) = "ENDED",
                             !.phase = IF @ = "OPENING" THEN "FIRST_PAGE" ELSE "NEXT_PAGE"]
<1>0. x.phase \in {"OPENING", "RESYNC"}
  BY DEF ReadSnapshot
<1>1. CASE OnlyClient(c, Gone(c)) /\ UNCHANGED <<entries, subs>>
  BY <1>0, <1>1, GoneStep
<1>2. CASE s \in held /\ Update(s, e) /\ OnlyClient(c, next)
  <2>1. /\ x \in ClientStates /\ s \in DOMAIN entries /\ x.cursor <= entries[s].seq
        /\ subs[c] = None /\ (x.gap \/ Spanned(x))
        /\ AnswersOk(x, entries[s].seq) /\ Reached(x)
    BY <1>0, ClientHas
  <2>2. /\ EntriesGrow /\ SubsFollow /\ AnalysesKept /\ entries'[s] = e
        /\ EntryOk(e) /\ entries[s].seq <= e.seq
    BY <1>2, <2>1, EvaluatedUpdate
  <2>3. e.seq \in Nat /\ entries[s].seq \in Nat /\ s \in DOMAIN entries'
    BY <2>1, <2>2 DEF EntriesOk, EntryOk, EntriesGrow
  <2>4. (Lifecycle(e) = "ENDED") \in BOOLEAN
    OBVIOUS
  <2> HIDE DEF e
  <2>5. /\ next \in ClientStates /\ Alike(x, next) /\ next.snapshot = e.seq
        /\ next.gap = x.gap /\ next.from = x.from
        /\ next.phase = IF x.phase = "OPENING" THEN "FIRST_PAGE" ELSE "NEXT_PAGE"
    BY <2>1, <2>3, <2>4 DEF ClientStates, Phases, Alike
  <2>6. client' = [client EXCEPT ![c] = next] /\ UNCHANGED <<held, stoppers, analysers, shutdown>>
    BY <1>2 DEF OnlyClient
  <2> HIDE DEF next
  <2>7. x.cursor \in Nat
    BY <2>1 DEF ClientStates
  <2>8. next.cursor <= entries'[s].seq /\ next.snapshot <= entries'[s].seq
    BY <2>1, <2>2, <2>3, <2>5, <2>7 DEF Alike
  <2>9. ClientOk(next, None, entries')
    <3>1. AnswersOk(x, e.seq)
      BY <2>1, <2>2, <2>3, AnswersLast
    <3>2. (next.gap \/ Spanned(next)) /\ AnswersOk(next, e.seq) /\ Reached(next)
      <4>1. CASE x.phase = "OPENING"
        <5>1. next.phase \notin {"RESYNC", "NEXT_PAGE"}
          BY <2>5, <4>1
        <5> HIDE DEF x
        <5> QED BY <2>1, <2>5, <3>1, <5>1, AlikeOk
      <4>2. CASE x.phase = "RESYNC"
        <5> HIDE DEF x
        <5> QED BY <2>1, <2>5, <3>1, <4>2, AlikeOk
      <4> QED BY <1>0, <4>1, <4>2
    <3>3. next.session = s /\ next.phase \notin {"OFF", "OPEN", "CONNECTING"}
      BY <2>5 DEF Alike
    <3> QED BY <2>2, <2>3, <2>5, <2>8, <3>2, <3>3, QueuelessOk
  <2>10. subs'[c] = None /\ DOMAIN subs' = Clients
    BY <2>1, <2>2 DEF SubsFollow, Follows
  <2> QED BY <2>2, <2>6, <2>9, <2>10, ClientMoves DEF SubsFollow
<1> QED BY <1>1, <1>2 DEF ReadSnapshot

\* How far a page reaches.
LEMMA PageReach ==
    ASSUME NEW e, EntryOk(e), NEW after \in Int
    PROVE  /\ PageEnd(e, after) \in Int /\ PageEnd(e, after) >= after + PageMax
           /\ PageAfter(e, after) \subseteq Nat
<1>1. e.oldest - 1 \in Int /\ e.oldest \in Nat /\ e.seq \in Nat /\ PageMax \in Nat
  BY Bounds DEF EntryOk
<1> DEFINE k == Max({after, e.oldest - 1})
<1>2. k \in Int /\ k >= after
  BY <1>1, MaxOfTwo
<1> HIDE DEF k
<1>3. PageEnd(e, after) = k + PageMax
  BY DEF PageEnd, k
<1> QED BY <1>1, <1>2, <1>3 DEF PageAfter

\* A snapshot with entries that continue what the client has leaves no other hole than
\* the numbers it passes.
LEMMA AcceptSpans ==
    ASSUME NEW x \in ClientStates, NEW snapshot \in Nat, NEW page \in SUBSET Nat,
           NEW gap \in BOOLEAN, x.gap \/ Spanned(x),
           ~x.gap => \A first \in page : \A n \in first..x.cursor :
                      n \in x.timeline \cup page \cup x.passed
    PROVE  LET y == Accept(x, snapshot, page, gap)
           IN  /\ y \in ClientStates /\ y.session = x.session /\ y.snapshot = x.snapshot
               /\ y.phase = x.phase /\ y.from = x.from /\ y.asks = x.asks
               /\ y.ended = x.ended
               /\ y.cursor >= snapshot /\ y.cursor >= x.cursor
               /\ y.cursor \in {x.cursor, snapshot}
               /\ y.gap \/ Spanned(y)
               /\ x.timeline \cup x.passed \subseteq y.timeline \cup y.passed
               /\ y.gap \in BOOLEAN /\ (x.gap => y.gap)
               /\ ~y.gap => \A n \in x.cursor + 1 .. y.cursor : n \in y.timeline \cup y.passed
<1> DEFINE y == Accept(x, snapshot, page, gap)
           shown == x.timeline \cup page
           hidden == IF gap THEN {} ELSE (x.cursor + 1 .. snapshot) \ shown
<1>0. /\ x.cursor \in Nat /\ x.timeline \subseteq Nat /\ x.passed \subseteq Nat
      /\ x.gap \in BOOLEAN
  BY DEF ClientStates
<1>1. CASE snapshot < x.cursor
  <2>1. y = x
    BY <1>1 DEF Accept
  <2> HIDE DEF y
  <2> QED BY <2>1, <1>0, <1>1 DEF y
<1>2. CASE ~(snapshot < x.cursor)
  <2>1. shown \in SUBSET Nat /\ x.passed \cup hidden \in SUBSET Nat
    <3>1. shown \in SUBSET Nat
      BY <1>0
    <3>2. x.cursor + 1 .. snapshot \in SUBSET Nat
      BY <1>0
    <3>3. hidden \subseteq x.cursor + 1 .. snapshot
      OBVIOUS
    <3> HIDE DEF hidden, shown
    <3> QED BY <1>0, <3>1, <3>2, <3>3
  <2>2. (x.gap \/ gap) \in BOOLEAN
    OBVIOUS
  <2>3. y = [x EXCEPT !.cursor = snapshot, !.timeline = shown, !.gap = @ \/ gap,
                      !.passed = @ \cup hidden]
    BY <1>2 DEF Accept
  <2> HIDE DEF hidden, shown, y
  <2>4. /\ y \in ClientStates /\ y.session = x.session /\ y.snapshot = x.snapshot
        /\ y.phase = x.phase /\ y.from = x.from /\ y.asks = x.asks /\ y.ended = x.ended
        /\ y.cursor = snapshot /\ y.timeline = shown /\ y.passed = x.passed \cup hidden
        /\ y.gap = (x.gap \/ gap)
    BY <2>1, <2>2, <2>3 DEF ClientStates
  <2>5. ~y.gap => \A n \in x.cursor + 1 .. snapshot : n \in y.timeline \cup y.passed
    BY <2>4 DEF hidden
  <2>6. x.timeline \cup x.passed \subseteq y.timeline \cup y.passed
    BY <2>4 DEF shown
  <2>7. y.cursor >= snapshot /\ y.cursor >= x.cursor
    BY <1>0, <1>2, <2>4
  <2>8. ASSUME ~y.gap PROVE Spanned(y)
    <3>1. ~x.gap /\ ~gap
      BY <2>4, <2>8, Zenon
    <3>2. Spanned(x)
      BY <3>1
    <3> SUFFICES ASSUME NEW first \in shown, NEW n \in first..snapshot
                 PROVE  n \in y.timeline \cup y.passed
      BY <2>4 DEF Spanned, Spans
    <3>3. first \in Nat /\ n \in Int /\ first <= n /\ n <= snapshot
      BY <2>1
    <3>4. CASE n > x.cursor
      BY <1>0, <2>5, <2>8, <3>3, <3>4
    <3>5. CASE n <= x.cursor
      <4>1. n \in first..x.cursor
        BY <1>0, <3>3, <3>5
      <4>2. CASE first \in x.timeline
        <5>1. n \in x.timeline \cup x.passed
          BY <3>2, <4>1, <4>2 DEF Spanned, Spans
        <5> QED BY <2>6, <5>1
      <4>3. CASE first \in page
        <5>1. n \in x.timeline \cup page \cup x.passed
          BY <3>1, <4>1, <4>3
        <5> QED BY <2>4, <5>1 DEF shown
      <4> QED BY <4>2, <4>3 DEF shown
    <3> QED BY <1>0, <3>3, <3>4, <3>5
  <2>9. /\ y.cursor \in {x.cursor, snapshot} /\ (y.gap \/ Spanned(y))
        /\ y.gap \in BOOLEAN /\ (x.gap => y.gap)
    BY <1>0, <2>2, <2>4, <2>8
  <2> QED BY <2>4, <2>5, <2>6, <2>7, <2>9 DEF y
<1> QED BY <1>1, <1>2

\* The page of a resynchronisation continues what the client has.
LEMMA PageContinues ==
    ASSUME NEW x \in ClientStates, NEW e, EntryOk(e), x.cursor <= e.seq,
           x.phase = "NEXT_PAGE", ~x.gap, Reached(x),
           NEW first \in PageAfter(e, x.from), NEW n \in first..x.cursor
    PROVE  n \in x.timeline \cup PageAfter(e, x.from) \cup x.passed
<1>1. /\ x.from \in Nat /\ x.cursor \in Nat /\ e.seq \in Nat /\ e.oldest \in Nat
      /\ first \in e.oldest..e.seq /\ x.from < first
  BY DEF ClientStates, EntryOk, PageAfter
<1>2. n \in x.from + 1 .. x.cursor
  BY <1>1
<1> QED BY <1>2 DEF Reached

\* A page is read and shown.
LEMMA ReadPageStep ==
    ASSUME EntriesOk, AnalysesOk, ClientsOk, SubsOk, NEW c \in Clients, ReadPage(c)
    PROVE  EntriesOk' /\ AnalysesOk' /\ ClientsOk' /\ CacheForward
<1> DEFINE x == client[c]
           s == x.session
           e == Evaluated(entries[s])
           onward == IF x.ended THEN "CLOSED" ELSE "CONNECTING"
           first == [x EXCEPT !.cursor = x.snapshot, !.timeline = NewestPage(e),
                              !.gap = e.oldest > 1, !.phase = onward]
           missing == x.from < e.oldest - 1
           page == PageAfter(e, x.from)
           second == [Accept(x, x.snapshot, page, missing) EXCEPT !.phase = onward, !.from = 0]
<1>0. /\ x.phase \in {"FIRST_PAGE", "NEXT_PAGE"} /\ UNCHANGED budget
      /\ \/ OnlyClient(c, Gone(c)) /\ UNCHANGED <<entries, subs>>
         \/ s \in held /\ Update(s, e) /\ OnlyClient(c, first)
         \/ /\ x.phase = "NEXT_PAGE" /\ s \in held /\ Update(s, e) /\ OnlyClient(c, second)
  BY DEF ReadPage
<1>1. CASE OnlyClient(c, Gone(c)) /\ UNCHANGED <<entries, subs>>
  BY <1>0, <1>1, GoneStep
<1>2. ASSUME Update(s, e), NEW y, OnlyClient(c, y),
             y = first \/ (y = second /\ x.phase = "NEXT_PAGE")
      PROVE  EntriesOk' /\ AnalysesOk' /\ ClientsOk' /\ CacheForward
  <2>1. /\ x \in ClientStates /\ s \in DOMAIN entries /\ EntryOk(entries[s])
        /\ x.cursor <= entries[s].seq /\ x.snapshot <= entries[s].seq
        /\ subs[c] = None /\ (x.gap \/ Spanned(x))
        /\ AnswersOk(x, entries[s].seq) /\ Reached(x)
    BY <1>0, ClientHas
  <2>2. /\ EntriesGrow /\ SubsFollow /\ AnalysesKept /\ entries'[s] = e
        /\ EntryOk(e) /\ entries[s].seq <= e.seq
    BY <1>2, <2>1, EvaluatedUpdate
  <2>3. e.seq \in Nat /\ entries[s].seq \in Nat /\ e.oldest \in Nat /\ s \in DOMAIN entries'
    BY <2>1, <2>2 DEF EntryOk, EntriesGrow
  <2>4. x.cursor \in Nat /\ x.snapshot \in Nat /\ x.cursor <= e.seq /\ x.snapshot <= e.seq
    <3>1. x.cursor \in Nat /\ x.snapshot \in Nat
      BY <2>1 DEF ClientStates
    <3> HIDE DEF x, e
    <3> QED BY <2>1, <2>2, <2>3, <3>1
  <2>10. AnswersOk(x, e.seq)
    BY <2>1, <2>2, <2>3, AnswersLast
  <2>11. page \in SUBSET Nat /\ missing \in BOOLEAN
    BY <2>3 DEF PageAfter
  <2>5. onward \in {"CLOSED", "CONNECTING"}
    OBVIOUS
  <2> HIDE DEF e, onward
  <2>6. /\ y \in ClientStates /\ y.session = s /\ y.phase \in {"CLOSED", "CONNECTING"}
        /\ y.cursor <= e.seq /\ y.snapshot = x.snapshot /\ y.snapshot <= y.cursor
        /\ y.gap \/ Spanned(y)
        /\ y.asks = x.asks
    <3>1. CASE y = first
      <4>1. NewestPage(e) \subseteq Nat /\ (e.oldest > 1) \in BOOLEAN
        BY <2>3 DEF NewestPage
      <4>2. /\ y \in ClientStates /\ y.session = s /\ y.phase = onward
            /\ y.cursor = x.snapshot /\ y.snapshot = x.snapshot
            /\ y.timeline = NewestPage(e) /\ y.asks = x.asks
        <5> HIDE DEF x
        <5> QED BY <3>1, <2>1, <2>4, <2>5, <4>1 DEF ClientStates, Phases, s
      <4>3. Spanned(y)
        <5> SUFFICES ASSUME NEW i \in NewestPage(e), NEW n \in i..x.snapshot
                     PROVE  n \in NewestPage(e)
          BY <4>2 DEF Spanned, Spans
        <5> HIDE DEF x
        <5> QED BY <2>3, <2>4, Bounds DEF NewestPage
      <4> QED BY <2>4, <2>5, <4>2, <4>3
    <3>2. CASE y = second /\ x.phase = "NEXT_PAGE"
      <4> DEFINE z == Accept(x, x.snapshot, page, missing)
      <4>1. ~x.gap => \A i \in page : \A n \in i..x.cursor :
                        n \in x.timeline \cup page \cup x.passed
        BY <2>1, <2>2, <2>4, <3>2, PageContinues
      <4>2. /\ z \in ClientStates /\ z.session = s /\ z.snapshot = x.snapshot
            /\ z.cursor >= x.snapshot /\ z.cursor \in {x.cursor, x.snapshot}
            /\ (z.gap \/ Spanned(z)) /\ z.asks = x.asks
        <5> HIDE DEF page, missing
        <5> QED BY <2>1, <2>4, <2>11, <4>1, AcceptSpans
      <4> HIDE DEF z
      <4>3. /\ y \in ClientStates /\ y.session = z.session /\ y.phase = onward
            /\ y.cursor = z.cursor /\ y.snapshot = z.snapshot /\ y.gap = z.gap
            /\ y.timeline = z.timeline /\ y.passed = z.passed /\ y.asks = z.asks
        BY <3>2, <4>2, <2>5 DEF ClientStates, Phases, z
      <4>4. Spanned(z) => Spanned(y)
        BY <4>3 DEF Spanned, Spans
      <4>5. z.cursor \in Nat
        BY <4>2 DEF ClientStates
      <4> HIDE DEF x
      <4> QED BY <2>4, <2>5, <4>2, <4>3, <4>4, <4>5
    <3> QED BY <1>2, <3>1, <3>2
  <2> HIDE DEF first, second
  <2>7. client' = [client EXCEPT ![c] = y] /\ UNCHANGED <<held, stoppers, analysers, shutdown>>
    BY <1>2 DEF OnlyClient
  <2>12. AnswersOk(y, e.seq) /\ Reached(y)
    BY <2>6, <2>10 DEF AnswersOk, Reached
  <2>8. ClientOk(y, None, entries')
    BY <2>2, <2>3, <2>4, <2>6, <2>12, QueuelessOk
  <2>9. subs'[c] = None /\ DOMAIN subs' = Clients
    BY <2>1, <2>2 DEF SubsFollow, Follows
  <2> QED BY <2>2, <2>7, <2>8, <2>9, ClientMoves DEF SubsFollow
<1> QED BY <1>0, <1>1, <1>2

\* The demand to resynchronise covers everything.
LEMMA ResyncCovers ==
    ASSUME NEW a \in Seq(Notices), NEW cursor \in Nat, NEW m \in Nat, ItemsOk(a, cursor, m)
    PROVE  LET b == a \o <<Notice("RESYNC_REQUIRED", m)>>
           IN  b \in Seq(Notices) /\ ItemsOk(b, cursor, m) /\ Covers(b, Len(b), cursor, m)
<1> DEFINE r == <<Notice("RESYNC_REQUIRED", m)>>
<1>1. /\ r \in Seq(Notices) /\ Len(r) = 1
      /\ r[1].kind = "RESYNC_REQUIRED" /\ r[1].cursor = m
  BY DEF Notice, Notices
<1> HIDE DEF r
<1>2. /\ a \o r \in Seq(Notices) /\ Len(a \o r) = Len(a) + 1 /\ Len(a) \in Nat
      /\ Len(a) + 1 \in 1..Len(a \o r) /\ (a \o r)[Len(a) + 1] = r[1]
  <2>1. /\ Len(a) \in Nat /\ Len(a \o r) = Len(a) + Len(r) /\ a \o r \in Seq(Notices)
        /\ \A i \in 1..Len(r) : Len(a) + i \in 1..Len(a \o r) /\ (a \o r)[Len(a) + i] = r[i]
    BY <1>1, Joined, Zenon
  <2>2. 1 \in 1..Len(r)
    BY <1>1
  <2> QED BY <1>1, <2>1, <2>2, Zenon
<1>3. ItemsOk(a \o r, cursor, m)
  <2>1. \A i \in 1..Len(r) : r[i].cursor <= m /\ r[i].kind \notin {"STATE", "END"}
    BY <1>1
  <2>2. \A i \in 1..Len(r) :
          /\ r[i].cursor <= m
          /\ r[i].kind \in {"STATE", "END"} => Covers(a \o r, Len(a) + i - 1, cursor, r[i].cursor)
    BY <2>1, Zenon
  <2>3. m <= m
    OBVIOUS
  <2> QED BY <1>1, <2>2, <2>3, ItemsJoin
<1>4. Covers(a \o r, Len(a \o r), cursor, m)
  <2>1. \A n : Brings((a \o r)[Len(a) + 1], n)
    BY <1>1, <1>2, Zenon DEF Brings
  <2> HIDE DEF Brings
  <2> QED BY <1>2, <2>1, Zenon DEF Covers
<1> QED BY <1>2, <1>3, <1>4 DEF r

\* What a new subscriber is pushed brings everything after its client's cursor.
LEMMA CatchUpOk ==
    ASSUME NEW e, e.seq \in Nat, NEW n \in Nat, n <= e.seq, NEW cursor \in Nat, cursor <= n,
           NEW after \in Nat, after <= cursor
    PROVE  LET pushed == Entries(n, e.seq) \o CatchUp(e, after)
           IN  /\ pushed \in Seq(Notices) /\ ItemsOk(pushed, cursor, e.seq)
               /\ Covers(pushed, Len(pushed), cursor, e.seq)
<1> DEFINE m == e.seq
           a == Entries(n, m)
           b == IF after > e.seq \/ after < e.oldest - 1 \/ e.seq - after >= QueueSize - 1
                THEN <<Notice("RESYNC_REQUIRED", e.seq)>> ELSE Entries(after, e.seq)
           s == <<Notice("STATE", m)>>
           d == IF Lifecycle(e) = "ENDED" THEN <<Notice("END", m)>> ELSE <<>>
<1>1. CatchUp(e, after) = (b \o s) \o d
  BY Zenon DEF CatchUp
<1>2. after <= m /\ m \in Nat
  OBVIOUS
<1>3. b \in {<<Notice("RESYNC_REQUIRED", m)>>, Entries(after, m)}
  BY Zenon
<1>4. d \in {<<>>, <<Notice("END", m)>>}
  BY Zenon
<1> HIDE DEF a, b, d
<1>5. /\ s \in Seq(Notices) /\ Len(s) = 1 /\ s[1].cursor = m
  BY <1>2 DEF Notice, Notices
<1>6. d = <<>> \/ (d \in Seq(Notices) /\ Len(d) = 1 /\ d[1].cursor = m)
  <2>1. CASE d = <<Notice("END", m)>>
    <3>1. d \in Seq(Notices) /\ Len(d) = 1 /\ d[1].cursor = m
      BY <1>2, <2>1 DEF Notice, Notices
    <3> QED BY <3>1
  <2> QED BY <1>4, <2>1
<1>7. b \in Seq(Notices)
  <2>1. <<Notice("RESYNC_REQUIRED", m)>> \in Seq(Notices)
    BY <1>2 DEF Notice, Notices
  <2> QED BY <1>2, <1>3, <2>1, EntriesSeq
<1> HIDE DEF s
<1>8. a \in Seq(Notices) /\ ItemsOk(a, cursor, m)
  <2>1. a \in Seq(Notices)
    BY <1>2, EntriesSeq DEF a
  <2>2. ItemsOk(<<>>, cursor, n)
    BY DEF ItemsOk
  <2>3. <<>> \in Seq(Notices)
    OBVIOUS
  <2>4. ItemsOk(<<>> \o a, cursor, m)
    BY <1>2, <2>2, <2>3, ItemsEntries DEF a
  <2> HIDE DEF m
  <2>5. <<>> \o a = a
    BY <2>1
  <2> QED BY <2>1, <2>4, <2>5
<1>9. a \o b \in Seq(Notices) /\ ItemsOk(a \o b, cursor, m) /\ Covers(a \o b, Len(a \o b), cursor, m)
  <2>1. CASE b = <<Notice("RESYNC_REQUIRED", m)>>
    BY <1>2, <1>8, <2>1, ResyncCovers
  <2>2. CASE b = Entries(after, m)
    <3>1. ItemsOk(a \o b, cursor, m)
      BY <1>2, <1>8, <2>2, ItemsEntries
    <3>2. Covers(a, Len(a), after, after)
      BY DEF Covers
    <3>3. Covers(a \o b, Len(a \o b), after, m)
      BY <1>2, <1>8, <2>2, <3>2, CoversEntries
    <3>4. Covers(a \o b, Len(a \o b), cursor, m)
      <4>1. \A i \in (cursor + 1)..m : i \in (after + 1)..m
        BY <1>2
      <4> QED BY <3>3, <4>1, Zenon DEF Covers
    <3>5. a \o b \in Seq(Notices)
      BY <1>7, <1>8, Joined, Zenon
    <3> QED BY <3>1, <3>4, <3>5
  <2> QED BY <1>3, <2>1, <2>2
<1> DEFINE f == (a \o b) \o s
<1>10. f \in Seq(Notices) /\ ItemsOk(f, cursor, m) /\ Covers(f, Len(f), cursor, m)
  <2> DEFINE ab == a \o b
  <2> HIDE DEF ab
  <2> QED BY <1>2, <1>5, <1>9, ItemsNotice DEF ab
<1> HIDE DEF f
<1>11. f \o d \in Seq(Notices) /\ ItemsOk(f \o d, cursor, m) /\ Covers(f \o d, Len(f \o d), cursor, m)
  <2>1. CASE d = <<>>
    <3>1. f \o d = f
      BY <1>10, <2>1
    <3> QED BY <1>10, <3>1
  <2>2. CASE d # <<>>
    BY <1>2, <1>6, <1>10, <2>2, ItemsNotice
  <2> QED BY <2>1, <2>2
<1>12. f \o d = a \o ((b \o s) \o d)
  <2>1. d \in Seq(Notices)
    <3>1. <<>> \in Seq(Notices)
      OBVIOUS
    <3> QED BY <1>6, <3>1, Zenon
  <2>2. b \o s \in Seq(Notices)
    BY <1>5, <1>7, Joined, Zenon
  <2>3. f = a \o (b \o s)
    BY <1>5, <1>7, <1>8, Regrouped DEF f
  <2>4. (a \o (b \o s)) \o d = a \o ((b \o s) \o d)
    BY <1>8, <2>1, <2>2, Regrouped
  <2> QED BY <2>3, <2>4
<1> QED BY <1>1, <1>11, <1>12 DEF a

\* A connection is opened, or refused.
LEMMA SubscribeStep ==
    ASSUME EntriesOk, AnalysesOk, ClientsOk, SubsOk, NEW c \in Clients, Subscribe(c)
    PROVE  EntriesOk' /\ AnalysesOk' /\ ClientsOk' /\ CacheForward
<1> DEFINE x == client[c]
           s == x.session
           e == Evaluated(entries[s])
           n == entries[s].seq
           pushed == Entries(n, e.seq) \o CatchUp(e, x.snapshot)
           queue == Push(NoQueue(s), pushed)
           refused == Lost(c)
           next == [x EXCEPT !.phase = "OPEN"]
<1>0. /\ x.phase = "CONNECTING"
      /\ \/ OnlyClient(c, refused) /\ UNCHANGED <<entries, subs>>
         \/ /\ s \in held /\ entries' = [entries EXCEPT ![s] = e]
            /\ subs' = [Told(s, e) EXCEPT ![c] = queue]
            /\ OnlyClient(c, next)
  BY DEF Subscribe
<1>1. /\ x \in ClientStates /\ s \in DOMAIN entries /\ EntryOk(entries[s])
      /\ x.cursor <= n /\ x.snapshot <= n /\ subs[c] = None
      /\ x.gap \/ Spanned(x)
      /\ AnswersOk(x, n)
  BY <1>0, ClientHas
<1>2. x.snapshot <= x.cursor
  BY <1>0 DEF ClientsOk, ClientOk
<1>3. x.cursor \in Nat /\ x.snapshot \in Nat /\ n \in Nat /\ s \in Sessions
  BY <1>1 DEF ClientStates, EntryOk, EntriesOk
<1>4. CASE OnlyClient(c, refused) /\ UNCHANGED <<entries, subs>>
  <2>1. client' = [client EXCEPT ![c] = refused] /\ UNCHANGED <<held, stoppers, analysers, shutdown>>
    BY <1>4 DEF OnlyClient
  <2>2. EntriesGrow /\ AnalysesKept /\ \A d \in Clients : d # c => Follows(d)
    BY <1>4, OthersFollow
  <2>3. refused \in ClientStates /\ ClientOk(refused, None, entries)
    BY <1>1, LostOk
  <2> HIDE DEF refused
  <2>4. ClientOk(refused, None, entries)
    BY <2>3
  <2>5. DOMAIN subs' = Clients
    BY <1>4 DEF SubsOk
  <2> QED BY <1>1, <1>4, <2>1, <2>2, <2>4, <2>5, ClientMoves
<1>5. CASE /\ s \in held /\ entries' = [entries EXCEPT ![s] = e]
           /\ subs' = [Told(s, e) EXCEPT ![c] = queue] /\ OnlyClient(c, next)
  <2>1. Grows(entries[s], e)
    BY <1>1, GrowsEvaluated
  <2> HIDE DEF e
  <2>2. e.seq \in Nat /\ n <= e.seq
    BY <2>1 DEF Grows, EntryOk
  <2>3. EntriesGrow /\ AnalysesKept
    BY <1>5, <2>1 DEF EntriesGrow, AnalysesKept, EntriesOk, Grows, EntryOk
  <2>4. /\ pushed \in Seq(Notices) /\ ItemsOk(pushed, x.cursor, e.seq)
        /\ Covers(pushed, Len(pushed), x.cursor, e.seq)
    <3> DEFINE k == x.cursor
               j == x.snapshot
    <3> HIDE DEF x, n
    <3> QED BY <1>1, <1>2, <1>3, <2>2, CatchUpOk
  <2> HIDE DEF pushed
  <2>5. /\ NoQueue(s) \in Subscribers /\ ~NoQueue(s).closed /\ NoQueue(s).items = <<>>
        /\ NoQueue(s).session = s /\ Len(NoQueue(s).items) <= QueueSize
    BY <1>3, Bounds DEF NoQueue, Subscribers
  <2>6. <<>> \o pushed = pushed
    BY <2>4
  <2>7. QueueOk(queue, x.cursor, e.seq) /\ queue.session = s
    <3> DEFINE q == NoQueue(s)
               k == x.cursor
    <3>1. q \in Subscribers /\ ~q.closed /\ Len(q.items) <= QueueSize /\ k \in Nat
          /\ q.items \o pushed = pushed /\ q.session = s
      BY <1>3, <2>5, <2>6
    <3>2. ItemsOk(q.items \o pushed, k, e.seq)
          /\ Covers(q.items \o pushed, Len(q.items \o pushed), k, e.seq)
      BY <2>4, <3>1
    <3>3. pushed \in Seq(Notices)
      BY <2>4
    <3> HIDE DEF q, k
    <3>4. QueueOk(Push(q, pushed), k, e.seq) /\ Push(q, pushed).session = q.session
      BY <2>2, <3>1, <3>2, <3>3, PushOk
    <3> QED BY <3>1, <3>4 DEF q, k
  <2>8. queue # None
    BY <2>7, WorkspaceConstants DEF QueueOk
  <2> HIDE DEF queue
  <2>9. /\ DOMAIN subs' = Clients /\ subs'[c] = queue
        /\ \A d \in Clients : d # c => subs'[d] = Told(s, e)[d]
    BY <1>5 DEF Told
  <2>10. \A d \in Clients : d # c => Follows(d)
    BY <1>1, <1>5, <2>9, ToldFollows
  <2>11. /\ next \in ClientStates /\ next.phase = "OPEN" /\ next.session = s
         /\ next.cursor = x.cursor /\ next.snapshot = x.snapshot
         /\ next.gap = x.gap /\ Alike(x, next)
    BY <1>1 DEF ClientStates, Phases, Alike
  <2>12. entries'[s].seq = e.seq /\ s \in DOMAIN entries'
    BY <1>1, <1>5
  <2>13. client' = [client EXCEPT ![c] = next] /\ UNCHANGED <<held, stoppers, analysers, shutdown>>
    BY <1>5 DEF OnlyClient
  <2> HIDE DEF next
  <2>14. next.cursor <= entries'[s].seq /\ next.snapshot <= entries'[s].seq
    <3> HIDE DEF x, n
    <3> QED BY <1>1, <1>3, <2>2, <2>11, <2>12
  <2>15. (next.gap \/ Spanned(next)) /\ AnswersOk(next, e.seq) /\ Reached(next)
    <3>1. AnswersOk(x, e.seq)
      <4> HIDE DEF x, n
      <4> QED BY <1>1, <1>3, <2>2, AnswersLast
    <3>2. next.phase \notin {"RESYNC", "NEXT_PAGE"}
      BY <2>11
    <3> HIDE DEF x
    <3> QED BY <1>1, <2>11, <3>1, <3>2, AlikeOk
  <2>16. ClientOk(next, queue, entries')
    BY <1>1, <2>7, <2>8, <2>11, <2>12, <2>14, <2>15 DEF ClientOk
  <2> QED BY <2>3, <2>9, <2>10, <2>13, <2>16, ClientMoves
<1> QED BY <1>0, <1>4, <1>5

\* Reading a notice that the cursor, once moved, has nothing more to learn from.
LEMMA TailOk ==
    ASSUME NEW q, NEW cursor \in Nat, NEW moved \in Nat, cursor <= moved, NEW last \in Nat,
           QueueOk(q, cursor, last), q.items # <<>>,
           \A n \in Nat : n > moved => ~Brings(Head(q.items), n)
    PROVE  LET r == [q EXCEPT !.items = Tail(@)]
           IN  QueueOk(r, moved, last) /\ r.session = q.session
<1> DEFINE items == q.items
           rest == Tail(items)
           r == [q EXCEPT !.items = rest]
<1>0. q \in Subscribers /\ items \in Seq(Notices) /\ items # <<>>
  BY DEF QueueOk, Subscribers
<1>1. /\ rest \in Seq(Notices) /\ Len(items) \in Nat /\ Len(items) >= 1
      /\ Len(rest) = Len(items) - 1 /\ \A i \in 1..Len(rest) : rest[i] = items[i + 1]
      /\ Head(items) = items[1]
  <2> HIDE DEF items
  <2> QED BY <1>0
<1>2. /\ r \in Subscribers /\ r.items = rest /\ r.closed = q.closed /\ r.session = q.session
  <2>1. q.session \in Sessions /\ q.closed \in BOOLEAN
    BY <1>0 DEF Subscribers
  <2> HIDE DEF rest
  <2> QED BY <1>0, <1>1, <2>1 DEF Subscribers
<1> HIDE DEF rest, r
<1>3. ASSUME NEW k \in 1..Len(items), NEW m \in Int, Covers(items, k, cursor, m)
      PROVE  Covers(rest, k - 1, moved, m)
  <2> SUFFICES ASSUME NEW n \in (moved + 1)..m
               PROVE  \E j \in 1..(k - 1) : Brings(rest[j], n)
    BY DEF Covers
  <2>1. n \in (cursor + 1)..m /\ n \in Nat /\ n > moved
    OBVIOUS
  <2>2. PICK j \in 1..k : Brings(items[j], n)
    BY <1>3, <2>1 DEF Covers
  <2>3. j # 1
    BY <1>1, <2>1, <2>2
  <2>4. j - 1 \in 1..(k - 1) /\ j - 1 \in 1..Len(rest) /\ (j - 1) + 1 = j
    BY <1>1, <2>3
  <2>5. rest[j - 1] = items[j]
    BY <1>1, <2>4
  <2> QED BY <2>2, <2>4, <2>5
<1>4. ItemsOk(rest, moved, last)
  <2> SUFFICES ASSUME NEW i \in 1..Len(rest)
               PROVE  /\ rest[i].cursor <= last
                      /\ rest[i].kind \in {"STATE", "END"} =>
                            Covers(rest, i - 1, moved, rest[i].cursor)
    BY DEF ItemsOk
  <2>1. i + 1 \in 1..Len(items) /\ i \in 1..Len(items) /\ rest[i] = items[i + 1]
        /\ (i + 1) - 1 = i
    BY <1>1
  <2>2. items[i + 1] \in Notices
    BY <1>0, <2>1
  <2>3. items[i + 1].cursor \in Nat
    BY <2>2 DEF Notices
  <2>4. /\ items[i + 1].cursor <= last
        /\ items[i + 1].kind \in {"STATE", "END"} =>
              Covers(items, i, cursor, items[i + 1].cursor)
    BY <2>1 DEF QueueOk, ItemsOk
  <2>5. items[i + 1].kind \in {"STATE", "END"} => Covers(rest, i - 1, moved, items[i + 1].cursor)
    BY <1>3, <2>1, <2>3, <2>4
  <2> QED BY <2>1, <2>4, <2>5
<1>5. ~q.closed => Len(rest) <= QueueSize /\ Covers(rest, Len(rest), moved, last)
  <2>1. Len(items) \in 1..Len(items)
    BY <1>1
  <2>2. ~q.closed => Len(items) <= QueueSize /\ Covers(items, Len(items), cursor, last)
    BY DEF QueueOk
  <2>3. ~q.closed => Covers(rest, Len(items) - 1, moved, last)
    BY <1>3, <2>1, <2>2
  <2> QED BY <1>1, <2>2, <2>3, Bounds
<1> QED BY <1>2, <1>4, <1>5 DEF QueueOk, r, rest

\* What becomes of a client and its queue when it takes a notice.
LEMMA NoticeApplied ==
    ASSUME NEW x, NEW q, NEW es, ClientOk(x, q, es), q # None, q.items # <<>>,
           es[x.session].seq \in Nat
    PROVE  LET y == ApplyEnvelope(x, Head(q.items))
               r == IF y.phase # "OPEN" THEN None ELSE [q EXCEPT !.items = Tail(@)]
           IN  ClientOk(y, r, es)
<1> DEFINE notice == Head(q.items)
           y == ApplyEnvelope(x, notice)
           last == es[x.session].seq
           tail == [q EXCEPT !.items = Tail(@)]
<1>1. /\ x \in ClientStates /\ x.phase = "OPEN" /\ x # NoClient
      /\ x.session \in DOMAIN es /\ x.cursor <= last /\ x.snapshot <= last
      /\ q.session = x.session /\ QueueOk(q, x.cursor, last)
      /\ x.gap \/ Spanned(x)
      /\ AnswersOk(x, last)
  <2>1. x.phase = "OPEN" /\ x # NoClient
    BY DEF ClientOk, NoClient
  <2> QED BY <2>1 DEF ClientOk
<1>2. x.cursor \in Nat /\ x.snapshot \in Nat /\ last \in Nat /\ x.timeline \in SUBSET Nat
  BY <1>1 DEF ClientStates
<1>3. q.items \in Seq(Notices) /\ Len(q.items) \in Nat /\ 1 \in 1..Len(q.items)
      /\ notice = q.items[1]
  <2>1. q.items \in Seq(Notices)
    BY <1>1 DEF QueueOk, Subscribers
  <2> QED BY <2>1
<1>4. notice \in Notices
  BY <1>3
<1> HIDE DEF notice, last
<1>5. /\ notice.cursor \in Nat /\ notice.cursor <= last
      /\ notice.kind \in {"TIMELINE", "STATE", "RESYNC_REQUIRED", "END", "HEARTBEAT"}
      /\ notice.kind \in {"STATE", "END"} => notice.cursor <= x.cursor
  <2>1. notice.cursor \in Nat
        /\ notice.kind \in {"TIMELINE", "STATE", "RESYNC_REQUIRED", "END", "HEARTBEAT"}
    BY <1>4 DEF Notices
  <2>2. /\ q.items[1].cursor <= last
        /\ q.items[1].kind \in {"STATE", "END"} =>
              Covers(q.items, 1 - 1, x.cursor, q.items[1].cursor)
    BY <1>1, <1>3 DEF QueueOk, ItemsOk
  <2>3. Covers(q.items, 1 - 1, x.cursor, notice.cursor) => notice.cursor <= x.cursor
    BY <1>2, <2>1 DEF Covers
  <2> QED BY <1>3, <2>1, <2>2, <2>3
\* a client that leaves its stream
<1>6. ASSUME NEW z \in ClientStates, z.phase \in {"RESYNC", "CLOSED"}, z.session = x.session,
             Alike(x, z), z.snapshot = x.snapshot, z.gap \/ z.gap = x.gap,
             z.phase = "RESYNC" => z.from = x.cursor
      PROVE  ClientOk(z, None, es)
  BY <1>1, <1>6, PhaseOk DEF last
\* a client that stays
<1>7. ASSUME NEW z \in ClientStates, z.phase = "OPEN", z.session = x.session,
             z.snapshot = x.snapshot, x.cursor <= z.cursor, z.cursor <= last,
             z.gap = x.gap, z.asks = x.asks, Spanned(x) => Spanned(z),
             \A n \in Nat : n > z.cursor => ~Brings(notice, n)
      PROVE  ClientOk(z, tail, es)
  <2>1. z.cursor \in Nat
    BY <1>7 DEF ClientStates
  <2>2. QueueOk(tail, z.cursor, last) /\ tail.session = q.session
    BY <1>1, <1>2, <1>7, <2>1, TailOk DEF notice
  <2> HIDE DEF tail
  <2>3. tail # None
    BY <2>2, WorkspaceConstants DEF QueueOk
  <2>4. AnswersOk(z, last) /\ Reached(z)
    BY <1>1, <1>7 DEF AnswersOk, Reached
  <2> QED BY <1>1, <1>7, <2>2, <2>3, <2>4 DEF ClientOk, last
<1>8. CASE notice.kind = "TIMELINE" /\ notice.cursor = x.cursor + 1
  <2>1. y = [x EXCEPT !.cursor = notice.cursor, !.timeline = @ \cup {notice.cursor}]
    BY <1>2, <1>5, <1>8 DEF ApplyEnvelope
  <2>2. /\ y \in ClientStates /\ y.phase = "OPEN" /\ y.session = x.session
        /\ y.snapshot = x.snapshot /\ y.cursor = x.cursor + 1 /\ y.gap = x.gap
        /\ y.asks = x.asks /\ y.passed = x.passed
        /\ y.timeline = x.timeline \cup {x.cursor + 1}
    <3>1. x.timeline \cup {notice.cursor} \in SUBSET Nat
      BY <1>2, <1>5
    <3> HIDE DEF y
    <3> QED BY <1>1, <1>5, <1>8, <2>1, <3>1 DEF ClientStates
  <2> HIDE DEF y
  <2>3. Spanned(x) => Spanned(y)
    <3> SUFFICES ASSUME Spanned(x), NEW first \in x.timeline \cup {x.cursor + 1},
                        NEW n \in first..(x.cursor + 1)
                 PROVE  n \in x.timeline \cup {x.cursor + 1} \cup x.passed
      BY <2>2 DEF Spanned, Spans
    <3>1. first \in Nat /\ n \in Int
      BY <1>2
    <3>2. CASE n = x.cursor + 1
      BY <3>2
    <3>3. CASE n # x.cursor + 1
      <4>1. first # x.cursor + 1 /\ n \in first..x.cursor
        BY <1>2, <3>1, <3>3
      <4> QED BY <4>1 DEF Spanned, Spans
    <3> QED BY <3>2, <3>3
  <2>4. \A n \in Nat : n > y.cursor => ~Brings(notice, n)
    BY <1>2, <1>8, <2>2 DEF Brings, Notice
  <2>5. x.cursor <= y.cursor /\ y.cursor <= last
    BY <1>2, <1>5, <1>8, <2>2
  <2>6. ClientOk(y, tail, es)
    BY <1>7, <2>2, <2>3, <2>4, <2>5, Zenon
  <2> QED BY <2>2, <2>6 DEF y, notice
<1>9. CASE \/ notice.kind = "TIMELINE" /\ notice.cursor > x.cursor + 1
           \/ notice.kind = "RESYNC_REQUIRED"
  <2>1. y = Resync([x EXCEPT !.gap = TRUE])
    BY <1>2, <1>5, <1>9 DEF ApplyEnvelope
  <2>2. /\ y \in ClientStates /\ y.phase = "RESYNC" /\ y.session = x.session
        /\ y.snapshot = x.snapshot /\ Alike(x, y) /\ y.gap /\ y.from = x.cursor
    BY <1>1, <1>2, <2>1 DEF ClientStates, Phases, Resync, Alike
  <2> HIDE DEF y
  <2>3. ClientOk(y, None, es)
    BY <1>6, <2>2
  <2> QED BY <2>2, <2>3 DEF y, notice
<1>10. CASE notice.kind \in {"STATE", "END"}
  <2>1. Max({x.cursor, notice.cursor}) = x.cursor
    <3> DEFINE k == Max({x.cursor, notice.cursor})
    <3>1. k \in {x.cursor, notice.cursor} /\ k >= x.cursor /\ k >= notice.cursor
      <4>1. x.cursor \in Int /\ notice.cursor \in Int
        BY <1>2, <1>5
      <4> QED BY <4>1, MaxOfTwo, Zenon
    <3> HIDE DEF k
    <3>2. k = x.cursor
      BY <1>2, <1>5, <1>10, <3>1
    <3> QED BY <3>2 DEF k
  <2>2. CASE notice.kind = "STATE"
    <3>1. y = [x EXCEPT !.cursor = x.cursor]
      BY <2>1, <2>2 DEF ApplyEnvelope
    <3>2. /\ y \in ClientStates /\ y.phase = "OPEN" /\ y.session = x.session
          /\ y.snapshot = x.snapshot /\ y.cursor = x.cursor /\ y.gap = x.gap
          /\ y.asks = x.asks /\ Alike(x, y)
      BY <1>1, <3>1 DEF ClientStates, Alike
    <3> HIDE DEF y
    <3>3. \A n \in Nat : ~Brings(notice, n)
      BY <2>2 DEF Brings, Notice
    <3>4. Spanned(x) => Spanned(y)
      BY <3>2 DEF Spanned, Spans, Alike
    <3>5. x.cursor <= y.cursor /\ y.cursor <= last
      BY <1>1, <1>2, <3>2
    <3>6. ClientOk(y, tail, es)
      BY <1>7, <3>2, <3>3, <3>4, <3>5, Zenon
    <3> QED BY <3>2, <3>6 DEF y, notice
  <2>3. CASE notice.kind = "END"
    <3>1. y = [x EXCEPT !.cursor = x.cursor, !.phase = "CLOSED"]
      BY <2>1, <2>3 DEF ApplyEnvelope
    <3>2. /\ y \in ClientStates /\ y.phase = "CLOSED" /\ y.session = x.session
          /\ y.snapshot = x.snapshot /\ y.gap = x.gap /\ Alike(x, y)
      BY <1>1, <3>1 DEF ClientStates, Phases, Alike
    <3> HIDE DEF y
    <3>3. ClientOk(y, None, es)
      BY <1>6, <3>2
    <3> QED BY <3>2, <3>3 DEF y, notice
  <2> QED BY <1>10, <2>2, <2>3
<1>11. CASE notice.kind = "HEARTBEAT" /\ notice.cursor > x.cursor
  <2>1. y = Resync(x)
    BY <1>11 DEF ApplyEnvelope
  <2>2. /\ y \in ClientStates /\ y.phase = "RESYNC" /\ y.session = x.session
        /\ y.snapshot = x.snapshot /\ y.gap = x.gap /\ Alike(x, y) /\ y.from = x.cursor
    BY <1>1, <1>2, <2>1 DEF ClientStates, Phases, Resync, Alike
  <2> HIDE DEF y
  <2>3. ClientOk(y, None, es)
    BY <1>6, <2>2
  <2> QED BY <2>2, <2>3 DEF y, notice
<1>12. CASE \/ notice.kind = "TIMELINE" /\ notice.cursor <= x.cursor
            \/ notice.kind = "HEARTBEAT" /\ notice.cursor <= x.cursor
  <2>1. y = x
    BY <1>2, <1>5, <1>12 DEF ApplyEnvelope
  <2> HIDE DEF y
  <2>2. \A n \in Nat : n > x.cursor => ~Brings(notice, n)
    BY <1>2, <1>5, <1>12 DEF Brings, Notice
  <2>3. x.cursor <= x.cursor /\ (Spanned(x) => Spanned(x))
    BY <1>2
  <2>4. ClientOk(x, tail, es)
    BY <1>1, <1>7, <2>2, <2>3, Zenon
  <2> QED BY <1>1, <2>1, <2>4 DEF y, notice
<1> QED BY <1>2, <1>5, <1>8, <1>9, <1>10, <1>11, <1>12

\* A step that changes no session but what one client and its queue are.
LEMMA OwnStep ==
    ASSUME EntriesOk, AnalysesOk, ClientsOk, SubsOk, NEW c \in Clients, NEW next,
           OnlyClient(c, next), subs' = SubsAfter(c, next), entries' = entries,
           ClientOk(next, IF next.phase # "OPEN" THEN None
                          ELSE [subs[c] EXCEPT !.items = IF @ = <<>> THEN @ ELSE Tail(@)],
                    entries)
    PROVE  EntriesOk' /\ AnalysesOk' /\ ClientsOk' /\ CacheForward
<1>1. client' = [client EXCEPT ![c] = next] /\ UNCHANGED <<held, stoppers, analysers, shutdown>>
  BY DEF OnlyClient
<1>2. /\ DOMAIN subs' = Clients /\ \A d \in Clients : d # c => subs'[d] = subs[d]
      /\ subs'[c] = IF next.phase # "OPEN" THEN None
                    ELSE [subs[c] EXCEPT !.items = IF @ = <<>> THEN @ ELSE Tail(@)]
  BY DEF SubsAfter
<1>3. EntriesGrow /\ AnalysesKept /\ \A d \in Clients : d # c => Follows(d)
  BY <1>2, OthersFollow
<1>4. ClientOk(next, subs'[c], entries')
  BY <1>2
<1> QED BY <1>1, <1>2, <1>3, <1>4, ClientMoves

\* What is known of a client that reads its stream.
LEMMA OpenHas ==
    ASSUME EntriesOk, ClientsOk, NEW c \in Clients, client[c].phase = "OPEN"
    PROVE  /\ ClientOk(client[c], subs[c], entries) /\ subs[c] # None
           /\ subs[c] \in Subscribers
           /\ client[c] \in ClientStates /\ client[c].session \in DOMAIN entries
           /\ entries[client[c].session].seq \in Nat
<1>1. ClientOk(client[c], subs[c], entries)
  BY DEF ClientsOk
<1>2. subs[c] # None
  BY <1>1 DEF ClientOk
<1>3. subs[c] \in Subscribers
  BY <1>1, <1>2 DEF ClientOk, QueueOk
<1> QED BY <1>1, <1>2, <1>3, ClientHas DEF EntryOk

\* The next notice is delivered.
LEMMA DeliverStep ==
    ASSUME EntriesOk, AnalysesOk, ClientsOk, SubsOk, NEW c \in Clients, Deliver(c)
    PROVE  EntriesOk' /\ AnalysesOk' /\ ClientsOk' /\ CacheForward
<1> DEFINE next == ApplyEnvelope(client[c], Head(subs[c].items))
<1>1. /\ client[c].phase = "OPEN" /\ subs[c].items # <<>> /\ entries' = entries
      /\ OnlyClient(c, next) /\ subs' = SubsAfter(c, next)
  BY DEF Deliver
<1>2. ClientOk(next, IF next.phase # "OPEN" THEN None
                     ELSE [subs[c] EXCEPT !.items = Tail(@)], entries)
  BY <1>1, OpenHas, NoticeApplied
<1> HIDE DEF next
<1>3. ClientOk(next, IF next.phase # "OPEN" THEN None
                     ELSE [subs[c] EXCEPT !.items = IF @ = <<>> THEN @ ELSE Tail(@)], entries)
  BY <1>1, <1>2
<1> QED BY <1>1, <1>3, OwnStep

\* A client that drops its connection.
LEMMA DropsOk ==
    ASSUME EntriesOk, ClientsOk, NEW c \in Clients, client[c].phase # "OFF"
    PROVE  /\ Lost(c).phase = "LOST" /\ ClientOk(Lost(c), None, entries)
<1>1. /\ client[c] \in ClientStates /\ client[c].session \in DOMAIN entries
      /\ client[c].cursor <= entries[client[c].session].seq
      /\ client[c].snapshot <= entries[client[c].session].seq
      /\ client[c].gap \/ Spanned(client[c])
      /\ AnswersOk(client[c], entries[client[c].session].seq)
  BY ClientHas
<1> QED BY <1>1, LostOk

\* A client that resynchronises.
LEMMA ResyncsOk ==
    ASSUME EntriesOk, ClientsOk, NEW c \in Clients, client[c].phase # "OFF"
    PROVE  /\ Resync(client[c]).phase = "RESYNC"
           /\ ClientOk(Resync(client[c]), None, entries)
<1> DEFINE x == client[c]
           y == Resync(x)
<1>1. /\ x \in ClientStates /\ x.session \in DOMAIN entries
      /\ x.cursor <= entries[x.session].seq /\ x.snapshot <= entries[x.session].seq
      /\ x.gap \/ Spanned(x)
      /\ AnswersOk(x, entries[x.session].seq)
  BY ClientHas
<1>2. /\ y \in ClientStates /\ y.phase = "RESYNC" /\ Alike(x, y)
      /\ y.snapshot = x.snapshot /\ y.gap = x.gap /\ y.from = x.cursor
  BY <1>1 DEF ClientStates, Phases, Resync, Alike
<1> HIDE DEF y
<1>3. ClientOk(y, None, entries)
  BY <1>1, <1>2, PhaseOk
<1> QED BY <1>2, <1>3 DEF y

\* A client whose queue is empty, and that stays.
LEMMA StaysOk ==
    ASSUME EntriesOk, ClientsOk, NEW c \in Clients, client[c].phase = "OPEN",
           subs[c].items = <<>>
    PROVE  ClientOk(client[c], [subs[c] EXCEPT !.items = IF @ = <<>> THEN @ ELSE Tail(@)],
                    entries)
<1>1. ClientOk(client[c], subs[c], entries) /\ subs[c] \in Subscribers
  BY OpenHas
<1>2. [subs[c] EXCEPT !.items = IF @ = <<>> THEN @ ELSE Tail(@)] = subs[c]
  BY <1>1 DEF Subscribers
<1> QED BY <1>1, <1>2

\* The heartbeat evaluates, and says how far the timeline is.
LEMMA HeartbeatStep ==
    ASSUME EntriesOk, AnalysesOk, ClientsOk, SubsOk, NEW c \in Clients, Heartbeat(c)
    PROVE  EntriesOk' /\ AnalysesOk' /\ ClientsOk' /\ CacheForward
<1> DEFINE x == client[c]
           s == x.session
           e == Evaluated(entries[s])
           drop == Lost(c)
           again == Resync(x)
           told == ApplyEnvelope(x, Notice("HEARTBEAT", e.seq))
           next == IF s \notin held THEN drop ELSE told
<1>0. /\ x.phase = "OPEN" /\ subs[c].items = <<>>
      /\ \/ s \in held /\ Update(s, e) /\ OnlyClient(c, x)
         \/ OnlyClient(c, next) /\ subs' = SubsAfter(c, next) /\ UNCHANGED entries
  BY Zenon DEF Heartbeat
<1>1. /\ ClientOk(x, subs[c], entries) /\ x \in ClientStates /\ s \in DOMAIN entries
  BY <1>0, OpenHas
<1>2. CASE s \in held /\ Update(s, e) /\ OnlyClient(c, x)
  <2>1. EntriesGrow /\ SubsFollow /\ AnalysesKept
    BY <1>1, <1>2, EvaluatedUpdate
  <2>2. ClientOk(x, subs'[c], entries')
    BY <1>1, <2>1, ClientFollows DEF SubsFollow
  <2>3. client' = [client EXCEPT ![c] = x] /\ UNCHANGED <<held, stoppers, analysers, shutdown>>
    BY <1>2 DEF OnlyClient
  <2> QED BY <2>1, <2>2, <2>3, ClientMoves DEF SubsFollow
<1>3. CASE OnlyClient(c, next) /\ subs' = SubsAfter(c, next) /\ UNCHANGED entries
  <2>1. next \in {drop, again, x}
    <3>1. told \in {again, x}
      BY DEF ApplyEnvelope, Notice
    <3> HIDE DEF told, drop, again
    <3> QED BY <3>1
  <2>2. drop.phase = "LOST" /\ ClientOk(drop, None, entries)
    BY <1>0, DropsOk
  <2>3. again.phase = "RESYNC" /\ ClientOk(again, None, entries)
    BY <1>0, ResyncsOk
  <2>4. ClientOk(x, [subs[c] EXCEPT !.items = IF @ = <<>> THEN @ ELSE Tail(@)], entries)
    BY <1>0, StaysOk
  <2> HIDE DEF next, drop, again
  <2>5. ClientOk(next, IF next.phase # "OPEN" THEN None
                       ELSE [subs[c] EXCEPT !.items = IF @ = <<>> THEN @ ELSE Tail(@)], entries)
    BY <1>0, <2>1, <2>2, <2>3, <2>4
  <2> QED BY <1>3, <2>5, OwnStep
<1> QED BY <1>0, <1>2, <1>3

\* The connection is lost.
LEMMA TransportLostStep ==
    ASSUME EntriesOk, AnalysesOk, ClientsOk, SubsOk, NEW c \in Clients, TransportLost(c)
    PROVE  EntriesOk' /\ AnalysesOk' /\ ClientsOk' /\ CacheForward
<1> DEFINE next == Lost(c)
<1>1. /\ client[c].phase # "OFF" /\ entries' = entries
      /\ OnlyClient(c, next) /\ subs' = SubsAfter(c, next)
  BY DEF TransportLost
<1>2. next.phase = "LOST" /\ ClientOk(next, None, entries)
  BY <1>1, DropsOk
<1> HIDE DEF next
<1> QED BY <1>1, <1>2, OwnStep

\* The delay is over.
LEMMA ResyncLaterStep ==
    ASSUME EntriesOk, AnalysesOk, ClientsOk, SubsOk, NEW c \in Clients, ResyncLater(c)
    PROVE  EntriesOk' /\ AnalysesOk' /\ ClientsOk' /\ CacheForward
<1> DEFINE next == Resync(client[c])
<1>1. /\ client[c].phase = "LOST" /\ UNCHANGED <<entries, subs>> /\ OnlyClient(c, next)
  BY DEF ResyncLater
<1>2. client' = [client EXCEPT ![c] = next] /\ UNCHANGED <<held, stoppers, analysers, shutdown>>
  BY <1>1 DEF OnlyClient
<1>3. EntriesGrow /\ AnalysesKept /\ \A d \in Clients : d # c => Follows(d)
  BY <1>1, OthersFollow
<1>4. subs[c] = None /\ DOMAIN subs' = Clients
  BY <1>1, ClientHas DEF SubsOk
<1>5. ClientOk(next, subs'[c], entries')
  BY <1>1, <1>4, ResyncsOk
<1> HIDE DEF next
<1> QED BY <1>2, <1>3, <1>4, <1>5, ClientMoves

\* The least of some numbers.
LEMMA MinOfNats ==
    ASSUME NEW T \in SUBSET Nat, T # {}
    PROVE  Min(T) \in T
<1>1. PICK x \in T : \A y \in T : ~(<<y, x>> \in OpToRel(<, Nat))
  BY NatLessThanWellFounded, WFMin
<1>2. \A y \in T : x <= y
  <2> SUFFICES ASSUME NEW y \in T PROVE x <= y
    OBVIOUS
  <2>1. x \in Nat /\ y \in Nat /\ <<y, x>> \notin OpToRel(<, Nat)
    BY <1>1
  <2>2. ~(y < x)
    BY <2>1 DEF OpToRel
  <2>3. x \in Nat /\ y \in Nat
    OBVIOUS
  <2> QED BY <2>2, <2>3
<1> QED BY <1>2 DEF Min

\* Older entries are read.
LEMMA LoadOlderStep ==
    ASSUME EntriesOk, AnalysesOk, ClientsOk, SubsOk, NEW c \in Clients, LoadOlder(c)
    PROVE  EntriesOk' /\ AnalysesOk' /\ ClientsOk' /\ CacheForward
<1> DEFINE x == client[c]
           s == x.session
           e == Evaluated(entries[s])
           shown == Min(x.timeline)
<1>0. x.timeline # {} /\ s \in held
  BY DEF LoadOlder
<1>1. PICK retained \in 1..e.oldest :
        /\ retained < shown /\ Update(s, e)
        /\ OnlyClient(c, [x EXCEPT
              !.timeline = @ \cup PageAfter(e, Max({retained, shown - PageMax}) - 1)])
  BY Zenon DEF LoadOlder
<1>2. x.phase # "OFF"
  <2>1. ClientOk(x, subs[c], entries)
    BY DEF ClientsOk
  <2>2. x # NoClient
    BY <1>0 DEF NoClient
  <2> QED BY <2>1, <2>2 DEF ClientOk
<1>3. /\ x \in ClientStates /\ s \in DOMAIN entries /\ x.cursor <= entries[s].seq
      /\ x.gap \/ Spanned(x)
  BY <1>2, ClientHas
<1>4. /\ EntriesGrow /\ SubsFollow /\ AnalysesKept /\ EntryOk(e)
      /\ entries[s].seq <= e.seq
  BY <1>1, <1>3, EvaluatedUpdate
<1>5. /\ e.seq \in Nat /\ e.oldest \in Nat /\ x.cursor \in Nat /\ x.cursor <= e.seq
      /\ x.timeline \in SUBSET Nat /\ PageMax \in Nat
  <2>1. e.seq \in Nat /\ e.oldest \in Nat /\ x.cursor \in Nat /\ entries[s].seq \in Nat
        /\ x.timeline \in SUBSET Nat
    BY <1>3, <1>4 DEF EntryOk, ClientStates, EntriesOk
  <2> HIDE DEF x, e
  <2> QED BY <1>3, <1>4, <2>1, Bounds
<1>6. shown \in x.timeline /\ shown \in Nat
  BY <1>0, <1>5, MinOfNats
<1> HIDE DEF e
<1> DEFINE from == Max({retained, shown - PageMax})
           page == PageAfter(e, from - 1)
           next == [x EXCEPT !.timeline = @ \cup page]
<1>7. from \in Int /\ from >= shown - PageMax
  <2>1. retained \in Int /\ shown - PageMax \in Int
    BY <1>5, <1>6
  <2> QED BY <2>1, MaxOfTwo
<1> HIDE DEF shown, from
<1>8. /\ PageEnd(e, from - 1) \in Int /\ PageEnd(e, from - 1) >= from - 1 + PageMax
      /\ page \subseteq Nat
  <2>1. from - 1 \in Int
    BY <1>7
  <2> QED BY <1>4, <2>1, PageReach
<1>9. page = {n \in e.oldest..e.seq : from - 1 < n /\ n <= PageEnd(e, from - 1)}
  BY DEF PageAfter
<1> HIDE DEF page
<1>10. /\ next \in ClientStates /\ next.session = s /\ next.phase = x.phase
       /\ next.cursor = x.cursor /\ next.snapshot = x.snapshot /\ next.gap = x.gap
       /\ next.passed = x.passed /\ next.asks = x.asks /\ next.from = x.from
       /\ next.timeline = x.timeline \cup page
  <2>1. x.timeline \cup page \in SUBSET Nat
    BY <1>5, <1>8
  <2> QED BY <1>3, <2>1 DEF ClientStates
<1> HIDE DEF next
<1>11. ASSUME Spanned(x) PROVE Spanned(next)
  <2> SUFFICES ASSUME NEW first \in x.timeline \cup page, NEW n \in first..x.cursor
               PROVE  n \in x.timeline \cup page \cup x.passed
    BY <1>10 DEF Spanned, Spans
  <2>1. first \in x.timeline \/ first \in page
    BY Zenon
  <2>2. first \in Nat
    BY <1>5, <1>8, <2>1, Zenon
  <2>3. n \in Int /\ first <= n /\ n <= x.cursor
    BY <1>5, <2>2
  <2>4. CASE first \in x.timeline
    BY <1>11, <2>4 DEF Spanned, Spans
  <2>5. CASE first \in page
    <3>1. CASE shown <= n
      <4>1. n \in shown..x.cursor
        BY <1>5, <1>6, <2>3, <3>1
      <4> QED BY <1>6, <1>11, <4>1 DEF Spanned, Spans
    <3>2. CASE n < shown
      <4>1. e.oldest <= first /\ from - 1 < first
        BY <1>9, <2>5
      <4>2. n \in e.oldest..e.seq /\ from - 1 < n
        BY <1>5, <1>7, <2>2, <2>3, <4>1
      <4>3. n <= PageEnd(e, from - 1)
        BY <1>5, <1>6, <1>7, <1>8, <2>3, <3>2
      <4> QED BY <1>9, <4>2, <4>3
    <3> QED BY <1>6, <2>3, <3>1, <3>2
  <2> QED BY <2>1, <2>4, <2>5
<1>12. ClientOk(x, subs'[c], entries')
  <2>1. ClientOk(x, subs[c], entries)
    BY DEF ClientsOk
  <2> QED BY <1>4, <2>1, ClientFollows DEF SubsFollow
<1>13. ClientOk(next, subs'[c], entries')
  <2>1. x # NoClient /\ next # NoClient
    <3>1. x.phase # NoClient.phase
      BY <1>2 DEF NoClient
    <3> QED BY <3>1, <1>10
  <2>2. Reached(x) => Reached(next)
    BY <1>10 DEF Reached
  <2>3. \A last : AnswersOk(x, last) => AnswersOk(next, last)
    BY <1>10 DEF AnswersOk
  <2> QED BY <1>2, <1>3, <1>10, <1>11, <1>12, <2>1, <2>2, <2>3 DEF ClientOk
<1>14. client' = [client EXCEPT ![c] = next] /\ UNCHANGED <<held, stoppers, analysers, shutdown>>
  BY <1>1 DEF OnlyClient, next, page, from, shown
<1> QED BY <1>4, <1>13, <1>14, ClientMoves DEF SubsFollow

-----------------------------------------------------------------------------
(***************************************************************************)
(* What a client asks of its session, and the answers.                     *)
(***************************************************************************)
\* A client whose asks become these: no answer is ahead of the timeline.
LEMMA AsksOk ==
    ASSUME NEW x, NEW q, NEW es, ClientOk(x, q, es), NEW asks \in SUBSET Asks,
           x = NoClient => asks = {},
           x # NoClient => \A a \in asks : a.cursor # None => a.cursor <= es[x.session].seq
    PROVE  ClientOk([x EXCEPT !.asks = asks], q, es)
<1> DEFINE y == [x EXCEPT !.asks = asks]
<1>1. x \in ClientStates
  BY DEF ClientOk
<1>2. /\ y \in ClientStates /\ y.session = x.session /\ y.phase = x.phase
      /\ y.cursor = x.cursor /\ y.snapshot = x.snapshot /\ y.from = x.from
      /\ y.timeline = x.timeline /\ y.passed = x.passed /\ y.gap = x.gap /\ y.asks = asks
  BY <1>1 DEF ClientStates
<1>3. x = NoClient => y = NoClient
  <2> SUFFICES ASSUME x = NoClient PROVE y = NoClient
    OBVIOUS
  <2>1. y = [NoClient EXCEPT !.asks = {}]
    OBVIOUS
  <2>2. NoClient \in ClientStates /\ NoClient.asks = {}
    BY DEF NoClient, ClientStates, Phases
  <2>3. [NoClient EXCEPT !.asks = {}] = NoClient
    BY <2>2 DEF ClientStates
  <2> QED BY <2>1, <2>3
<1> HIDE DEF y
<1>4. x # NoClient => AnswersOk(y, es[x.session].seq)
  BY <1>2 DEF AnswersOk
<1>5. (Spanned(x) => Spanned(y)) /\ (Reached(x) => Reached(y))
  BY <1>2 DEF Spanned, Spans, Reached
<1>6. ClientOk(y, q, es)
  BY <1>2, <1>3, <1>4, <1>5 DEF ClientOk
<1> QED BY <1>6 DEF y

\* The asks of a client that has chosen no session, and of one that has.
LEMMA AsksHave ==
    ASSUME NEW x, NEW q, NEW es, ClientOk(x, q, es)
    PROVE  /\ x.asks \in SUBSET Asks
           /\ x = NoClient => x.asks = {}
           /\ x # NoClient => /\ x.session \in DOMAIN es
                              /\ \A a \in x.asks : a.cursor # None =>
                                    a.cursor \in Nat /\ a.cursor <= es[x.session].seq
<1>1. x.asks \in SUBSET Asks
  BY DEF ClientOk, ClientStates
<1>2. x = NoClient => x.asks = {}
  BY DEF NoClient
<1>3. ASSUME x # NoClient, NEW a \in x.asks, a.cursor # None
      PROVE  a.cursor \in Nat /\ a.cursor <= es[x.session].seq
  BY <1>1, <1>3 DEF ClientOk, AnswersOk, Asks
<1>4. x # NoClient => x.session \in DOMAIN es
  BY DEF ClientOk
<1> QED BY <1>1, <1>2, <1>3, <1>4

\* The handlers that return in a step of the workspace answer.
LEMMA RepliesOk ==
    ASSUME NEW c \in Clients, ClientOk(client[c], subs'[c], entries'), EntriesOk'
    PROVE  ClientOk(Replied(client[c]), subs'[c], entries')
<1> DEFINE x == client[c]
           now == {q \in x.asks : q.cursor = None /\ Returns(q)}
           seq == entries'[x.session].seq
           told == {[q EXCEPT !.cursor = seq] : q \in {r \in now : Served(r)}}
           asks == (x.asks \ now) \cup told
<1>1. /\ x.asks \in SUBSET Asks
      /\ x = NoClient => x.asks = {}
      /\ x # NoClient => /\ x.session \in DOMAIN entries'
                         /\ \A a \in x.asks : a.cursor # None =>
                               a.cursor \in Nat /\ a.cursor <= seq
  BY AsksHave
<1>2. now \subseteq x.asks /\ (now = {} => told = {})
  OBVIOUS
<1>3. x # NoClient => seq \in Nat
  BY <1>1 DEF EntriesOk, EntryOk
<1>4. \A a \in told : \E q \in now : a = [q EXCEPT !.cursor = seq]
  OBVIOUS
<1>5. Replied(x) = [x EXCEPT !.asks = asks]
  BY DEF Replied
<1> HIDE DEF x, now, seq, told
<1>6. ASSUME NEW a \in told PROVE a \in Asks /\ a.cursor = seq
  <2>1. PICK q \in now : a = [q EXCEPT !.cursor = seq]
    BY <1>4
  <2>2. q \in Asks /\ x # NoClient
    BY <1>1, <1>2
  <2>3. seq \in Nat
    BY <1>3, <2>2
  <2> QED BY <2>1, <2>2, <2>3 DEF Asks
<1>7. asks \in SUBSET Asks
  BY <1>1, <1>6
<1>8. x = NoClient => asks = {}
  BY <1>1, <1>2
<1>9. ASSUME x # NoClient, NEW a \in asks, a.cursor # None
      PROVE  a.cursor <= entries'[x.session].seq
  <2>1. CASE a \in told
    BY <1>3, <1>6, <1>9, <2>1 DEF seq
  <2>2. CASE a \in x.asks
    BY <1>1, <1>9, <2>2 DEF seq
  <2> QED BY <1>9, <2>1, <2>2
<1> HIDE DEF asks
<1>10. ClientOk(x, subs'[c], entries')
  BY DEF x
<1>11. ClientOk([x EXCEPT !.asks = asks], subs'[c], entries')
  BY <1>7, <1>8, <1>9, <1>10, AsksOk
<1> QED BY <1>5, <1>11 DEF x

\* A step of the workspace, with what it answers.
LEMMA RepliesStep ==
    ASSUME EntriesOk, AnalysesOk, ClientsOk, SubsOk, Workspace, Replies
    PROVE  EntriesOk' /\ AnalysesOk' /\ ClientsOk' /\ CacheForward
<1>1. StepOk
  BY WorkspaceStep
<1>2. ASSUME NEW c \in Clients PROVE ClientOk(client'[c], subs'[c], entries')
  <2>1. ClientOk(client[c], subs[c], entries)
    BY DEF ClientsOk
  <2>2. ClientOk(client[c], subs'[c], entries')
    BY <1>1, <2>1, ClientFollows DEF StepOk, SubsFollow
  <2>3. client'[c] = Replied(client[c])
    BY DEF Replies
  <2> QED BY <1>1, <2>2, <2>3, RepliesOk DEF StepOk
<1>3. client' = [c \in Clients |-> client'[c]]
  BY DEF Replies
<1>4. \A c \in Clients : client'[c] \in ClientStates
  BY <1>2 DEF ClientOk
<1>5. client' \in [Clients -> ClientStates]
  BY <1>3, <1>4
<1>6. ClientsOk'
  BY <1>1, <1>2, <1>5 DEF ClientsOk, StepOk, SubsFollow
<1> QED BY <1>1, <1>6 DEF StepOk

\* A client asks for a cancellation or an analysis.
LEMMA AskedStep ==
    ASSUME EntriesOk, ClientsOk, StepOk, NEW c \in Clients, Shown(c),
           NEW ask \in Asks, ask.cursor = None, Asked(c, ask)
    PROVE  EntriesOk' /\ AnalysesOk' /\ ClientsOk' /\ CacheForward
<1>1. client \in [Clients -> ClientStates] /\ client[c] # NoClient
  BY DEF ClientsOk, Shown, NoClient
<1>2. ASSUME NEW d \in Clients PROVE ClientOk(client'[d], subs'[d], entries')
  <2>1. ClientOk(client[d], subs[d], entries)
    BY DEF ClientsOk
  <2>2. ClientOk(client[d], subs'[d], entries')
    BY <2>1, ClientFollows DEF StepOk, SubsFollow
  <2>3. CASE d # c
    BY <1>1, <2>2, <2>3 DEF Asked
  <2>4. CASE d = c
    <3> DEFINE asks == client[c].asks \cup {ask}
    <3>1. client'[c] = [client[c] EXCEPT !.asks = asks]
      BY <1>1 DEF Asked
    <3>2. /\ client[c].asks \in SUBSET Asks
          /\ \A a \in client[c].asks : a.cursor # None =>
                a.cursor <= entries'[client[c].session].seq
      BY <1>1, <2>2, <2>4, AsksHave
    <3>3. /\ asks \in SUBSET Asks
          /\ \A a \in asks : a.cursor # None => a.cursor <= entries'[client[c].session].seq
      BY <3>2
    <3> HIDE DEF asks
    <3> QED BY <1>1, <2>2, <2>4, <3>1, <3>3, AsksOk
  <2> QED BY <2>3, <2>4
<1>3. client' \in [Clients -> ClientStates]
  <2>1. client'[c] \in ClientStates
    BY <1>2 DEF ClientOk
  <2> QED BY <1>1, <2>1 DEF Asked
<1>4. ClientsOk'
  BY <1>2, <1>3 DEF ClientsOk, StepOk, SubsFollow
<1> QED BY <1>4 DEF StepOk

\* cancel.
LEMMA CancelStep ==
    ASSUME EntriesOk, AnalysesOk, ClientsOk, SubsOk, NEW c \in Clients, NEW h \in Stoppers,
           Cancel(c, h)
    PROVE  EntriesOk' /\ AnalysesOk' /\ ClientsOk' /\ CacheForward
<1>1. client[c].session \in Sessions
  BY DEF Cancel, StopAsk, EntriesOk
<1>2. StepOk
  BY <1>1, EndAskStep DEF Cancel
<1>3. Ask("CANCEL", h) \in Asks /\ Ask("CANCEL", h).cursor = None
  BY DEF Ask, Asks
<1> QED BY <1>2, <1>3, AskedStep DEF Cancel

\* analyse.
LEMMA AskAnalysisStep ==
    ASSUME EntriesOk, AnalysesOk, ClientsOk, SubsOk, NEW c \in Clients, NEW a \in Analysers,
           AskAnalysis(c, a)
    PROVE  EntriesOk' /\ AnalysesOk' /\ ClientsOk' /\ CacheForward
<1>1. client[c].session \in Sessions
  BY DEF AskAnalysis, AnalyseAsk, EntriesOk
<1>2. StepOk
  BY <1>1, AnalyseAskStep DEF AskAnalysis
<1>3. Ask("ANALYSIS", a) \in Asks /\ Ask("ANALYSIS", a).cursor = None
  BY DEF Ask, Asks
<1> QED BY <1>2, <1>3, AskedStep DEF AskAnalysis

\* A queue in order with a cursor is in order with a later one.
LEMMA QueueLater ==
    ASSUME NEW q, NEW cursor \in Nat, NEW later \in Nat, cursor <= later, NEW last \in Nat,
           QueueOk(q, cursor, last)
    PROVE  QueueOk(q, later, last)
<1>1. ASSUME NEW k, NEW m, Covers(q.items, k, cursor, m) PROVE Covers(q.items, k, later, m)
  <2> SUFFICES ASSUME NEW n \in (later + 1)..m PROVE \E j \in 1..k : Brings(q.items[j], n)
    BY DEF Covers
  <2>1. n \in (cursor + 1)..m
    OBVIOUS
  <2> QED BY <1>1, <2>1 DEF Covers
<1> QED BY <1>1 DEF QueueOk, ItemsOk

\* An answer is accepted, without a page.
LEMMA AcceptedOk ==
    ASSUME NEW x, NEW q, NEW es, ClientOk(x, q, es), x # NoClient,
           es[x.session].seq \in Nat, NEW answer \in Nat, answer <= es[x.session].seq
    PROVE  LET y == Accept(x, answer, {}, FALSE)
           IN ClientOk(y, q, es) /\ y.asks = x.asks /\ y # NoClient
<1> DEFINE y == Accept(x, answer, {}, FALSE)
           last == es[x.session].seq
<1>1. /\ x \in ClientStates /\ x.session \in DOMAIN es /\ x.phase # "OFF"
      /\ x.cursor <= last /\ x.snapshot <= last /\ AnswersOk(x, last)
      /\ (x.gap \/ Spanned(x)) /\ Reached(x)
      /\ x.phase = "CONNECTING" => x.snapshot <= x.cursor
  BY DEF ClientOk
<1>2. x.cursor \in Nat /\ x.snapshot \in Nat /\ x.from \in Nat
  BY <1>1 DEF ClientStates
<1>3. /\ y \in ClientStates /\ y.session = x.session /\ y.snapshot = x.snapshot
      /\ y.phase = x.phase /\ y.from = x.from /\ y.asks = x.asks
      /\ y.cursor >= x.cursor /\ y.cursor \in {x.cursor, answer}
      /\ y.gap \/ Spanned(y)
      /\ x.timeline \cup x.passed \subseteq y.timeline \cup y.passed
      /\ y.gap \in BOOLEAN /\ (x.gap => y.gap)
      /\ ~y.gap => \A n \in x.cursor + 1 .. y.cursor : n \in y.timeline \cup y.passed
  <2>1. {} \in SUBSET Nat /\ FALSE \in BOOLEAN
    OBVIOUS
  <2>2. \A first \in {} : \A n \in first..x.cursor : n \in x.timeline \cup {} \cup x.passed
    OBVIOUS
  <2> HIDE DEF last
  <2> QED BY <1>1, <2>1, <2>2, AcceptSpans
<1> HIDE DEF y
<1>4. y.cursor \in Nat /\ y.cursor <= last
  BY <1>1, <1>2, <1>3
<1>5. y # NoClient /\ y.phase # "OFF"
  BY <1>1, <1>3 DEF NoClient
<1>6. AnswersOk(y, last)
  BY <1>1, <1>3 DEF AnswersOk
<1>7. Reached(y)
  <2> SUFFICES ASSUME y.phase \in {"RESYNC", "NEXT_PAGE"}, ~y.gap
               PROVE  /\ y.from <= y.cursor
                      /\ \A n \in y.from + 1 .. y.cursor : n \in y.timeline \cup y.passed
    BY DEF Reached
  <2>1. /\ x.from <= x.cursor
        /\ \A n \in x.from + 1 .. x.cursor : n \in x.timeline \cup x.passed
    BY <1>1, <1>3 DEF Reached
  <2>2. ASSUME NEW n \in y.from + 1 .. y.cursor PROVE n \in y.timeline \cup y.passed
    <3>1. CASE n <= x.cursor
      <4>1. n \in x.from + 1 .. x.cursor
        BY <1>2, <1>3, <1>4, <3>1
      <4> QED BY <1>3, <2>1, <4>1
    <3>2. CASE n > x.cursor
      <4>1. n \in x.cursor + 1 .. y.cursor
        BY <1>2, <1>3, <1>4, <3>2
      <4> QED BY <1>3, <4>1
    <3> QED BY <1>2, <1>3, <1>4, <3>1, <3>2
  <2> QED BY <1>2, <1>3, <1>4, <2>1, <2>2
<1>8. y.phase = "CONNECTING" => y.snapshot <= y.cursor
  BY <1>1, <1>2, <1>3, <1>4
<1>9. q # None => q.session = y.session /\ QueueOk(q, y.cursor, last)
  BY <1>2, <1>3, <1>4, QueueLater DEF ClientOk
<1>10. y.snapshot <= last
  BY <1>1, <1>3
<1>11. q # None <=> y.phase = "OPEN"
  BY <1>3 DEF ClientOk
<1> HIDE DEF last
<1>12. ClientOk(y, q, es)
  BY <1>1, <1>3, <1>4, <1>5, <1>6, <1>7, <1>8, <1>9, <1>10, <1>11 DEF ClientOk, last
<1> QED BY <1>3, <1>5, <1>12 DEF y

\* The answer arrives.
LEMMA AcceptAnswerStep ==
    ASSUME EntriesOk, AnalysesOk, ClientsOk, SubsOk, NEW c \in Clients, AcceptAnswer(c)
    PROVE  EntriesOk' /\ AnalysesOk' /\ ClientsOk' /\ CacheForward
<1> DEFINE x == client[c]
           last == entries[x.session].seq
<1>0. PICK q \in x.asks :
        /\ q.cursor # None
        /\ \E y \in {x, Accept(x, q.cursor, {}, FALSE)} : OnlyClient(c, [y EXCEPT !.asks = @ \ {q}])
        /\ UNCHANGED <<entries, subs>>
  BY DEF AcceptAnswer
<1>1. PICK y \in {x, Accept(x, q.cursor, {}, FALSE)} :
        /\ q.cursor # None /\ OnlyClient(c, [y EXCEPT !.asks = @ \ {q}])
        /\ UNCHANGED <<entries, subs>>
  BY <1>0
<1>2. ClientOk(x, subs[c], entries)
  BY DEF ClientsOk
<1>3. /\ x # NoClient /\ x.session \in DOMAIN entries
      /\ q.cursor \in Nat /\ q.cursor <= last
      /\ x.asks \in SUBSET Asks
      /\ \A a \in x.asks : a.cursor # None => a.cursor <= last
  BY <1>1, <1>2, AsksHave
<1>4. last \in Nat
  BY <1>3 DEF EntriesOk, EntryOk
<1>5. ClientOk(y, subs[c], entries) /\ y.asks = x.asks /\ y # NoClient /\ y.session = x.session
  <2>1. ClientOk(Accept(x, q.cursor, {}, FALSE), subs[c], entries)
        /\ Accept(x, q.cursor, {}, FALSE).asks = x.asks
        /\ Accept(x, q.cursor, {}, FALSE) # NoClient
    <3> HIDE DEF x
    <3> QED BY <1>2, <1>3, <1>4, AcceptedOk
  <2>2. x \in ClientStates
    BY <1>2 DEF ClientOk
  <2>3. Accept(x, q.cursor, {}, FALSE).session = x.session
    BY <2>2 DEF Accept, ClientStates
  <2> HIDE DEF x
  <2> QED BY <1>1, <1>2, <1>3, <2>1, <2>3
<1> DEFINE asks == y.asks \ {q}
           next == [y EXCEPT !.asks = asks]
<1>6. ClientOk(next, subs[c], entries)
  <2>1. asks \in SUBSET Asks
        /\ \A a \in asks : a.cursor # None => a.cursor <= entries[y.session].seq
    BY <1>3, <1>5
  <2> HIDE DEF asks, x
  <2> QED BY <1>5, <2>1, AsksOk
<1>7. client' = [client EXCEPT ![c] = next] /\ UNCHANGED <<held, stoppers, analysers, shutdown>>
  BY <1>1 DEF OnlyClient
<1> HIDE DEF next, x
<1>8. EntriesGrow /\ AnalysesKept /\ \A d \in Clients : d # c => Follows(d)
  BY <1>1, OthersFollow
<1>9. DOMAIN subs' = Clients /\ ClientOk(next, subs'[c], entries')
  BY <1>1, <1>6 DEF SubsOk
<1> QED BY <1>7, <1>8, <1>9, ClientMoves

-----------------------------------------------------------------------------
(***************************************************************************)
(* The invariant, and what follows.                                        *)
(***************************************************************************)
\* Nothing is there at first.
LEMMA InitOk == Init => IInv
<1> SUFFICES ASSUME Init PROVE IInv
  OBVIOUS
<1>1. EntriesOk
  BY DEF Init, EntriesOk
<1>2. AnalysesOk
  BY DEF Init, AnalysesOk, AnalyserStates, Holding
<1>3. NoClient \in ClientStates /\ Spanned(NoClient) /\ NoClient.phase = "OFF"
  BY DEF NoClient, ClientStates, Phases, Spanned, Spans
<1>4. ClientOk(NoClient, None, entries)
  BY <1>3 DEF ClientOk, Reached
<1>5. ClientsOk
  BY <1>3, <1>4 DEF Init, ClientsOk
<1> QED BY <1>1, <1>2, <1>5 DEF IInv

\* Every step keeps it, and moves no cache backwards.
LEMMA StepKeeps == IInv /\ [Next]_allVars => IInv' /\ CacheForward
<1> SUFFICES ASSUME EntriesOk, AnalysesOk, ClientsOk, [Next]_allVars
             PROVE  EntriesOk' /\ AnalysesOk' /\ ClientsOk' /\ CacheForward
  BY DEF IInv
<1>0. SubsOk
  BY ClientsSubs DEF EntriesOk
<1>1. CASE Workspace /\ Replies
  BY <1>0, <1>1, RepliesStep
<1>2. ASSUME NEW c \in Clients,
             ClientStep(c) \/ TransportLost(c) \/ LoadOlder(c) \/ AcceptAnswer(c)
      PROVE  EntriesOk' /\ AnalysesOk' /\ ClientsOk' /\ CacheForward
  BY <1>0, <1>2, ReadSnapshotStep, ReadPageStep, SubscribeStep, DeliverStep, HeartbeatStep,
     ResyncLaterStep, TransportLostStep, LoadOlderStep, AcceptAnswerStep DEF ClientStep
<1>3. ASSUME NEW c \in Clients, NEW s \in Sessions, Choose(c, s)
      PROVE  EntriesOk' /\ AnalysesOk' /\ ClientsOk' /\ CacheForward
  BY <1>0, <1>3, ChooseStep
<1>4. CASE UNCHANGED allVars
  <2>1. UNCHANGED <<held, entries, stoppers, analysers, shutdown, subs, client>>
    BY <1>4 DEF allVars, vars
  <2>2. EntriesOk' /\ AnalysesOk' /\ ClientsOk'
    BY <2>1 DEF EntriesOk, AnalysesOk, Holding, ClientsOk
  <2>3. CacheForward
    BY <2>1 DEF CacheForward, EntriesOk, EntryOk
  <2> QED BY <2>2, <2>3
<1>5. ASSUME NEW c \in Clients,
             \/ \E h \in Stoppers : Cancel(c, h)
             \/ \E a \in Analysers : AskAnalysis(c, a)
      PROVE  EntriesOk' /\ AnalysesOk' /\ ClientsOk' /\ CacheForward
  BY <1>0, <1>5, CancelStep, AskAnalysisStep
<1> QED BY <1>1, <1>2, <1>3, <1>4, <1>5 DEF Next

\* The invariant holds.
LEMMA Invariance == Spec => []IInv
BY InitOk, StepKeeps, PTL DEF Spec

\* An entry that a client misses between its first and its cursor, without saying that
\* it misses any, is one that an accepted snapshot went past, whatever was lost, trimmed,
\* closed or reordered on the way (live.ts acceptSnapshot and applyEnvelope; Live.tsx
\* resync, cancel and analyse).
THEOREM SilentHolesArePassed == Spec => []OnlySnapshotsHide
<1>1. IInv => OnlySnapshotsHide
  BY DEF IInv, ClientsOk, ClientOk, Spanned, OnlySnapshotsHide
<1> QED BY <1>1, Invariance, PTL

\* An older analysis never replaces a newer one (workspace.py analyse, confirmed_analysis).
THEOREM CacheMovesForward == Spec => CacheNeverGoesBack
<1>1. IInv /\ [Next]_allVars =>
        [\A s \in DOMAIN entries :
            entries[s].cached # None => entries'[s].cached >= entries[s].cached]_allVars
  BY StepKeeps DEF CacheForward
<1> QED BY <1>1, Invariance, PTL DEF Spec, CacheNeverGoesBack
=============================================================================
