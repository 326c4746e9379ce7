------------------------------ MODULE LiveBook ------------------------------
(***************************************************************************)
(* One timeframe's candles and what is known about their completeness      *)
(* (backend/app/domain/live/book.py), as operators on a book record.       *)
(*                                                                         *)
(* The confirmed sequence is a function from open times to the sequence    *)
(* number and the values of the candle: the code keeps it sorted by time,  *)
(* so the function carries the same information.  Values are abstract: two *)
(* candles agree or they do not.  Counters that nothing reads (duplicates, *)
(* late fills, trims) are left out; unresolvedTrimmed and version are kept.*)
(***************************************************************************)
EXTENDS Optional, Integers, FiniteSets

CONSTANTS
    Interval,               \* length of the timeframe
    MaxClosedCandles,       \* LiveLimits.max_closed_candles
    MaxMissingSequences,    \* LiveLimits.max_missing_sequences
    MaxRecordedIssues       \* LiveLimits.max_recorded_issues

ASSUME LiveConstants ==
    /\ None \notin Int /\ None \notin BOOLEAN
    /\ Interval \in Nat \ {0}
    /\ MaxClosedCandles \in Nat \ {0}
    /\ MaxMissingSequences \in Nat \ {0}
    /\ MaxRecordedIssues \in Nat \ {0}

EmptyBook ==
    [closed |-> [t \in {} |-> None], forming |-> None, sequenced |-> None,
     last |-> None, missing |-> {}, overflowed |-> FALSE, unenumerated |-> None,
     jumps |-> {}, conflicts |-> {}, awaiting |-> FALSE, unresolvedTrimmed |-> 0,
     version |-> 0, freshness |-> "NO_DATA"]

Times(b) == DOMAIN b.closed
Newest(b) == CHOOSE t \in Times(b) : \A u \in Times(b) : u <= t
Oldest(b) == CHOOSE t \in Times(b) : \A u \in Times(b) : t <= u

\* A forming candle beyond the next interval proves unreceived closed ones.
FormingAhead(b) ==
    b.forming # None /\ Times(b) # {} /\ b.forming > Newest(b) + Interval

Integrity(b) ==
    IF b.conflicts # {} THEN "CONFLICTED"
    ELSE IF b.missing # {} \/ b.overflowed THEN "GAPPED"
    ELSE IF b.jumps # {} THEN "DISCONTINUOUS"
    ELSE IF b.awaiting \/ FormingAhead(b) THEN "UNVERIFIED"
    ELSE "COMPLETE"

MarkDisconnected(b) == [b EXCEPT !.forming = None, !.awaiting = TRUE]

Answer(outcome, b) == [outcome |-> outcome, book |-> b]

\* Mutant: anything received counts as continuity.
TouchProvesContinuity(b) == [b EXCEPT !.freshness = "FRESH", !.awaiting = FALSE]

\* _touch: a valid observation was received now
Touch(b) == [b EXCEPT !.freshness = "FRESH"]

ApplyForming(b, o) ==
    IF Times(b) # {} /\ o.time <= Newest(b)
    THEN Answer("STALE_FORMING", b)
    ELSE Answer("FORMING_UPDATED", Touch([b EXCEPT !.forming = o.time]))

(***************************************************************************)
(* Recording what is missing.                                              *)
(***************************************************************************)

\* _record_discontinuity: the oldest record is dropped for room
RecordJump(b, before, kind) ==
    LET grown == b.jumps \cup {[before |-> before, kind |-> kind]}
        oldest == CHOOSE d \in grown : \A e \in grown : d.before <= e.before
    IN  [b EXCEPT !.jumps = IF Cardinality(grown) > MaxRecordedIssues
                            THEN grown \ {oldest} ELSE grown]

\* Mutant: numbers that do not fit in the record are forgotten.
RecordMissingSilently(b, first, last) ==
    LET held == Cardinality(b.missing)
        room == IF held < MaxMissingSequences THEN MaxMissingSequences - held ELSE 0
    IN  [b EXCEPT !.missing = @ \cup {n \in first..last : n < first + room}]

\* _record_missing for the numbers first..last: the lowest are enumerated while
\* there is room, the highest that is not enumerated is remembered
RecordMissing(b, first, last) ==
    LET held == Cardinality(b.missing)
        room == IF held < MaxMissingSequences THEN MaxMissingSequences - held ELSE 0
        spills == last - first + 1 > room
    IN  [b EXCEPT
            !.missing = @ \cup {n \in first..last : n < first + room},
            !.overflowed = @ \/ spills,
            !.unenumerated = IF spills /\ (b.unenumerated = None \/ last > b.unenumerated)
                             THEN last ELSE @]

\* _check_coverage: how far the number moved against how far the time moved
CheckCoverage(b, time, step) ==
    LET moved == time - Newest(b)
    IN  IF moved = Interval * step
        THEN IF step > 1 THEN RecordMissing(b, b.last + 1, b.last + step - 1) ELSE b
        ELSE RecordJump(b, time,
                 IF moved % Interval = 0 /\ moved < Interval * step
                 THEN "SEQUENCE_MISMATCH" ELSE "TEMPORAL_GAP")

\* The candle is added to the confirmed sequence.
Placed(b, o) ==
    [b EXCEPT !.closed = [t \in Times(b) \cup {o.time} |->
        IF t = o.time THEN [seq |-> o.seq, value |-> o.value] ELSE b.closed[t]]]

(***************************************************************************)
(* A late candle fills a recorded gap when its neighbours' numbers and the *)
(* distance to the one before it put it exactly there.                     *)
(***************************************************************************)
FitsItsGap(b, o) ==
    LET before == {t \in Times(b) : t < o.time}
        after == {t \in Times(b) : t > o.time}
    IN  /\ \A t \in before : (\A u \in before : u <= t) =>
              /\ b.closed[t].seq < o.seq
              /\ o.time = t + Interval * (o.seq - b.closed[t].seq)
        /\ \A t \in after : (\A u \in after : t <= u) => b.closed[t].seq > o.seq

PlaceSequenced(b, o) ==
    IF b.last = None \/ o.seq > b.last
    THEN IF Times(b) # {} /\ o.time <= Newest(b)
         THEN Answer("ORDER_VIOLATION", b)
         ELSE LET checked == IF b.last # None /\ Times(b) # {}
                             THEN CheckCoverage(b, o.time, o.seq - b.last) ELSE b
              IN  Answer("ACCEPTED", [Placed(checked, o) EXCEPT !.last = o.seq])
    ELSE IF o.seq \in b.missing /\ FitsItsGap(b, o)
         THEN Answer("LATE_FILL", [Placed(b, o) EXCEPT !.missing = @ \ {o.seq}])
         ELSE Answer("ORDER_VIOLATION", b)

PlaceUnsequenced(b, o) ==
    IF Times(b) # {} /\ o.time < Newest(b)
    THEN Answer("LATE_UNSEQUENCED", b)
    ELSE Answer("ACCEPTED",
            Placed(IF Times(b) # {} /\ o.time # Newest(b) + Interval
                   THEN RecordJump(b, o.time, "TEMPORAL_GAP") ELSE b, o))

DropOldest(b) ==
    IF Cardinality(Times(b)) > MaxClosedCandles
    THEN [b EXCEPT
            !.closed = [t \in Times(b) \ {Oldest(b)} |-> b.closed[t]],
            !.conflicts = @ \ {Oldest(b)},
            !.unresolvedTrimmed = @ + (IF Oldest(b) \in b.conflicts THEN 1 ELSE 0)]
    ELSE b

RetireJumps(b) ==
    LET gone == {d \in b.jumps : d.before <= Oldest(b)}
    IN  [b EXCEPT !.jumps = @ \ gone,
                  !.unresolvedTrimmed = @ + Cardinality(gone)]

RetireMissing(b) ==
    LET floor == b.closed[Oldest(b)].seq
        gone == {n \in b.missing : n <= floor}
        retired == b.overflowed /\ b.unenumerated # None /\ b.unenumerated <= floor
    IN  [b EXCEPT !.missing = @ \ gone,
                  !.overflowed = @ /\ ~retired,
                  !.unenumerated = IF retired THEN None ELSE @,
                  !.unresolvedTrimmed = @ + Cardinality(gone) + (IF retired THEN 1 ELSE 0)]

Trim(b) ==
    LET kept == RetireJumps(DropOldest(b))
    IN  IF b.sequenced THEN RetireMissing(kept) ELSE kept

(***************************************************************************)
(* A closed candle: a repeat, a conflicting repeat, or a placement.        *)
(***************************************************************************)
ApplyPlaced(b, o) ==
    LET known == IF b.sequenced = None THEN [b EXCEPT !.sequenced = o.seq # None] ELSE b
        placed == IF known.sequenced THEN PlaceSequenced(known, o)
                                     ELSE PlaceUnsequenced(known, o)
        p == placed.book
        settled == [p EXCEPT
            !.forming = IF p.forming # None /\ p.forming <= o.time THEN None ELSE p.forming,
            !.awaiting = @ /\ placed.outcome # "ACCEPTED",
            !.version = @ + 1]
    IN  IF placed.outcome \in {"ACCEPTED", "LATE_FILL"}
        THEN Answer(placed.outcome, Trim(Touch(settled)))
        ELSE Answer(placed.outcome, known)

\* Mutant: a conflicting repeat replaces the stored candle.
ApplyClosedLatestWins(b, o) ==
    IF o.time \in Times(b) THEN Answer("ACCEPTED", Placed(b, o))
    ELSE IF b.sequenced # None /\ b.sequenced # (o.seq # None)
         THEN Answer("MIXED_SEQUENCING", b)
         ELSE ApplyPlaced(b, o)

ApplyClosed(b, o) ==
    IF o.time \in Times(b)
    THEN IF b.closed[o.time] = [seq |-> o.seq, value |-> o.value]
         THEN Answer("DUPLICATE", b)
         ELSE Answer("CONFLICT", [b EXCEPT !.conflicts = @ \cup {o.time}])
    ELSE IF b.sequenced # None /\ b.sequenced # (o.seq # None)
         THEN Answer("MIXED_SEQUENCING", b)
         ELSE ApplyPlaced(b, o)

Apply(b, o) == IF o.closed THEN ApplyClosed(b, o) ELSE ApplyForming(b, o)

Refusals == {"STALE_FORMING", "ORDER_VIOLATION", "LATE_UNSEQUENCED", "MIXED_SEQUENCING"}
=============================================================================
