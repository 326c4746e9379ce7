------------------------------- MODULE Replay -------------------------------
(***************************************************************************)
(* Market replay over paper positions                                      *)
(* (backend/app/application/replay/service.py, domain/replay and           *)
(* adapters/persistence/replay_store.py): creating the session, advancing  *)
(* its cursor, and opening and commanding positions inside it.  A step is  *)
(* not one transaction: every awaited store call is a step of the model,   *)
(* so requests interleave between them and may die between any two.        *)
(*                                                                         *)
(* One idempotency key, hence at most one session.  The paper positions it *)
(* drives are the records of PaperEngine; one call of the paper service is *)
(* one step here, which its row lock justifies (PaperService).  A dataset  *)
(* is immutable and content-addressed, so reading it is not a step.  An    *)
(* upload is a timeframe and the candles the parser finds in its content.  *)
(***************************************************************************)
EXTENDS PaperEngine

CONSTANTS
    Tabs,               \* request handlers, one per client in flight
    Candles,            \* the driver candles of the dataset, in order
    Creates,            \* create requests under the key: start, driver, uploads
    SupportedTimeframes,
    MaxTotalRows,       \* ReplayLimits.max_total_rows
    StepCommands,       \* advances: key or None, steps, whether a version is sent
    OpenKeys,           \* idempotency keys of opened positions, hence their ids
    Wanted,             \* what each of them asks for, but its decision time
    MaxAdvanceSteps,    \* ReplayLimits.max_advance_steps
    MaxPositions        \* ReplayLimits.max_session_positions

StepKeys == {c.key : c \in StepCommands} \ {None}

CoverageEnd(candle) == candle.time + Interval

ASSUME ReplayConstants ==
    /\ Candles \in Seq(Bar) /\ Candles # <<>>
    /\ \A c \in Creates : \A i \in DOMAIN c.uploads :
          c.uploads[i].timeframe = c.driver => c.uploads[i].candles \in {None, <<>>, Candles}
    /\ MaxTotalRows \in Nat
    /\ \A i \in DOMAIN Candles : ValidBar(Candles[i])
    /\ \A i \in 2..Len(Candles) : Candles[i].time >= CoverageEnd(Candles[i - 1])
    /\ \A c, d \in StepCommands : c.key = d.key => c = d
    /\ \A c \in StepCommands : c.versioned => c.key # None
    /\ \A c \in StepCommands : c.steps \in Int
    /\ \A c \in Creates : c.start \in Int
    /\ \A k \in OpenKeys : Wanted[k] \in PositionSpec /\ ValidSpec(Wanted[k])
    /\ MaxAdvanceSteps \in Nat \ {0} /\ MaxPositions \in Nat

VARIABLES
    datasets,       \* the committed datasets, each its own identity
    session,        \* the committed replay_sessions row
    positions,      \* committed paper positions, by key
    links,          \* replay_position_links of the session, in order of creation
    work,           \* what each handler is doing
    expected,       \* the version a client read before it first sent a command
    told            \* history, by revealed candle: how many of the links the advance
                    \* that revealed it had read

vars == <<datasets, session, positions, links, work, expected, told>>

Idle == [command |-> None, pc |-> "idle", session |-> None, left |-> 0, target |-> 0,
         links |-> <<>>, fed |-> 0, answer |-> None]

Init ==
    /\ datasets = {}
    /\ session = None
    /\ positions = [k \in OpenKeys |-> None]
    /\ links = <<>>
    /\ work = [t \in Tabs |-> Idle]
    /\ expected = [k \in StepKeys |-> None]
    /\ told = <<>>

At(t, pc) == work[t].pc = pc
Goto(t, pc) == [work EXCEPT ![t].pc = pc]
Answer(t, code) == [work EXCEPT ![t] = [Idle EXCEPT !.answer = code]]

-----------------------------------------------------------------------------
(***************************************************************************)
(* The cursor (domain/replay).                                             *)
(***************************************************************************)
RevealedCount(asOf) ==
    Cardinality({i \in DOMAIN Candles : CoverageEnd(Candles[i]) <= asOf})

\* What "the same request" means: the plan and the data, in any order.
Fingerprint(request) ==
    LET uploads == request.uploads
    IN  [start |-> request.start, driver |-> request.driver,
         data |-> [u \in {uploads[i] : i \in DOMAIN uploads} |->
                      Cardinality({i \in DOMAIN uploads : uploads[i] = u})]]

Status(count, otherwise) == IF count >= Len(Candles) THEN "END_OF_DATASET" ELSE otherwise

\* The rows of replay_sessions; None is neither one of them nor a position.
Requested == {Fingerprint(c) : c \in Creates}

SessionRows ==
    [request: Requested, asOf: Int, revealed: Nat,
     state: {"READY", "IN_PROGRESS", "END_OF_DATASET"}, version: Nat,
     key: StepKeys \cup {None}, target: Int \cup {None}]

ASSUME NoneIsNoRow == None \notin SessionRows /\ None \notin PaperPositions

\* start_cursor, for a start inside the data: snapped to the boundary before it
StartCursor(request) ==
    LET count == RevealedCount(request.start)
    IN  [request |-> Fingerprint(request), asOf |-> CoverageEnd(Candles[count]), revealed |-> count,
         state |-> Status(count, "READY"), version |-> 1, key |-> None, target |-> None]

\* step: exactly one more driver candle, at its coverage end
StepCursor(s) ==
    LET count == s.revealed + 1
    IN  [s EXCEPT !.asOf = CoverageEnd(Candles[count]), !.revealed = count,
                  !.state = Status(count, "IN_PROGRESS"), !.version = @ + 1]

-----------------------------------------------------------------------------
(***************************************************************************)
(* create                                                                  *)
(***************************************************************************)

\* A handler that has answered is free; clients may repeat any request.
Receive(t, command) ==
    /\ At(t, "idle")
    /\ work' = [work EXCEPT ![t].command = command, ![t].answer = None,
                            ![t].pc = CASE command.op = "CREATE" -> "find"
                                        [] command.op = "STEP" -> "load"
                                        [] command.op = "OPEN" -> "load to open"]
    /\ UNCHANGED <<datasets, session, positions, links, told>>

Create(t) ==
    /\ \E request \in Creates : Receive(t, [op |-> "CREATE", request |-> request])
    /\ UNCHANGED expected

Rows(upload) == IF upload.candles = None THEN 0 ELSE Len(upload.candles)

\* Why the upload at i is refused, all before it having passed: the rows count
\* towards one limit over the whole request.
UploadRefusal(uploads, i) ==
    LET upload == uploads[i]
    IN  IF upload.timeframe \notin SupportedTimeframes THEN "UNSUPPORTED_TIMEFRAME"
        ELSE IF \/ \E j \in 1..(i - 1) : uploads[j].timeframe = upload.timeframe
                \/ upload.candles \in {None, <<>>}
          THEN "DATASET_INVALID"
        ELSE IF SumFunction([j \in 1..i |-> Rows(uploads[j])]) > MaxTotalRows
          THEN "RESOURCE_LIMIT"
        ELSE OK

\* _parse_datasets: the first refused upload decides, then the driver
ParseDatasets(request) ==
    LET uploads == request.uploads
        refused == {i \in DOMAIN uploads : UploadRefusal(uploads, i) # OK}
    IN  IF uploads = <<>> THEN "DATASET_INVALID"
        ELSE IF refused # {} THEN UploadRefusal(uploads, Min(refused))
        ELSE IF \A i \in DOMAIN uploads : uploads[i].timeframe # request.driver
          THEN "DRIVER_TIMEFRAME_MISSING"
        ELSE OK

\* _describe: the digest of the candles of every timeframe
Describe(request) == {request.uploads[i] : i \in DOMAIN request.uploads}

\* find_session_by_key, then the parsing of the uploads
FindByKey(t) ==
    /\ At(t, "find")
    /\ LET request == work[t].command.request
           parsed == ParseDatasets(request)
       IN  work' =
             IF session # None
               THEN Answer(t, IF session.request = Fingerprint(request) THEN "REPLAYED"
                              ELSE "IDEMPOTENCY_CONFLICT")
             ELSE IF parsed # OK THEN Answer(t, parsed)
             ELSE Goto(t, "save dataset")
    /\ UNCHANGED <<datasets, session, positions, links, expected, told>>

\* save_dataset, which keeps the rows already there, then the start: a refused
\* start leaves its dataset stored
SaveDataset(t) ==
    /\ At(t, "save dataset")
    /\ datasets' = datasets \cup {Describe(work[t].command.request)}
    /\ LET start == work[t].command.request.start
       IN  work' =
             IF start < CoverageEnd(Candles[1]) THEN Answer(t, "REPLAY_START_BEFORE_DATA")
             ELSE IF start > CoverageEnd(Candles[Len(Candles)])
               THEN Answer(t, "REPLAY_START_AFTER_DATA")
             ELSE Goto(t, "insert")
    /\ UNCHANGED <<session, positions, links, expected, told>>

\* create_session: the unique key refuses the second of two racing inserts
InsertSession(t) ==
    /\ At(t, "insert")
    /\ IF session # None
       THEN work' = Goto(t, "find winner") /\ UNCHANGED <<session, told>>
       ELSE /\ work' = Answer(t, OK) /\ session' = StartCursor(work[t].command.request)
            /\ told' = [i \in 1..session'.revealed |-> 0]
    /\ UNCHANGED <<datasets, positions, links, expected>>

\* The loser of the race is answered with the winner's session.
FindWinner(t) ==
    /\ At(t, "find winner")
    /\ work' = Answer(t, "REPLAYED")
    /\ UNCHANGED <<datasets, session, positions, links, expected, told>>

-----------------------------------------------------------------------------
(***************************************************************************)
(* step: deliver, then commit, one boundary at a time                      *)
(***************************************************************************)

\* A client that sends a version reads it once; its repeats send the same one.
Step(t) ==
    /\ session # None
    /\ \E c \in StepCommands :
        /\ Receive(t, [op |-> "STEP", step |-> c])
        /\ expected' = [k \in StepKeys |->
              IF k = c.key /\ c.versioned /\ expected[k] = None THEN session.version
              ELSE expected[k]]

\* The request carries the key of the last command that moved the session.
Repeats(s, command) == command.key # None /\ command.key = s.key

\* Mutant: a repeated command asks for all of its steps again.
RemainingRepeated(s, command) == command.steps

\* How many steps a request still has to make: all of them, or the rest of a
\* command that stopped part way.
Remaining(s, command) ==
    IF Repeats(s, command) THEN s.target - s.revealed ELSE command.steps

VersionConflict(s, command) == command.versioned /\ expected[command.key] # s.version

\* _load, the repeated command, the version, and the plan of the whole advance
LoadToStep(t) ==
    /\ At(t, "load")
    /\ LET command == work[t].command.step
           remaining == Remaining(session, command)
           left == IF remaining <= Len(Candles) - session.revealed
                   THEN remaining ELSE Len(Candles) - session.revealed
       IN  work' =
             IF command.steps < 1 THEN Answer(t, "INVALID_ADVANCE")
             ELSE IF command.steps > MaxAdvanceSteps THEN Answer(t, "RESOURCE_LIMIT")
             ELSE IF Repeats(session, command) /\ session.revealed >= session.target
               THEN Answer(t, "REPLAYED")
             ELSE IF VersionConflict(session, command) THEN Answer(t, "VERSION_CONFLICT")
             ELSE IF session.state = "END_OF_DATASET" THEN Answer(t, "REPLAY_END")
             ELSE [Goto(t, "links") EXCEPT ![t].session = session, ![t].left = left,
                                           ![t].target = session.revealed + left]
    /\ UNCHANGED <<datasets, session, positions, links, expected, told>>

\* linked_positions, read once for all the boundaries of the advance
ReadLinks(t) ==
    /\ At(t, "links")
    /\ work' = [Goto(t, "feed") EXCEPT ![t].links = links, ![t].fed = 0]
    /\ UNCHANGED <<datasets, session, positions, links, expected, told>>

\* observe, with a clock that reads the boundary the step is about to reach
Observe(p, bar, now) ==
    IF CoverageEnd(bar) > now THEN Result("OBSERVATION_NOT_CLOSED", p)
    ELSE ApplyObservation(p, bar)

\* _feed_positions, one position: only a terminal one may refuse the bar
Feed(t) ==
    LET next == work[t].fed + 1
        id == work[t].links[next]
        reached == StepCursor(work[t].session)
    IN  /\ At(t, "feed") /\ next <= Len(work[t].links)
        /\ \E observed \in {Observe(positions[id], Candles[reached.revealed], reached.asOf)} :
            /\ positions' = [positions EXCEPT ![id] = observed.position]
            /\ work' = IF observed.code \in {OK, "INVALID_TRANSITION"}
                       THEN [work EXCEPT ![t].fed = next]
                       ELSE Answer(t, "OBSERVATION_NOT_DELIVERED")
        /\ UNCHANGED <<datasets, session, links, expected, told>>

\* What the advance writes: the next cursor, with the command's key and target.
Reached(t) ==
    LET key == work[t].command.step.key
    IN  [StepCursor(work[t].session) EXCEPT
            !.key = key, !.target = IF key = None THEN None ELSE work[t].target]

\* The UPDATE of the cursor, conditional on the version that was loaded.
Moved(t) ==
    /\ session.version = work[t].session.version
    /\ session' = Reached(t)
    /\ told' = Append(told, Len(work[t].links))

\* Mutant: the cursor may move before every position has the bar.
FedEarly(t) == At(t, "feed")

\* Every linked position has taken, or need not take, the bar of this boundary.
Fed(t) == At(t, "feed") /\ work[t].fed = Len(work[t].links)

\* advance_session, and the next round of the loop or the answer
AdvanceSession(t) ==
    /\ Fed(t)
    /\ Moved(t)
    /\ work' = IF work[t].left = 1 THEN Answer(t, OK)
               ELSE [work EXCEPT ![t].left = @ - 1, ![t].fed = 0,
                                 ![t].session = Reached(t)]
    /\ UNCHANGED <<datasets, positions, links, expected>>

AdvanceConflict(t) ==
    /\ Fed(t)
    /\ session.version # work[t].session.version
    /\ work' = Answer(t, "VERSION_CONFLICT")
    /\ UNCHANGED <<datasets, session, positions, links, expected, told>>

\* The cursor moved but the answer of the database was lost.
AdvanceUnacknowledged(t) ==
    /\ Fed(t)
    /\ Moved(t)
    /\ work' = Answer(t, "UNAVAILABLE")
    /\ UNCHANGED <<datasets, positions, links, expected>>

-----------------------------------------------------------------------------
(***************************************************************************)
(* open_paper_position, and the commands on a linked position              *)
(***************************************************************************)
Open(t) ==
    /\ session # None
    /\ \E k \in OpenKeys : Receive(t, [op |-> "OPEN", key |-> k])
    /\ UNCHANGED expected

LoadToOpen(t) ==
    /\ At(t, "load to open")
    /\ work' = [Goto(t, "count links") EXCEPT ![t].session = session]
    /\ UNCHANGED <<datasets, session, positions, links, expected, told>>

CountLinks(t) ==
    /\ At(t, "count links")
    /\ work' = IF Len(links) >= MaxPositions THEN Answer(t, "RESOURCE_LIMIT")
               ELSE Goto(t, "create")
    /\ UNCHANGED <<datasets, session, positions, links, expected, told>>

\* paper.create, deciding at the replay time that was loaded; a repeat of the
\* key is the same request only if that time is the same.  The product may not
\* be calculable.
CreatePosition(t) ==
    /\ At(t, "create")
    /\ \E calculable \in BOOLEAN :
        LET key == work[t].command.key
            spec == [Wanted[key] EXCEPT !.decision = work[t].session.asOf]
            opened == OpenPosition(spec, spec.quantity, calculable, TRUE)
        IN  IF positions[key] # None
              THEN /\ work' = IF positions[key].spec = spec THEN Goto(t, "link")
                              ELSE Answer(t, "IDEMPOTENCY_KEY_REUSED")
                   /\ UNCHANGED positions
            ELSE IF opened.code # OK
              THEN work' = Answer(t, opened.code) /\ UNCHANGED positions
            ELSE /\ positions' = [positions EXCEPT ![key] = opened.position]
                 /\ work' = Goto(t, "link")
    /\ UNCHANGED <<datasets, session, links, expected, told>>

\* link_position: the primary key is the position, so a repeat raises
LinkPosition(t) ==
    /\ At(t, "link")
    /\ LET key == work[t].command.key
       IN  IF \E i \in DOMAIN links : links[i] = key
           THEN work' = Answer(t, "INTEGRITY_ERROR") /\ UNCHANGED links
           ELSE work' = Answer(t, OK) /\ links' = Append(links, key)
    /\ UNCHANGED <<datasets, session, positions, expected, told>>

\* _position_command: a close, breakeven or cancel of a position it owns
PositionCommand ==
    \E i \in DOMAIN links, kind \in {"CLOSE", "BREAKEVEN", "CANCEL"} :
        /\ positions' = [positions EXCEPT ![links[i]] = ApplyCommand(@, kind).position]
        /\ positions' # positions
        /\ UNCHANGED <<datasets, session, links, work, expected, told>>

-----------------------------------------------------------------------------
\* A handler dies with its connection: what it committed stays.
ConnectionLost(t) ==
    /\ ~At(t, "idle")
    /\ work' = Answer(t, "UNAVAILABLE")
    /\ UNCHANGED <<datasets, session, positions, links, expected, told>>

Next ==
    \/ \E t \in Tabs :
        \/ Create(t) \/ FindByKey(t) \/ SaveDataset(t) \/ InsertSession(t) \/ FindWinner(t)
        \/ Step(t) \/ LoadToStep(t) \/ ReadLinks(t) \/ Feed(t)
        \/ AdvanceSession(t) \/ AdvanceConflict(t) \/ AdvanceUnacknowledged(t)
        \/ Open(t) \/ LoadToOpen(t) \/ CountLinks(t) \/ CreatePosition(t) \/ LinkPosition(t)
        \/ ConnectionLost(t)
    \/ PositionCommand

Spec == Init /\ [][Next]_vars

-----------------------------------------------------------------------------
(***************************************************************************)
(* Properties.                                                             *)
(***************************************************************************)
Applied(p, candle) == candle \in AppliedBars(p, candle.time)

(***************************************************************************)
(* A multi-step is exactly its single steps for every position that was    *)
(* linked when the advance read the links: it holds each revealed candle   *)
(* from its decision on, up to its end.  No failed delivery, conflict,     *)
(* retry, lost answer or concurrent advance makes it miss one; only a      *)
(* position linked after that read does, which is read once for all the    *)
(* candles of the advance.                                                 *)
(***************************************************************************)
ReadLinksMissNothing ==
    \A i \in DOMAIN told : \A n \in 1..told[i] :
        LET p == positions[links[n]]
            closedBefore == /\ p.state \in Terminal
                            /\ p.lastBar = None \/ p.lastBar < Candles[i].time
        IN  Candles[i].time >= p.spec.decision /\ ~closedBefore => Applied(p, Candles[i])

(***************************************************************************)
(* A repeated command finishes what it began and no more: while one key    *)
(* is the last command, its target stays and the cursor never passes it,   *)
(* also when the repeat overtakes a first attempt still running.           *)
(***************************************************************************)
RetryKeepsItsTarget ==
    [][session # None /\ session.key # None /\ session'.key = session.key =>
          session'.target = session.target /\ session'.revealed <= session.target]_vars
=============================================================================
