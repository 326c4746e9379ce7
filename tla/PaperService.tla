---------------------------- MODULE PaperService ----------------------------
(***************************************************************************)
(* The paper-trading service over its PostgreSQL store                     *)
(* (backend/app/application/paper/service.py and                           *)
(* backend/app/adapters/persistence/paper_store.py).  Several HTTP         *)
(* requests run at once; each database statement is a step, so they        *)
(* interleave between statements as READ COMMITTED lets them.  A request   *)
(* may lose its connection at any step, also after its commit took effect, *)
(* and the client may then send it again.                                  *)
(***************************************************************************)
EXTENDS PaperEngine

CONSTANTS
    Workers,        \* request handlers of the API process
    Keys,           \* idempotency keys; a position's id is a digest of its key
    Commands,       \* the requests clients may send
    Nows,           \* readings of the server clock
    MaxBars,        \* PaperLimits.max_bars_per_position
    MaxRetries      \* bound on how often one client repeats a request

\* What the route schemas let through.
Requests ==
    [op: {"CREATE"}, key: Keys, spec: PositionSpec, approval: Nat \cup {None}] \cup
    [op: {"OBSERVE"}, key: Keys, bars: Seq(Bar)] \cup
    [op: {"CLOSE", "BREAKEVEN", "CANCEL", "GET"}, key: Keys]

ASSUME ServiceConstants ==
    /\ None \notin Workers /\ None # OK
    /\ MaxBars \in Nat /\ MaxRetries \in Nat
    /\ Nows \subseteq Int
    /\ Commands \subseteq Requests

-----------------------------------------------------------------------------
(***************************************************************************)
(* What the handlers compute from a position, apart from the store.        *)
(***************************************************************************)
\* One bar of an upload: it must have closed, and no bar before it was refused.
ApplyBar(r, bar, now) ==
    IF r.code # OK THEN r
    ELSE IF bar.time + Interval > now THEN Result("OBSERVATION_NOT_CLOSED", r.position)
    ELSE ApplyObservation(r.position, bar)

\* A whole upload is applied or refused: the loop stops at the first refusal.
ApplyBars(position, bars, now) ==
    LET after[i \in 0..Len(bars)] ==
            IF i = 0 THEN Result(OK, position) ELSE ApplyBar(after[i - 1], bars[i], now)
    IN  after[Len(bars)]

BarsApplied(p) ==
    Cardinality({i \in DOMAIN p.events : p.events[i].type = "OBSERVATION_APPLIED"})

\* What the handler computes from a rebuilt position, without the store.
Handled(command, position, now) ==
    IF command.op # "OBSERVE" THEN ApplyCommand(position, command.op)
    ELSE IF BarsApplied(position) + Len(command.bars) > MaxBars
         THEN Result("POSITION_BAR_LIMIT", position)
    ELSE ApplyBars(position, command.bars, now)

-----------------------------------------------------------------------------
VARIABLES
    rows,           \* committed paper_positions rows: a function on the keys in use
    ledger,         \* committed paper_events of each position
    lock,           \* the worker whose open transaction holds the row
    work            \* what each worker is doing

vars == <<rows, ledger, lock, work>>

\* A worker's request, its place in the handler, what it loaded, what it wrote
\* without committing, the answer it gave, and the client's repeats so far.
Idle == [command |-> None, pc |-> "idle", row |-> None, events |-> <<>>,
         next |-> None, answer |-> None, retries |-> 0]

Init ==
    /\ rows = [k \in {} |-> None]
    /\ ledger = [k \in Keys |-> <<>>]
    /\ lock = [k \in Keys |-> None]
    /\ work = [w \in Workers |-> Idle]

At(w, pc) == work[w].pc = pc
Op(w) == work[w].command.op
Key(w) == work[w].command.key

Goto(w, pc) == [work EXCEPT ![w].pc = pc]

\* The handler returns: what it loaded and computed is gone.
Answer(w, code) ==
    [work EXCEPT ![w] = [Idle EXCEPT !.command = work[w].command, !.pc = "done",
                                     !.answer = code, !.retries = work[w].retries]]

\* Mutant: a transaction that ends leaves its row locked.
LeakedLock(w) == lock

\* The end of a transaction, by commit or rollback, frees the row.
Released(w) == [k \in Keys |-> IF lock[k] = w THEN None ELSE lock[k]]

\* _project: the summary columns, all derived from the position
Project(p) ==
    [state |-> p.state, remaining |-> p.remaining, entry |-> p.entry,
     stop |-> p.stop, mark |-> p.mark, lastBar |-> p.lastBar, gross |-> p.gross,
     fees |-> p.fees, closePending |-> p.closePending,
     eventCount |-> Len(p.events)]

Start(op) ==
    CASE op = "CREATE" -> "find"
      [] op = "OBSERVE" -> "parse"
      [] op = "GET" -> "read row"
      [] OTHER -> "load for update"

Receive(w, command) ==
    /\ At(w, "idle")
    /\ work' = [work EXCEPT ![w].command = command, ![w].pc = Start(command.op)]
    /\ UNCHANGED <<rows, ledger, lock>>

\* The response went out; the handler is free for the next request.
Respond(w) ==
    /\ At(w, "done")
    /\ work' = [work EXCEPT ![w] = Idle]
    /\ UNCHANGED <<rows, ledger, lock>>

-----------------------------------------------------------------------------
(***************************************************************************)
(* create                                                                  *)
(***************************************************************************)

\* Mutant: any request under a known key is answered with the stored position.
AnswerAnyRetry(w, row) == Answer(w, "REPLAYED")

\* _fingerprint: everything the request asked for.  The account and the risk
\* policy are in it through what they approve.
Fingerprint(request) == [spec |-> request.spec, approval |-> request.approval]

\* _answer_retry: the same key with another request is refused
AnswerRetry(w, row) ==
    Answer(w, IF Fingerprint(row) = Fingerprint(work[w].command) THEN "REPLAYED"
              ELSE "IDEMPOTENCY_KEY_REUSED")

\* find_by_idempotency_key of the store: a committed row, or none
Stored(key) == key \in DOMAIN rows

\* _resolve: a resolver may be missing, or know nothing of the symbol; a product
\* it knows may still not be calculable
Resolved(product) ==
    CASE product = "NO_RESOLVER" -> "PRODUCT_METADATA_UNAVAILABLE"
      [] product = "UNKNOWN" -> "PRODUCT_NOT_FOUND"
      [] OTHER -> OK

\* _size: inputs the sizing refuses, else what it approves is in the command
Sized(sizeable) == IF sizeable THEN OK ELSE "RISK_INPUT_INVALID"

\* _spec
Specified(command) == IF ValidSpec(command.spec) THEN OK ELSE "INVALID_POSITION"

\* create, before it writes: the first of its checks that refuses
Refusal(command, now, product, sizeable) ==
    CASE command.spec.decision > now -> "DECISION_IN_FUTURE"
      [] command.spec.decision <= now /\ Resolved(product) # OK -> Resolved(product)
      [] command.spec.decision <= now /\ Resolved(product) = OK ->
            IF Sized(sizeable) # OK THEN Sized(sizeable) ELSE Specified(command)

\* find_by_idempotency_key, then what create computes without the store
FindByKey(w) ==
    /\ At(w, "find")
    /\ \E now \in Nows, sizeable \in BOOLEAN,
          product \in {"NO_RESOLVER", "UNKNOWN", "INCALCULABLE", "CALCULABLE"} :
        LET command == work[w].command
            refusal == Refusal(command, now, product, sizeable)
            opened == OpenPosition(command.spec, command.approval,
                                   product = "CALCULABLE", TRUE)
        IN  work' =
              IF Stored(Key(w)) THEN AnswerRetry(w, rows[Key(w)])
              ELSE IF refusal # OK THEN Answer(w, refusal)
              ELSE IF opened.code # OK THEN Answer(w, opened.code)
              ELSE [Goto(w, "insert") EXCEPT ![w].next = opened.position]
    /\ UNCHANGED <<rows, ledger, lock>>

\* insert: the unique key makes this transaction wait for one that is inserting
\* the same key, and fail once that one committed
Insert(w) ==
    /\ At(w, "insert")
    /\ lock[Key(w)] = None
    /\ IF Stored(Key(w))
       THEN work' = Goto(w, "find winner") /\ UNCHANGED lock
       ELSE work' = Goto(w, "commit") /\ lock' = [lock EXCEPT ![Key(w)] = w]
    /\ UNCHANGED <<rows, ledger>>

\* _store_get_by_key, in a transaction of its own
FindWinner(w) ==
    /\ At(w, "find winner")
    /\ work' = IF ~Stored(Key(w)) THEN Answer(w, "CONCURRENT_CREATE")
               ELSE AnswerRetry(w, rows[Key(w)])
    /\ UNCHANGED <<rows, ledger, lock>>

-----------------------------------------------------------------------------
(***************************************************************************)
(* observe, request_close, move_stop_to_breakeven, cancel                  *)
(***************************************************************************)

\* _parse: the upload does not parse, or data quality blocks it
Parsed(upload) ==
    CASE upload = "UNREADABLE" -> "OBSERVATIONS_UNREADABLE"
      [] upload = "BLOCKED" -> "OBSERVATIONS_FAILED_DATA_QUALITY"
      [] OTHER -> OK

\* observe first reads the position without a lock, only to parse the upload
ReadToParse(w) ==
    /\ At(w, "parse")
    /\ \E upload \in {"TOO_LARGE", "UNREADABLE", "BLOCKED", "ACCEPTED"} :
        work' = IF upload = "TOO_LARGE" THEN Answer(w, "OBSERVATIONS_TOO_LARGE")
                ELSE IF ~Stored(Key(w)) THEN Answer(w, "POSITION_NOT_FOUND")
                ELSE IF Parsed(upload) # OK THEN Answer(w, Parsed(upload))
                ELSE Goto(w, "load for update")
    /\ UNCHANGED <<rows, ledger, lock>>

\* Mutant: the row is read without FOR UPDATE.
LoadWithoutLock(w) ==
    /\ At(w, "load for update")
    /\ work' = IF ~Stored(Key(w)) THEN Answer(w, "POSITION_NOT_FOUND")
               ELSE [Goto(w, "load events") EXCEPT ![w].row = rows[Key(w)]]
    /\ UNCHANGED <<rows, ledger, lock>>

\* SELECT ... FOR UPDATE of the row; an uncommitted row is not visible
LoadForUpdate(w) ==
    /\ At(w, "load for update")
    /\ IF ~Stored(Key(w))
       THEN work' = Answer(w, "POSITION_NOT_FOUND") /\ UNCHANGED lock
       ELSE /\ lock[Key(w)] = None
            /\ lock' = [lock EXCEPT ![Key(w)] = w]
            /\ work' = [Goto(w, "load events") EXCEPT ![w].row = rows[Key(w)]]
    /\ UNCHANGED <<rows, ledger>>

\* _load reads the events in a statement of its own; then rebuild, the engine,
\* and _save, which writes nothing when there is nothing new
LoadEvents(w) ==
    /\ At(w, "load events")
    /\ \E now \in Nows :
       \E rebuilt \in {Rebuild(work[w].row.spec, work[w].row.approval, ledger[Key(w)])} :
       \E handled \in {IF rebuilt.code = OK
                       THEN Handled(work[w].command, rebuilt.position, now) ELSE rebuilt} :
        IF handled.code = OK /\ Len(handled.position.events) > Len(ledger[Key(w)])
        THEN /\ work' = [Goto(w, "append") EXCEPT ![w].events = ledger[Key(w)],
                                                  ![w].next = handled.position]
             /\ UNCHANGED lock
        ELSE /\ work' = [Answer(w, handled.code) EXCEPT ![w].events = ledger[Key(w)]]
             /\ lock' = Released(w)
    /\ UNCHANGED <<rows, ledger>>

\* append: the conditional UPDATE on the version, then the event rows, whose
\* primary key refuses a sequence number that is already taken
AppendEvents(w) ==
    /\ At(w, "append")
    /\ IF rows[Key(w)].version # work[w].row.version
          \/ Len(ledger[Key(w)]) # Len(work[w].events)
       THEN work' = Answer(w, "CONCURRENT_MODIFICATION") /\ lock' = Released(w)
       ELSE work' = Goto(w, "commit") /\ UNCHANGED lock
    /\ UNCHANGED <<rows, ledger>>

-----------------------------------------------------------------------------
(***************************************************************************)
(* Commit, and the failures of a connection.                               *)
(***************************************************************************)

\* The row under a key is inserted or replaced.
With(key, row) == [k \in DOMAIN rows \cup {key} |-> IF k = key THEN row ELSE rows[k]]

\* Mutant: events are appended but the summary columns are not updated.
PublishedEventsOnly(w) ==
    /\ rows' = With(Key(w),
          IF Op(w) = "CREATE"
          THEN [spec |-> work[w].command.spec, approval |-> work[w].command.approval,
                version |-> 1, projection |-> Project(work[w].next)]
          ELSE [work[w].row EXCEPT !.version = @ + 1])
    /\ ledger' = [ledger EXCEPT ![Key(w)] = work[w].next.events]
    /\ lock' = Released(w)

\* The row and the events a transaction wrote become visible together.
Published(w) ==
    LET next == work[w].next
        row == work[w].row
        command == work[w].command
    IN  /\ rows' = With(Key(w),
              IF Op(w) = "CREATE"
              THEN [spec |-> command.spec, approval |-> command.approval,
                    version |-> 1, projection |-> Project(next)]
              ELSE [row EXCEPT !.version = @ + 1, !.projection = Project(next)])
        /\ ledger' = [ledger EXCEPT ![Key(w)] =
              @ \o SubSeq(next.events, Len(work[w].events) + 1, Len(next.events))]
        /\ lock' = Released(w)

Commit(w) ==
    /\ At(w, "commit")
    /\ Published(w)
    /\ work' = [Answer(w, OK) EXCEPT ![w].events = work[w].next.events]

\* The commit took effect but its acknowledgement was lost.
CommitUnacknowledged(w) ==
    /\ At(w, "commit")
    /\ Published(w)
    /\ work' = Answer(w, "UNAVAILABLE")

\* The connection or the process fails: the transaction rolls back.
ConnectionLost(w) ==
    /\ work[w].pc \notin {"idle", "done"}
    /\ lock' = Released(w)
    /\ work' = Answer(w, "UNAVAILABLE")
    /\ UNCHANGED <<rows, ledger>>

\* The client sends the same request again, with the same key.
Retry(w) ==
    /\ At(w, "done") /\ work[w].answer = "UNAVAILABLE"
    /\ work[w].retries < MaxRetries
    /\ work' = [work EXCEPT ![w] =
          [Idle EXCEPT !.command = work[w].command, !.pc = Start(Op(w)),
                       !.retries = work[w].retries + 1]]
    /\ UNCHANGED <<rows, ledger, lock>>

-----------------------------------------------------------------------------
(***************************************************************************)
(* get: the row, then its events, then the projection checked by replay    *)
(***************************************************************************)
ReadRow(w) ==
    /\ At(w, "read row")
    /\ work' = IF ~Stored(Key(w)) THEN Answer(w, "POSITION_NOT_FOUND")
               ELSE [Goto(w, "read events") EXCEPT ![w].row = rows[Key(w)]]
    /\ UNCHANGED <<rows, ledger, lock>>

ReadEvents(w) ==
    /\ At(w, "read events")
    /\ \E rebuilt \in {Rebuild(work[w].row.spec, work[w].row.approval, ledger[Key(w)])} :
        work' = [Answer(w, IF rebuilt.code # OK THEN rebuilt.code
                           ELSE IF Project(rebuilt.position) # work[w].row.projection
                           THEN "PROJECTION_DIVERGED" ELSE OK)
                    EXCEPT ![w].events = ledger[Key(w)]]
    /\ UNCHANGED <<rows, ledger, lock>>

Step(w) ==
    \/ FindByKey(w) \/ Insert(w) \/ FindWinner(w)
    \/ ReadToParse(w) \/ LoadForUpdate(w) \/ LoadEvents(w) \/ AppendEvents(w)
    \/ Commit(w)
    \/ ReadRow(w) \/ ReadEvents(w)

Next ==
    \E w \in Workers :
        \/ \E command \in Commands : Receive(w, command)
        \/ Step(w)
        \/ Respond(w)
        \/ CommitUnacknowledged(w)
        \/ ConnectionLost(w)
        \/ Retry(w)

Spec == Init /\ [][Next]_vars

Pcs == {"idle", "find", "insert", "find winner", "parse", "load for update",
        "load events", "append", "commit", "read row", "read events", "done"}
Waiting == {"insert", "load for update"}

\* A statement PostgreSQL can run ends: one that waits for no lock is not
\* where its handler stays (for an action enabled wherever its pc is, this is
\* its weak fairness), and one that waits gets the row if it is freed again
\* and again.
Fairness ==
    \A w \in Workers :
        /\ SF_vars(Insert(w)) /\ SF_vars(LoadForUpdate(w))
        /\ \A pc \in Pcs \ (Waiting \cup {"idle", "done"}) : []<>(~At(w, pc))

FairSpec == Spec /\ Fairness

-----------------------------------------------------------------------------
(***************************************************************************)
(* Properties.                                                             *)
(***************************************************************************)
(***************************************************************************)
(* What is committed explains itself: each ledger replays without          *)
(* divergence and its row is the projection of that replay, whatever       *)
(* requests interleaved, failed or were repeated.                          *)
(***************************************************************************)
RowIsProjectionOfLedger ==
    \A k \in DOMAIN rows :
        LET rebuilt == Rebuild(rows[k].spec, rows[k].approval, ledger[k])
        IN  rebuilt.code = OK /\ rows[k].projection = Project(rebuilt.position)

(***************************************************************************)
(* An acknowledgement is kept: the events a successful request was         *)
(* answered with are a prefix of the committed ledger ever after, and all  *)
(* creates answered with a position under one key asked for the stored     *)
(* one.                                                                    *)
(***************************************************************************)
AcknowledgedIsStored ==
    \A w \in Workers :
        /\ work[w].answer = OK => IsPrefix(work[w].events, ledger[Key(w)])
        /\ At(w, "done") /\ Op(w) = "CREATE" /\ work[w].answer \in {OK, "REPLAYED"} =>
              Stored(Key(w)) /\ rows[Key(w)].spec = work[w].command.spec

\* What the engine makes of a create, whenever it is received: a refusal is no
\* ledger.
OpenedLedgers(command) ==
    LET opened == OpenPosition(command.spec, command.approval, TRUE, TRUE)
    IN  IF /\ ValidSpec(command.spec) /\ opened.code = OK
           /\ \E now \in Nows : command.spec.decision <= now
        THEN {opened.position.events} ELSE {}

\* What the handlers make of a command on the position a ledger replays to.
LedgersAfter(command, held) ==
    LET rebuilt == Rebuild(held.spec, held.approval, held.events)
        Outcome(now) == Handled(command, rebuilt.position, now)
    IN  {Outcome(now).position.events :
            now \in {n \in Nows : rebuilt.code = OK /\ Outcome(n).code = OK}}

(***************************************************************************)
(* The committed positions, as a client sees them, behave like the atomic  *)
(* ledger: every change is one whole command of some client applied to     *)
(* what was committed before it, although the statements of several        *)
(* requests interleave (PaperLedger).                                      *)
(***************************************************************************)
Atomic == INSTANCE PaperLedger WITH
    Opens <- OpenedLedgers,
    Outcomes <- LedgersAfter,
    book <- [k \in DOMAIN rows |->
                [spec |-> rows[k].spec, approval |-> rows[k].approval,
                 version |-> rows[k].version, events |-> ledger[k]]]

ImplementsAtomicLedger == Atomic!Spec

\* Every request the server received is answered: no handler waits for ever.
EveryRequestAnswered ==
    \A w \in Workers : (work[w].pc # "idle") ~> At(w, "done")
=============================================================================
