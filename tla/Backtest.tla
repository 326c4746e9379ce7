------------------------------ MODULE Backtest ------------------------------
(***************************************************************************)
(* Backtest runs: workers that compute a run in memory and publish it in   *)
(* one transaction, and the person who abandons a run an interruption left *)
(* unfinished (BacktestRunner.run and abandon over                         *)
(* backend/app/adapters/persistence/backtest_store.py).                    *)
(*                                                                         *)
(* Each store call is one transaction under READ COMMITTED.  publish and   *)
(* fail read the row without locking it, look at its status and write it   *)
(* at their commit, so they are two steps here, and those of several       *)
(* sessions overlap.  The walk itself awaits nothing and shares nothing:   *)
(* it is one step.                                                         *)
(***************************************************************************)
EXTENDS BacktestRules, FiniteSets, FiniteSetsExt

CONSTANTS
    Workers,            \* requests handled by the service
    Abandoners,         \* people who abandon runs
    Scenarios           \* what the workers are asked, see Init

ASSUME BacktestBounds ==
    /\ MaxBoundaries \in Nat /\ MaxPositions \in Nat /\ MaxWarmUp \in Nat
    /\ Workers \cap Abandoners = {}
    /\ \A scenario \in Scenarios :
          DOMAIN scenario = Workers /\ \A w \in Workers : ValidConfig(scenario[w].config)

VARIABLES
    asked,      \* the request of each worker: its attempt key and configuration
    db,         \* the runs, by attempt key
    work,       \* each actor's program counter and what it holds
    first       \* history, by key: the first end a run was given, and the transactions
                \* that had read the row by then and had not written it back

vars == <<asked, db, work, first>>

Keys == {asked[w].key : w \in Workers}

Idle(pc) == [pc |-> pc, key |-> None, walk |-> None, code |-> OK, answer |-> None]

\* Init: a scenario gives every worker its attempt key and its configuration.
Init ==
    /\ asked \in Scenarios
    /\ db = [key \in {} |-> None]
    /\ work = [a \in Workers \cup Abandoners |->
                  Idle(IF a \in Workers THEN "validate" ELSE "choose")]
    /\ first = [key \in {} |-> None]

Goto(a, pc) == work' = [work EXCEPT ![a].pc = pc]
Answer(a, code, row) ==
    work' = [work EXCEPT ![a].pc = "done", ![a].code = code, ![a].answer = row]

-----------------------------------------------------------------------------
\* run, up to the fingerprint
Validate(w) ==
    /\ work[w].pc = "validate"
    /\ IF Refusal(asked[w].config) = OK THEN Goto(w, "find")
       ELSE Answer(w, Refusal(asked[w].config), None)
    /\ UNCHANGED <<asked, db, first>>

\* the store's find_by_attempt: whether a run is stored under an attempt key
Stored(key) == key \in DOMAIN db

\* f with one more key, or another value for it
Extended(f, key, value) == [k \in DOMAIN f \cup {key} |-> IF k = key THEN value ELSE f[k]]

\* find_by_attempt: the same question is a retry, another one a conflict
FindByAttempt(w) ==
    /\ work[w].pc = "find"
    /\ LET key == asked[w].key
       IN  IF ~Stored(key) THEN Goto(w, "create")
           ELSE IF db[key].config # asked[w].config THEN Answer(w, "ATTEMPT_KEY_REUSED", None)
           ELSE Answer(w, OK, db[key])
    /\ UNCHANGED <<asked, db, first>>

\* the run as it is first stored
PendingRun(config) ==
    [config |-> config, status |-> "PENDING", failure |-> None, result |-> None]

\* create_run: the attempt key is unique in the table
CreateRun(w) ==
    /\ work[w].pc = "create"
    /\ IF ~Stored(asked[w].key)
       THEN /\ db' = Extended(db, asked[w].key, PendingRun(asked[w].config))
            /\ Goto(w, "evaluate")
       ELSE Goto(w, "winner") /\ UNCHANGED db
    /\ UNCHANGED <<asked, first>>

\* The loser of the race answers with the winner's run, whatever it was asked.
FindWinner(w) ==
    /\ work[w].pc = "winner"
    /\ Answer(w, OK, db[asked[w].key])
    /\ UNCHANGED <<asked, db, first>>

\* _evaluate, and the branch that stores what it raised
EvaluateRun(w) ==
    /\ work[w].pc = "evaluate"
    /\ \E walk \in {Evaluate(asked[w].config)} :
          work' = [work EXCEPT ![w].walk = walk, ![w].code = walk.error,
                               ![w].pc = IF walk.error = OK THEN "to publish" ELSE "to fail"]
    /\ UNCHANGED <<asked, db, first>>

\* publish, its read: a run that already ended is not published over
BeginPublish(w) ==
    /\ work[w].pc = "to publish"
    /\ IF db[asked[w].key].status \in {"FAILED", "COMPLETED"}
       THEN Answer(w, "RUN_ALREADY_TERMINAL", None)
       ELSE Goto(w, "publish")
    /\ UNCHANGED <<asked, db, first>>

KeyOf(a) == IF a \in Workers THEN asked[a].key ELSE work[a].key

\* Whoever read the row of a run and has not written it back.
Racing(key) == {a \in DOMAIN work : work[a].pc \in {"publish", "fail"} /\ KeyOf(a) = key}

\* History: what a run was first told to have become, and who could not know it.
Became(a, status) ==
    LET end == [status |-> status, racing |-> Racing(KeyOf(a)) \ {a}]
    IN  first' = IF KeyOf(a) \in DOMAIN first THEN first ELSE Extended(first, KeyOf(a), end)

\* The rows one publication writes.
Published(row, walk) ==
    [row EXCEPT !.status = "COMPLETED",
                !.result = [decisions |-> walk.decisions, positions |-> walk.positions]]

\* publish, its commit: the result and the status in one transaction
Publish(w) ==
    /\ work[w].pc = "publish"
    /\ \E row \in {Published(db[asked[w].key], work[w].walk)} :
          /\ db' = [db EXCEPT ![asked[w].key] = row]
          /\ Answer(w, OK, row)
    /\ Became(w, "COMPLETED")
    /\ UNCHANGED asked

\* Mutant: fail writes whatever the row holds.
MayFailAny(row) == TRUE

\* fail refuses a run that carries a result, and rewrites a failed one
MayFail(row) == row.status # "COMPLETED"

\* fail, its read.  The runner's handler for its own defects suppresses the
\* refusal; the other two let it out.
BeginFail(a) ==
    /\ work[a].pc = "to fail"
    /\ IF MayFail(db[KeyOf(a)]) THEN Goto(a, "fail")
       ELSE Answer(a, IF work[a].code = "INTERNAL_ERROR" THEN "INTERNAL_ERROR"
                      ELSE "RUN_ALREADY_COMPLETED", None)
    /\ UNCHANGED <<asked, db, first>>

\* fail, its commit
Fail(a) ==
    /\ work[a].pc = "fail"
    /\ db' = [db EXCEPT ![KeyOf(a)].status = "FAILED",
                        ![KeyOf(a)].failure = work[a].code]
    /\ Answer(a, work[a].code, None)
    /\ Became(a, "FAILED")
    /\ UNCHANGED asked

\* The process dies, or its connection does: a row already written stays as it
\* is and nothing resumes it.
Dies(w) ==
    /\ work[w].pc \notin {"done", "died", "validate"}
    /\ Goto(w, "died")
    /\ UNCHANGED <<asked, db, first>>

-----------------------------------------------------------------------------
\* abandon: a completed run is refused, a failed one returned unchanged
Abandon(a, key) ==
    /\ work[a].pc = "choose"
    /\ Stored(key)
    /\ CASE db[key].status = "COMPLETED" -> Answer(a, "RUN_ALREADY_COMPLETED", None)
         [] db[key].status = "FAILED" -> Answer(a, OK, db[key])
         [] OTHER -> work' = [work EXCEPT ![a].pc = "to fail", ![a].key = key,
                                          ![a].code = "INTERRUPTED"]
    /\ UNCHANGED <<asked, db, first>>

\* Every worker has its answer; whoever abandons has decided, or may not care.
Finished ==
    /\ \A w \in Workers : work[w].pc \in {"done", "died"}
    /\ \A a \in Abandoners : work[a].pc \in {"choose", "done"}
    /\ UNCHANGED vars

Next ==
    \/ \E w \in Workers : Validate(w) \/ FindByAttempt(w) \/ CreateRun(w)
    \/ \E w \in Workers : FindWinner(w) \/ EvaluateRun(w) \/ BeginPublish(w)
    \/ \E w \in Workers : Publish(w) \/ Dies(w)
    \/ \E a \in Workers \cup Abandoners : BeginFail(a) \/ Fail(a)
    \/ \E a \in Abandoners, key \in Keys : Abandon(a, key)
    \/ Finished

Spec == Init /\ [][Next]_vars

-----------------------------------------------------------------------------
\* The bars of a run, by the boundary at which each closed.
BarsOf(c, lo, hi) ==
    {i \in DOMAIN c.dataset.bars :
        lo < CoverageEnd(c.dataset.bars[i]) /\ CoverageEnd(c.dataset.bars[i]) <= hi}

\* The bars a ledger was given.
Observations(events) ==
    {events[i].data : i \in {j \in DOMAIN events : events[j].type = "OBSERVATION_APPLIED"}}

\* The trace positions that name the position k.
Naming(result, k) == {i \in DOMAIN result.decisions : result.decisions[i].position = k}

\* What was holding at the boundary of a decision about position k.
Ledger(result, k) == result.positions[k].events

(***************************************************************************)
(* The stored trace and the stored ledgers tell one story, for every run   *)
(* that completed: one decision per boundary of the window; position k is  *)
(* entered by exactly one decision, in order, for no more units than the   *)
(* risk engine allowed, and its ledger reproduces itself; its ledger was   *)
(* given every bar after the decision that entered it up to the one that   *)
(* ended it, none before and none twice; and a decision says HOLDING or    *)
(* EXIT_REQUESTED of a position exactly while its ledger has not ended, so *)
(* no two positions are ever open together.                                *)
(***************************************************************************)
TellsOneStory(c, result) ==
    LET decisions == result.decisions
        n == Len(result.positions)
        EnteredAt(k) == CHOOSE i \in Naming(result, k) : decisions[i].outcome = "ENTERED"
        Closes(k) == Ledger(result, k)[Len(Ledger(result, k))].type
                        \in {"POSITION_CLOSED", "ENTRY_REJECTED"}
        LastTime(k) == Max({bar.time : bar \in Observations(Ledger(result, k))}
                               \cup {decisions[EnteredAt(k)].asOf - Interval})
        Until(k) == IF Closes(k) THEN LastTime(k) + Interval ELSE decisions[Len(decisions)].asOf
    IN  /\ Len(decisions) = Cardinality(Boundaries(c))
        /\ \A k \in 1..n :
              /\ Cardinality({i \in Naming(result, k) : decisions[i].outcome = "ENTERED"}) = 1
              /\ k > 1 => Until(k - 1) <= decisions[EnteredAt(k)].asOf
              /\ result.positions[k].spec.quantity <= result.positions[k].approval
              /\ Rebuild(result.positions[k].spec, result.positions[k].approval,
                         Ledger(result, k)).code = OK
              /\ Observations(Ledger(result, k)) =
                    {c.dataset.bars[i] : i \in BarsOf(c, decisions[EnteredAt(k)].asOf, Until(k))}
              /\ Naming(result, k) \ {EnteredAt(k)} =
                    {i \in DOMAIN decisions :
                        /\ decisions[EnteredAt(k)].asOf < decisions[i].asOf
                        /\ decisions[i].asOf <= Until(k)
                        /\ ~(Closes(k) /\ decisions[i].asOf = Until(k))}
        /\ \A i \in DOMAIN decisions : decisions[i].outcome \in DecisionOutcomes

TraceMatchesLedgers ==
    \A key \in DOMAIN db :
        db[key].status = "COMPLETED" => TellsOneStory(db[key].config, db[key].result)

\* Sizing: the loss of every stored position at its stop, for the units it
\* opened, is within the budget the run was configured with, and its margin
\* within what the account had free - after the levels moved to the grid.
RiskWithinBudget ==
    \A key \in DOMAIN db : db[key].result # None =>
        \A k \in DOMAIN db[key].result.positions :
            LET c == db[key].config
                spec == db[key].result.positions[k].spec
                distance == IF spec.direction = "LONG" THEN spec.entry - spec.stop
                                                       ELSE spec.stop - spec.entry
            IN  /\ spec.quantity * distance * c.product.multiplier.value
                      * Risk!Denominator(c.policy) <= Risk!RiskAmount(c.policy, c.account.equity)
                /\ spec.quantity * c.product.margin.value <= Risk!AvailableForNew(c.account)

\* Whoever had read a row and did not die has written it.
Committed(a) == work[a].pc = "done"

\* The end a run was first given, completed or failed, is never changed by anyone
\* who looked at the run after it: only a transaction that had read the row before
\* that end was committed, and committed after it, can put another in its place
\* (TerminalRunError and CompletedRunError, checked inside the transactions of
\* publish and fail, whatever abandon had read before).
OnlyRacersOverwrite ==
    \A key \in DOMAIN first :
        /\ Stored(key)
        /\ \/ db[key].status = first[key].status
           \/ \E a \in first[key].racing : Committed(a)
=============================================================================
