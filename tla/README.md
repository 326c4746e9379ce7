# Verification of VIOP AI Market Intelligence

This directory is a TLA+ development kept beside the repository. It models the
parts of the program whose correctness depends on the order of things (the
paper-trading ledger and the service that shares it, market replay, backtests,
live market data and the screen that shows it, shadow runs, the journal of
reviewed facts, journal notes), and the rules those parts apply (sizing, market
structure, analysis, explanations, vision precedence, synthesis validation,
performance figures). Every definition is a translation of source code;
`PROJECT.json` maps each one to its lines.

## The system

The backend (`src/backend/app`) is a hexagonal Python application: pure domain
packages, application services with ports, SQLAlchemy adapters and FastAPI
routes; a React application is its client. It never sends an order.

| Component | State it keeps | Operations | Interacts with |
|---|---|---|---|
| Paper position engine (`domain/paper`) | an immutable position: ledger of events, state, units, stop, entry, money | open, apply one closed bar, request close, move stop to breakeven, cancel, replay, rebuild | called by paper service, replay and backtest |
| Paper service and store (`application/paper`) | one row per position with a version, and its event rows | create (idempotent), observe, three commands, get | PostgreSQL transactions; engine |
| Live candle book and market state (`domain/live`) | confirmed candles, missing numbers, discontinuities, conflicts; connection, reconnect count | apply an observation, signals, terminate | driven by the session |
| Live sessions and workspace (`application/live`) | tasks, bounded buffer, timeline, readers, analysis cache | create, cancel, remove, analyse, subscribe, shutdown | providers, shadow runs, browser |
| Live screen (`frontend/src/screens/Live.tsx`) | cursor, generation, transport | choose, stream, resynchronise, reconnect | workspace over HTTP |
| Shadow mode (`application/shadow`) | runs, queue of captures, watches, journal | create, capture, evaluate, settle, invalidate, end, recover | reads a live session; store |
| Market replay (`application/replay`) | dataset, cursor with version, last command | create, step, open and command positions | feeds paper positions |
| Backtesting (`application/backtest`) | run rows, decisions, positions | run, publish, fail, abandon | paper engine, risk |
| Sourced facts (`domain/sourcing`, `operator`) | submissions, decisions, records | submit, review, publish, ask as known | operator CLI |
| External sources (`application/sourcing`) | what vendors delivered | ask at a decision time | vendors |
| Performance and journal | notes; figures are derived | report, page, edit a note | paper ledger |
| Vision (`application/vision`) | reviews the caller holds, corrections | upload, analyse, confirm, correct | vision provider |
| Claude synthesis (`application/synthesis`) | none between requests | build context, trim, ask, validate, render | provider |
| Analysis, structure, quality, risk, suitability, presentation | none (pure functions of a request) | | |

What is hard in it: statements of several requests interleaving on one row; a
commit whose acknowledgement is lost and the retry that follows; bars and
candles that arrive late, twice, out of order or contradict each other; bounded
buffers, queues, windows and records that overflow; a session, a run or the
process that ends while something about it is in progress; corrections after a
publication; clocks of several machines; an answer computed from several reads.
The `hazards` of `PROJECT.json` list each at its line with the properties that
would catch it.

## Modules

| Module | Models | Kind |
|---|---|---|
| `PaperEngine` | `domain/paper` | operators; one per function of the engine |
| `PaperPosition` | one position under every order of inputs | state machine |
| `PaperEngineProofs` | lemmas: what each engine call does to a position's units and terms, to its ledger, the replay of it and the sums over it | proofs |
| `PaperLedger` | what the paper service promises: atomic changes | abstract specification |
| `PaperService` | the service and its store, one action per statement | state machine, refines `PaperLedger` |
| `PaperProofs` | theorems about `PaperPosition` and `PaperService`, the refinement among them | proofs |
| `Replay` | replay sessions, one action per store call | state machine over `PaperEngine` |
| `ReplayProofs` | theorems about `Replay` | proofs |
| `LiveBook`, `LiveState` | candle books; connection and books | operators; state machine |
| `LiveWorkspace`, `LiveClient` | sessions, tasks and handlers; the event stream and the browser | state machine in two layers |
| `LiveProofs` | theorems about `LiveState` and `LiveBook`, then about `LiveClient`: the queue between timeline and browser, the analysis lock | proofs |
| `ShadowRules`, `Shadow` | outcome and eligibility rules; runs, queue, store, crash and recovery | operators; state machine |
| `ShadowProofs` | theorems about `Shadow`: what a run's task holds between two store calls | proofs |
| `RiskRules` | contracts, sizing, margin, profit and loss, reward, what-if | operators |
| `BacktestRules`, `Backtest` | strategy, entry, walk; run life cycle over its store | operators; state machine |
| `BacktestProofs` | theorems about `Backtest`, with lemmas about sizing and the walk; theorems about the notes and the folding of `Performance` | proofs |
| `FactRules`, `Facts` | judging and assessing facts; operators and journal | operators; state machine |
| `FactsProofs` | theorems about `Facts` and `SourceFeeds`: what was told, known or readable stands | proofs |
| `SourceFeeds` | external sources at a decision time | state machine, joined to `Facts` by `MCFacts` |
| `StructureRules`, `AnalysisRules`, `Presentation` | swings, zones, breakouts, regime; evidence, quality, scenarios; checklist, warnings, explanations | operators |
| `Analysis` | one request from its raw rows to its explanations and a trade review; a live series | state machine |
| `PerformanceRules`, `Performance` | folding, selection, figures; reports and journal notes | operators; state machine over `PaperEngine` |
| `VisionRules`, `Vision` | image checks, quality, slots, precedence; uploads and corrections | operators; state machine |
| `SynthesisRules`, `Synthesis` | envelope, context, trimming, validation; one narration | operators; state machine, joined to `Vision` and `Analysis` by `MCDesk` |
| `DeskProofs` | theorems about `Analysis`, `Vision` and `Synthesis`, the machines of the run `desk` | proofs |
| `Optional` | `None` and `OK`, which several modules share: a value or `None`, as `X \| None` in the code | operators |
| `MC*` | the instances TLC checks | |

The services share their rules as the code does: `PaperPosition`,
`PaperService`, `Replay`, `Backtest` and `Performance` run the same engine
operators, `Backtest` and `Analysis` the same `RiskRules`. `Replay`, `Backtest`
and `Performance` take one call of the paper service as one step, which is what
`ImplementsAtomicLedger` shows.

### Paper trading

`position` is a `PaperPosition`; its fields are the fields of the class
(`filled` is the set of indices of the filled `TargetState`s). `error` is the
exception in flight inside `_Builder`: the code raises and discards the
builder, the model computes the result with `error` set and `ApplyObservation`
discards it. Prices and money are integers: the code's decimals are exact and
only compared, added and multiplied. The loops over targets are unrolled to
`MAX_TARGETS` rounds, which is the code's own limit.

In `PaperService`, `rows` and `ledger` are the committed tables, functions whose
domains are the keys and positions in use, `lock` the row
lock of `SELECT ... FOR UPDATE` (and the wait of an insert on a unique key
another transaction is inserting), `work` the local variables of each handler.
Uncommitted writes stay in `work` until `Commit` publishes them together.
Reads are READ COMMITTED: each statement sees what is committed when it runs.
`ConnectionLost` may hit every step; `CommitUnacknowledged` commits and answers
nothing; `Retry` is the client sending the same request again. The database is
external and modelled from the statements the store issues. The refinement
mapping takes the committed row and ledger of each key to the `book` of
`PaperLedger`: a commit that appends is one whole command of a client applied
to the position as it stands, and every other step is a stutter. `PaperLedger`
takes what a command does to a position as operator parameters, so it promises
atomicity and nothing about the engine.

### Replay and backtests

`session` is the `replay_sessions` row (`revealed` is
`revealed_driver_candles`, `key` and `target` are `last_command_key` and
`command_target_revealed`), `positions` the paper store, `links` the link table
in order of creation, and `work` the local variables of each handler. Candles
never change, so reading them is no step.

`BacktestRules` takes a run boundary by boundary as `_evaluate` does: an open
position is observed, a pending one may fill, a signal may open the next; the
moving averages are readings of each bar. `Backtest` adds the run rows (`db`, a
function on the attempt keys stored), the
attempt key, workers that may die between any two store calls and the person
who abandons a run.

### Live data and shadow runs

A book's `_closed` list, sorted by time, is the function `closed` from open
times to sequence number and value; the other fields keep their meaning. The
receive clock appears only as freshness. `LiveWorkspace` abstracts a market to
the integrity, freshness and version of one book. In both `LiveWorkspace` and
`Shadow` an action is the code from one `await` to the next, because asyncio
does not interrupt it in between. In `Shadow` every store call may fail or
commit without its acknowledgement, and the process may crash and recover.

### Facts, analysis, performance, vision, synthesis

In `Facts` `Tick` advances the true time, and each operator's clock is skewed
from it.
`SourceFeeds` delivers items of a source in any order. `Analysis` takes a
request through the stages of `run_analysis`; a bar carries the indicator
values the code computes for it. `Performance` reads each statement of a report
on a connection of its own while positions trade. `Vision` keeps the reviews
the caller holds, since the server keeps none; `said` and `saves` are history
variables only properties read. In `SynthesisRules` a text is what the scans
find in it.

## Runs

| Run | Properties | Distinct states | What it shows |
|---|---|---|---|
| `paper_position` | `UnitsAccounted`, `ExitGuardsUnreachable`, `LedgerBalances`, `ReplayReproduces`, `AmbiguityNeverCredited`, `NoLookAhead`, `StopNeverLoosens` | 82,461 | the engine's units, money, replay and causality over every order of bars and commands |
| `paper_service` | `RowIsProjectionOfLedger`, `AcknowledgedIsStored`, `ImplementsAtomicLedger`, `EveryRequestAnswered` | 161,963 | interleaved statements, lost connections and retries still implement an atomic ledger, and nobody waits for ever |
| `live` | `CompleteMeansContiguous`, `ConfirmedNeverRewritten`, `RecoveryIsProven` | 1,174,441 | a book never calls itself complete over a hole; a reconnect restores nothing it has not proved |
| `live_client` | `OnlySnapshotsHide`, `CacheNeverGoesBack`, `ShutdownLeavesNothing`, `ClientLearnsOfTheEnd` | 385,270 | nothing between provider and screen is lost in silence but what an accepted snapshot went past (second finding); shutdown leaves no task; the browser learns that a session ended |
| `shadow` | `LagNeverChangesADecision`, `ContestedNeverStands`, `RowCountsItsJournal`, `EveryRunEnds` | 122,971 | decisions are those of the captured moment, corrections reach what is published, every run that is followed ends, the others at the next start, and a row counts its journal |
| `replay` | `ReadLinksMissNothing`, `RetryKeepsItsTarget` | 2,293,097 | an interrupted, overtaken and repeated advance feeds every bar to every position linked when it read the links, and stops where it was first asked to |
| `backtest` | `TraceMatchesLedgers`, `RiskWithinBudget`, `OnlyRacersOverwrite` | 209,476 | decisions and ledgers tell one story, no position risks more than approved, a told end is overwritten only by a transaction that had looked before it |
| `facts` | `AsKnownAnswersStand`, `ToldIsJournalled`, `SourceAnswersHold` | 728,914 | what was known at a time stays what was known at that time; what operators were told stands and every published record reads back as published |
| `performance` | `FoldMatchesEngine`, `FiguresAddUp`, `NoJournalEditLost` | 79,861 | the cheap fold equals the engine, a report's figures are one population's, notes are not lost |
| `desk` | `NothingRepaints`, `NothingFromTheFuture`, `MoneyEnginesAgree`, `TellersAgree`, `LastWordStands`, `VetoHolds`, `NarrationNeverCostsTheAnalysis` | 140,808 | a confirmed structure event never moves; no timeframe shows another its future; independent computations agree; a person's latest word on a reading stands; no narration lifts a veto or costs the analysis |
| `performance_open_fees` | violated: `OpenFeesMatchEngine` | | the first finding below |
| `live_client_gap` | violated: `GapIsKnown` | | the second finding below |

With two TLC workers every run ends within about four minutes. `desk` holds four
machines that share no state and are never interleaved: a behaviour picks one.

### Bounds and why they are enough

- `paper_position`: valid specifications (long and short, both same-bar
  policies, with and without fees, two targets, three units, slippage one) and
  one whose targets close more than its quantity; times 0 to 5 with an interval
  of two, so bars precede the decision, overlap, repeat and conflict; price
  levels beyond the stop, between stop and entry, at and beyond the targets.
  Three bars are enough to enter, take a target, halt or move the stop, request
  a close and fill it. The ledger needs no bound: times run out.
- `paper_service`: one position (every statement is keyed), two handlers, one
  retry each, creates of one or two units that agree and disagree, overlapping
  uploads, a bar limit of two, clock readings before and after the bars closed.
  Two transactions exhibit every conflict of two statements.
- `live`: one timeframe with six intervals, candles numbered rightly, off by
  one or not at all, a contradictory repeat, forming updates; a window of three
  candles, one enumerable missing number and one recorded discontinuity, so each
  record overflows; a second timeframe, so that recovery has two books to prove;
  one reconnect before the limit.
- `live_client`: two sessions of which one may live, two creators, one stopper,
  two analysers, one browser; queue and retention of three, pages of two, buffer
  of one, one reconnect. Each limit is reached and passed. Pages are shorter than
  the retention, as in the code (100 and 500), so one page need not reach the
  newest entry and older ones can be loaded (`LoadOlder`). Eight scenarios bring
  some of the actors together: a page through losses and a cancellation, a page
  that falls behind, one over a quiet market and one that asks for an analysis;
  analyses while candles arrive and over a backfill; sessions created, evicted,
  removed and shut down, with and without a page.
- `shadow`: two runs under one attempt key on one session, two creators, two
  enders, two pending captures, two watches, a window of two bars, three
  observations, two crashes. The queue overflows and a correction can meet a
  decision that is queued, being published or published.
- `replay`: four candles with a missing interval, the first of them warm-up, so
  three boundaries: enough for a two-step advance to be interrupted, repeated
  and overtaken. Two clients, one command with a version and one without, two
  positions (one runs to its target on the last candle unless its stop is moved,
  one is rejected at its first open); starts before, in
  and after the data and one request per reason to refuse an upload. The
  handlers are interchangeable and declared symmetric; the view leaves out what
  a handler answered, and what a creation asked once the session exists, which no
  step or property reads. Opens, advances and creations interleave freely.
- `backtest`: at most five boundaries, two positions and a warm-up of four, with
  scenarios at and past each limit; two workers under one attempt key and one
  person who abandons. Their transactions overlap at will: each reads the row's
  status in one step and commits in another.
- `facts`: two operators with clocks up to 4, two records, one interruption,
  freshness of one tick. Beside it, and never interleaved with it since they
  share no state, sources with at most four delivered items.
- `desk`, analysis: requests that mix timeframes, staggered ends, defects of rows and
  plans, each driven through every stage; live series of up to nine bars, which
  hold a swing, its zone, a breakout, its failure and its retest.
- `performance`: three positions under analysis limits of two and page limits of
  one; two editors with two edits each. The constraint `EditsBeforeTrading` keeps edits
  and trading apart: the two halves meet only in the tag filter and the page.
- `desk`, readings: two screenshots with readings, failures and corrections (two);
  `SecondBeforeCorrections` compares a second screenshot before either is
  corrected. Beside them, every narration of a set of contexts, settings, replies
  and failures.

Deadlock checking is off in `live`, `live_client`, `shadow`, `facts`,
`performance` and `desk`: there everything may be over, or every user silent.

### Fairness

- `PaperService`: a statement that waits for no lock ends, and a handler whose
  row is freed again and again gets it (strong fairness of `Insert` and
  `LoadForUpdate`): PostgreSQL queues waiters, asyncio resumes a handler whose
  statement ended. Connections may break for ever; clients need not ask again.
- `LiveClient`: the event loop resumes what can run (`Resumed`), and the browser
  takes its next step. Nothing is assumed of users, providers or transport.
- `Shadow`: the event loop resumes tasks and handlers, and a start finishes its
  recovery. Store failures and crashes happen or not.

### Refinement

`ImplementsAtomicLedger` states that `PaperService` implements `PaperLedger`:
each command of a client is applied whole, at one instant, to the position as it
then stands, or not at all. It is what lets `Replay`, `Backtest` and
`Performance` take a paper call as one step. TLC checks it on two handlers of one
position; `ServiceIsAtomic` proves it for any number of handlers, keys, retries
and failures.

## Findings

`performance_open_fees`: `fold_ledger` adds up the fees of a position's exits;
for a position that has not closed, the engine has also charged the entry. The
folded fees and net of an open or partly closed position therefore differ from
what a full rebuild gives, although the module says a test proves them equal.
Positions that are over agree, and so do the states and gross of all
(`FoldMatchesEngine`, which `FoldsAgree` proves).

`live_client_gap`: `acceptSnapshot` moves the browser's cursor to the snapshot's,
whatever entries came with it. The answers of a cancellation and of an analysis
bring none (`Live.tsx:326`, `364`): notices between the old cursor and the new
one that are still on the stream are then dropped as already applied
(`live.ts:146`). A resynchronisation brings one page of the timeline after the
cursor, and what was missed beyond it is nowhere flagged, because a page's gap
only says that entries were trimmed. `timelineGap` is documented to be true when
the client knows entries are missing. `OnlySnapshotsHide` states what does hold:
every entry a browser misses without saying so is one that an accepted snapshot
went past in one of these two ways (`passed`, a history field). No loss of the
connection, overflow of a queue, trimmed timeline or order of notices, answers
and pages makes any other silent hole. TLC's trace is a cancellation whose answer
overtakes the stream; without `Cancel` and `AskAnalysis` it is the short page.

## Disagreements met without a run

Modelling followed the code in each of these; the properties above are stated so
that they hold of what the code does.

- **Paper.** With slippage, an entry bar that opens at or beyond the stop is
  entered (`engine.py:485` tests the slipped fill) and its stop then fills at a
  price the bar skipped, which `rules.py:24` and `model.py:71` exclude. `get`
  reads row and events in two statements (`paper_store.py:74`): a commit between
  them is reported as PROJECTION_DIVERGED (`service.py:449`) although nothing
  diverged.
- **Replay.** An advance reads its links once (`service.py:517`), so a position
  linked meanwhile misses bars although line 459 promises that every boundary
  crossed is fed to the session's open positions and "nothing is skipped".
  `ReadLinksMissNothing` therefore speaks of the positions an advance did read.
  Only the last key is remembered (476): repeating an older command steps again
  (`routes/replay.py:226`). The loser of a creation race is answered without
  comparing requests (291). A crash between creating and linking a position
  leaves it without a session (748).
- **Live.** An out-of-order forming candle takes back the proof that intervals
  went by unreceived (`book.py:301` against 41).
- **Shadow.** When the queue overflows, records accepted after the lost one are
  still evaluated, because the flag is read once the queue is empty
  (`service.py:365`). A store that fails ends a run as CANCELLED. `_observe` says
  that the run ends when the session does or when it is cancelled
  (`workspace.py:283`). It need not: a session removed before the run's task looks
  it up (291) ends the task in the handler at 296; a cancellation that forgets the
  run during its creation leaves it no task (252); and a store that fails on
  RUN_OPENED never gets that far. Each leaves an OBSERVING row to the next start
  (`NeverFollowed`), and the first two keep the runner's slot. A cancelled run settles its watches from the session's book as it is now
  (`_final_series`).
- **Backtest.** Publish and fail check a run's status before they write, without
  a lock and under READ COMMITTED. The comment at `backtest_store.py:121` says "an
  abandon that committed first wins and a stale publisher loses - rather than both
  appearing to succeed and the last write deciding"; of two transactions that both
  read the row before either committed, the last write does decide.
  `OnlyRacersOverwrite` says that only those can. Two identical creates can race past the
  lookup; an EMA exit fires on equality; a level that aligns to zero ends a run
  as INTERNAL_ERROR.
- **Analysis and presentation.** A zone's strength runs from 0 to 100, while
  `generation.py:529` grades it against 0.66 and 0.33 (69-73), so almost every
  zone is STRONG. "Absence never counts as
  a pass" is not kept by every check. An INACTIVE scenario does not set
  no_trade. A timeframe given twice is left out silently. `_deduplicate` by
  topic and subject can drop an explanation. Data may be called SUFFICIENT
  beside a veto for a chaotic regime, unclear structure or insufficient data.
  No route calls `review_trade`.
- **Facts.** `recorded_at` is read before the commit, on the writer's clock, so
  a skewed clock can place a record in a past somebody asked about. The limit
  of 64 is applied before the filter by knowledge time. A provider's correction
  wins over an official record.
- **Performance.** A window with only an upper end drops the earlier fills of a
  position that closed later; breakdowns ignore the window; the count and the
  ids are read on connections of their own, and ids past the limit are cut.
- **Vision and synthesis.** `corrections.py:49` and `88` say that a rejected field
  becomes unavailable "rather than reverting" to the model's reading. The
  correction route keeps to it (`correction_workflow.py:258`); `effective_value`
  (`application/vision/analysis.py:302`) drops the user's word and keeps every
  reading as a claim, so the rejected one can win again. `LastWordStands` states
  the precedence as it is. `_check_claims` skips references of the wrong
  kind. The route gives `build_synthesis_context` neither data quality nor
  vision. Repeated contradictions are not merged and can end as
  CONTEXT_UNAVAILABLE.

## Proofs

TLAPS checks 35 theorems; each but `TypeCorrectness` states a property that a
run checks, for every value of the constants. `Lifetime` is the specification of
`PaperPosition`, `Market` that of `LiveState`, and `FeedSpec`, `VisionSpec`,
`SynthesisSpec` and `PerformanceSpec` those of the modules they are named for;
`Spec` is that of the other module a row is about.

| Module | Theorem | Statement |
|---|---|---|
| `PaperProofs` | `TypeCorrectness` | `Lifetime => []TypeOK` |
| | `Accounting` | `Lifetime => []UnitsAccounted` |
| | `GuardsUnreachable` | `Lifetime => []ExitGuardsUnreachable` |
| | `StopOnlyTightens` | `Lifetime => StopNeverLoosens` |
| | `ReplayFidelity` | `Lifetime => []ReplayReproduces` |
| | `MarketOrder` | `Lifetime => []NoLookAhead` |
| | `NeverCredited` | `Lifetime => []AmbiguityNeverCredited` |
| | `DoubleEntry` | `Lifetime => []LedgerBalances` |
| | `CommittedExplainsItself` | `Spec => []RowIsProjectionOfLedger` |
| | `AnswersAreKept` | `Spec => []AcknowledgedIsStored` |
| | `ServiceIsAtomic` | `Spec => ImplementsAtomicLedger` |
| `LiveProofs` | `CompletenessIsProven` | `Market => []CompleteMeansContiguous` |
| | `ConfirmedStands` | `Market => ConfirmedNeverRewritten` |
| | `CoverageIsProven` | `Market => RecoveryIsProven` |
| | `SilentHolesArePassed` | `Spec => []OnlySnapshotsHide` |
| | `CacheMovesForward` | `Spec => CacheNeverGoesBack` |
| `ReplayProofs` | `TargetIsKept` | `Spec => RetryKeepsItsTarget` |
| | `ReadLinksAreFed` | `Spec => []ReadLinksMissNothing` |
| `BacktestProofs` | `BudgetIsKept` | `Spec => []RiskWithinBudget` |
| | `OverwritesAreRaced` | `Spec => []OnlyRacersOverwrite` |
| | `EditsAreKept` | `PerformanceSpec => []NoJournalEditLost` |
| | `FoldsAgree` | `PerformanceSpec => []FoldMatchesEngine` |
| `FactsProofs` | `JournalStands` | `Spec => []ToldIsJournalled` |
| | `AnswersStand` | `Spec => []AsKnownAnswersStand` |
| | `SourcesStand` | `FeedSpec => []SourceAnswersHold` |
| `ShadowProofs` | `LagIsHarmless` | `Spec => []LagNeverChangesADecision` |
| | `RowsCount` | `Spec => []RowCountsItsJournal` |
| | `CorrectionsHold` | `Spec => []ContestedNeverStands` |
| `DeskProofs` | `NothingIsRepainted` | `Spec => NothingRepaints` |
| | `NothingIsEarly` | `Spec => []NothingFromTheFuture` |
| | `EnginesAgree` | `Spec => []MoneyEnginesAgree` |
| | `TellersStand` | `Spec => []TellersAgree` |
| | `LastWordHolds` | `VisionSpec => []LastWordStands` |
| | `VetoStands` | `SynthesisSpec => []VetoHolds` |
| | `AnalysisSurvives` | `SynthesisSpec => []NarrationNeverCostsTheAnalysis` |

### Assumptions

`PaperConstants` and `PaperInputs`: specifications, approvals and bars of the
right type, a positive interval and point value, `None` no number.
`ServiceConstants`: `None` no handler, commands that are requests.
`WorkspaceConstants`: positive limits, scripts of what a provider can push, `None`
no subscriber. `ShadowConstants` and `ShadowSessions`: positive limits, and a
session that confirms each boundary once. `FeedSetups`, `FeedBounds`,
`FactBounds` and `FactQuestions`: times and bounds are integers.
`LiveConstants` and `LiveInputs`: positive limits, well-typed observations.
`ReplayConstants` and `NoneIsNoRow`: valid driver candles in order, one command
per idempotency key, `None` no row. `BacktestBounds`: workers and people who
abandon are different actors, and every configuration passed the constructors of
contract, account and policy (`ValidConfig`). `FactJournals`: the journal that
earlier commands left has the primary keys of its tables, and each of its records
was written from approvals that held (`PublishedFrom`), as the commands of this
program write them. `PerformanceInputs`: numbered positions, finitely many, and
limits that are numbers. `PerformanceLedgers`: paper trading stores positions of
valid specifications and feeds them bars and commands. `StructureConfig`: the configuration of the structure
engine is one its class accepts. `RequestsAreLists` and `RequestsAreValid`: the
datasets of a request and their rows are lists, each row with a time; contract,
account and policy passed their constructors; prices are numbers or absent.
`IntervalsLast`: a timeframe lasts some minutes. `VisionInputs`: a reply lists
its readings. `NarratedOutcomes`: the outcome of a sizing is one of its four.
`NoneIsNoNumber` and `NoneIsNoRefusal` keep `None` apart from both. TLC evaluates
each on the run of its module.

### The arguments

*Positions.* The inductive invariant is `IInv`: type correctness, `Units`, and
`Origin`, which says where stop and entry come from: a pending order has neither
fills nor entry, the stop is the specification's or the entry fill, and an entry
lies on the winning side of the specification's stop. `Units` alone is not
inductive: without `Origin`, the entry could start from filled targets, and a
breakeven move could loosen the stop. The argument follows a bar through the
code: `Holding` (units equal the quantity less the filled targets' units) is
kept by each target exit, because the units of distinct targets never exceed the
quantity (`UnitsOfAdd`); each exit of all that remains leaves `Concluded`;
`finish` and `build` turn `Concluded` into `Units`.

*Ledgers.* Every call of the engine appends the event of its own input and then
only events that a replay skips (`ProcessAdds`, `CommandCases`). A replay of the
longer ledger is therefore the replay of the shorter one followed by that input
(`ReplayOneMore`, `ReplayDerived`), so a position that reproduces itself still
does after the call. `NoLookAhead`, `AmbiguityNeverCredited` and
`LedgerBalances` follow from what the events of one bar may be, added to what
the ledger already held. `SetInduction` is induction over the naturals for a
set, which a first-order prover can apply; it gives the recursive functions of
`Replay` (the engine's) and `Walk` their unfoldings for sequences of any length.

*The service.* `ServiceInv` says that each committed row and ledger is that of a
position its ledger replays to (`Committed`), and what each request may rely on
at its program counter: a transaction that loaded a row for update holds its
lock, and the row and ledger are still what it loaded (`Held`); what a client was
told is still in the ledger (`ToldStands`). Only the holder of a lock changes a row,
ledgers only grow, and what a commit writes is one call of the engine applied to
the committed position. The same facts are the step of the refinement.

*Live books.* `LiveInv` says each book is `Good`. Its heart is `Explained`: two
adjacent confirmed candles are an interval apart, or differ by as many intervals
as their numbers do with every number between them recorded as missing or
covered by the overflow mark, or a discontinuity at or after the younger one is
recorded. So a book without records is contiguous. `Numbered` (numbers grow with
the open times) and `Trimmed` (nothing is recorded about what the window left
behind) make it inductive: a full list of discontinuities drops its oldest, and
only the younger ones still standing explain what that one did. `FiniteLeast`
(a finite set has an element of least weight) gives a book its ends.

*Replay.* `CursorInv` relates the row's cursor, version, key and target to what
each handler holds: a handler that feeds positions either holds the row as it is
stored, or an older version that its commit will be refused with. The history
`told` holds, for each revealed candle, how many links the advance that revealed
it had read; links only grow, so these are the oldest ones. `FeedInv` says that
those positions have handled the candle (`Caught`), that a handler feeding over
the current row has delivered the next candle to the positions it counts as fed
(`Feeding`), and that a position about to be linked exists (`Opening`). What a
position has handled it keeps (`Later`), whatever other handlers do.

*Backtests.* `SizedWithin` shows that an ALLOWED sizing is the least of its
bounds, so units times loss at the stop stay within the budget: the divisions
round down, and the levels are those after alignment to the grid.
`EvaluateGood` carries it along the walk by induction over its bars. `RunInv`
then says that a worker past validation has a runnable configuration, that the
row it created carries that configuration, and that what it publishes is a good
walk. `first` remembers the first end of each run and who had read its row by then
(`Racing`). `EndInv` says that the row shows that end unless one of these has
committed, and that whoever is about to write is one of them, or writes FAILED
where the end was FAILED or a racer has been before (`Decided`): publish looks for
either end, and fail for a completed run.

*Facts.* A record is published from facts read one by one, each in its own
transaction, and nothing is locked until the insert; its row keeps no values, so
every later read judges and assembles the evidence again and fails for the whole
contract if one record's evidence does not hold. `ToldIsJournalled` alone is not
inductive: `Carries` says what a publishing operator holds between two
transactions, namely approvals that are in the journal and still hold, and then a
row assembled from them. Submissions and decisions only grow and an id is decided
once (`Unique`), so an approval once read stays the one approval of its
submission: what is inserted later is still `PublishedFrom` the journal, and what
`PartOf` chooses on a read is what was read then (`WrittenReadsBack`).

`AsKnownAnswersStand` adds to that invariant what a given answer was computed
from: the records of that moment are a prefix of the journal (`ToldOk`), records
inserted later that are not back-dated are filtered out of every read about the
moment (`ReadAgain`), and what is left is judged as it was (`AnswerStays`).

*Sources.* What was delivered when an answer was given is a prefix of what has
been delivered since. Each kind of source reads its items through filters on
when they became readable; later items pass none of them, so the same items are
read again (`SameRead`), and the status and value follow. The calendar keeps all
items: there an answer needs every item to agree (`CalendarStands`), so a new
one can only withdraw it.

*Shadow runs.* `IInv` says what a run's task holds between two store calls: the
counters of its memory are those of the journal while no store call has failed
(`Counts`), the entry being written is one the journal may take next (`Fits`), a
decision is about a boundary the run took up and on exactly the candles the
session had confirmed at that boundary (`Known`, which every later candle and
correction leaves alone), and a queued capture still carries them (`Queue`). A crash must keep `failed`, and
a recovery closes a journal once (`Closed`, `RecoveryOk`). Corrections need a
second invariant, `FInv`: what a run follows and what the last outcome of each
decision says agree (`Followed`, `Stands`), nothing followed is contested by a
correction already worked through (`Clear`), and a capture is available only
ahead of every correction in its queue (`Warned`), so nothing contested is taken
up later.

*Live screen.* The heart of `IInv` is about a queue that drops its oldest item
when it is full: every entry between a browser's cursor and the newest one is
brought by an item of its queue, or a `RESYNC_REQUIRED` is in it (`Covers`); and
an item that moves the cursor without an entry comes after those it moves over
(`ItemsOk`). It follows for each push and each drop, and then for whole runs of
notices (`HeardOk`). What snapshots add is bounded by two facts: no answer on its way
is ahead of the timeline (`AnswersOk`), and the page of a resynchronisation
continues what the browser had when it began (`Reached`). So what a browser lacks
in silence between its first entry and its cursor was `passed`. The analysis cache rests on the lock: at most one analysis of a session holds
it (`AnalysesOk`), and the version it works on is at least the cached one.

*Notes.* `JournalInv` says the stored note is the last save accepted over it, its
version their number, and an editor whose version is still current has read
exactly that note. A save compares versions under the row's lock, so what it
replaces is what its author read.

*Folding.* `LedgersInv` says every stored position is `Readable`: its ledger
balances and credits nothing after an ambiguity (the invariants of `DoubleEntry`
and `NeverCredited`, whose steps are lemmas about the engine), it is `Marked`,
and if closed its ledger ends with its closing figures (`Sealed`). `Marked` is
the new part: which events a ledger has decides the state, also in the middle of
a bar, where a position that spent its units and is not yet closed must be
excepted. Each stage of a bar keeps it (`EnterMarked`, `AtOpenMarked`,
`IntrabarMarked`, `FinishMarked`). A halt needs an event after which nothing
exits (`Suspended`), and an open position cannot have one, because only a halted
or closed one has an ambiguity behind it. `FoldReads` then reads the folded
population, gross and fees off a readable ledger. An entry is charged too, so the
fees agree only for a position that is over: one rejected or cancelled entered
nothing, and a closed one has its fees in its last event.

*Narrations.* `NarrationInv` keeps the brief a provider was asked with: its
allowed actions are what the envelope leaves of the analysis, and trimming to the
budget never adds one. `EnvelopeRemoves` reads off what each constraint takes
away; validation accepts only an allowed action and references that resolve
(`AcceptedDraft`), which is also why rendering cannot fail.

*Readings.* `VisionInv` says that of each review the last correction of a field
in the log is what the user said last (`LatestAfter` for one more correction,
`Replacing` for a review put back in its place). A log whose last word on a field
is a rejection claims what an empty log claims (`NothingSpoken`), and otherwise
the last word is all that the log says of the field (`OnlyTheWordMatters`).
`BestSourceWins` then shows the precedence gives that word unless a structured
value stands, and `LosersAreListed` that whatever disagrees remains in sight.

*Nothing repainted.* Each structural rule is compared on a series and on the same
series one bar longer (`Continues`): what the longer series dates within the
shorter one is what the shorter one said. Swings need bars on both sides, so
their dates are set (`SwingsStand`). Events come from a recursive scan over the
bars, compared by least counterexample (`ScanContinues`). Breakouts are the hard
case, since zones do move as swings join them: they are judged against the zones
as they stood at each confirmed swing, and those checkpoints do not change
(`HistoryStands`); the lifecycle of a breakout and the decision of a retest are
each the first bar of a window that meets a condition, and a first one stays first
when a bar is added (`FirstStays`, `LifecycleStands`, `DecisionStands`).

*Nothing early.* `RequestInv` says each usable outcome is a list of timed rows,
the temporal assessment that of the outcomes read, and the analysis that of one
view for each role. Evidence is dated by the last bar or by an event, and an
event not after the last bar (`SnapshotDates`); a coarser series that outruns a
finer one is excluded, so what is left is in time order (`CoverageOrders`).

*Money.* An allowed size is the least of the bounds (`AllowedSize`), its divisions
round down (`QuotientFits`), and the other engines multiply back the same numbers
(`AllowedPlan`): the loss at the stop times the budget's denominator stays below
the budget, and margin used below equity.

*Tellers.* `TellInv` says that veto, explanations and review were each made from
this request's own analysis and sizing. What blocks an answer does not depend on
the direction (`SameBlocks`: the state UNAVAILABLE is about the BIAS timeframe
alone), a block is explained last and by the only explanation of its topic
(`BlockComesLast`), so dropping duplicates keeps it (`BlockIsKept`). A sufficient
verdict has every critical check evaluated and not failed (`SufficientMeans`),
which leaves the veto, the warnings and the explanation of the size nothing to
object to.

### Only model-checked

- Liveness (`EveryRequestAnswered`, `ClientLearnsOfTheEnd`,
  `ShutdownLeavesNothing`, `EveryRunEnds`) is outside the prover's reach.
- `FiguresAddUp` of `Performance` compares sums over all positions, computed in
  two orders; `TraceMatchesLedgers` follows every decision of a walk into two
  ledgers. Each needs an induction over sums or bars that has not been written.

## Not modelled

- Technical indicators: floating-point recurrences over long windows. They enter
  as values of a bar.
- CSV text parsing, field validation of raw live events, image bytes, prompt
  wording and the scans of free text: what they find is an input.
- HTTP routing and schemas, configuration and logging; the React frontend other
  than the live screen.
- Contract metadata sources, retry policies and history paging of vendors;
  basis, open-interest reading and expiry calendars.
- `tags_in_use`, backtest outcomes as a performance source, paged reads,
  `_bounded_reasons`, beginner and professional wording.

## What could come next

1. `TraceMatchesLedgers`, from `EvaluateGood` extended by what the trace says.
2. `FiguresAddUp`, from `FoldsAgree` and lemmas about sums over a selection.
3. Trade outcomes of backtests as a performance source; metadata sources.
