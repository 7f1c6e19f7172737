# A verification project for RadarAsset (DataVest)

TLA+ models of the parts of RadarAsset whose correctness depends on the order in which web requests,
worker processes, PostgreSQL transactions and answers to a browser interleave, or on long sequences of
legal steps (a ledger, a forward test, a backtest); TLC configurations that check them on small
instances; and TLAPS proofs of the most important results for instances of any size. Paths below are
those of the repository.

## The system

RadarAsset is a Next.js web application (`src/`), a set of Python processes (`quant-worker/`) and one
PostgreSQL database (`prisma/`). The processes never talk to each other: web requests insert or update
rows, workers claim rows, lease them, do slow work outside a transaction and report with a conditional
update. A worker may die or be slow, its lease may expire while it still works, a user may cancel, ask
again or replace what is being worked on, and every `SELECT` is outdated by the time of the `UPDATE` that
relies on it.

| Component | State it keeps | Operations | Hard behaviour | What makes it correct |
| --- | --- | --- | --- | --- |
| Backtest queue (`quant-runs.ts`, `run_repository.py`, `run_execution.py`, `worker.py`) | `quant_runs`, legs, artifacts | create, cancel; recover, claim, checkpoint, complete, fail | expired lease under a live worker, retry, deadline, cancel against claim and completion | one run per portfolio hash; results only of the latest attempt; every run settles |
| Briefing refresh queue (`smart-insights-refresh.ts`, `refresh_repository.py`, `refresh_worker.py`, `briefing_pipeline.py`) | one row per user with a requested and a processed version, briefing revisions | request; claim, generate, publish, complete, retry | requests that coalesce while a briefing is generated, overtaken consumers, a daily job beside them | every request is a version of its own; a row that is ready has a briefing of its version |
| Market ingestion requests (`ingestion-requests.ts`, `backtest/ingestion_repository.py`, `process_ingestion_requests.py`) | `market_ingestion_requests` with a lease | request with limits; sweep, requeue, claim, heartbeat, complete, retry, fail | heartbeat in a second thread, serializable admission with an advisory lock beside writers that know neither | submissions keep one active request per target and the limits; reports only about the own attempt |
| Dataset publication (`backtest/publication.py`) | dataset versions, the active one | compare the checksum, install | comparison before the lock of the dataset, two kinds of publishers | a request succeeds with a version that holds what it asked for |
| Forward tests (`strategy-forward-tests.ts`, `signal_jobs.py`, `forward_evaluator.py`) | assignments, evaluation jobs, signals, a simulated account | apply, enqueue on publication, claim, evaluate, fail | assignment replaced under evaluation, version superseded before the claim, raw and adjusted versions that end at different bars | one active assignment; an evaluation acts on bars its assignment has not been through |
| Strategies and backtest engine (`strategies.py`, `engine.py`, `custom_execution.py`) | the account of one sleeve, a pending order | decide at a close, fill at the next open, finance, contribute | a series prepared over all bars; the same decisions taken in one loop and in pieces | no decision looks ahead; the money adds up; live and backtest agree |
| Portfolio ledger (`portfolio.ts`, `portfolio-repository.ts`, `portfolio-transaction-preview.ts`) | transactions with FX snapshots, positions, status of signals | add, change, delete, execute a signal, set its status; report | a change of the past invalidates the present; what is read before the lock | positions are the replay of the ledger; a signal is executed once; the sums of the page agree |
| FX rates (`fx-rates.ts`, `fx_rates/repository.py`) | observations by day | observe, choose, backfill | backfill of snapshots beside open mutations | no rate of a later day; (its interaction with positions is described below) |
| Smart Insights page (`SmartInsights.tsx`, `smart-insights-client.ts`, briefing routes) | the selection, the briefing shown, calls in flight | sign in and out, select, refresh, edit the watchlist; load, poll | aborts, late answers, midnight, failures | what is shown belongs to the selection; no page waits for an answer nobody sends |
| Scheduled ingestion (`ingestion.py`) | ingestion runs, advisory lock | start, fetch, publish and finish, sweep | dies between start and publication | one run per selection at a time; run and version agree |
| Provider catalog and due queue (`sync_provider_instruments.py`) | instruments | reconcile, deactivate, enqueue due | deactivation under active requests | nothing queued for an inactive instrument |
| Dataset bootstrap (`dataset_sync/`) | objects and a manifest | export, import | partial upload, partial import | all or nothing |
| Custom strategies, corporate actions, Smart Insights collection, calendar, opinions and Kronos, portfolio backtests and analytics, optimizer service, tenancy, client cache, deployment, user interface | see `PROJECT.json` | | mostly sequential, numeric or I/O | |

They interact through the database only: a publication enqueues the evaluation jobs of forward tests in
its own transaction; a deactivated instrument fails its ingestion requests; a succeeded backtest leg is
what an assignment is made from; a signal of a forward test is executed by a transaction of the ledger; a
change of the watchlist or the portfolio requests a briefing, and the page polls for it. `PROJECT.json`
lists every component with its status and, under `hazards`, each thing that can go wrong at its line
with the properties that would notice.

## Modules

| Module | Models |
| --- | --- |
| `JobLifecycle` | the abstract promise of the backtest queue: a job is submitted once per key, may be asked to stop, settles once, and has a result exactly if it succeeded |
| `QuantRuns` | the backtest queue and its workers; implements `JobLifecycle` |
| `RefreshQueue` | the briefing refresh queue, its consumers and the scheduled briefing job |
| `IngestionQueue` | the life of an ingestion request: worker, lease, heartbeat, publication, retries, sweep, requeue; the scheduled ingestion beside it |
| `IngestionAdmission` | `requestMarketIngestion` statement by statement: snapshot, lock, deduplication, limits, insertion, serialization failures and retries; the requeue and the due queue beside it |
| `ForwardEvaluation` | assignments, evaluation jobs and signals of one asset, with a raw and an adjusted dataset |
| `Strategies` | the decisions of the nine catalog strategies, as operators |
| `Backtest` | a strategy on an asset, evaluated forward as versions are published and as a backtest |
| `PortfolioLedger` | the arithmetic of a ledger, as operators: replay, average costs, performance, preview |
| `LedgerBook` | the abstract promise of the ledger: it changes one transaction at a time and can always be replayed |
| `Portfolio` | the handlers that change the ledger, signals and exchange rates; implements `LedgerBook` |
| `PortfolioReport` | what the page computes from the rows of a ledger: profit, index, benchmark, preview |
| `BriefingPage` | the Smart Insights page and the routes it reads briefings from |
| `..._proofs` | the theorems about a module and their proofs |
| `MC...` | a module with symmetry sets and the constants a `.cfg` cannot write |

`IngestionQueue` takes the admission of a request as one step and the requeue as two, the snapshot of its
statement and its write; `IngestionAdmission` takes the submission apart and reduces the workers, the requeue
and the due queue to the rows they change. `ForwardEvaluation` leaves open which of the new bars call for a
signal; `Backtest` says which, and takes for granted that the last bars of the versions go up.
`Portfolio` and
`PortfolioReport` share `PortfolioLedger`; the first is about who writes, the second about what is computed from
the variable `rows` that the first extends it with. `MCPortfolioReport` runs the second on the ledgers that
`LedgerBook` reaches, more than the handlers could in as many states.
`BriefingPage` has the refresh queue as one variable; `RefreshQueue` is what is behind it.

Conventions. A variable `row` is the table, a function from identities to records of the columns that
decide anything. An action is one committed transaction, or one statement where others may commit
between two of them; a process has a program counter `pc` and local copies of what it read. Clocks are
Booleans or a small set: a lease is `none`, `live` or `expired`, a retry is `due` or not, a deadline is
`overdue` or not, and an action of time may flip them at any moment, so a lease expires under a live
worker. A definition whose comment begins with "Faulty:" is not part of a specification: it is a
plausible mistake in the definition after it, and the property named with it in `PROJECT.json` fails when
the mistake is made.

### QuantRuns

A request locks its key, reads what answers it and inserts a run, or cancels one with two conditional
updates (`createPortfolioQuantRun`, `cancelPortfolioQuantRun`). A worker is one call of `run_once`: it
recovers stale runs, claims one, passes the checkpoints and completes or fails it; each checkpoint reads
the cancellation, the deadline and the lease again. A new invocation has a new identity as the code's
(`worker_id` is random); since the model has finitely many, an identity is used again after its
invocation stopped, which gives a stale worker more power than it has. The results of an execution are
abstracted to the number of the attempt that wrote them. Legs of a run change together and are one
status; `EventuallySettled` is about them too. Timestamps, names, metrics and messages are left out.

### RefreshQueue

`enqueueBriefingRefresh` reads the row under an advisory lock and then updates it; the lock keeps other
requests out and not the consumers. What a briefing was made from is the newest version that was
requested when the generator read the data, and `revisions` has that number for every briefing published. How
many consumers run is a variable that never changes, so that one run covers a fleet of one and of two.
Beside them `DailyLoads`, `DailyPublishes` and `DailyStops` are the job of `datavest-briefing.timer`
(`run-scheduled-job.sh`, `collect_smart_insights.py briefing --all-memberships`), which loads and publishes
for one member after the other and looks at no claim.

### IngestionQueue and IngestionAdmission

The bars of an instrument are how many revisions of the provider they contain. A fetch merges what the
provider has; publication compares with the active version, and installs the bars in a second step,
without looking at the request. `ScheduledIngestion` is the ingestion of `datavest-market-daily.timer`, which
publishes the same datasets and shares no lock with the worker: it may install bars older than the active
ones. The heartbeat can only raise a flag, which the worker reads before the publication and before the
completion. `asked` is history: what the provider had when the request was submitted. The requeue chooses
its rows in the snapshot of its statement (`plan`) and writes them later: what was submitted in between makes
the unique index refuse the batch, and its process ends. Its `FOR UPDATE SKIP LOCKED` is on the result of a
CTE, which locks no row.

In `IngestionAdmission` the snapshot of the transaction is taken when it starts to wait for the lock; two
submissions that each miss the row of the other are a serialization failure, which is retried. The requeue
(`Requeue`) and `queue_market_ingestion_requests` (`QueueDue`) commit at read committed, without the lock and
without the limits: `outside` remembers the rows they made active since a call took its snapshot, and the
unique index may refuse a submission for those (`RefuseDuplicate`), which is not retried.

### ForwardEvaluation

A version is one of a raw or of an adjusted dataset, both of which may be active; versions are numbered as
they are published, and each has any last bar, later or earlier than that of the one before. A publication
enqueues the jobs, an import of a bootstrap does not. `claim_next_evaluation`, the evaluation and
`complete_evaluation` are one transaction that `run_once` commits, so nothing of them is visible before but
the lock on the job; the lease of a job is therefore never seen and is not modelled.
`applyStrategyAssignment` checks the leg in one step and creates the assignment in another, since it runs at
read committed. The status of a strategy version changes only with a manual synchronization of the catalog
and is taken as active.

### Strategies and Backtest

`Signal(code, bars, i, inPosition)` is what `signal` of the strategy answers at bar `i` when `bars` are
loaded; bars count from 1, in the code from 0. The five strategies on indicators first compute the series
over all loaded bars (`prepare`) and then look into it, as in the code. The indicators themselves are
operators among the constants: the library is incremental, so the value at a bar is a function of the bars
up to it, and that is all `Strategies` takes for granted (`EmaSeries` and its likes say so). Averages are
compared as sums, so no rounding is involved.

In `Backtest` a history is chosen at the start and published in pieces. `EvaluateBar` is one bar of an
evaluation job: `_fill_pending`, the decision, the pending order; `BacktestBar` is one turn of the loop of
`_simulate_sleeve`, `run_price_threshold` or `run_scheduled_dca`: interest, fill, decision. `fw` and `bt` are the
two accounts. The code computes with 28 digits; here amounts are integers and the units of a purchase are
rounded down, in the same way on both sides, so what is compared is the control and the order of the
bookings and not the last digit. Points of equity and the total of the slippage are left out.

### PortfolioLedger, LedgerBook, Portfolio and PortfolioReport

A ledger is a function from ids to transactions; ids are ordered as `createdAt` is. `FoldLedger` is the loop
over the sorted transactions; `Holdings` and `Accounts` are the two folds `replayPortfolioLedger` does at once,
`Performance` is `buildPortfolioPerformance`: a fold over `Dates`, of which `OnDate` is one turn, with the
transactions since the date before (`Since`) applied in a fold of their own. Money is counted in a unit in
which all averages of the instance are whole (`WholeAverages`), so that sums can be compared for equality.
`Rate` is what the price of an asset is multiplied with to be in the currency of the page; the replay
converts (`Converted`), the dialog that shows a preview does not.

A handler of `Portfolio` looks for the transaction (`Begin...`), waits for the lock of the portfolio and
validates a signal (`Lock`), writes and replays (`Rebuild`), and commits; `staged` is what its open transaction
is going to write. `Abort` is every refusal and failure in between. Users set the status of a signal beside
it, and the synchronization of rates observes a day or fills in snapshots; the latter waits for rows an open
transaction has changed, and for nothing else.

### BriefingPage

`page` is the state of the component, `calls` its requests in flight with what the server has read for them
so far. A step of the page ends in `Render`, which runs the effects whose dependencies changed: the calls of
the run before are aborted and new ones sent, in the same step, as React does before anything else
happens. A poll is a call that is sent when its timer fires. The server reads the briefing and the state
of the refresh in two steps, in either order, as `Promise.all` does. The dialogs that change the watchlist can
be left while they save, so the user goes on to select, refresh and edit; the answer is handled with the
dates of the render that sent the call.

## Runs

| Run | Instance | What it shows |
| --- | --- | --- |
| `QuantRunsRequests` | 2 runs, 2 workers, 2 requests, 1 key, 2 attempts | `OneRunPerKey`, `CancellationAnswered`, and that the queue implements `JobLifecycle` (`ImplementsLifecycle`) |
| `QuantRunsWorkers` | 1 run, 3 workers, 1 request, 3 attempts, fair | `TypeOK`, `ArtifactsFenced`, `NoOrphan`, `ProgressMonotonic`, and that every run settles with its legs (`EventuallySettled`) |
| `RefreshQueue` | 1 user, fleets of 1 and 2 consumers with the scheduled job, 2 requests, 3 attempts, 2 versions, fair | `TypeOK`, `ClaimCurrent`, `ReadyWasPublished`, `EveryRequestCounts`, `QueuedIsServed` |
| `IngestionQueueShared` | 2 requests, 2 users, 1 instrument, 2 workers at a time, 2 attempts, the requeue and the scheduled ingestion | `TypeOK`, `BatchFits`, `SucceededIsFresh`, `ReportsOwnAttempt` |
| `IngestionQueueSingle` | 2 requests, 1 worker at a time of 3, fair | `QueuedIsServed` |
| `IngestionAdmission` | 2 users, 2 instruments, 2 calls at a time, 3 rows, 2 tries, limits of 2, the requeue and the due queue, fair | `RefusedForOthers`, `AdmittedWithinLimits`, `EveryRequestAnswered` |
| `ForwardEvaluation` | 2 assignments, 1 portfolio, 1 worker at a time, 3 versions of 2 datasets, 2 bars, fair | `OneActive`, `SignalsAreNew`, `QueuedIsSettled` |
| `Backtest` | 729 histories of 8 bars, 7 catalog strategies and 6 custom rules, versions of 1 or 2 new bars | `SignalsCausal`, `AccountsBalance`, `LiveMatchesBacktest` |
| `BacktestLookAhead` | the same, for `ema_trend` and `macd_momentum` | violates `SignalsCausal` (finding) |
| `Portfolio` | 2 handlers, 2 rows at a time, 4 inputs, 2 signals, 2 days, one observed rate | `TypeOK`, `PositionsAreReplay`, `SignalExecutedOnce`, `ExecutedIsLinked`, and that the handlers implement `LedgerBook` (`ImplementsBook`) |
| `PortfolioReport` | every ledger of up to 3 transactions out of 20, 2 assets in 2 currencies, 3 days, 2 of them without a bar of the second asset | `ProfitAgrees`, `IndexTracksClose`, `PreviewAgrees` |
| `BriefingPage` | one user, two days, one change of the watchlist in flight, every order of the answers, fair | `PageFollowsSelection`, `PageSettles` |

Each property has a comment at its definition that says what code behaviour it is about.

### Bounds, and why they are enough

- Attempts are 3 in the code. With 3 (`QuantRunsWorkers`, `RefreshQueue`) the last attempt differs from
  the first and from one in the middle; with 2 (`QuantRunsRequests`, `IngestionQueueShared`) there is
  still a takeover and a last attempt, and the space left is used for more actors.
- Two workers are enough for one that lost its lease against one that took over; the third identity
  is for a process that starts after one has crashed. `MaxLive` and `FleetSizes` say how many of a kind run at a
  time. The units start one consumer of refreshes and one worker of ingestion requests, and beside them the
  jobs of `datavest-briefing.timer` and `datavest-market-daily.timer`, which every instance has. The safety
  properties of these two queues are checked with two workers and do not rest on there being one. The run
  and the theorem about `SignalsAreNew` do: one process evaluates at a time, which is what the repository
  starts (`dev-local.mjs`, one `worker.py`).
- `MaxVersion`, `MaxFeed`, `MaxBar`, `LastDay`, `MaxEdits` bound counters: two values show an older and a newer,
  three a middle one. Two versions of a refresh are a request and one that comes while it is served. Three
  versions in two datasets are a raw and an adjusted one, and one that supersedes either, with two last bars
  in any order. Two days are one midnight, with a day before it that has a briefing or has none. One change of the
  watchlist is in flight while the user selects and refreshes; the theorem has any number of them.
- `MaxTries` is 2 in the instance of `IngestionAdmission` and 5 in the code: one retry and one that gives up.
  The identity of a settled row is used again when no call can still refer to it.
- `MaxRows` and `Ids` bound the transactions there are at a time. Two are a purchase and a sale it pays
  for, whose order, change or deletion can break the replay; ids grow only past those there are, so deletion
  makes room. In `PortfolioReport` three are two purchases and a sale of both at their average.
- A history of eight bars has a complete trade and the start of a second for every strategy, with periods of
  2 and 3: each catalog code reaches a trade after the start of the forward test with nothing before it,
  where `LiveMatchesBacktest` has a premise that is true. Opens and dates are the same in all histories; they
  cross two months, leave gaps of several days for the interest, and differ from the closes. The first two
  closes are fixed, which leaves `3^6` histories. Rates are in tenths, far above real ones, so that every fee
  is a whole amount greater than zero.
- Symmetry is used in the runs without liveness only. `CHECK_DEADLOCK FALSE` is set for `Backtest`, whose
  behaviours end with the history.

### Fairness

No model assumes that a worker survives: `Crash` is possible at every step and unfair. Assumed is, weakly,
that a process that is up goes on, that one that died is started again, and that time passes: the
loops poll for ever (`run_forever`, `--watch`) and the systemd units say `Restart=on-failure`. For
`worker.py` the repository has no unit, and `dev-local.mjs` ends with its first child that ends, so "is
started again" is asked of whoever operates it. Strong fairness is assumed of the first statement of a
process (recovery, sweep, claim) and, in `ForwardEvaluation`, of the conclusion of an evaluation: the
deaths that are left have nothing to do with the job at hand. Deaths the code causes itself are modelled
(`CompletionRefused`) and no fairness excludes them. In `IngestionAdmission` strong fairness of the lock is
PostgreSQL's first come, first served queue.

In `BriefingPage` each effect's calls are, weakly, answered or their timers fire; failing is an action
nobody has to take. The generator owes nothing: `PageSettles` is about a generation that has ended. The user
stops at some time (`<>[][~User]_vars`), because one who selects another date before each answer keeps a
skeleton on the page for ever, and rightly.

## Findings

`BacktestLookAhead`. `EmaTrendStrategy.signal` and `MacdMomentumStrategy.signal` compare the last two values of
the prepared series, whatever the bar they are asked about (`strategies.py:340-346`, `:460-472`); the other
three strategies on indicators take the value at the index. `prepare` gets the whole history in a backtest
(`engine.py:104-106`), so the crossover at its end is what decides every bar of it: the signals of these two
strategies depend on the future, or there are none. In a forward test `prepare` gets all bars of the version, which
is right for its last bar only. The catalog calls both causal (`src/lib/backtest/strategy-catalog.ts:259`,
`:342`). The unit test does not notice, since it calls `signal` without `prepare`
(`tests/test_talipp_strategies.py`), where the series ends at the bar.

### Other behaviour the models show

These are reachable in the models, so a property that excludes them fails; they have no run of their own.

- A consumer that completes between the read of a refresh row as `running` and the update that then only
  raises its version leaves a request accepted that nobody processes until the next one
  (`smart-insights-refresh.ts:100`).
- A consumer that dies during the third attempt leaves the refresh row `running` for good: the claim asks for
  fewer attempts, and nothing sweeps (`refresh_repository.py:38`). Exhausted ingestion requests are swept
  once, when a process starts (`process_ingestion_requests.py:247`).
- A briefing may be replaced by an older one: the scheduled job, or a consumer whose claim went stale,
  publishes what it read before a change as the newest revision of a row that is ready
  (`briefing_pipeline.py:613`, `run-scheduled-job.sh:59`).
- An ingestion worker looks at the flag of its heartbeat and then publishes without looking at the
  request: it may publish under a lease that it lost (`process_ingestion_requests.py:197`). The scheduled
  ingestion publishes the same datasets, and either may install bars it merged with an older version over newer
  ones (`publication.py:236`).
- A submission that commits between the snapshot of the requeue and its write makes the unique index refuse the
  whole batch, which nothing catches; and what the requeue or the due queue makes active after the snapshot of a
  submission makes it fail with P2002, which is not retried (`ingestion_repository.py:253`,
  `ingestion-requests.ts:136`). Both also exceed the limits that a submission respects. The rows of the requeue
  are written whatever they are by then, also when they run again.
- A version of the other dataset may end earlier. Its evaluation finds no new bar, succeeds, and sets
  `last_evaluated_bar_at` back, so the next one acts on bars a second time
  (`forward_evaluator.py:196-203`, `:309-312`); `SignalsAreNew` is what remains.
- A job whose version was superseded before the worker got to it fails and sets the assignment to
  `evaluation_failed`; the job of the newer version then fails for that reason (`forward_evaluator.py:117`).
  Two publications close together end a forward test that `docs/architecture.md:191-193` says a newer dataset
  advances. A completion or failure writes the status of an assignment whatever it is by then, so an
  archived one can become `evaluation_failed`; an assignment created while a version is published has no
  job for that version.
- The backfill of rates rewrites the FX snapshots of recorded transactions and does not rebuild positions
  (`fx_rates/repository.py:42`), so the stored average cost stays that of the old snapshots until the next
  mutation, although the design says that re-running the collector does not rewrite saved accounting
  (`docs/superpowers/specs/2026-08-17-mock-portfolio-multicurrency-ledger-design.md:57`).
- A transaction that executes a signal can be changed to another asset or side and the signal stays
  executed; setting the status of a signal accepts any status at any time (`ExecutedIsLinked` excludes the
  signals users set).
- The chart has no point for a last date on which nothing is held and the flows cancel (`portfolio.ts:384`): buy
  one unit at 72 on day 1, buy one at 96 and sell both at 72 on day 3, with fees of 24 each. The comparison then
  takes the value of an earlier point with the cash of all transactions, and differs from the profit of the
  rows; so it does when a transaction is later than the last bar. `UpToDate` excludes both.
- The preview of an asset traded in another currency adds prices and fees in it to an average cost in the
  currency of the page (`PortfolioTransactionDialog.tsx:172-182`): its quantity and its refusals are right,
  its average cost and profit are not. `PreviewAgrees` says so.
- After Refresh on a day that has a briefing, the first poll is answered with that briefing and ends the
  polling: the regenerated one shows up with the next load
  (`docs/superpowers/specs/2026-08-17-smart-insights-analysis-date-design.md:97` asks for a fresh read). The
  dates a finished poll asks for are aborted by the cleanup of its own effect. The route reads the briefing
  and the state of the refresh in two steps, so a call may see neither of a generation that ended between.
- Every purchase of a backtest is for the capital of the sleeve times the leverage, whatever is left of it
  (`engine.py:119`): after a loss cash goes below zero, without interest as long as the purchase is within the
  capital. A forward test buys with what it has, so the signals of the two agree and the amounts of catalog
  strategies do not after the first trade.

Read in the code, and outside the models: the contributions of a DCA leg count as profit of a portfolio run,
whose balances follow the equity of the sleeve (`backtest/portfolio.py:191`); a new DCA assignment pays the
current month, whatever a former one paid; the rate of a new snapshot and that of the backfill prefer
different sources; a mutation of the ledger whose response cannot be loaded answers 503 after its commit,
and a retry records it twice; the portfolio page shows the answer that arrives last.

## Proofs

Everything below holds for every value of the constants: any number of workers, requests, rows, days, bars or
attempts. Each module first proves that `IInv` is inductive, with one lemma per group of actions, and then
derives its theorems from `Init => IInv`, `IInv /\ [Next]_vars => IInv'` and `IInv => ...`.

| Module | Theorems | Inductive invariant, and why it is needed |
| --- | --- | --- |
| `QuantRuns_proofs` | `TypeCorrect`, `Fencing` (`ArtifactsFenced`), `Deduplication` (`OneRunPerKey`), `Implementation` (`ImplementsLifecycle`), `Attended` (`NoOrphan`), `ProgressAdvances` (`ProgressMonotonic`), `CancellationsAnswered` (`CancellationAnswered`) | `TypeInv`; `FenceInv`: a worker that the row names works on its latest attempt; `DedupInv`: who is past the lock of a key holds it, and while it is about to insert no run answers the key; `LeaseInv` |
| `RefreshQueue_proofs` | `TypeCorrect`, `ReportsAreCurrent` (`ClaimCurrent`), `RequestsAreCounted` (`EveryRequestCounts`), `ReadyIsPublished` (`ReadyWasPublished`) | `RequestInv`: what a request read is still the version of the row, since only requests raise it and the lock keeps them apart; `ClaimInv`: who the row names works on its latest claim; `VersionInv`: who has published saw at least the version it claimed |
| `IngestionQueue_proofs` | `TypeCorrect`, `BatchesFit` (`BatchFits`), `SuccessIsFresh` (`SucceededIsFresh`), `ReportsAreOwn` (`ReportsOwnAttempt`) | `RowInv`; `HolderInv`: the row names a worker only with the attempt it was given; `FetchInv`: what a worker fetched is as recent as what was asked for; `ChosenInv`: the rows a requeue has chosen exist; `OneActive`: the unique index |
| `IngestionAdmission_proofs` | `TypeCorrect`, `OthersRefuse` (`RefusedForOthers`), `Limited` (`AdmittedWithinLimits`) | `SnapshotInv`: a row that is active now was so in the snapshot, or others have made it active since, or a submission has and the flag says so; `UnansweredInv`: a call that is about to insert found no answer in its snapshot; `TriesInv`, `TargetInv` |
| `ForwardEvaluation_proofs` | `TypeCorrect`, `NeverTwoActive` (`OneActive`), `SignalsOfNewBars` (`SignalsAreNew`) | `WorkInv`, `JobInv`: what a worker has claimed exists; `SoleInv`: what the only worker copied of its assignment is what the row has |
| `Portfolio_proofs` | `PositionsNeverDrift` (`PositionsAreReplay`), `SignalsExecuteOnce` (`SignalExecutedOnce`), `SignalsFollowLedger` (`ExecutedIsLinked`), `PortfolioImplementsBook` (`ImplementsBook`), `PortfolioTypes` (`TypeOK`), `PreviewsAreRight` (`PreviewAgrees`), `ProfitsAgree` (`ProfitAgrees`), `IndexesTrackClose` (`IndexTracksClose`), `PositionsNeverShort` | `LockInv`: one handler is past the lock; `IdInv`: ids in use differ; `StageInv`: what a handler staged is the replay of the ledger it will leave, which nobody changes meanwhile; `ShapeInv`, `JobInv`; `TypeInv`: the rows can be replayed and what is staged has its type |
| `BriefingPage_proofs` | `FollowsSelection` (`PageFollowsSelection`) | `LoadInv`, `PollInv`: every call in flight that can change what is shown is for the selected date, because the step that changes the selection aborts the others |
| `Backtest_proofs` | `Balances` (`AccountsBalance`), `Causality` (`SignalsCausal`), `LiveIsBacktest` (`LiveMatchesBacktest`) | `ShapeInv`: accounts and signals are well formed and belong to bars that exist; `MoneyInv`: the equation of `AccountsBalance` and, for custom strategies, that a purchase costs at most its budget (`Affordable`); `LiveInv`: there is a sequence of accounts, one per bar, that leads to that of the assignment (`Trace`), and the backtest is where that sequence was at its bar |

Assumptions. Those the modules state, and TLC evaluates: bounds are natural numbers and null values are no
identities; `Backtest` also assumes that fees and slippage do not exceed the price. `SignalsOfNewBars`
assumes `MaxLive = 1`, as said under Bounds. `Causality` assumes
`SoundCodes`, that the two strategies of the finding are not among the codes; it rests on one lemma per
strategy (`MaCrossCausal` to `AtrCausal`): computed from the bars up to it or from more, the decision at
a bar is the same, because each looks into windows that end there. `Balances` needs no such assumption.
`LedgerAssumption` says that the days of a calendar are finitely many numbers from 1 on, and that the assets
are finitely many.

`LiveIsBacktest` compares two computations that run one after the other: the assignment has seen its last bar
before the backtest begins. `Trace` therefore remembers the account of the assignment at every bar, and the
backtest is compared with the trace at its own bar: while it has given no signal it stays as it began
(`IdleBar`), at the bar where the assignment starts both are alike (`IdleAgrees`), and then one bar after the
other takes accounts that agree to accounts that agree (`BarSame` for custom strategies, `BarAlike` for those
of the catalog, whose accounts differ in cash and units and agree in whether there is a position and which
order waits). That the version a job loads does not matter is `SignalCausal`, so `SoundCodes` is assumed here
too. The premise `[]NoOrderTooSmall` is about catalog strategies only: no budget is below the price of one
unit. It stands for what the model leaves of the code, which buys fractions of units and so opens a position
for any amount; without it rounding could leave one of the two without a position. It holds in every state of
the instance that `Backtest` checks, where `LiveMatchesBacktest` is checked without it.

`PreviewsAreRight` and `PortfolioTypes` are about the results of folds over ledgers of any length. They need no
induction theorem with an operator for a parameter: the fold over a finite set of transactions is the end of a
function on the transactions up to one in their order (`ReplayExists`), a set that has a first element where a
statement fails has a least one (`MinimalSubset`), and the latest transaction of a set is unique
(`LatestIs`). `ReplayAppends` then says that the replay of a ledger with one more transaction, later than all
others, is one step from the replay without it, which is what the preview computes. `PreviewAgrees` is proved
of the handlers of `Portfolio`, whose rows are every ledger there can be, with any closes and any inputs.

`ProfitsAgree` and `IndexesTrackClose` go on from there to folds over dates, over the transactions of each and
over assets. `FoldExists` and `SameFold` unfold any of them; `SumApart` and `SumMinus` are what the proofs need of
sums. Both have an invariant of the loop over the dates, proved for every set of first dates (`Early`).

- For the profit it is: withdrawals less contributions are `Net`, the realized profit less the average cost of
  what is held. A transaction changes both sides by the cash that goes through the account (`NetStep`). This
  needs sales that are covered at their own time, which every beginning of a ledger that can be replayed has
  (`BeginningReplays`), and averages that are whole: a purchase that rounds its average makes the two
  computations differ by the remainder, which is what the premise `[]WholeAverages` excludes. The code
  computes averages as fractions, so the premise is about the unit of the model, and holds in every state of
  the instance. The value of the last point is the worth of what is held there (`ChartReaches`); `UpToDate`,
  the premise of `ProfitAgrees` itself, says that it is the last date's and that nothing was traded later.
- For the index it is `Followed`: what is held is what the whole ledger leaves of the asset by that date
  (`TradedOnDate`), the benchmark has as many units and no cash, and the value of the last point is the
  quantity at the close of that date, unless nothing is held. Then a purchase, a partial sale or selling out
  at the close changes value and flow by the same amount (`DateFollowed`). This theorem has no premise beside
  the specification.

Only model-checked: liveness (`EventuallySettled`, `QueuedIsServed` of both queues, `EveryRequestAnswered`,
`QueuedIsSettled`, `PageSettles`), which rests on fairness, and so on `ENABLED`, and is beyond the prover. Every
invariant and every action property of a passing run is stated by a theorem.

## Not modelled

What each component leaves out is in `PROJECT.json`. In general: prices and metrics beyond the ledger and
the sleeve, texts, and queries that only read; tenancy (a key or a user stands for a tenant's); failures
of PostgreSQL other than a lost connection. A renewal of the heartbeat runs on the connection of the
publication and so inside its transaction: the models let a lease expire at any time, which covers a renewal
nobody sees, and leave out what a failed statement of one thread does to the transaction of the other.
Most of the repository by lines is presentation, dictionaries of two languages, seeds, parsers of providers'
answers and metrics over immutable observations: sequential code whose properties are those of its
arithmetic and texts, which unit tests reach and a model checker adds little to.

## What is left

1. The run rows and the advisory lock of scheduled ingestion, which is in `IngestionQueue` as the one step in
   which it publishes.
2. Portfolio backtests: weights, rebalancing and contributions over several sleeves, with an equation for
   their money as `AccountsBalance` is for one.
3. The import of a dataset bootstrap beside a publication; the reconciliation of the catalog beside the due queue.
