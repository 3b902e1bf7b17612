# A verification development for the trading automation platform

TLA+ models of the platform's two order paths (the testnet broker with its
delayed reconciliation, and paper execution), of the bots' lifecycle, and of the
services around them; the TLC runs that check them, and TLAPS proofs of what
matters most. Paths are relative to the repository; line
numbers are those of the commit modelled. `PROJECT.json` maps every definition to
the lines it translates and lists runs, mutants, hazards and theorems.

## 1. The system and its parts

The platform is a FastAPI application, a set of one-shot command-line tools and
a reconciliation worker over one PostgreSQL database (READ COMMITTED,
SQLAlchemy sessions without autoflush). Several processes may run at once: API
servers, each with an optional `BotRunner` task (README.md:616-621 documents two
of them), one-shot runners started by cron, and reconciliation workers. They
share nothing but the database and the exchange.

| Component | State | Operations | What makes it correct |
|---|---|---|---|
| **Binance testnet broker** (`services/brokers/binance.py`) | `execution_attempts`, the POST on the wire, the daily quota | `submit_market_order`: early refusals, gate, preflight, reservation, POST, one query, finalisation | a bot's orders are serial; a row that reopens the gate is true; an order counts at most once |
| **Delayed reconciliation** (`services/execution_reconciliation*.py`, the job repository, the worker CLI) | `execution_reconciliation_jobs` with lease and count | enqueue, claim, check, query, retry or exhaust or resolve; manual reconciliation | exact budget; only ever recovers; jobs move forward and end; giving up leaves the gate closed |
| **Paper execution** (`services/simulated_execution.py` and the books it keeps) | draft balances, bot positions, portfolio account and positions, orders and fills, quota | evaluate, reserve, reject, fill, settle, mirror; reset of a draft balance | signals executed once; no money left locked; the books follow the fills |
| **Bot lifecycle** (`engine/bot_runner.py`, `services/bot*.py`) | bots, runs, events | start, stop, pause, resume, evaluate, shutdown | one active run, terminal runs stay terminal, a paused bot does not trade, cooldown after a sell |
| **Portfolio account** (`services/portfolio.py`, `services/paper_portfolio.py`) | account, positions, accounting events, snapshots | fills, manual orders, reset | equity is the start and the profits; the events explain cash and profits |
| **What an evaluation leaves** (`services/paper_reconciliation_audit.py`, `services/execution_safety_status.py`) | attempts, orders, fills, snapshots, run events, daily quota | the order path's commits, a crash between them, the audit | every order has its attempt; audits and the status agree with what was done |
| **Strategies, risk, backtesting** (`engine/strategy_engine.py`, `engine/risk.py`, `engine/backtesting.py`, `services/csv_backtest.py`) | none (pure, or one sequential run) | decide, limit, replay | both backtesters and the bots decide alike; results add up; a stop loss caps a loss |
| **Comparison of runs** (`services/backtest_run_comparison.py`, `backtest_parameter_sweep.py`, `backtest_comparison_report*.py`) | files | score, rank, recommend, accept, report, validate | an accepted run deserves it; a report cannot hide a run |
| **Stored strategies** (`services/strategy.py`, the schemas, `endpoints/backtests.py`) | strategy rows | create, patch, optimise | what is stored or accepted the engine can run |
| **Market data** (`services/market_data_service.py`, `repositories/market_candle.py`, `services/brokers/binance_exchange_info.py`) | latest prices, candles, cached rules | stream, manual price, fetch, upsert, refresh, validate | a manual price stands; rules are recent; what passes fits |
| **Worker heartbeat** (`services/execution_reconciliation_worker_status.py`) | one row per worker name | marks of the poll loop, health | ends are reported, dead workers show |
| **Alerts** (`services/alert_event.py`, `services/alert_rule.py`) | rules and events | evaluate, change rules | cooldown per process, events traceable |
| Artifact catalogue, dataset preparation, sweep validation, CRUD of profiles and events, HTTP API, dashboard, migrations | none of their own, or files | read and present | not modelled, see section 9 |

Interactions: `BotRunner` (or the one-shot CLI) evaluates bots and calls
`PaperExecutionService.submit_order_intent`, which mutates the books in its
caller's transaction. The testnet broker is called by the execution endpoint; it
leaves an attempt and a job behind, and workers and the manual endpoint read
both. No component calls another back: everything else is database rows read
before a lock and used after it, and that is where the hard behaviour is.

Hard behaviours: processes that interleave at every statement, ORM
sessions that answer a locked re-read with the object they already hold, leases
that expire while work goes on, answers that arrive late or never, crashes
between two commits, row locks taken in different orders, and amounts finer than
the columns that hold them.

## 2. Modules

| Module | What it is |
|---|---|
| `SerialOrders` | abstract: a bot's orders come before the exchange one at a time, and the ledger never says what the exchange did not decide |
| `TestnetSubmission` | the broker's call, jobs, workers, manual reconciliation, the exchange and crashes, composed in one module because each action reads or writes tables of the others |
| `TestnetSubmissionInvariant` | its inductive invariant, `IInv` |
| `TestnetSubmissionProofs` | proofs of its invariants and action properties |
| `TestnetSubmissionRefinement` | proof that it implements `SerialOrders` |
| `MCTestnetSubmission` | instances for TLC |
| `PaperLedger` | abstract: a bot's purse and position change together, one accepted signal at a time |
| `PaperExecution` | evaluations by several processes, resets and pauses over shared rows |
| `PaperExecutionProofs` | proofs of its invariants, and that it implements `PaperLedger` |
| `MCPaperExecution` | instances for TLC: amounts per price |
| `BotLifecycle` | one bot, its runs, the requests and the runner's cycle, shutdown and cooldown, by several processes |
| `BotLifecycleProofs` | its inductive invariant, and from it the safety and action properties |
| `PaperTrail` | the rows one bot's evaluations leave over their three commits, what the audit and the safety status say of them |
| `PaperAccounting` | average prices, profits, accounting events, snapshots and summaries; manual orders and the reset of the account |
| `RiskManager`, `StrategySignals` | the risk limits and the five strategies, as operators |
| `BacktestReplay` | a replay of candles through both, candle by candle |
| `CsvReplay` | extends it: the second backtester in step with the first, and what a comparison recovers from its files |
| `RunComparison` | scores, rankings, recommendation, acceptance, sweeps |
| `ComparisonReport` | extends it: the exported report, its validator, and what happens to the file in between |
| `StrategyStore` | patches of a stored strategy and optimisations, against the engine of `StrategySignals` |
| `MarketData`, `CandleStore`, `ExchangeRules` | latest prices; one candle's row; cached trading rules and the validation of orders |
| `WorkerStatus` | the status row workers of one name share |
| `AlertEvents` | rules and evaluations of two processes |
| `ServiceProofs` | proofs about `MarketData`, `ExchangeRules` and `CandleStore`, `WorkerStatus` and `AlertEvents` |
| `ReplayProofs` | proofs about `BacktestReplay` and `CsvReplay`, and with them about the indicators of `StrategySignals` |
| `PaperBooksProofs` | proofs about `PaperAccounting` and `PaperTrail` |
| `StrategyProofs` | proofs about `StrategyStore` and the engine's validation of parameters, and about `RunComparison` and `ComparisonReport` |
| `MCServices` | instances of the modules from `PaperTrail` on as ten parts, one moving at a time |

### TestnetSubmission and the code

An action is what happens between two points at which another process can see
something: a commit, a statement that takes or checks a lock, a reply.

| State | Code |
|---|---|
| `row[c]` | the attempt of call `c`: `final_status`, whether `final_reason` says unresolved, and `reconciliation_resolution` in the metadata. The gate reads the last two, eligibility for a job only the last |
| `job[c]` | status, `next_attempt_at` or `lease_expires_at` as a countdown, `lease_token`, `automatic_attempt_count` |
| `call[c]` | the program counter of `submit_market_order` with what it has heard; `guarded` and `cleared` hold the row lock on the bot |
| `wire[c]` | the truth at the exchange: unsent, sent, placed, refused, lost |
| `worker[w]` | the tickets of a claimed batch (job and attempt number), where the worker is, what it plans to write |
| `operator[m]` | one manual reconciliation request |

`RefuseEarly` is everything that returns before the gate. `GuardAdmits`,
`ReserveCleared` and `Reserve` are the two questions to the gate
under the bot's row lock and the commit of the reservation with its job;
`PreflightRejects` and `ReserveBlocked` are the ways out. `Post`, `HearAnswer`,
`AskOnce` and `Finalize` are the signed POST, its classified answer, the one
query for an unknown answer, and `_finalize_reserved_attempt`. `Claim`,
`NextTicket`, `CheckClaim`, `ReadAttempt`, `Query`, `CheckAgain` and `Commit`
are `process_due_batch`; `ManualBegin`, `ManualQuery`, `ManualRead` and
`ManualWrite` are `manually_reconcile_attempt`. `CrashCall` and `CrashWorker` end a
process and release its locks; its rows and claims stay.

Decisions worth knowing:

- The worker re-reads the attempt after its query, but its session still holds
  the object of the first read, so the second read says nothing new. The model
  keeps the plan made from the first read. An `UPDATE` writes only changed columns.
- A claim is checked with a plain `SELECT` and the job then updated by primary key, so
  `CheckAgain` and `Commit` are separate actions between which a lease may expire.
- `not_found` and a failed query lead to the same writes and are one outcome,
  "missed"; a query may miss an order that exists or is still under way.
- The lease token is named by the worker that holds it: a worker that claims a job again
  has dropped its earlier ticket.
- Clocks are countdowns that `Tick` lowers together. Any order between an expiry and a
  step of any process is possible.
- The exchange is external and taken to be honest: it never reports an order it
  did not place.

### PaperExecution and the code

What a transaction has not committed stays with its process; the variables hold
what is committed, and an action that commits carries every write of its
transaction, the flushes in between included.

| State | Code |
|---|---|
| `status` | `bots.status` |
| `draft` | the quote row (`available`, `locked`) and the base row of each bot's `draft_balances` |
| `position`, `used` | `paper_positions.quantity`, `execution_daily_quota_usage` |
| `account` | `portfolio_accounts.cash_balance` and `positions.quantity`, shared by all bots |
| `book`, `booked` | sums over committed orders and fills, and over `paper_accounting_events.cash_delta`; used to state properties |
| `process[p]` | an evaluation: stage, bot, side, price, and the account and position its session has read |
| `reset[r]` | a reset request and the columns it found different from the defaults |

`ReadBot` is the unlocked read of a bot, and `Decline`, `DecideBuy`, `DecideSell` are
`_evaluate_bot` under the bot's row lock up to the order intent. The rest is
`submit_order_intent`: `ReadAccount` (no lock), `LockAccount`, `BlockOrder`,
`RefuseReservation`, `Reserve`, `RefuseCash`, `FillBuy`, `RefuseSettlement`,
`FillSell`; `Abort` is an exception, a crash, or being chosen as a deadlock victim. `Pause` and
`Resume` are the runner's. `ReadQuoteRow`, `WriteQuoteRow`, `CommitReset` and
`AbortReset` are `reset_bot_draft_balance`.

Decisions worth knowing:

- `get_*_for_update` does not use `populate_existing`. A row the session strongly
  holds (bot, account, shared position) is locked and then answered with the values of the
  first read; a draft row, which nothing refers to after its flush, is read back as
  stored, and so the settlement sees the rounded reservation.
- A reset assigns defaults; attributes already equal are not in the `UPDATE`, and a row
  without changes is neither written nor locked.
- What strategy, cooldown, risk limits and daily loss decide is left open
  (`Decline`, `BlockOrder`): any of them may refuse an order at any time they are asked.
- `Decline` frees the bot's row at once. In a cycle over several bots the code keeps that
  lock, since nothing is committed for a declined bot, until the next commit of the session or
  its end: others wait for that bot longer than they do here, on a row nobody is changing.
- The second look at the quota inside `submit_order_intent` cannot deny what the first
  admitted under the bot's lock, so it has no action.
- A bot trades one lot of one symbol, so base quantities are exact; a sell locks its base
  asset only inside one transaction, so `base` is one number. The shared position row and
  the draft rows exist.
- HTTP handlers are `async` and call the services without awaiting in between, and the runner's
  evaluations are on the same event loop: one process is serial, and races need two.

### BotLifecycle and the code

A process (an API server with its runner, or a one-shot runner) does one operation at a
time: handlers and the runner's task share an event loop and never await in the middle. An
operation is a row of transactions and an action is one of them.

| State | Code |
|---|---|
| `status`, `profile` | `bots.status`, and whether the execution profile exists and is enabled |
| `runs`, `ends` | `bot_runs` with their stamps; the ends the lifecycle events of each report |
| `position`, `quiet`, `noted` | the bot's lot; the cooldown since its last sell, and the same as the latest `order_filled` event has it |
| `process[p]` | the operation, how far it is, the run it has and the row it read |

`overlap` remembers that two operations were under way at once. Nothing in the database keeps
them apart (`get_active_for_bot` and the insert have no unique index behind them, and a transition
is validated against a row read before), so `OneActiveRun`, `EventsAgree`,
`EndingLeavesNothing` and `CooldownKept` are promised only while it is false, and TLC finds them
violated without that condition. `StampsFit` and the absence of deadlock hold regardless.

### The services and the code

The ten parts of `MCServices` do not read each other's rows while they move: what one takes
from another (a price, a position, a decision) is an input it takes from a small set, larger than
what the other could deliver. Hence a behaviour of one is a behaviour of the whole in which the others
rest, and `part` names the one that moves. One run instead of ten checks all their invariants in
every state; the invariants of resting parts hold by their `Init`.

- `AlertEvents`. An evaluation reads the run, its events and the rules, then handles rule after rule;
  a rule that fires is committed twice, event and stamp. Clients create, change and delete rules
  in between.
- `WorkerStatus`. Every mark is a transaction that reads the row and updates what differs, so `ReadMark`
  and the write are two steps.
- `MarketData`. Stream events wait on the wire; the connection drops and comes back; a fetch awaits the
  exchange while everything else goes on.
- `ExchangeRules`. Time is ticks; a fetch takes any number of them and may fail. The exchange replaces its rules
  at any time and composes its answer at a moment of its own between request and arrival (`AnswerRules`, apart from
  `FetchRules`), so an answer may be outdated when it arrives. Nothing in the code relates how long a fetch takes to the
  time to live (the timeout of the HTTP client is per phase, and both are settings), so none is assumed: the order that
  waited is promised rules in force when it asked or later, and only orders served by the cache are promised rules given
  up less than a time to live ago. Counts of ticks stop at the time to live; an order keeps, as history, the version in
  force when it asked.
- `CandleStore`. A read of the row and the update of the columns that differ.
- `StrategySignals`, `RiskManager`. Decimals are whole numbers of units, rounded half to even where the
  code quantizes. Parameters are a function from the names given; a name may be missing or invalid.
- `BacktestReplay`, `CsvReplay`. The next candle's price is chosen as the replay goes on. Sums and exponential
  averages are recursive functions over the candles (`Sums`, `ExactEmas`), the drawdown one over the curve (`Fallen`),
  so that they can be reasoned about. The two backtesters are compared where all a strategy trades by is among its
  parameters (`AllInParameters`): the CSV backtest has no execution profile to fall back on (`csv_backtest.py:172`).
- `RunComparison`, `ComparisonReport`. Summaries are functions from the metrics they have. Scores count
  1/300 points so that the weights leave whole numbers. In the report a path is its kind (relative, absolute,
  with `..`), and the file is edited and exported again after it was written.
- `PaperTrail`. An evaluation is three steps because two commits cut it: the checks at the price of the
  decision; the order at the price of the moment with the account locked; the run event, and the attempt if
  the order path left none. Manual orders, other bots' losses, resets, midnight and crashes come in between.
- `PaperAccounting`. An order reads account and position, later locks the account and is answered with what
  it read, and writes the columns it changed. `overtaken` remembers that a row had changed meanwhile; what
  follows from that is shown by `paper_lost_cash`.
- `StrategyStore`. A PATCH is a read with its validation, and a write. `crossed` remembers that a patch was
  judged by a row that had changed when it was written.

## 3. Runs

`CHECK_DEADLOCK FALSE` everywhere, because the modelled work is finite and the system
legitimately comes to rest.

| Run | Instance | Shows |
|---|---|---|
| `gate` | 2 calls of one bot, the first older than the jobs table, 1 worker, 1 operator, 1 crash | `OneOrderInFlight`, `SettledRowsTellTheTruth`, `QuotaNeverOvercounts`, `ExhaustedStillBlocks`, and `OrdersAreSerial`: the protocol implements `SerialOrders` |
| `leases` | 1 call, 2 workers, 2 operators, budget 2, 1 crash | the inductive invariant, `BudgetRespected`, `WorkerOnlyRecovers`, `JobsMoveForward` while leases run out at any moment |
| `live` | 2 calls, 1 worker, batches of 2, 1 crash, `FairSpec` | `JobsEnd`, `LostOrdersAreRecorded` |
| `late_miss` | 1 call, 1 worker, 1 operator | violation, finding 1 |
| `paper_processes` | 2 processes, 1 bot, 2 reset requests, 2 evaluations each, `FairSpec` | the inductive invariant with the types, `FillsAlternate`, `NothingStaysLocked`; `EvaluationsEnd` and `ResetsEnd` although a sell and a reset can deadlock |
| `paper_ledger` | 1 process, 2 bots, 5 evaluations, 1 pause | `AccountShowsEveryFill`, `DraftFollowsFills`, and `LedgerSpec`: the evaluations implement `PaperLedger` |
| `paper_fractions` | 2 processes, 1 bot, 4 evaluations each, amounts in quarters of a stored unit | `RoundingStaysSmall` |
| `paper_paused` | 1 process, 1 bot, 1 pause | violation, finding 2 |
| `paper_reset_race` | 1 process, 1 reset | violation, finding 3 |
| `paper_lost_cash` | 2 processes, 2 bots | violation, finding 4 |
| `bots` | 2 processes, 3 runs, 2 requests, 1 failure, cooldown 1, `FairSpec` | the inductive invariant with types and `StampsFit`, `OneActiveRun`, `EventsAgree`, `RunsEndOnce`, `EndingLeavesNothing`, `CooldownKept`; `ActiveBotsRun` |
| `services` | the ten parts of `MCServices` | see the next table |

| Part of `services` | Instance | Shows |
|---|---|---|
| `alerts` | 2 processes, 2 rules, 2 events, 1 change of a rule | `AlertsKeepCooldown`, `HistoryIsTraceable`, `StampsAreEvents` |
| `status` | 2 processes of one name, 3 launches, 1 kill | `EndsAreReported`, `DeadWorkersShow` |
| `market` | 2 symbols, 1 fetch, 2 quotes, 2 manual prices, 2 messages under way | `ManualPriceHolds` |
| `rules` | 5 versions of rules, time to live 2, prices unknown, low and high, quantities on, above, below and between the bounds | `RulesAreRecent`, `PassedOrdersFit` |
| `candles` | 2 processes, every candle of two prices | `CandlesAreWhole` |
| `replay` | all five strategies with windows of 1 to 3 candles, invalid parameters, limits, stop loss, fee; 4 prices, 6 candles | `ResultsAddUp`, `BotsDecideAsBacktests`, `PositionFollowsCrossing`, `StopLossCaps`, `CsvAgreesWithBacktest`, `FeesAddUp`, `EnrichmentRecovers` |
| `comparison` | 2 runs out of about ninety summaries; reports of three of them in five kinds of directory, 2 changes of the file | `AcceptedRunsAreSound`, `RecommendedIsUndominated`, `SweepAgreesWithItself`, `StrengthsDoNotContradictRisks`; `RootedReportsPass`, `RebuiltAdviceAgrees`, `MissingRunsShow` |
| `trail` | 6 deployments' settings, 3 evaluations, 2 outside events | `AuditsTrustTheTrail`, `OrdersAreAccountedFor`, `QuotaCountsFills`, `StatusForeseesFills` |
| `accounting` | 2 bots and manual orders, 3 orders, 1 reset | `BooksBalance`, `SummariesRecoverTheStart` |
| `strategies` | 2 editors, 2 patches; 5 strategies, 10 kinds of optimisation | `StoredStrategiesRun`, `AcceptedSetsRun`, `BestRunIsOnTop` |

`services` checks each part's invariants, its type invariant among them, as one conjunction defined at the end of
its module, and the table names the conjuncts that say something: `AlertsHold`, `StatusHolds`, `PricesHold`, `RulesHold`,
`ReplayHolds` and `CsvReplayHolds` (`replay`), `ComparisonsHold` and `ReportsHold` (`comparison`), `TrailHolds`,
`AccountHolds`, `StrategiesHold`. `CandlesAreWhole` and the action property `StatusForeseesFills` stand alone.
`leases`, `paper_processes` and `bots` have their types in `IInv`, which TLAPS proves inductive.

Every property of a passing run has a mutant in `PROJECT.json`: a plausible bug in
one mapped definition under which the same run reports that property violated.

### Bounds, and why they are enough

- *Calls, bots.* Every conflict over the gate is between two calls of one bot;
  bots do not share attempts or jobs. The proofs cover any number of both.
- *Workers, operators.* A claim is contested by two; one of each suffices to meet a call.
  `leases` uses symmetry between workers and between operators (safety only).
- *Delays of one tick.* With a lease of one tick, `Tick` may come between any two steps, so every
  early and late expiry is reached; longer delays add states, not orders of events.
- *Budget 1 or 2.* Two has a first, an intermediate and a last check.
- *`MaxCrashes` 1.* A crash anywhere; a second process's crash repeats the argument.
- *Amounts.* Buys cost 3 or 5 and sells bring 2 or 4, so a lot may take all of the default balance
  of 5, may lose or gain, and after a loss the high price is out of reach. With `InitialCash` 8, or
  4, the shared account runs out before the bot does. For rounding, 4 units make a stored
  one: 9, 7 and 15 round either way, 18 is half-way.
- *`MaxEvaluations`, `MaxPauses`* bound how often work starts, and with it how many fills there
  are: buy, sell and buy again by different processes.

- *Bots.* Two processes meet in every race of `BotLifecycle`; three runs are one that ended, one in
  progress and one too many; two requests and the runner's own operations give every pair.
- *Services.* Two processes race over a row; a third only repeats it. Six candles are enough for the longest
  indicator (three), a crossing and back, and a second trade. Two runs are a winner and a runner-up. Values lie
  on both sides of every threshold of the code, and on it. Three orders are buy, buy and sell, or a bot,
  a manual order and a mirrored sell. Two changes of a report are an edit and its laundering. Symmetry permutes
  the processes of one part, the bots of `accounting` and the editors of `strategies`, which no definition names.

### Fairness

`TestnetSubmission!FairSpec`: time passes; the worker loop, which `run_loop` drives for ever,
takes its steps; and a call or a manual request that has begun, and has not crashed, goes on. Nothing
requires the exchange to decide, a caller to call, an operator to act, or anything to crash.
Worker fairness is per worker, and one worker suffices for `JobsEnd`. With two workers and leases
shorter than the work, each can keep taking over the other's expired claim without either recording a check,
so `JobsEnd` is claimed for one worker only, the deployment
`docs/reconciliation-worker-compose-runbook.md` describes.

`PaperExecution!FairSpec`: an evaluation and a reset that can go on again and again do so (strong
fairness: PostgreSQL grants a row lock in turn, so a waiter is not passed over for ever), and
the database ends one of two transactions that wait for each other. Starting an
evaluation, pausing, and failing are not fair.

`BotLifecycle!FairSpec`: an operation that has begun goes on, a process that went down is started
again, and the runner's loop, which comes round for ever, evaluates a bot whenever it is at rest often
enough (strong fairness, since a client may keep it busy). Clients ask for nothing, and failures
need not happen.

`MCServices` states no fairness: its properties are invariants and one action property. That a killed
worker *eventually* shows is there as the invariant `DeadWorkersShow` over countdowns.

## 4. Theorems

TLAPS proves these for every value of the constants, from the assumptions the modules name: settings are
positive as `core/config.py` declares them (`CallAssumption`, `SettingsAssumption`, `BoundAssumption`, `StatusBounds`,
`AlertBounds`), amounts are whole numbers of units (`AmountAssumption`, `AccountAssumption`, `TrailAssumption`,
`MarketAssumption`, `CandleAssumption`), cached rules have a time to live and one version in force (`RulesAssumption`), and
a request or a stored strategy is one that the schema's types let through (`StrategyAssumption`). Summaries have whole
numbers as metrics, and what a backtester counts or never writes below zero is not negative (`ComparisonAssumption`); the
names of run directories have an order, and `..` is the only one that names a parent (`ReportAssumption`). Candles close
at positive prices, and a backtest's balance, fee, limits and profile are not negative, while its parameters may be any
numbers (`ReplayAssumption`, `ScaleAssumption`). What a theorem needs beyond
them it states as its own hypothesis.

| Theorem | Statement |
|---|---|
| `TestnetSubmissionProofs!Invariance` | `Spec => []IInv` |
| `TypeCorrect`, `SerialSubmission`, `TruthfulRows`, `ExhaustionBlocks`, `ExactBudget` | the invariants `TypeOK`, `OneOrderInFlight`, `SettledRowsTellTheTruth`, `ExhaustedStillBlocks`, `BudgetRespected` |
| `QuotaNeverOvercountsAlways` | the day's count never exceeds the orders placed, for any finite set of calls |
| `WorkersOnlyRecover`, `JobsOnlyForward` | the action properties |
| `TestnetSubmissionRefinement!Refinement` | `Spec => OrdersAreSerial` |
| `PaperExecutionProofs!Invariant` | `Spec => []IInv`, rounding included |
| `TypeCorrect`, `FillsAlternateAlways` | types (no amount below zero) and alternating fills, for any `Unit` |
| `RoundingStaysSmallAlways` | one and a half stored units a fill, for any `Unit` and any number of fills, when nobody resets |
| `NothingStaysLockedAlways` | when amounts are stored exactly (`Unit = 1`) |
| `DraftFollowsFillsAlways`, `ImplementsLedger` | when amounts are stored exactly and nobody resets |
| `AccountShowsEveryFillAlways` | for one process and exact amounts, with resets and failures |
| `BotLifecycleProofs!Invariance` | `Spec => []IInv`, for any number of processes, runs, requests and failures |
| `TypeCorrect`, `OneActiveRunAlways`, `StampsFitAlways`, `EventsAgreeAlways` | the invariants of `BotLifecycle` |
| `RunsEndOnceAlways`, `EndingLeavesNothingAlways`, `CooldownKeptAlways` | its action properties |
| `ServiceProofs!StatusHoldsAlways`, `AlertsHoldAlways` | `EndsAreReported` and `DeadWorkersShow` for any number of workers; the alerts' cooldown, history and stamps |
| `ServiceProofs!PricesHoldAlways`, `RulesHoldAlways`, `CandlesAreWholeAlways` | manual prices stand; an order is judged by rules in force when it asked for them or, from the cache, replaced less than a time to live ago, and fits them; candles are whole |
| `PaperBooksProofs!AccountHoldsAlways` | `BooksBalance` and `SummariesRecoverTheStart`, for any prices, quantities and number of orders |
| `PaperBooksProofs!TrailHoldsAlways`, `StatusForeseesFillsAlways` | audit, attempts, quota; the safety status foresees what is refused |
| `StrategyProofs!StrategiesHoldAlways` | `StoredStrategiesRun`, `AcceptedSetsRun`, `BestRunIsOnTop`, for any tables of parameters and any requests |
| `StrategyProofs!ComparisonsHoldAlways` | `AcceptedRunsAreSound`, `RecommendedIsUndominated`, `SweepAgreesWithItself`, `StrengthsDoNotContradictRisks`, for any summaries and number of runs |
| `StrategyProofs!ReportsHoldAlways` | `RootedReportsPass`, `RebuiltAdviceAgrees`, `MissingRunsShow`, for any directories and number of changes |
| `ReplayProofs!BacktestHolds` | `ResultsAddUp`, `BotsDecideAsBacktests`, `PositionFollowsCrossing`, `StopLossCaps`, for any strategy, parameters, limits, prices and number of candles |
| `ReplayProofs!CsvBacktestHolds` | `CsvAgreesWithBacktest`, `FeesAddUp`, `EnrichmentRecovers`, for any fee too |

**The invariant of TestnetSubmission.** `OneOrderInFlight` alone is not inductive: a call in
`cleared` is about to reserve, so the invariant has to say that when the gate was found open *under
the lock* no other order of the bot is in flight (`GateShape`). That holds because an order in
flight has an unresolved row (`CallShape`), and a row stays unresolved until something true is
known (`SettledRowsTellTheTruth`). The gate and the reconciliation read different columns, and
`RowShape` says they agree. For the workers, a ticket whose claim still stands
carries the job's next number, and a worker inside `Commit` has the row to itself
(`WorkerShape`); that gives the exact budget although a lost lease does not stop the `UPDATE`.
There is one lemma per action (`PostIInv`, `CommitIInv`, ...), put together in `NextIInv`.

**The refinement** maps `wire` and the call's counter to the order, and the row to what the ledger
says; most actions move one call's image (`OneCallMaps`), the writers of rows only relearn or forget
(`RewriteMaps`), and the rest stutter.

**The invariant of PaperExecution.** Alternating fills need that a bot's row is held once
(`OneHolderPerBot`) and that what an evaluation decided still fits the position (`DecisionsFit`).
That no amount goes below zero needs that what was reserved is still there when the fill commits,
also with a reset at work (`ReservationsHold`). The arithmetic is kept in `StoredIsNat`,
`StoredIsExact`, `BuySettles` and `SellSettles`.

**The invariant of BotLifecycle.** `OneActiveRun` needs that a process about to insert a run has seen that
there is none, and that nobody else is at work (`AloneAtWork`); `StampsFit` survives races because
stamps are only ever set, so what a session read of them still stands (`ReadsStand`). Who ends a bot cancels
(`EndingCancels`), runs go with their bot (`NoOrphans`), and the events know of a sell, or its
process is about to tell them (`CooldownKnown`). One lemma per action.

**Sums and rounding of PaperExecution.** `RoundingStaysSmall` is proved fill by fill: a buy writes a column of the draft three times,
and each write rounds by at most half a stored unit; without resets every evaluation in
progress finds the draft as it left it. `AccountShowsEveryFill` sums over bots: of one process, what its session read of the
account is what is stored (`SessionIsCurrent`), and a step changes one bot's term of the sum. With two processes it is false
(finding 4), so the hypothesis is part of the theorem. `QuotaNeverOvercounts` bounds the count by a set of calls that can
only gain a member when the count rises.

**The services.** `StatusInv`: while nobody was killed, a row that says "running" has a worker that is still going to
report its end (`RunningIsTended`), and nobody has been quiet for longer than the row is old (`QuietIsOld`). `AlertInv`: whoever is about
to fire has asked for the cooldown of its own last event, and a stamp under way is the time of an event already
stored (`FiresAfterCooldown`, `StampsWithEvent`). `MarketInv` and `RulesInv` say what a fetch under way can bring; that an order is judged
by recent rules needs that what the cache holds was not replaced before it was asked for (`CacheIsRecent`), and that an answer under
way was not replaced longer ago than the order has waited for it (`AnswerIsRecent`).

**The books.** `AccountInv`: an average is rounded by at most half a unit per unit held, so equity misses start and profits
by at most the rounding `BooksBalance` allows; an order of a bot still fits its books when it is written (`OrdersFit`). `TrailInv` carries the
rows over three commits: an order under way is one the checks let through (`OrderedIsFit`), a fill has its order and account
(`FillsAreBacked`), attempts are those of orders, the crash between the commits excepted (`AttemptsAgree`), the run's events tell
what was filled (`EventsTell`), and the quota counts the fills of the day exactly (`QuotaIsExact`). `StatusForeseesFills` follows
because the checks read everything the status reads, in an order in which nothing of it can get worse unseen.

**Strategies.** The validators of the schema are compared with the engine's `resolve` strategy by strategy: `StoredIsValid`,
`PatchesWereJudged`, and for optimisations `AnswerIsCurrent`. The engine's answer lists its runs in an order given by ranks;
`OrderCanBeListed` proves that a finite strict order has such a list, without which `BestRunIsOnTop` would speak of an arbitrary `CHOOSE`.

**Comparisons.** A ranking is an order chosen by sort keys, so the proof begins with the fact that there is one: keys end in the
run's own place and are strictly ordered (`KeysAreStrict`), and a finite strict order can be listed (`RankedRanks`). That the
gate's verdict is the best run's alone is `FailuresAre`. `RecommendedIsUndominated` needs that the score grows with each metric
it is made of (`GoodScore`); the attempt to prove it as it was first stated showed more zeros that read as missing than the one
drawdown TLC's summaries had, and the property now names them (`ReadsAsMissing`) and compares signed drawdowns by size, as the
key does. The sweep's own order and the ranking differ, but their best runs tie in score, return and drawdown (`SweepBestTies`),
which is how `SweepAgreesWithItself` is now put. `StrengthsDoNotContradictRisks` excepts a return of zero for the same reason.

**Reports.** `ReportInv`: the rankings keep every name that was exported, a report that ever had a root shows no absolute path, and one
not changed since is whole: counts, rows and references agree. An edit may break the last part but not the first,
which is why a missing run shows however the file was laundered. That scores found again in the rankings give the same advice when
the names differ is `HydratedIsScored`.

**Backtests.** What a replay adds up is defined by recursion over the candles, and the library's induction theorems cannot be
instantiated here. The proofs do without: a set of naturals that is not empty has a least member (`HasLeast`, from `WFMin`), so a set
that has 0 and is closed under successor has every number up to a bound (`Induction`, about a set and not an operator), and from
it that a function defined by recursion exists (`RecursionExists`). With that `SumsRecursion`, `EmasRecursion` and
`FallenRecursion` give each definition its equations, and lemmas like `TotalAppend` and `TotalBounds` what one more value does.

`ReplayInv`: the ledger counts its trades and sums its gains (`Counted`); cash and the position at cost are the balance and what
was realized (`Funded`), from which the report adds up. `StopLossCaps` is not inductive without the second part of `Funded`, that
no position is larger than the limits let it be sold. `PositionFollowsCrossing` rests on what "before" means: a position is sold
when the lines did not lie below the crossing before the candle and do now, and "before", as the next decision computes it from one
more candle, must be what "now" was for the last. So the indicators must not change when a candle is appended
(`FrontOfLastOf` for windows, `EmaExtends` and `MacdGoesOn` for averages that start at the first candle), and
the invariant keeps that there are candles enough for them (`Crossed`). `BotsDecideAsBacktests` rests on `LastOfLastOf`: a window of the last candles is the window of all (`SameAverages`).

`CsvInv` adds the second backtester's books, cash and cost against balance and gains (`Booked`), its curve
(`Charted`) and, where the property asks for it, that its amounts are a hundred times the ledger's (`Agrees`). Agreement needs the
cost of the position and not only what is compared, since the next sale is computed from it. The drawdown a comparison recovers is
bounded step by step: its peak and depth stay within the first candle's fee of those of the run (`NextPointIsCharted`). The counts of
rows are cardinalities, which grow as rows are appended (`RowsAppend`).

**Model-checked only.** Liveness (`JobsEnd`, `LostOrdersAreRecorded`, `EvaluationsEnd`, `ResetsEnd`, `ActiveBotsRun`) and what
depends on fairness are out of the prover's reach. Every safety property of a passing run is stated by a theorem.

## 5. Findings

1. `late_miss`: a manual "not found" is written over a success the broker recorded meanwhile
   (`execution_reconciliation.py:140` asks only whether the row was *recovered*). The gate closes
   again over an attempt known to be successful, and its job is already resolved.
2. `paper_paused`: the locked re-read of a bot answers with the status of the first read, so a
   bot paused in between trades once more.
3. `paper_reset_race`: a reset that sees the quote row at its default, just before a fill commits,
   does not write it and succeeds without having reset it.
4. `paper_lost_cash`: two processes read the account, lock it one after the other, and the
   second writes over the first one's fill, although the lock is there to prevent it.

`PROJECT.json` quotes the documents and tests these disagree with. No run of the services has a finding: their
properties say where the code's promise ends, and the list below is what lies beyond.

Seen on the way, without a run of their own:

*Testnet.* A worker whose lease runs out between its `SELECT` of the claim and its `UPDATE` by primary key
overwrites the new holder's job; the count stays exact (`ExactBudget`) and the row is safe (`WorkersOnlyRecover`).
Testnet bots decide on the shared paper position (`bot_runner.py:1177`), which testnet fills never update.

*Paper.* `paper_fractions` reaches `RefuseSettlement`: a reservation stored as less than the settlement takes, and
a buy whose money was reserved is refused after its fill was created (`draft_balance.py:137`). Refusals for
lack of cash record a rejected *order* (`simulated_execution.py:597`), while README.md:680 says rejected paper
execution must not create orders; and the audit calls each of them `rejected_attempt_has_order`. A manual order
refused by the accounting leaves a rejected order without attempt. A rollback in the settlement drops the signal
event. After a draft reset while a lot is held, sells and stop losses are refused at the gate. A manual sell of the shared
position makes a bot's sells unmirrored. Sells count toward the daily order count. `max_order_notional` holds back
sells too, although the guard's metadata says `risk_reducing_exits_allowed`. `risk_limit_blocked` reads as
"no_action" in manual runs. A draft reset makes the equity summary's starting cash wrong. The audit accepts any older event of
the same side and symbol as the fill's.

*Strategies and risk.* The MACD depends on how far back the candles go, and a bot passes only `slow + signal` of them.
A bot evaluates a candle again while it lasts, and may skip one; without a source, `list_recent` mixes sources. A
`max_trade_quantity` lowered after a purchase blocks the stop loss (`risk.py:75`). A PATCH with `parameters: null` stores
a JSON null, with which reading the strategy would fail validation (read from the code, not run). The schema accepts one
window of a pair that the engine refuses against the default of the other. Two crossing PATCHes can leave a combination
the engine refuses.

*Comparisons.* A drawdown or return of exactly zero sorts as missing (`backtest_run_comparison.py:1025`); in a sweep a missing
drawdown sorts as the best. A run with 5 to 9 round trips has both "sufficient_trade_count" and "too_few_trades". The
acceptance gate reads trades where round trips are missing. The recovered drawdown starts its peak at the first point of
the curve, after the first fee. The manifest of a report says its validation "passed" before there was one
(`backtest_comparison_report.py:180`). Without a root the exporter writes paths its validator refuses, and runs given as
`.` or `..` too. A report without recommendation but with scores cannot be exported again (`run_dir` is missing from its
runs, a `KeyError`). The validator does not hold the recommendation against the rankings.

## 6. Abstract specifications

`SerialOrders` is what the exchange side of the broker promises and `PaperLedger` what paper trading
promises a bot. `BacktestReplay` serves as the reference for `CsvReplay` (they step together and must agree), the
schema's validation in `StrategyStore` is held against the engine of `StrategySignals`, and the safety status
in `PaperTrail` against what the order path does.

## 7. Plan

Written, in the order of importance: the two order paths with their proofs, the bots' lifecycle with its proof, the
services, and their proofs. What is left:

1. The composition of `BotLifecycle` with `PaperExecution`: the run that an evaluation belongs to, while its bot is stopped.
2. Dataset preparation and the validation of sweeps, pure functions over files.

## 8. Hazards

`PROJECT.json` lists them with the line where each bites and the property that would catch it, or why none does.
Listed without a property are two workers that keep taking over each other's leases. Three more were left off the
list because no property would say more than the code: `create_pending`'s rollback of its caller's session, a worker loop
whose error handler fails, and trading at a price whose stream has gone, which the code does not try to prevent. Several properties are conditional on no overlap (`overlap`, `mingled`, `overtaken`, `crossed`): there
the note says what happens otherwise.

## 9. Not modelled, and why

Formatting, logging, response schemas, request signing and the redaction of secrets have no state
that a property here is about. The artifact catalogue, demo bundle, Markdown reports, dataset preparation and the
validation of sweep directories are files written by one process at a time; the field-by-field type
checks of the report validator are left out, its checks of one part against another are not. Bot performance and the operator
overview add up rows for display. Notification rules are stored and read by nothing. The dashboard displays what the API
returns. Migrations run offline; what they leave behind is in `Init` of `TestnetSubmission`. The supervisor that restarts
a worker is outside the repository: a crashed worker may simply come back. Of the pairwise comparison of runs only what the
recommendation needs is modelled. Decimal arithmetic is exact up to the stored digits: what 28-digit contexts drop before
that is not. Within reconciliation, read-only listings are not modelled.
