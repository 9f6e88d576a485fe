# Agents.stocks: a TLA+ verification project

TLA+ models of the parts of Agents.stocks that run concurrently, fail and
recover; TLC configurations that check them on small instances; and TLAPS proofs
of their core invariants for every value of the constants. Everything here is
translated from the Python sources under `src/app` and `src/skills`. `PROJECT.json` names, for
every definition, the lines it stands for.

- [The system](#the-system)
- [Modules and how they correspond to the code](#modules-and-how-they-correspond-to-the-code)
- [Runs](#runs)
- [Fairness](#fairness)
- [Proofs](#proofs)
- [Where the code and its documents disagree](#where-the-code-and-its-documents-disagree)
- [What is not modelled](#what-is-not-modelled)
- [Plan](#plan)

To check a module: `tlc -config Ledger.cfg MCStrategyJobs`. To check the proofs:
`tlapm StrategyJobs_proofs.tla`.

## The system

Agents.stocks screens stocks for momentum, alerts on them, records trades and
back-tests strategies. A web process (FastAPI) serves the pages and dispatches
strategy jobs to child processes; a scheduler, in a process of its own or as a
child the web process spawns on request, runs the analysis pipeline. They share
SQLite databases and JSON files, nothing else.

| component | state | operations | talks to | hard because | correct when |
|---|---|---|---|---|---|
| **Strategy job ledger** (`repositories/backtest_repo.py`, `services/backtest/strategy_job.py`) | tables `strategy_jobs`, `strategy_worker_lease`, restart actions, outbox, staging, results, active profile | submit, claim, progress, stage, complete, fail, cancel, restart, delete, seal, reconcile, acknowledge | written by every web process and every child | compare-and-set with versions, claim tokens and a lease fence by callers that may all be stale; CHECKs and triggers | one job runs; FIFO; a cancellation is never answered by success; results only of complete jobs; every change reaches the outbox |
| **Dispatcher** (`strategy_job_service.py`, `api/app.py`) | the lease it believes it holds, the child it owns | heartbeat, reconcile, dispatch, poll, fallback, stop, shutdown | ledger; spawns and kills children | several processes, crash, stalls past the TTL, locked database in mid-iteration, an orphan that outlives its parent | no claim is forgotten; inherited claims are reconciled; a healthy claim is spared; every job ends |
| **Worker children** (`worker.py`, `historical_initialization_engine.py`, `strategy_bootstrap_service.py`) | program point, the version it last read | boot, boundary read, set month or stage, work, final write, recover | ledger only | every write may lose to a cancellation, a takeover or a reconciliation, and each of the five engines reacts differently | a lost write is taken for what it is; nothing an evicted child writes counts |
| **Pipeline run status** (`pipeline_status_repo.py`) | status file, history file, interprocess lock | load (recovers a stale run), find, start, transition, counts, finish | web process, pipeline child, scheduler, every page | two files written one after the other; readers that write; two staleness thresholds | only its owner changes a live record; no run stays running for ever |
| **Pipeline service** (`pipeline_service.py`, `routes/pipeline.py`) | the run it waits for | run once, spawn, time out, judge, settle, status | status files, the child's return code | the child is killed at any point; web process dies while it waits | what is recorded as complete was published |
| **Orchestrator** (`orchestrator.py`, `workflows/pipeline.py`) | run id, outcome, capture, temporary artifacts | recover, start, scan/analyse/alert, publish, finish, promote | status files, artifact files, authority row, envelope, mail | publication, record, envelope and row are four separate writes | a month is committed only for a run that published |
| **BAU run authority and envelopes** (`bau_run_envelope.py`, `bau_capture_coordinator.py`, `bau_snapshot_promotion.py`, `bau_run_authority` table) | one row for each profile and month, one file for each run | claim, prepare, complete, fail, recover, promote | orchestrator, ledger database | check then replace; recovery by a second process | legal transitions; a valid observed month is not lost |
| **Snapshot months** (`historical_initialization_engine.py`, `historical_scan_reconstruction.py`, `snapshot_profile.py`, `bau_snapshot_promotion.py`, tables of `backtest_repo.py`) | months with their members, evidence revisions, activation history, claim | boot, gather evidence, adopt or compute, self-check, commit, promote, activate, deploy | engines, promotion, price provider | a month has two provenances; a child adopts results that older code or older evidence produced, and checks two of them | every stored month is what a rebuild would compute |
| Routes and submission (`routes/strategy_manager.py`, `backtest_launch_service.py`, `strategy_readiness_service.py`) | idempotency keys | submit, cancel, restart, delete | ledger | repeated and stale form posts | one job per key |
| **Notification projection** (`notification_projector.py`, `notifications_repo.py`) | notification rows, tombstones | list, look up, write, acknowledge | outbox | two databases; a read and a write with no transaction around them; several applications | nothing is acknowledged unseen; every change is announced |
| **Recommendation e-mail dispatch** (`portfolio_recommendation_email_service.py`, `portfolio_dispatch_repo.py`) | receipts | claim, evaluate, send, mark | mail server, notification centre | send, then die before the receipt; every statement may raise; two runs read one artifact | at most one mail per run and portfolio; none passed over in silence |
| **Alerts and position state** (`alert_agent.py`, `alerts_repo.py`, `core/alerting.py`, `position_state_repo.py`) | alerts, high-water marks | record, resolve, clear, raise a peak, mail | mail server, pages | the cooldown is computed from rows that are cleared; a peak is shared by portfolios and runs | one open setup per ticker; a fall is mailed once |
| **Trades, imports, realised P&L** (`trader_agent.py`, `realised_pnl_service.py`, `trades_repo.py`) | trades, cash, receipts, revision, summary cache | record, correct, delete, import, replay, summarise | pages, rate provider | statements out of order; a cache validated by revisions that move while a summary is computed; two replays of the same rows | newest balance wins; a cached summary is that of the trades |
| **Portfolio snapshots and backfill** (`snapshot_backfill.py`, `snapshot_repair.py`, `backfill_status.py`) | daily rows, marker, tracker | backfill, append, repair | pages, nightly pipeline, imports | the tracker is per process, the marker outlives the trades, rows have four writers | a day is filled in once; every held day in the end |
| **Backtest simulation** (`backtest_engine.py`, `corporate_actions.py`, `currency.py`) | cash, positions, orders of one simulation | actions, fills, valuation, signals, session by session | none | exchanges with different sessions; splits between an order and its fill; two roundings; cash promised to several cohorts | an accepted order still fits; promised cash is there; shares follow splits |
| **Strategies and what they are shown** (`skills/rtly-backtest-*`, `market_planes.py`, `market_view.py`, `scan_view.py`, `strategy_evidence.py`, `portfolio_recommendation_service.py`) | the prices of one capture, committed months, the published scan | build a view, preflight its evidence, signal entries and exits, map them to Buy, Sell and Hold | engine, mails, pages | prices come adjusted for splits yet to happen; scans lack records; the same rule runs on both views | a day shows what it showed then; nothing is traded for want of evidence; live advice is the rule's |
| Manifests, discovery, metrics, comparisons | digests | build, parse, verify | files | none that is concurrent | canonical form |
| Scanner, analyst, extraction agents; integrations; pages | caches | fetch, compute, render | external services | the network | |

The rows in bold are modelled. The others are listed with their status in
`PROJECT.json` and in the [plan](#plan).

## Modules and how they correspond to the code

```
SerialJobQueue                what the ledger promises (abstract)
      ^ implements
StrategyJobs  <-extends-  StrategyWorker  <-extends-  StrategyDispatch
   |      ^                                                 |
   |      +-- NotificationProjection            MCStrategyDispatch, StrategyDispatch_proofs
   |               +-- NotificationProjection_proofs
MCStrategyJobs, StrategyJobs_proofs

PipelineStatus  <-extends-  PipelineRun  -  MCPipelineRun, PipelineRun_proofs

PortfolioDispatch ---+------ DailyMail_proofs
AlertBook -----------+------------------------+-- MCDaily
StrategyRules <- StrategyAdvice --------------+
                      +-- StrategyAdvice_proofs
TradeReplay <- TradeLedger <- RealisedPnl ----+
                    ^              +---------- TradeLedger_proofs
                    +---- SnapshotHistory ----+
BacktestEngine ------+-- Backtest_proofs -----+-- MCHistory
SnapshotMonths ------+------------------------+
```

### StrategyJobs: the ledger

One operator for each method of `BacktestRepository` that writes the job tables.
Every such method is one `BEGIN IMMEDIATE` transaction, so each is one atomic
step; a method that raises `StrategyJobConflict` rolls back, and its operator is
then disabled. `Owned` is the compare-and-set predicate of every worker write
(status, claim token, version, no cancellation, lease fence), `FenceHolds` is
`_LEASE_FENCE_SQL`, `Write` is one `UPDATE` with its version bump and outbox
upsert. The callers of `Next` present *any* token, any version up to the current
one and any fence, so every stale caller the code could have is covered.

Abstractions: a job is its `enqueue_seq` and a claim token the number of claims so
far (both are fresh uuid4 in the code); a month or a stage is its position in its
sequence; the contents of results, selections and profiles are left out except
for the `activation_seq` a preparation pins.

### SerialJobQueue: what the ledger promises

A single server that serves jobs in order of arrival; a wish to cancel, once
acknowledged, is never answered by success; no end is revised. `StrategyJobs`
implements it under the mapping `Phase` (property `ServesSerially`).

### StrategyWorker: the children

`worker.main()` and its five engines, as one program-point machine with the
places where they differ factored out: `OnLostSet`, `OnLostCommit` and `OnLostFail`
say where each engine goes when a compare-and-set loses. Two reads in a row with
no write of its own between them are one read.

### StrategyDispatch: the processes

`svc[i]` is the `StrategyJobService` of process `i` with its dispatcher thread:
`Heartbeat`, `ReconcileHeld`, `PollChild`, `ClaimJob`, `Spawn`, `Fallback`,
`FailOwnedClaim`, `StopOwnedChild`, `Shutdown`, and `Crash`. `_owned` is cleared before
its fallback is written, as in the code. An instance id is fresh at every start,
so a process never comes back; its children outlive it. A lease expires only if its
holder is dead or, at most for the first `LateHeartbeats` generations, stalled: a
live holder renews every 0.25 s against a time-to-live of 30 s. With `LockErrors` a
reconciliation or a fallback may meet a locked database, which the loop survives;
`skipped` and `forgot` are history variables that remember what it broke off.

### PipelineStatus: the status file

One operator for each method of `PipelineStatusRepository`; each holds the
interprocess lock throughout, so each is one step, except that a process killed
inside `finish` may have replaced the status file and not the history
(`FinishUnarchived`). Time is kept as how long the running record has been quiet:
0, above 1860 s (the default threshold, with which the scanner page builds its
repository), above 3660 s (the threshold of the service and the orchestrator).

### PipelineRun: a run from launch to end

`service` is `PipelineService.run_once` under `_run_lock`; `proc[r]` is the process
that executes `pipeline()` for run `r`, be it the child the service waits for or the
scheduler. The order is that of `pipeline()`: recovery of an unfinished month
(`BeginRecovery`, `FindRun`, then the envelope and the row), `Start`, the work, `Export`,
`StageEnvelope` and `BindRow` if the run captured the month, `Publish`, `FinishRun`,
the completion of envelope and row or `ReleaseRow`, `Promote`. `LoadEnvelope`,
`CheckEnvelope` and `ReplaceEnvelope` are the two loads and the `os.replace` inside
`BauRunEnvelopeStore.complete` and `fail`. `Raise` and `CleanUp` are the `except` block.
`Kill`, `Timeout` and `WebDies` may come at every point.

Abstractions: a run is a number; one snapshot month, so one authority row (the row
is unique on profile and month); an envelope's digest is whose `completed_at` it
carries (`stamp`); stages, counts, source health and the analysis itself are left
out; the history's limit of 100 runs is above `MaxRuns`.

### NotificationProjection: from the outbox to the bell

Composed with the whole ledger. `projector[i]` is `project_pending` of one application:
`List` (`pending_notification_outbox`), and per row `Look` and `Store`, which are the SELECT
and the INSERT or UPDATE of `upsert_job_notification`, and `AcknowledgeRow`. An application
may be killed after a write. A notification is the version of the job it shows.

### PortfolioDispatch: recommendation mails

`pass[r]` is run `r`'s pass of `dispatch_all`. Each statement on the receipts is a step and
may raise: into the block's handler (`HandleError`), or, for `mark_sent`, into nothing. So may
`_portfolio_name`, which reads the database for the title of every notification; in the handler
itself (`Complain`) nothing catches it, and the pass is broken off (`broken`). `Send`
separates what the server did from what the sender returned, so a mail may be out although
the sender says it is not. The artifact names the run, so two passes may share their slots;
users assign and take away strategies meanwhile.

### AlertBook: setups and peaks

`AlertAgent` of one run after the other: `ClearTerminal`, `CheckPosition` row by row,
`Judge` ticker by ticker (`was_recently_alerted` reads the rows that `clear_terminal` left),
`CheckPortfolioStops`, `CheckTrailingStop` position by position, the digest; a kill between
any two. What the scan says of a ticker, and every quote, is an input.

### TradeReplay, TradeLedger, RealisedPnl: what was traded

`TradeReplay` has the two replays as functions along the rows in replay order: first in,
first out (`RealisedPnlService._replay_fifo`) and running holdings. `TradeLedger` has one
action per writer of the trades table: a recorded trade, a correction (deletion and
insertion, two transactions on one event loop), a deletion, and the import of a statement
with its new rows, its balance, its receipt and its snapshot row in one transaction. What an
import does to the cash (`CashAfter`) depends on the file: a running balance replaces the one
stored unless it is older, a file that lacks the balance its contract maps leaves it alone, and
the rows of a contract without one are added to it, whatever the dates. Cash is not a number
but what it is made of: the balance stated last and how often each row was added since. A
database trigger bumps `revision` with each. `RealisedPnl` is `compute_summary` in several
threads: the cache, the reads it makes one after the other, the rate fetch, the re-check
of the revisions, three rounds at most, and the acknowledgement toggle that computes while
it holds the event loop.

### SnapshotHistory: the value of a portfolio, day by day

`run[b]` is `_backfill_one`: trades and window, marker, tracker, dates without a row, one
append after the other, marker, completion. Web tasks share one tracker; the nightly
pipeline, another process, has none. `UpdatePortfolioSnapshot` (live), the import and
`RepairRow` write rows too; the live writer looks at the clock before it inserts, so midnight may
overtake its row (`late`). An entry that another task sets back to valuing keeps the time it
finished (`again`), and may be evicted. `FailRun` is an exception anywhere, `WebRestart` ends the
tasks, the tracker and a half-made correction.

### BacktestEngine: a simulation

One step per phase of a session: corporate actions, fills one by one in `_fill_sort_key`
order, valuation, signals, publication. Amounts are whole numbers of the smallest unit;
`InBase` is `convert_to_base` with its half-even rounding, `Share` the cohort's equal share
rounded down. The strategy may signal anything. `entered` is a history variable that
remembers a position's purchase.

### SnapshotMonths: what a month says

Children of the initialization engine, their evidence requests and cache (`FindRequest`,
`Fetch`), the predecessor they may adopt from (`Previous`, `Gate`), the months they commit;
the promotion of an observed month; activation of a data version, deployment of new code,
the end of a month, a claim that is interrupted while its child lives on. A member's
result depends on what decides it: the policy of the code, the member, the rows of its
evidence.

### StrategyRules: six strategies

Pure operators from a view, a portfolio and parameters to a set of securities:
`EntrySignals`, `ExitSignals` (`OrdinaryExits`, which every strategy has, and `UpgradeExits`
of Minervini and Weinstein), `InitialSelection` of buy and hold, and the regime filter
`EntrySignalsPermitted`. Conditions of one strategy are one operator each (`BoxBreakout`,
`Crossover`, `ChannelBreach`, `BaseQualifies`, `Stage`, `TrendExit`, ...). Means and
percentages are compared by cross-multiplication. The fixed windows (50, 150, 200 sessions,
30 and 40 weeks) are a constant, so that short histories reach every rule. What VCP, trend
template and score say of a base is one value of the scan, as is its stage.

### StrategyAdvice: what they are shown

`TradingDay` trades, halts and splits; `CommitMonth` commits a month at any time after
its end. `Captured`, `AsTraded` and `SplitContinuous` are `HistoricalMarketPlanes`,
`LatestScan` is `latest_committed_scan_result`, and `ViewOn` is the `MarketView` of a
session. A recommendation has a plane of its own: `LiveRecords` are the rows a scan downloads
for itself, which `auto_adjust` puts into the units of the last session and takes the
dividends paid since out of, volumes untouched, rounded, and `artifact.found` is what its
detectors made of them, whatever a committed month says. `ScanView` is `build_scan_market_view`
of a published artifact whose records may be missing, stale or named twice, `Requirements` and
`Degraded` the preflight, `Sells` and `Buys` `_map_actions`. `shown` is a history variable: the
prices each day showed when it was today.

The two planes differ, so a recommendation and a back-test of the same day may too, and no
property says otherwise. `LiveFollowsRule` compares a recommendation with the rule on the whole
of what *its own* scan downloaded and found. That holds for whatever rows these are, hence
also when they come from a captured frame (`fetch_stock_data` prefers one), which are not
adjusted for dividends.

Taken as given: no prices are missing inside a row; rows have the dates of sessions. Prices are
whole numbers: a split that would leave a fraction of an earlier price is none of the
market's (`StaysWhole`, a guard of `TradingDay`), which only leaves out rounding of the captured
plane; that of the live one, to a smallest unit, is there.

### MCDaily, MCHistory

Components that share no table and no file need no interleaving. A `part` variable says
which one a behaviour moves; the others stay at their start. This is only how one TLC run
asks several questions: the modules' own specifications (`MailSpec`, `AlertSpec`, `AdviceSpec`,
`PnlSpec`, `HistorySpec`, `EngineSpec`, `MonthsSpec`) have no such variable, and the theorems are about
those.

## Runs

| run | configuration | what it asks |
|---|---|---|
| `ledger` | 2 instances, 2 jobs of all four types, every stale caller | `TypeOK`, `OneRunning`, `ChecksHold` (no CHECK constraint trips), `CancellationHonoured`, `OutcomesFollowCompletion`, `TriggersAllow` (no trigger aborts), `ServesSerially` (refinement) |
| `ledger_restarts` | 2 jobs, the second possibly a restart of the first, 2 projectors, one of which may be killed | `RestartLineage`, `NothingAckedUnseen`, `OutboxCurrent`, `EveryChangeAnnounced` (liveness) |
| `dispatch` | 2 processes, 1 mortal, 2 jobs, cancellations | `HealthyClaimSpared`, `EveryJobEnds` (liveness) |
| `takeover` | the same with late heartbeats, a database that may be locked, 3 generations | `NoLeakedClaim`, `StaleClaimsReconciled`, `EvictedWritesLost` |
| `pipeline` | 2 runs, kills everywhere, polling page | `PipelineTypeOK`, `LiveRecordKept`, `CompleteMeansPublished`, `RefreshSettled`, `AuthorityPublished`, `AuthorityLegal`, `RunEnds` (liveness) |
| `daily` | mails of 2 runs to 2 portfolios; 3 alert runs over 2 days; 2 threads that summarise while trades are written; 6 strategies in 2 settings over 4 sessions, for 2 portfolios and 5 published scans | `AtMostOneMail`, `EveryPortfolioAnswered`; `OneOpenSetup`, `FallMailedOnce`; `CacheCoherent`, `NoFalseMismatch`; `SignalsPointInTime`, `MissingEvidenceNeverTrades`, `LiveFollowsRule` |
| `history` | 2 web tasks and the nightly backfill over 3 days; 6 statements in any order, of a broker that states its balance and of one that does not; 3 securities over 4 sessions; data versions, deployments and orphans over 2 months | `CashFollowsNewest`, `DayWrittenOnce`, `ProgressHasARun`, `EveryHeldDayCharted` (liveness); `OrdersFit`, `ReservationsCovered`, `SharesFollowSplits`; `MonthsAsRebuilt` |
| `swallowed_conflict`, `stalled_reconcile`, `lost_reconcile`, `replaced_run`, `lost_month` | each a smallest instance | one documented claim each, refuted; see [below](#where-the-code-and-its-documents-disagree) |

Each property of a passing run has a mutant of a mapped definition (the operators
commented "Mutant of") that a plausible slip in the code would amount to, and that
breaks exactly this kind of property.

### Bounds and why they are enough

- *Two jobs* (`MaxJobs = 2`) are needed for order, for a claim beside a running job, for a
  sealed backtest next to its preparation, and for a restart beside its source.
- *Two instances* give an evicted and a current holder, *two generations* one
  takeover; `takeover` and `stalled_reconcile` use three, so that an evicted process
  can come back. Symmetry over instances is used in `ledger` alone, where all
  properties are safety properties.
- `MonthCount = 1`: the positions of a longer range differ only in being recorded
  again, and stage jobs always have three steps.
- `MaxVersion` cuts off progress writes only; no terminal write is bounded by it.
- *Two pipeline runs*: every hazard of the status file and of the authority row is
  between a run and one other (its recoverer, its replacement, its late twin). With
  two runs the other is at each of its steps while the first is at each of its own.
- `ledger_restarts`: rows of different jobs are independent for the projector, so one job
  is watched; two projectors and one death give every collision of two.
- `daily`, mails: two runs and two portfolios, so that a pass can meet a slot another has
  claimed, before and after its own. Users only take strategies away (giving one back
  between two steps adds a listed portfolio to a later run only), and at most one of this, a
  death and a broken pass happens (`FewLosses`); the theorems have no such bound. Alerts: one ticker in two
  portfolios, three runs, enough for a peak set by one, lowered by none and judged by a
  third. P&L: the writes are a sale, a deletion, a correction and an import; the cache
  holds one entry, so that every second one is an eviction.
- `daily`, strategies: one security that doubles and splits, falls or halts, and a benchmark
  that rises or rests, over four sessions with windows of one to four, so that every rule
  fires and every window is once one row short. One month ends on the second session and
  is committed on it or later. The stock and the benchmark pay a dividend each, so that the
  live prices are neither those traded nor those captured. The artifacts: complete, with the base
  whole or broken; one record named twice and an entry of the other; evidence a session old; no
  evidence and a record missing. Their scans are not those of any month. Every kind of
  signal occurs, on both sides. `MissingEvidenceNeverTrades` leaves out upgrades and the
  newest row of the benchmark (see [below](#where-the-code-and-its-documents-disagree)).
- `history`, statements: two dated files and an undated one of one broker, one that lacks its balance,
  and two of another broker, the second of which repeats the first; three imports in any order after
  any write, with deletions between them, so that a row can be imported again.
- `history`: the rows across days need a day that was filled, one that is today and one
  after; no trade is written on the last day, which stands for all later ones. Each of its
  first three parts makes the writes that matter to it. A midnight between reading the
  trades and reading the day, and inside a correction, is left out. The simulation has
  a split, a reverse split, a dividend, a halt, a missing rate, a closed exchange and a
  price so low that rounding bites. Adoption starts after the first version's own first
  month, with one child at a time; the orphans' part has two children but one member. Of
  three members only the middle one has more than one possible answer, so that the
  self-check of the first and the last never hides what the gate lets through.
- States: `history` 378,078; `daily` 1,089,295; `takeover` 1,469,797; `dispatch` 563,448;
  `ledger_restarts` 520,400; `pipeline` and `ledger` about 390,000.

`Pipeline`, `Takeover`, `Daily`, `History` and some of the refuting runs say `CHECK_DEADLOCK
FALSE`: a bounded number of runs, generations, trades or days really comes to an end.

## Fairness

`dispatch`: weak fairness of each service's steps (the dispatcher thread polls for
ever and catches the exceptions of an iteration), of each child's steps (an engine
runs until it ends), and of `Expires` (the clock). None on users, crashes, kernel
kills or shutdown. `EveryJobEnds` has one exception in its statement, the wedged
cancellation of the first disagreement below.

`pipeline`: weak fairness of each live process, of the service, of `Tick` (the
clock), and of `PollStatus`. The last says that some page is open and its status bar
polls, which the code leaves to the user: it is an assumption of `RunEnds`, and
`Polled = FALSE` drops the pages altogether. None on refreshes, schedules, kills or
restarts. A web process that dies is not assumed to come back.

`ledger_restarts`: weak fairness of each projector. An application projects at its start and
whenever a page polls its bell; that some page is open is an assumption of
`EveryChangeAnnounced`, as it is of `RunEnds`.

`history`: weak fairness of the clock together with the second half of a correction (the
event loop goes on), and of the nightly backfill. None of the web tasks, of imports or of
any user.

## Proofs

All proofs are checked by TLAPS with nothing left out. The constants are arbitrary
but for the named assumptions `LedgerAssumption` (`StrategyJobs`), `DispatchAssumption`,
`RunsAssumption`, `RunAssumption` (`PipelineStatus`, `PipelineRun`), `MailAssumption`,
`AlertAssumption`, `LedgerAssumption` of `TradeLedger` (which also says that a statement file is
known by its name, that quantities are positive, which the table's `CHECK(shares > 0)` enforces, and
that every row of a file has a key and a position of its own), `PnlAssumption`, `NightlyAssumption`, `EngineAssumption` and
`MonthsAssumption`, which say that bounds are natural numbers, names are distinct and
evidence has its shape; and `RulesAssumption` and `AdviceAssumption`: windows are positive and
the slow one longer than the fast one, prices and split factors are positive, as
`from_evidence` requires, and evidence is not from the future.

Two theorems state a hypothesis of their own. `NothingEverAckedUnseen` has `~Projecting`:
projectors alone acknowledge, since `Next` of the ledger has an acknowledgement of its own that
stands for them. `HealthyClaimAlwaysSpared` has `LateHeartbeats = 0`, that no live holder stalls past
its 30 s lease; the code allows it, and `stalled_reconcile` shows that the property is then false.

Where the code gives a promise up, the property says so instead. A fallback or a reconciliation
that meets a locked database forgets a claim or leaves an inherited one: `NoLeakedClaim` and
`StaleClaimsReconciled` name these two (`forgot`, `skipped`) and say that there are no others, and
`lost_reconcile` refutes the claim without the exception. A name that cannot be read in the
handler of a mail breaks the pass off: `EveryPortfolioAnswered` excepts the portfolios behind it
(`Dropped`) and is silent of the one at hand (`Stuck`).

**The ledger** (`StrategyJobs_proofs`).

| theorem | says | along |
|---|---|---|
| `TypeCorrect` | `Spec => []TypeOK` | inductive; `WriteType` and `InsertType` carry the update of one row, which nearly all handlers share |
| `OneRunningAlways` | `Spec => []OneRunning` | inductive together with `TypeOK`: no update but a claim makes a row run, and `ClaimNext` requires that none runs. Nothing about the lease is needed |
| `ChecksAlwaysHold`, `CancellationAlwaysHonoured`, `OutcomesAlwaysFollowCompletion`, `RestartLineageAlways` | `Spec => []` of the four invariants | none is inductive alone; `LedgerInv` joins them with `TypeOK`, `NoGap` (numbers given out have no gap), `Blank` (a row not there yet is blank) and `OutboxLevel`. Two halves meet in `LedgerMove`, which says what any handler may do to the tables: a row proceeds, starts, ends, vanishes or is born. `HandledMoves` shows that every handler is such a move, `MoveKeeps` that every such move keeps `LedgerInv`. The fence is not used: it decides who may write, not what a write can break |
| `TriggersAlwaysAllow`, `OutboxAlwaysCurrent` | `Spec => TriggersAllow`, `=> OutboxCurrent` | action properties, from `LedgerInv` and `LedgerMove` |
| `LedgerServesSerially` | `Spec => ServesSerially`: the ledger implements `SerialJobQueue` | `HandledSerially`: a step moves at most one row that was there, a job starts only in its turn, and only sealing a preparation moves two; `MoveOfQueue` reads each move as an action of the queue or a stutter; `HandledServes` puts them together |

The lemmas are about `Handled`, one handler called with anything, rather than about `Next`,
so that the specifications which embed the ledger reuse them.

**Processes and children** (`StrategyDispatch_proofs`).

| theorem | says | along |
|---|---|---|
| `DispatchServesSerially` | `DispatchSafety => ServesSerially` | every step of a process or child is a handler of the ledger or leaves it alone; from there on the ledger's own lemmas |
| `EvictedWritesAlwaysLost` | `DispatchSafety => EvictedWritesLost` | `DispatchInv`: `LedgerInv`, `OneRunning` and `ClientInv`, which relates what clients believe to the tables: a running job's owner held the lease once (`OwnersLeased`), nobody believes in a generation still to come, a child writes under the fence of its job's owner (`Serves`), two processes never own one job (`Apart`). A fence below the lease's generation then loses every compare-and-set |
| `HealthyClaimAlwaysSpared` | with `LateHeartbeats = 0`, `=> HealthyClaimSpared` | `Renewed`: who believes it holds the lease does, so a reconciliation is done as its holder and sees only older claims |
| `NoClaimEverLeaked`, `StaleClaimsAlwaysReconciled` | `DispatchSafety => []` of the two invariants, with stalled holders and lock errors | not inductive without `Seated` (the process the lease names believes in its present generation or in none) and `AllVersed`: a process of the current lease about to spawn or to fail its claim knows the row's version unless a cancellation raised it, which is why the one other way to lose a claim is the wedged cancellation the property names |

**The bell** (`NotificationProjection_proofs`): `NothingEverAckedUnseen`, `=> NothingAckedUnseen`
with `~Projecting`. `CentreInv`: what a projector has listed and what the centre shows is no newer
than the outbox, and what a projector is about to acknowledge has been shown (`Tracks`,
`ShownExists`). It rests on versions that only grow.

**The pipeline** (`PipelineRun_proofs`).

| theorem | says | along |
|---|---|---|
| `PipelineTypeCorrect` | `Spec => []PipelineTypeOK` | inductive, split into closing (envelope and row), work and service steps |
| `CompleteMeansPublishedAlways` | `Spec => []CompleteMeansPublished` | needs `Honest`: whoever *claims* success, a process about to report it, an exit code, the judgement of the service, belongs to a run that has published. `CompleteMeansPublished` alone is not inductive, since `Settle` writes complete on the word of `service.success`, and `Judge` believes a return code |
| `LiveRecordAlwaysKept`, `RefreshAlwaysSettled` | `Spec => LiveRecordKept`, `=> RefreshSettled` | action properties, from the types: which steps may write the record at all, and what a reader's recovery requires |
| `AuthorityPublishedAlways` | `Spec => []AuthorityPublished` | needs `Honest` and `Owning`: a run that captures or has prepared owns the row (`Fits`), and whoever is about to complete the row does so for an owner that has published. It survives the steps of others because the row's owner never changes once it is set (`FitsStays`) |
| `AuthorityAlwaysLegal` | `Spec => AuthorityLegal` | from the guards of the steps that write the row: every one looks at the row it writes, whatever it read of it before |

**Mails and alerts** (`DailyMail_proofs`).

| theorem | says | along |
|---|---|---|
| `MailTypeCorrect` | `MailSpec => []MailTypeOK` | inductive |
| `MailedAtMostOnce` | `MailSpec => []AtMostOneMail` | needs that one pass alone works on a slot between its claim and its mark, and that a slot nobody claimed has no mail: the receipt's primary key is what makes it so, no lock |
| `EveryPortfolioIsAnswered` | `MailSpec => []EveryPortfolioAnswered` | needs that what is no longer in a pass's `todo` is at hand, answered, or stuck elsewhere, for every pass, also the ones that share the key, and that a broken pass leaves what is behind it in `todo` |
| `OneSetupAlwaysOpen`, `FallsAlwaysMailedOnce` | `AlertSpec => []OneOpenSetup`, `=> []FallMailedOnce` | `AlertInv`: a ticker's peak is not below what any finished run judged (`BookOK`), and of the pass at hand every position it is done with was raised to its quote and, if its ticker has fallen, is among the mails, no ticker twice (`Trailing`) |

**Books** (`TradeLedger_proofs`).

| theorem | says | along |
|---|---|---|
| `PnlTypeCorrect`, `CacheIsCoherent` | `PnlSpec => []PnlTypeOK`, `=> []CacheCoherent` | `PnlInv`: a call that holds trades, rates or a summary under the revisions that are current holds *the* trades, rates and summary (`CallsCurrent`), and so does the cache (`CacheCurrent`); the event loop has one holder (`LoopHeld`). Revisions only grow, so what is of an older one can never become current again |
| `HistoryTypeCorrect`, `DaysAreWrittenOnce`, `ProgressAlwaysHasARun` | `HistorySpec => []` of the three invariants | `HistoryInv`: windows lie in the past (`WindowsPast`), rows of today are never backfilled ones (`RowsInv`), and the tracker follows the stages (`Phases`) |
| `NoMismatchEverFalse` | `PnlSpec => []NoFalseMismatch` | `MatchInv` with `PnlInv` and `TradesInv` (every writer leaves rows whole and ids unique): a summary that settles under an unmoved revision was computed of one ledger (`CallMatches`). Of one ledger the two replays agree: unique ids put a trade in every place of the replay order (`EveryPlaceTaken`), and each moves the net of first in, first out as far as the running count (`BuyMoves`, `SellMoves`, `ReplaysAgree`) |
| `CashAlwaysFollowsNewest` | `HistorySpec => []CashFollowsNewest` | `CashInv`: the import that had the last word is a maximum over a sequence and moves only when a stated balance at least as new arrives; what was added since is counted import by import, and an import adds one to the count of the rows it wrote and of no other |

**Simulation and months** (`Backtest_proofs`).

| theorem | says | along |
|---|---|---|
| `OrdersAlwaysFit` | `EngineSpec => []OrdersFit` | `OrderInv`: shapes, and that every waiting order fills on a session its own exchange trades (`OrdersReal`); a split leaves a held position held because it is refused unless it divides |
| `ReservationsAlwaysCovered` | `EngineSpec => []ReservationsCovered` | `FundsInv` with `OrderInv`: a fill takes one summand off the reservations and at most as much off the cash (`FillCovered`, where the two roundings meet), a cohort adds its target once for each member (`ScheduleCovered`). The sums rest on `SumUnfolds` and `SumRemove`: the fold behind a sum has the recursion it says, and no order of summation matters |
| `SharesAlwaysFollowSplits` | `EngineSpec => []SharesFollowSplits` | `ShareInv`: a position was entered in a session whose actions are applied, and the equation holds up to that session; the products rest on `ProductUnfolds` |
| `MonthsAlwaysAsRebuilt` | `MonthsSpec => []MonthsAsRebuilt` | `MonthsInv`: each child's profile has the deployed policy, its predecessor and its sources have the same, its cache holds revisions of its own symbol and alias, and its draft is as rebuilt (`GoodWork`). The self-check is not used: gate and revisions carry the argument alone |

**What strategies see** (`StrategyAdvice_proofs`).

| theorem | says | along |
|---|---|---|
| `SignalsAlwaysPointInTime` | `AdviceSpec => []SignalsPointInTime` | `AdviceInv`: rows are in order and of days that were (`BarsInOrder`), every part of a history up to a day stays whole (`CutsWhole`), and each day showed the plane of that day (`DaysShown`). Undoing the provider's adjustment gives the rows as traded (`WholePrice`, `AsTradedIsTraded`), and the plane of a day is moved by no later row (`PlaneOfMore`, over `ProductOfPart`). The ranking compares returns, which a later split scales on both sides (`PastOfDay`, `ExactQuotient`, `ScaledWeaker`, `SelectionScales`) |
| `MissingEvidenceNeverTraded` | `=> []MissingEvidenceNeverTrades` | a window at the end of a history does not see its first row (`WindowsOfTail`), weekly closes lose at most the oldest (`WeeksOfTail`), so a stage or a crossover that is still found is the one found before (`StageOfTail`, `CrossoverOfTail`); hence `EntersOnLess` and `ExitsOnLess`, strategy by strategy. A history without its newest row has none of the session, on which every rule insists |
| `LiveAlwaysFollowsRule` | `=> []LiveFollowsRule` | `LiveIsFull`: an artifact leaves a security with all its own rows up to its day or with none, since adjusting moves no row to another session (`LiveRecordsAre`, `ScaledSession`) and a record is kept only if its last row is of that day (`LastIsLatest`). One way a signal on less is a signal on all; the other, what `Requirements` declares is no more than what the rule needs to fire (`RuleNeedsExit`, `RuleNeedsEntry`), so that nothing whole is degraded |

Induction over a set or a number is done by a least counterexample (`Least`, from
`WellFoundedInduction`), since the library's induction theorems take an operator.

Every safety property that the passing runs check is stated by a theorem. Model-checked only
are the liveness properties `EveryJobEnds`, `RunEnds`, `EveryChangeAnnounced` and
`EveryHeldDayCharted`, since fairness is beyond the prover, and the five refutations below.

None of the modules uses a recursive operator.

## Where the code and its documents disagree

1. `swallowed_conflict`. `_fail_owned_claim` swallows every conflict, saying "A terminal
   worker write or newer owner won the race." A cancellation accepted after the
   child died and before its fallback is a third case: the job then runs for ever
   under a healthy lease and blocks the queue until the next takeover.
2. `stalled_reconcile`. `reconcile_interrupted_strategy_jobs` carries no fence: a process
   that stalls past its TTL between acquiring and reconciling interrupts the
   healthy job of its successor, which its docstring rules out.
3. `lost_reconcile`. `_heartbeat` stores the new generation before it reconciles; if
   the reconciliation meets a locked database it is never repeated.
4. `replaced_run`. The scanner page loads the status file with the default threshold of
   1860 s although a run may take 3600 s: viewing the page marks a live, quiet run
   as failed, and the next start replaces it while its child is at work.
5. `lost_month`. A process killed inside `finish`, between status file and history,
   leaves its completed run in the status file alone; a refresh then overwrites it,
   recovery can never find the run again, and the month it captured stays prepared
   for ever.

`PROJECT.json` quotes the contradicted lines.

The following were met while modelling. The models follow the code; no run is
spent on them.

- *Bell.* `upsert_job_notification` calls itself "Compare-and-upsert" but compares and writes
  in two statements: of two projectors the slower may overwrite a newer notification with
  an older one (`notifications_repo.py:157`). The next change of the job repairs it.
- *Alerts.* Two portfolios that hold one ticker get two hard-stop mails, which the docstring
  of the held-position check rules out; `PositionStateRepository.prune` is never called, so a
  re-opened position starts from its old peak; `clear_terminal` deletes rows the cooldown is
  computed from; a row is recorded before its digest is sent.
- *Mails.* `dispatch_all` says "Each portfolio's whole block is failure-isolated" (line 87), but its handler
  reads the portfolio's name unguarded: a locked database breaks the pass off, and the portfolios
  behind get no mail and no notice. A receipt marked sent becomes failed when a later pass's statement on the same
  slot raises; a skipped receipt blocks the portfolio although its strategy has been
  assigned again; a claimed receipt of a dead pass is reported only if another pass keys on
  the same artifact.
- *Trades.* A correction is two transactions; the idempotency key of an imported row leaves
  out price and amount; an imported trade that is deleted and imported again from a file of deltas
  adds its cash a second time, although "a repeated import never double-counts"
  (`trader_agent.py:2017`); a good
  exchange rate may be overwritten by the marker of a failed fetch, which is then never
  retried; an import reads `ANALYSIS_JSON` as a bare list although it is an envelope, and
  writes a snapshot of 0.00 which the backfill takes for a row.
- *Backfill.* The check of the tracker and its beginning are apart: two tasks run, and "done"
  is shown while one is still at work. An import during a run leaves a marker computed from
  the old trades, which holds until the next day.
- *Engine.* A share's price is rounded before the whole cost is: the cost of a purchase may
  exceed its target, which the code treats as impossible and ends the run. Skips for lack
  of cash and for a position conflict cannot be reached.
- *Adoption.* Evidence ends at the current month and its identity includes the alias
  revision: adoption never happens across a calendar month or an alias change, although
  `adoption_gate_failures` calls the latter "the adoption case".
  `previous_snapshot_profile` falls back only when the history has no candidate at all.

- *Evidence.* Upgrades compare securities: a holding that cannot be ranked, for want of a scan,
  leaves another the weakest, so that missing evidence can cause a Sell, although issue 471 rules
  that out. Upgrades also ignore the regime filter that would stop the purchase they make
  room for, and need cash that is not above zero, which rounding hardly ever leaves. The regime
  filter "fails closed" but takes the last close of a halted benchmark, of whatever day.
  The preflight suppresses a Minervini upgrade of a holding with a short history that a
  back-test makes.
- *Requirements.* Weinstein declares 204 sessions for its entry, whose 44 weekly closes take about 220:
  a security in between is reported as evaluated. `scan_view.py`'s
  `evidence_capabilities` says "OHLCV only" and returns every kind.
- *Units.* The maximum-loss stop compares a close in the provider's units and currency with a
  cost in the base currency, and `quote_unit_scale` is never applied; neither an average
  cost nor the pivot of a scan is rebased for a later split.
- *Replay.* A run's manifest says it replays "from cache alone", but months before its start are
  neither required nor pinned while `latest_committed_scan_result` reads the live table.

## What is not modelled

- `shutdown` joins the dispatcher thread for two seconds only; the model takes it
  after the thread has joined.
- A completed envelope that a run and a recovery both wrote: `complete` checks and then
  replaces, and the row may keep the digest of the one that lost. A correction that dies
  between its deletion and its insertion loses the position. Both are steps of the models
  (`ReplaceEnvelope`, `InsertCorrection`); no property is stated of either, since the code
  promises nothing.
- The preparation of evidence takes the look for a compatible request, the provider's call and
  the commit (`historical_initialization_engine.py:672-698`) as one step (`Fetch`).
- The `entry_on_or_after` cut-off of buy and hold, before which it selects nothing, and holdings
  of a fraction of a share, which Darvas and Turtle never sell.
- `adoption_gate_failures` compares the files its manifest names; that the manifest names every
  file a result depends on is assumed (`Gate`). `market_planes` and the trading calendar are in none.
- A day whose whole value rounds to 0.00, which `value_holdings` reports as no value.
- Idempotency-key replays and no-op answers, which change nothing; form parsing and
  the readiness page.
- Evidence pins, coverage summaries, alias files, the cache of the history presentation.
- Reading, dismissing and pruning notifications.
- Cash flows, foreign-currency history and parsing of statements: a row of a file is a trade, and
  a ledger here has one ticker and one currency. A portfolio fed by a broker that states its
  balance and by one that does not has a cash balance of no meaning, as
  `_apply_import_cash_balance_delta` says itself; the property says what it is made of. Prices and what a day is worth.
- Overlapping alert halves of two runs: they would duplicate rows and lose a peak, and two
  runs overlap only as `replaced_run` shows.
- Metrics and comparisons of back-tests, which are functions of a result; the explanations
  signals carry; parameter validation.
- What an analysis, a manifest or a digest contains.
- Corrupt or unreadable status files (read as idle), a full disk, a failing `fsync`.
- The components of the table that are not in bold.

## Plan

1. `CompletedEnvelope`, in `PipelineRun`: that the row names the envelope that is on
   disk. `complete` checks and then replaces, so a run and a recovery can both
   replace; the model has the steps (`CheckEnvelope`, `ReplaceEnvelope`) and the stamp.
2. Submission idempotency and the launch of a back-test, as part of `StrategyJobs`' users.
3. Abstract specifications of the mail receipts (a slot is answered once) and of the P&L
   cache (a summary is that of one ledger), which their modules implement.
