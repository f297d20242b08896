# A verification project for Stock-traiding

Stock-traiding polls SEC Form 4 filings, keeps the events they contain in a
durable queue, and once per XNYS session lets frozen strategies decide on the
events whose open is next. One strategy, the champion, trades a PAPER ledger;
the others run as SHADOW. Beside this run two measurement-only lanes for lobbying
disclosures and federal contracts, and around it a research side that prepares
history, trains and qualifies strategies and registers them. Nothing runs in
parallel inside a pipeline; what makes the program hard is that one run performs
about twenty file replacements, that a process may die between any two of them,
that the next run must find out, from the files alone, what has been decided, and
that the same rule (a candidate, a percentile, a fill) is implemented several
times and must come out the same.

The modules in section 2 are translated from the source. `PROJECT.json` maps every
definition to the lines it stands for.

## 1. Inventory

Paths are below `src/stock_trading/`.

| Component | State it keeps | Operations | What makes it correct |
|---|---|---|---|
| **Current PAPER cycle** `live/run_current_paper_shadow.py`, `run_current_pipeline.py`, `current_cycle_transaction.py`, `current_cycle_receipt.py`, `pending_disposition.py`, `paper_order_recovery.py` | transaction, receipt and stale-disposition files | poll, lifecycle, guard, recover, reconcile, classify, evaluate, publish, acknowledge | each event is decided once or written off, none is lost, and a receipt says what the ledger holds |
| **Event intake** `live/event_intake.py`, `poll_sec_form4.py`, `finalized_form4.py` | watermarks and pending events in one file; raw and event stores | commit a filing, select, acknowledge | a filing is committed once, in cursor order; the watermark never passes an uncommitted one |
| **Form 4 quarantine and recovery** `live/form4_quarantine.py`, `form4_recovery.py`, `recover_sec_form4_quarantine.py` | active quarantine records, recovery audit records | record, resolve, recover | a quarantined filing is recovered or stays visible; recovery never rewinds a watermark |
| **PAPER ledger and broker** `execution/paper.py`, `session_paper.py`, `paper_batch_commit.py` | cash, positions, pending orders, reports, order journal, commit sidecars | execute, settle, load, save | an order is filled at most once, on the bar of its own session; companies and cash are never overcommitted |
| **PAPER lifecycle and horizon exits** `live/paper_lifecycle.py`, `positions/horizon.py` | none of its own (bars, ledger) | sync tracked securities, settle, exit | a position closes on the bar its horizon names, whenever the process ran |
| **Engine and policies** `engine/runtime.py`, `engine/policies.py` | memory of one cycle, audit lines | settle, evaluate, allocate, execute, record | no slot or company is given twice |
| **Strategy lifecycle and registry** `engine/lifecycle.py`, `registry.py`, `persistence.py`, `live/runtime_state.py`, the freeze and bootstrap commands | registry file, manifests, model directories | bootstrap, freeze, transition, promote, load | one tradable champion, legal transitions; a failed freeze can be retried and never breaks the runtime |
| **Runtime strategy state, online calibration** `live/runtime_strategy_state.py`, `ml/online_calibration.py` | one calibration file per strategy, tagged with a batch | checkpoint, restore, rewind, percentile | no score of the future; a receipt's decision can be reproduced; live equals replay |
| **Audits** `live/decision_diagnostics.py`, `shadow_persistence.py` | append-only lines, one diagnostic file per batch | record, rediagnose | written before a batch is called completed |
| **Session calendar and lock** `live/session_calendar.py`, `runtime_lock.py` | lock file | next session, guard, acquire | one pipeline at a time |
| **Market synchronisation** `live/current_market.py`, `market/backfill.py`, `storage/` | raw responses, company-security map, daily bars | resolve, map, fetch what is missing, report ready | a batch proceeds only with every company's window asked for |
| **Candidates and rows** `live/candidates.py`, `ml/dataset.py`, `ml/walk_forward.py` | none | build training rows, assemble live candidates, split years | a live candidate is the row training would have; a split knows nothing of the test year |
| **LDA lane** `live/run_current_lda_shadow.py` | intake file, event database, diagnostics | poll pages, store, commit, select, score, acknowledge | nothing behind the cursor is lost; evidence counts once; the queue drains |
| **USAspending lane** `live/run_current_usaspending_shadow.py`, identity and freshness modules | intake file, aliases, migration, invalidations | poll awards, resolve identity, migrate, score | stale contracts are no evidence; no stored event is left out of the queue |
| **Forward outcomes** `live/forward_*.py`, `experiments/*threshold*` | scorecard, invalidation file | sync series, label, report | a published label is a fact; invalidated evidence leaves |
| **Backtest engine** `backtest/`, `research/historical.py`, `engine/` policies | cash, positions, trades in memory | replay a plan day by day | decisions do not see the future; the engine equals the legacy backtester |
| **Experiments and research** `experiments/lightgbm_strategy_*`, `freeze_*`, `research/strategy_arena.py` | report, qualification, registered variants | screen, qualify, freeze, rank | what is registered was screened, qualified and trained on the same rows |
| **Data sources and storage** `sources/`, `research/historical_*`, archive commands | archives, events, snapshot, universes, aliases | populate, snapshot, build universe, enrich | a finished command is complete; holdouts are disjoint; one company per client |

Interactions: the pipeline calls the poll, the lifecycle service and the cycle,
in that order, under one lock. The cycle calls the engine, the engine calls the
broker, and the broker calls back into the strategy-state store
(`before_runtime_batch_commit`) between its ownership check and the ledger save. The stores
share no transaction: they are related by the batch id, a hash of the target
session and the sorted event ids. The lanes take the same lock, keep event and
intake stores of their own and write diagnostic files into the directory the
scorecard reads; the lifecycle, the cycle and the scorecard refresh extend one
market store and share its raw responses. Research reaches the live side through
two files only, the registry and the manifests it points to.

Hard behaviours: crashes between two writes; a retry that finds a half-published
batch; sessions that open in the middle of a cycle; a champion changed between a
crash and its recovery; decisions that leave no order; bars that arrive late or
never; a raw response reused after the vendor has more; a listing that changes
while it is paged; refreshes, freezes and other command-line tools that work on the same
files without the lock; research data edited between the commands that read it.

## 2. Modules

| Module | Role |
|---|---|
| `EventDecision` | abstract specification: an event arrives, is decided once with its batch or missed, and only then leaves the inbox |
| `CurrentCycle` | one pipeline run as its sequence of file replacements, with crashes, and its refinement mapping to `EventDecision` |
| `CurrentCycleInvariant` | the inductive invariant, in named parts |
| `CurrentCycleProofs` | theorems about it: safety, slots, refinement |
| `LedgerContract` | abstract specification of the ledger: entries are admitted, priced by their session and closed, one per company |
| `PaperLedger` | the PAPER ledger, the bars it is priced with, the lifecycle service and the trading part of a cycle, against a wall clock |
| `PaperLedgerInvariant`, `PaperLedgerProofs` | its inductive invariant and theorems |
| `EventIntake` | poll, watermarks, quarantine, the recovery tool and the life of the queue file |
| `EventIntakeInvariant`, `EventIntakeProofs` | its inductive invariant and theorems |
| `LdaLane`, `UsaspendingLane` | the two shadow lanes, each as the writes of its run |
| `ForwardScorecard` | diagnostics, invalidations, the refresh by a lane and by a tool, labels and the analysis |
| `ShadowLanesInvariant`, `ShadowLanesProofs` | inductive invariants of the lanes and the scorecard, and theorems about them |
| `StrategyRuntime` | registry, manifests, model directories and overlays under bootstrap, freezes and operator sessions |
| `StrategyResearch` | screening, qualification and freeze of a generation |
| `RollingCalibration` | percentiles against a rolling history, and that history's life across runs |
| `CandidateRows` | training rows in hindsight, live candidates, yearly splits |
| `MarketSync` | vendor, raw store, mappings, bars and the synchronisation of a batch |
| `Backtest` | six backtesters side by side on one plan in two worlds |
| `HistoricalData` | archive population, issuer snapshot, universes, market population, enrichment |
| `StrategyArena` | lifecycles and capital shares of competing strategies |
| `Research` | the eight components from `StrategyRuntime` to `StrategyArena` in one specification, one scene each: what is assumed of their constants, and their properties bundled by what they promise |
| `StrategyRuntimeProofs`, `HistoricalDataProofs`, `MarketSyncProofs` | inductive invariants of the three and theorems about them |
| `ResearchProofs` | inductive invariants of `RollingCalibration`, `CandidateRows`, `StrategyResearch`, `Backtest` and `StrategyArena` and theorems about them, and the bundled properties of `Research` |
| `MCCurrentCycle`, `MCPaperLedger`, `MCEventIntake`, `MCResearch` | small instances for TLC |
| `MCProgress`, `MCShadowLanes` | several modules, each on its own small instance, in one run |

The first three detailed modules look at one pipeline run from three sides, and each
summarises what another one details. `CurrentCycle` has every write of the cycle
but lets `Settle` price a due BUY or not; `PaperLedger` has the bars and the
clock but lets a cycle allocate to any company; `EventIntake` has the poll and
the queue but decides a batch in one step. They meet in the abstract
specifications: `LedgerContract` is what the cycle relies on when it reserves a
company, `EventDecision` what the intake relies on when it retires a filing.
`MarketSync`, `CandidateRows` and `RollingCalibration` then open the steps that
`CurrentCycle` calls `sync`, `prepare` and `evaluate`; `StrategyRuntime` opens its
loader.

**Scenes.** In `MCProgress`, `MCShadowLanes` and `Research` a variable `scene`,
chosen initially and never changed, names the module whose behaviour this is. The
other modules' variables hold `Unused`. The state space is the disjoint union of
the modules', so each property below is guarded by its scene, and fairness is
stated per scene. Nothing is composed by this: the modules share constants and
variable names, not steps.

### CurrentCycle and the code

Every store of the code is one file, or one file per batch, replaced with
`NamedTemporaryFile` + `fsync` + `os.replace`. So a store is one variable and a
write is one atomic step. The variables fall into three groups: the world
(`session`, `intended`, `champion`), the durable stores (`queue` through
`receipts`), and the memory of the running process (`pc`, `target`, ...), which
`Forget` clears on return, raise or crash. `pc` names the next write; there is
one `pc` because `runtime_lock.py` admits one pipeline.

| Steps of `pc` | Code |
|---|---|
| `poll` | `poll_current_form4`, one `commit_filing` per filing |
| `settle_due`, `exit_due` | `service_current_paper_lifecycle` |
| `guard` | `evaluate_pipeline_session_guard` |
| `recover`, `reconcile` | recovery of prepared transactions, reconciliation of receipts |
| `classify`, `acknowledge_stale` | `dispose_stale_selection`: audit first, queue second |
| `sync`, `prepare` | market and candidates, then the transaction file |
| `settle`, `evaluate`, `checkpoint`, `commit`, `engine_audit` | `TradingEngine.run_cycle` with its broker call and callbacks |
| `diagnose` ... `acknowledge` | diagnostics, shadow audit, state files, receipt, queue |

Choices worth knowing:

* **A raise between two writes** leaves the same files as a crash there and is
  covered by `Crash`. A condition whose failure raises and which the code relies
  on never failing is a guard: if it could fail, the model would deadlock, and
  deadlock is checked. This shows that the raises in the recovery scan
  (`RecoveryAdmits`), the order-owner check (`OrdersOwned`), receipt verification
  (`ReceiptsVerify`) and the changed-after-publication checks of sidecars,
  diagnostics and receipts are never taken under the lock. Raises that can
  happen have their own action: `LifecycleError`, `MarketNotReady`,
  `TransactionChanged`.
* **An order** keeps company, session, strategy and batch. Its id hashes the
  first three only, which is what `SameOrderId` compares. Cash and prices are
  abstracted: `Settle` may reject any due BUY, as insufficient cash does, and
  must reject one whose company is already held. A SELL is the removal of a
  position.
* **Allocation** may choose any set of unoccupied companies within the slots.
  Scores and gross exposure only restrict that choice further.
* **The last session** of an instance is left to expiry: no event opens on it and
  the guard's quarter-hour rejection is not taken there. This is a bound, so that
  liveness is not decided by the end of the calendar.

### PaperLedger and the code

`execution/paper.py` keeps one JSON file and replaces it once per `execute` or
`settle`, so the ledger is a record that changes in one step. What makes it hard
is time: which daily bar prices an order, and whether that bar exists yet.

* The **clock** runs in half steps: at `2*s - 1` session `s` trades, at `2*s` it
  is over and the next one has not opened. `LastCompleted` and `NextOpen` are the
  resolver's functions of it. A run freezes its `asOf` and target; the clock goes
  on. The execution part of a cycle compares dates in UTC, so there `asOf` is the
  target's day or the day before (`RefreshDone`).
* A **bar series** is a set of sessions. `Publish` is the vendor; `FetchSeries`
  asks from the day after the last stored bar, so a hole behind a stored bar is
  never filled. `VendorInOrder` says whether the vendor makes holes at all.
* **Order of the steps**, as in `paper_lifecycle.py` and `run_current_paper_shadow.py`:
  sync each tracked security, settle, exit, (guard), refresh each company of the
  batch, settle again, allocate and execute. Each is a write that a crash may
  precede or follow.
* **Left out**: cash, shares and prices (a BUY may not be rejected for cash in
  this module; `CurrentCycle` allows it), SELL orders that stay pending (shown
  to be impossible, `ExitsNeverWait`), and orders that reach the broker
  otherwise than through the pipeline. One security per company; every series
  starts before session 1.

| Actions | Code |
|---|---|
| `StartService`, `SyncSecurity`, `SyncDone` | `service_current_paper_lifecycle`, `_sync_lifecycle_market` |
| `SettleDue`, `SettleCycle` | `PaperExecutionBroker.settle` in the service and in `prepare_cycle` |
| `ExitDue` | `FixedHorizonPositionManager.orders`, `PaperExecutionBroker.execute` |
| `StartCycle`, `RefreshCompany`, `RefreshDone` | current market synchronisation with `MarketBackfillService` |
| `ExecuteCycle` | reservations, allocation and `execute` in `run_prepared` |

### EventIntake and the code

* A **filing stands for its events**: they share accession, acceptance time and
  company and are stored, enqueued, selected and retired together. Filings are
  numbered in cursor order, `Day` is the session that is next when a filing is
  accepted, and `Lookback` counts sessions.
* A **`Listing`** is a filing in one CIK's submissions document. SEC lists an
  ownership filing under its issuer and under its reporting owners, hence
  `Feeds`. `List` shows the filings of one feed in cursor order: the watermark
  relies on it.
* **Queue and quarantine** are files that are changed by reading them and
  replacing them. The read keeps an `image` and the replace writes what follows
  from the image, so that two processes can lose an update. Under the runtime
  lock that is harmless; the recovery tool takes no lock, and `Overlap` says
  whether it may run beside the pipeline. The standalone poll is a pipeline run
  that ends before its cycle.
* The **cycle** is `StartCycle` (reconcile receipts), `Select`, `DisposeStale`,
  `RetireStale`, `Decide`, `RetireDecided`, in the order `CurrentCycle` has them.
* **Raises**: a raise of the poll or cycle is a `CrashPipeline`, except
  `CommitRaises`, whose condition the model can tell. A raise in the recovery of
  one record is caught and the next record follows (`RecoveryFails`,
  `EnqueueFails`, `RecoveryRaises`).
* After a crash of the recovery between enqueueing and recording, the next
  recovery enqueues the filing again, possibly after its outcome. The next cycle
  takes it out before it selects; `OneStoredOutcome` shows that this suffices.

### LdaLane, UsaspendingLane, ForwardScorecard and the code

* **Time** counts half days in the lanes, the morning before a session's open and
  the rest of the day. An LDA filing is for the first session after its posting
  day, a USAspending event for the first one after the run that observed it. A run
  fixes its cutoff at its start and the clock goes on.
* **Paging.** `FetchPage` re-evaluates the agency's listing at the moment of the
  request, so items move between pages while a run reads them. `FallBack` is the
  relay that takes over when the edge denies access: it answers the same page
  number from a snapshot, in the order it sorts by. `NewestFirst` is the agency's
  order. An award changed on several days moves in the listing of
  `UsaspendingLane` (`ListingMoves`).
* **Identity** (`By`, `Candidates`). A recipient or parent is known by its name (`Named`, a name
  that one modelled company bears), or by its UEI: from the authoritative side's aliases
  (`SharedAliases`), from the lane's own (`aliases`, which only a name confirms, `Remembered`),
  from the recipients of stored events (`VerifiedIndex`; not their parents), or from an award
  read before in the same run (`run.index`, both UEIs). The details of an award are fetched only
  if its recipient is known or its name is near a modelled one (`Resembling`). An award of no or
  of several companies is passed over (`SkipAward`), and so is a row that fits no or several
  details (`Doubtful`, `unmatched`). A stored event that comes out under another company makes
  the run raise (`CompanyChanged`).
* **Writes.** A run stores events, commits the cursor with its queue, writes one
  diagnostic file and acknowledges; `Abort` may precede each. USAspending begins
  with the freshness migration: invalidations, queue, migration file, in this
  order, each of which a dead process may leave without the next; `Legacy` is
  what a version without the rule had observed.
* **ForwardScorecard** has two refreshers: the lane's runs under the lock, the
  tool's beside it. Each reads the diagnostics and the invalidations at its start,
  extends each security's series (the vendor decides what comes) and replaces the
  scorecard from what it read. `Label` is the join of both series by position.

### StrategyRuntime, StrategyResearch, StrategyArena and the code

* A **job** of `StrategyRuntime` (bootstrap, freeze of the champion's plugin,
  freeze of a cohort) makes its writes one by one: temporary directory, rename,
  metadata, manifest, registry. A raise runs the code's cleanup, `Died` runs
  none. The `root` and `manifest` of a strategy say how much is there; the loader
  accepts exactly what `Loadable` and `Restorable` say. A session is an operator's
  registry object: it saves its own snapshot, however old. A cohort's freeze may raise at every
  step, also at the summary after its registry save (`LateRaise`) and while a manifest is
  half-written; `failed` remembers the cohort, whether its records were saved and whose manifest
  is torn. `StaleSave` is its registry save over what a session has saved since the freeze began.
* `StrategyResearch` takes learning as an operator: `Picks(trained, test)` are the
  rows a model trained on `trained` picks. So it cannot say whether a strategy is
  good, but it can say on which rows each of the three commands trained, what was
  compared with what, and what an edit of the research data in between changes.
  The freeze of the source can accept a qualification only through its
  compatibility front end, since the plain command asks for a top-level key that
  qualification never writes; the model has the front end. The qualification
  reports that the market-quality manifest's identity is required, but path and
  counts are what is compared: an edit that keeps both is an edit like any other.
* `StrategyArena` is a pure decision, stepped: the previous lifecycles are handed
  in by the caller. Fitness is exact in integers; shares are fractions.

### MarketSync, CandidateRows, RollingCalibration and the code

* `MarketSync` keeps the vendor's last published session apart from the metadata
  and responses a process holds. A stored response is reused by name. It assumes
  that vendor metadata never returns to an earlier content; corrected histories,
  renamed tickers, failed requests and invalid rows are its faults.
* `CandidateRows` has the public day of an event, the halts of a stock and the
  batch of a cycle. `TrainingRows` is what `ml` builds in hindsight, `live` what cycles
  decided on, `Split` the division of rows by year with its fence, which must
  keep labels of the test year out.
* `RollingCalibration` counts percentiles in 1/120, exact for the histories of the
  instance. Evaluation changes memory, `Checkpoint` replaces the file, a crash
  loses memory, `Restored` reads the file. `Rewound` and `Rediagnosed` are the
  later diagnosis of a receipt. `ReplayEmits` is the reference, a definition by
  dates without any state.

### Backtest, HistoricalData and the code

* `Backtest` plays each day of six backtesters. Worlds differ in what the strategy
  must not see, and one plan is played in both, so that look-ahead shows as two
  books that differ although the past did not. Capital is whole units, returns are
  percentages. A day's candidates are a fold over their set, in the order of `Before`:
  scores and identifiers order them totally, and `Last` is considered after the rest. Where the
  exposure limit leaves no room for a slot that is still open, the engine refuses an
  entry the legacy backtester fills with the cash that is left. `RoomTomorrow` says
  that this does not happen tomorrow, and the proof of the equality assumes it. The
  replay that claims the equality (`strategy_engine_v5_replay.py:55-101`) allocates
  2 % to each of at most 15 positions under a limit of 100 %, which only a book that
  has lost most of its equity fills; the instance has shares of 25 % and two slots,
  and there the equality holds without the assumption.
* `HistoricalData` runs one command at a time, each in its steps; `End` cuts it
  off. Files are kept apart from databases because a text manifest can be torn and
  a database put cannot. Each universe goes to a file of its own: the code would overwrite a file
  that is there, and which path a command gets is its caller's choice. Writing one is
  atomic. A quarterly and a live event of the same transaction have different identifiers in
  the code and do not meet here.

## 3. Runs

| Run | Instance | Shows |
|---|---|---|
| `safety` | 3 events of 2 companies, 2 plugins, 3 sessions, 1 slot, 2 disturbances, symmetry (3.1 million states) | type invariant and seven safety properties of the cycle |
| `decision` | 2 events, 2 slots, 1 disturbance, fairness | the files implement `EventDecision`; every pending event resolves, every decision is published |
| `audit_gap` | 2 events, 1 disturbance, expects a violation | the cycle's docstring against its recovery path, section 6 |
| `ledger` | 2 companies with horizons 2 and 1, 3 sessions, 2 crashes, holes allowed | the ledger validates, rejects nothing, catches up, implements `LedgerContract` |
| `intake_safety` | 3 filings, 2 feeds, one filing in both, 3 days, lookback 1, 2 crashes or raises (2.3 million states) | type invariant and four safety properties of the intake |
| `progress` | intake: 2 filings, 3 days, 1 crash; ledger: 1 company, horizon 2, 4 sessions, 2 crashes, without and with holes; fairness | filings reach an outcome, entries settle, positions close, on their own sessions |
| `intake_shared` | 2 filings, one in both feeds, the other in the second and older, 4 days, lookback 1, no crash, fairness, expects a violation | section 6 |
| `intake_overlap` | 2 filings, 2 days, no crash, recovery beside the poll, expects a violation | section 6 |
| `lanes` | LDA: 4 filings, pages of 2; USAspending: 3 awards of one parent, 2 companies, 4 transactions, 2 of them known before; scorecard: 1 batch, 3 sessions, both refreshers; 1 abort each, fairness | cursors, queues, evidence and labels |
| `research` | eight scenes, listed below | no look-ahead, agreement of implementations, complete and reproducible results |
| `stale_prices` | the `market` scene, expects a violation | section 6 |
| `v5_maturity` | the `rows` scene with the fence of the V5 code, expects a violation | section 6 |

The scenes of `research`: **runtime** (a champion, 2 challengers, 2 raises or
deaths, 3 record changes, sessions open beside jobs), **research** (2 rows a year for 4 years, 3 variants of
horizons 5 and 60, 2 edits, 1 fault), **market** (1 company, 2 tickers, 3 sessions,
a window of 1, 1 fault), **rows** (3 events of 2 companies, 7 days, 1 halt, the
fence of both horizons), **calibration** (2 seeds and 4 live candidates on 3 dates,
1 crash), **backtest** (5 candidates of 3 companies, 6 days, pairs of 24
worlds), **history** (2 quarters, 5 rows of which one comes late, 2 register
pages, 2 universe files, 4 commands, 1 mishap), **arena** (4 strategies, 24 tuples
of observations).

What the properties say:

* `NoEventLost`: a polled event is pending, audited as stale or named by a
  receipt, whatever is interrupted.
* `OneOutcome`: an event belongs to at most one decided batch, and is never both
  decided and written off.
* `NeverEvaluatedTwice`: a batch about to be evaluated has left no trace in any
  store.
* `EntryReservation`: positions and pending BUYs respect the slots and the
  one-per-company rule over any series of batches, settlements and crashes.
* `CalibratedBeforeDecision`, `HonestCompletion`: the state files' tags tell the
  truth about the batch they name.
* `ReceiptMatchesLedger`: also for a receipt rebuilt after a champion change.
* `PendingResolves`, `DecisionPublished`: liveness of the cycle.
* `FillsOnTheirSession`: an entry is filled by the bar of its own session, an
  exit by the last bar of its horizon, neither moves when bars arrive late, and an
  exit is filled by the call that creates it.
* `CaughtUp`: after a service run the ledger is a function of its orders and the
  stored bars: no order of runs, and no crash, makes a difference.
* `LedgerAccepted`, `NothingRejected`: the saved ledger passes its own validation,
  and an order admitted against one snapshot is not refused by a later one.
* `EntriesSettle`, `PositionsClose`: liveness of the ledger.
* `NothingPassed`: a watermark passes a filing only when the filing is pending,
  has its outcome, is quarantined, or was too old for the first poll. A first poll
  that dies after it has quarantined a later filing leaves the watermark at zero; a
  recovery of that filing then passes the old one, even after the recovery of an
  earlier one has set the watermark. That is the same omission, made by the recovery.
* `NothingForgotten`: a filing once accounted for stays so through every
  interruption of poll, recovery and cycle.
* `OneStoredOutcome`, `ResolvedIsDurable`: re-enqueued filings are not decided
  again and what queue or outcome names is in the event database, or every later poll would
  raise; resolved records left their events behind.
* `IntakeProceeds`: liveness of the intake.
* `CursorCovers`: no LDA filing is lost behind the cursor, although pages shift;
  excepted is a relay that took over in the middle of a listing of the other order.
* `PendingEnds`: the LDA queue drains although market data may stay away.
* `EvidenceOnce`: two diagnostic files share an event only after a cut-off run, and
  then both are for one session.
* `OutdatedExcluded`, `NoOrphan`: the migration's three files together take stale
  evidence out for good; a poll that commits leaves every stored transaction that was due in its
  window queued or handled, but for those it passed over and a listing that moved (section 6).
* `LabelsAreFacts`: whatever was fetched since, a published or reported label is
  what a refresh would compute now.
* `InvalidatedLeaves`: a refresh beside the lock may write invalidated evidence
  back, but not for ever.
* `StrategiesSound`: the champion is tradable after any sequence of sessions,
  freezes and deaths; a freeze that failed and cleaned up can be retried, unless it
  failed after saving its records or inside a manifest's write, and then just these stay; the
  arena's shares add up to the target, under their caps, in proportion.
* `JobsKeepRuntime`: no write, raise or death of a job takes away a runtime on
  which the runs go through, sessions beside it or not, except a raise after the cohort's
  registry save and a save that undoes what a session did since the freeze began (section 6).
* `FinishedIsComplete`: a ready synchronisation has asked for every session that is
  missing, except between stored bars (section 6); a finished population has an event for every usable row, also of
  archives an interrupted run had stored.
* `Reproducible`: the overlay, rewound, gives every receipt's decision again, and a
  SHADOW strategy's scorecard is what its rows give.
* `NoLookAhead`: backtests and training splits do not depend on what came later; a
  holdout shares no company with the universes it was to exclude.
* `SameResult`: live decisions and a chronological replay; live candidates and
  training rows; engine and legacy backtester; rows of freeze and screening; the
  events and the alias of a lobbying client; the arena with and without its weak
  strategies.

**Bounds.** Three events give two events of one company (two batches competing
for one slot, or one batch with both) and one of another. Three sessions give an
event decided on time, one decided in a later batch and one that expires. One
disturbance is one crash at every one of the twenty steps; two give a crash in
the recovery of a crash and a champion change between crash and recovery. One
slot makes a reservation contended. Four sessions let an entry wait, a horizon of
two end, and the next entry of the company follow; two companies with different
horizons let one be exited while the other is entered. Three filings give, on one
feed, one to be passed and one behind it, on another day one that makes the first
stale; two crashes give a crash in the recovery of a crash. Four LDA filings on
pages of two give a page boundary that moves under a run. Four transactions give an
award that is modified a second time, while the poll may still be reading, an action that is
too old, and a row that may fit no detail. Three awards of one parent, one whose recipient has
an alias, one named otherwise and one without a recipient's identifier, give every way to
resolve: by alias, by name, by an award read before, to several companies, to none, and to
another company than what is stored. One scorecard batch is enough since labels
of batches do not meet; it has a security and a benchmark whose series lag
differently. In the market a window of one
session among three lets the next window begin behind the stored bars, and one reach further
back. Two stops of a job give a death in the retry after a raise. Four years
give a training set before and a label across each year's end. Four commands of
history give a population, a repetition after its interruption and what builds
on it. The bound on days and sessions is named in the guards (`MaxDay`,
`MaxSession`, `MaxTime`), those on crashes, aborts, faults, stops, edits and
mishaps are counters.

**Fairness.** The cycle's `FairSpec` assumes `WF(PipelineStep)`: the external scheduler reruns
the pipeline and a running process goes on. It assumes `WF(AdvanceSession)`: sessions keep
opening. Nothing makes a crash, a market error or a champion change happen, and each behaviour
has finitely many of them: a step that failed for ever (a security without price history, for
instance) stops the pipeline by design, and is listed as a hazard. The ledger's `FairSpec`
adds that the clock goes on and that the vendor publishes each bar in order; with holes, the
code waits for ever and the property is false, so the liveness of `progress` states its
premise in `VendorInOrder`. The intake's `FairSpec` assumes strong fairness of the pipeline:
an operator may start recoveries again and again, each excluding the pipeline while it runs,
but not so that the scheduler never finds a gap; and a started recovery goes on. Nothing makes
SEC list a filing or an operator start a recovery. `MCProgress` states these fairness
conditions per scene. The lanes assume that the lane's runs are scheduled and go on and that
time passes; for the scorecard only the lane's refresh, which the scheduler reruns: the tool
may stop for ever at any step, and nothing makes an operator invalidate or analyse.

**Symmetry** is used in `safety` only, over plugins and over the two
events of one company, which no definition tells apart; in no run with liveness.

## 4. Theorems

For every set of events, every finite set of companies, every set of plugins and
all bounds (`CompanyAssumption`, `CompanyOfAssumption`, `NoStrategyAssumption`,
`BoundsAssumption`):

* `TypeCorrect`, and from it with `CycleInvariant` the safety properties
  `NothingLost`, `OutcomeUnique`, `ReceiptsFaithful`, `EvaluatedOnce`,
  `CalibrationDurable`, `CompletionHonest`;
* `ReservationCorrect`: slots, with cardinalities;
* `RefinementCorrect`: `CurrentCycle` implements `EventDecision`.

`TypeOK` alone is not inductive: an order is a record whose session and strategy
come from `target` and `active`, and these hold a session and a strategy only in
some stretches of `pc` (`Loaded`). None of the safety properties is inductive
either, because each relates stores that different steps write. The invariant
has these parts:

* `Horizon`: what is settled or written off lies before the session being planned;
* `Selection`: the batch in memory is pending and opens on the target;
* `Ownership`: a batch in the ledger has one prepared champion;
* `AuditOrder`: audits follow the sidecar, in order;
* `Unpublished`: at most the running batch is decided without receipt, and every
  state file carries its tag;
* `Allocated`, `Reconciled`: entries trade unoccupied companies, and what a
  receipt names has left the queue before classification.

The central argument is `Unpublished` with `Reconciled`: between the recovery
scan and the broker call every decided batch has a receipt, and every receipted
event has left the queue, so the batch being selected shares no event with a
decided one. That gives `OneOutcome`, `NeverEvaluatedTwice`, and the `Decide`
and `Miss` steps of the refinement. The refinement maps the broker's ledger save
or, for a decision without entries, the sidecar, to `Decide`, the stale audit to
`Miss` and every queue replacement to `Retire`; all other steps stutter.

For the ledger, for every finite set of companies (`CompanyAssumption`), every horizon
function and any number of sessions: `LedgerTypeCorrect`, `AcceptedCorrect`,
`ExitsNeverWaitCorrect`, `FillsCorrect`, `NothingRejectedCorrect`,
`CaughtUpCorrect` and `ContractCorrect`, from `LedgerInvariantCorrect`. The
invariant says

* `Clocked`: a stored bar belongs to a session that the running process regards
  as completed and that lies before a cycle's target;
* `EntriesOnTime`: a BUY trades its entry's session;
* `OnePerCompany`: pending entries and positions share no company;
* `ExitsOfFilled`: only an entry that has been filled is ever closed;
* `QueueSettled`: after the service's settlement the pending entries are those
  without a bar;

and the safety properties themselves. Two lemmas carry it. `ExitStable` and `ExitUnique`: bars
are only appended behind the last stored one, so the session at which a horizon ends, once it
exists, never changes, although the horizon counts bars and not calendar days. And every
stored bar was over when it was fetched, so after settling and exiting once nothing is left
that the same bars would still do (`CaughtUp`). In the refinement `Tick` is the contract's
`SessionOpens`, settlements are `Settle` of what they priced, and `ExitDue` and `ExecuteCycle`
are `Execute`; fetching, publishing and crashing stutter.

For the runtime (`StrategyRuntimeProofs`), for any set of challengers and all bounds:
`ChampionTradableCorrect` needs no assumption, so it covers sessions beside jobs and, what no
run does, a second bootstrap. Its invariant is that
every snapshot that may still be saved is sound: the registry's, the open
session's and the one a freeze read at its start. `FailedFreezeRetriesCorrect` assumes only
that the champion is no variant. Its invariant (`FreezeInv`) says what each step of a cohort's
freeze has written, that no snapshot anybody may still save names the running cohort before its
registry save, and what a failed freeze left: nothing but its torn manifest and, when it had
saved them, its records. `JobsKeepRuntimeCorrect` assumes `Apart` (no session beside a job, no
second bootstrap, and the champion is no variant); with sessions beside jobs the property is
checked by `research`. Its invariant adds `ChampionWritten` and that overlays belong to registered
strategies only. The point of both: what a job writes belongs to strategies the registry does
not name, until one write names them all; after that write a raise does harm, and both say so.

For the prepared history (`HistoricalDataProofs`): `PopulationCompleteCorrect`, for all
archives with numbered quarters (`HistorySensible`), from the invariant that a running
population is through with the quarters it no longer has to do; and
`HoldoutsDisjointCorrect`, without assumption, from the invariant that a universe
which a later one excluded is never written again; and `OneCompanyCorrect`, for a register
whose filing ids are of one client each (`RegisterSensible`), from the invariant that events are
stored only for clients whose aliases have been added, and that no command changes one
(`Enriching`).

For the intake (`EventIntakeProofs`), for any feeds, finite or not, any sessions and
any number of crashes: `Typed`, also beside an overlapping recovery, and with the
assumption `Alone`, that recovery and pipeline exclude each other, `OneOutcome`,
`ResolvedDurable`, `NothingLost` and `NonePassed`. Run `intake_overlap` shows why
`Alone` is needed. The invariant is `EventIntakeInvariant!IInv`:

* `ImagesFresh`: an image read from a file is still the file when it is written;
* `StoredFirst`, `Batches`, `Recovery`: what each step of poll, cycle and recovery
  has already put into the stores, by `pc`;
* `Chronology`: what was written off lies before the day being planned, which never
  goes back, although a run plans with an older day than the one that is next;
* `PollCovers`, `QuarantineCovers`: between a feed's watermark and a filing the poll
  has still to do, or one in quarantine, every filing is still to do, has its outcome
  or was too old. These two make `NothingPassed` inductive: a watermark is moved by
  the filing committed, and the invariant says what lies below it.

For the lanes and the scorecard (`ShadowLanesProofs`), for all listings, page sizes,
identifiers, changes and series, under the assumptions of `MCShadowLanes`, which say of
the constants what the code's data are (a filing posted later has the larger number,
`None` is no value): `Typed`, `NoFilingPassed`, `NoneOrphaned`, `CountedOnce`,
`OutdatedStayOut` and `LabelsStay`.

* `LdaPoll` says what a poll has seen by rank instead of by page. Newest first, every
  filing with less than `Passed` others before it has been seen, and filings posted
  meanwhile only raise ranks; oldest first, a filing has the same rank for ever. So the
  cursor, the largest filing seen, has everything below it seen. A relay that takes over after
  the first page of the other order is excepted.
* `UsaPoll` says of every award the poll has passed that each of its stored transactions whose
  change is in the window is queued, handled, in memory for the queue, or passed over. It asks
  nothing of how an award is resolved: whatever names, aliases and indexes say, an award is
  skipped, read for one company or raises, and only the first leaves its rows behind. That the
  poll's window still is the one of the watermark when it commits is in `UsaFloor`; while no
  listing moves, the rank of an award stays, so that at the listing's end all have been passed.
* `UsaMigration` follows the three files of the migration; what it takes out never
  passes `Fresh` again, because time only makes an action older.
* For labels the argument is that a series grows at its end only: the sessions a label
  may use are the beginning of those it may use later, so that the `h`-th common session
  never changes once there is one.

`CountedOnce` needs that a batch in a diagnostic file is acknowledged before the next one
is selected (`LdaBatches`, `UsaBatches`), which is what an abort in between breaks.

For the market (`MarketSyncProofs`), for any companies, tickers, windows and numbers of
sessions and faults (`MarketSensible`: tickers are finitely many, sessions are counted from 1):
`MarketTypeCorrect` and `AskedForCorrect`. Holes are what makes it hard, since a session
between stored bars is never asked for: it must have been asked for earlier, when it was
not yet between them. The invariant therefore explains every hole (`GapsExplained`) and says
of every request still open that its answer leaves no new one (`Requests`, with `Adjoins`),
of what was searched that it is stored, answered for or still open (`Searched`), and of the
companies that they are mapped to the series asked for (`Links`).

For the calibration (`ResearchProofs`), for any finite set of candidates, any horizons, window
and threshold, and whatever the models predict (`CalibrationSensible`: the validation sample
was decided on before the first live date): `ReceiptReproducibleCorrect` and
`LiveMatchesReplayCorrect`. For the first, the invariant says that the overlay decides the
last date's batches as their receipts do (`Redecided`): rows of a date never count for that
date, so a repeated evaluation changes nothing that the first one read, and rewinding takes
nothing out that would count. For the second, two invariants say that for every date to come
the overlay has exactly the rows a replay would rank against (`Kept`), although pruning has
thrown rows away, and that every receipt agrees with the replay (`Replayed`). A day's scores
are ranked against sets of rows on both sides, so the counts agree once a bijection between
the rows does (`PercentileOfRows`); no count is ever computed.

For the training split, for any calendar, halts, publications and companies and any number of
horizons: `HindsightCorrect`, under `CalendarSensible`, `YearsSensible` and the one substantial
hypothesis that every horizon is in the fence (`Fence = Horizons`). The fence of the V5 code
violates it, which run `v5_maturity` shows.
The argument: the rows the fence lets pass are those of events whose session and every label
end before the boundary (`EligibleRows`), and each of their parts is determined by bars and
publications before the boundary, from which on every later step only adds (`Later`).

For live candidates, under `CalendarSensible` alone: `LiveIsTrainedCorrect`. The invariant says of each candidate that its
triggers are the events the cycle was waiting for (`Awaited`), that the sessions of its
history had closed when it was built and what hindsight would add to it opens later
(`Assembled`), and of each event taken that some candidate of its session was ranked with its
company (`WasRanked`).

For a generation of strategies, for any rows, horizons and data, and any learner that picks
rows of the year it is given (`PicksSensible`): `ShadowReproducesCorrect`. It follows the
three commands: the report is written once, a qualification that finishes has found the
report's results again, and the freeze compares against that same report. Two more assumptions
are needed. One screener runs at a time (`OneScreening`), because the report's absence is tested
at the start only. And no part of the model year's rows earns what all of them do
(`TotalsTell`), because the freeze does
not compare the trades of the year but those of the rows it kept, and the year's total
(`_freeze_one`): see the findings. `FreezeTrainsCorrect` needs no assumption: the fence
changes a row's exit, the execution filters look at everything else.

For the backtesters, for any plan, returns, liquidity, links and limits (`TimesSensible`:
days are numbers): `DecisionsIgnoreFutureCorrect`. What a day reads of a market is made of the
positions due, the day's candidates and earlier bars (`DayReadsPast`), and what two markets
have shown alike by a day they have the day before (`PastIsShared`); the rest of a day is the
same function of the same book, so the proof looks into no fold.

That engine and legacy backtester agree is `EngineMatchesLegacyCorrect`, for finitely many
candidates, any non-negative limits, and as long as `RoomTomorrow` holds
(`TradesSensible`). The two do different things: the legacy backtester considers a day's
candidates one by one and reads the book as it stands, the engine allocates the whole batch
against the morning's snapshot and fills afterwards. The argument: an entry moves cash into a
position and leaves the equity alone, so both compute the same share all day. What the
allocation has chosen is covered by the morning's cash, since the exposure limit is at most the
equity (`Covered`), and the legacy book, after the same candidates, is the morning's book with
exactly those positions (`LegacyFollows`, `Grown`); so is the engine's when it has filled
them. Both days are folds; `Walk` has their values from the end of a day's candidates to its
beginning, and `EveryRest` is the induction over them.

For the arena, for any number of strategies and any observations (`ContestsSensible`, as
`ArenaPolicy` validates): `WeakOnesIgnoredCorrect`, because a fitness ranks the pool only and
a cleared strategy's next lifecycle can be read off its present one (`ClearedBecomes`). And,
for finitely many strategies and positive caps (`StrategiesOrdered`, `LimitsSensible`),
`SharesFairCorrect`. The loop of `_capped_proportional_weights` caps who would get too much
and divides the rest anew. Its invariant is that shares of the open ones stay in proportion to
their strength, that whoever is capped is stronger than all who are not, and that what is left
is what the open ones must add up to. It rests on lemmas about sums over finite sets: a sum
does not depend on the order, splits along a partition and scales.

**Types.** `RuntimeTypeCorrect`, `GenerationTypeCorrect`, `MarketTypeCorrect`,
`TrainingTypeCorrect`, `CalibrationTypeCorrect`, `ReplayTypeCorrect`, `HistoryTypeCorrect` and
`ArenaTypeCorrect` are the types of the eight components. Two say more than their name. A
backtest never spends cash it does not have nor holds what it paid nothing for, whatever the
market does. A saved calibration's rows keep to the candidates' dates and the scale of the
scores, whatever was pruned, rewound or lost; since `None` stands for a file that is not there,
this assumes that `None` is no calibration (`NoOverlayApart`).

**Bundles.** What run `research` checks is proved of `Research`, for all constants at once,
by showing that a behaviour of a scene is a behaviour of its module (`RuntimeScene`,
`ArenaScene`, ...), and nothing in any other scene:

| Theorem | Property | Hypotheses beside the assumptions of `Research` |
|---|---|---|
| `TypeCorrect` | `TypeOK` | `NoOverlayApart` |
| `StrategiesSoundCorrect` | `StrategiesSound` | `Legacy \notin Challenger` |
| `RuntimeKeptCorrect` | `JobsKeepRuntime` | `Apart` |
| `FinishedIsCompleteCorrect` | `FinishedIsComplete` | |
| `ReproducibleCorrect` | `Reproducible` | `NoOverlayApart`, `OneScreening`, `TotalsTell` |
| `NoLookAheadCorrect` | `NoLookAhead` | `Fence = Horizons` |
| `SameResultCorrect` | `SameResult` | `NoOverlayApart`, `RoomTomorrow` in the backtest |

The hypotheses hold of the instance by the values of its constants, but for two:
`RoomTomorrow` is about behaviours, and the run checks `SameResult` without it; and `Apart`
excludes sessions beside jobs, with which the run checks `JobsKeepRuntime`. The
assumptions of `Research` are evaluated by TLC in every run of `MCResearch`.

## 5. Only model-checked

Liveness (`PendingResolves`, `DecisionPublished`, `EntriesSettle`, `PositionsClose`,
`IntakeProceeds`, `PendingEnds`, `InvalidatedLeaves`), because the prover does not reason
about fairness; the equality of engine and legacy backtester where `RoomTomorrow` does not
hold; and everything the bounds above limit. All other properties of the runs are proved.
`FillsOnTheirSession` is checked by `progress`, on a calendar of four sessions, and is proved
of `PaperLedger` itself (`FillsCorrect`, `ExitsNeverWaitCorrect`), so no theorem names the
property of the run.

The library's induction theorems take an operator as a parameter, which no installed prover
can instantiate. Sums and folds over finite sets are nevertheless proved: the induction is
one over a set of sizes, stated once (`EveryNumber`, `EveryFiniteSet`, `EveryRest`), and each
use gives the set of numbers, subsets or remaining candidates for which its claim holds.

## 6. Findings

**A shared filing stops the pipeline** (`intake_shared`). A Form 4 whose issuer
and reporting owner are both modelled companies is in both submissions documents.
The first feed makes its events pending under its CIK; the second feed's
`commit_filing` finds them under another CIK and raises, outside the `try` of the
poll. The pipeline ends before its cycle, which alone could retire the events. A second feed
with a watermark of its own, older than the filing, meets it again in every later run, so that
all of them end in the same way; this is the run's instance, and its days go on until the filing
is older than a first poll's lookback. A second feed without a watermark skips such a filing
(`event_intake.py:286, 295-296`), and the pipeline goes on after that many days.

**Recovery beside a poll loses a filing** (`intake_overlap`). The recovery tool
takes no lock. Started between a poll's quarantine record and its queue commit,
it finds the watermark behind, chooses `commit_filing`, and by then the poll has
moved the watermark: nothing is enqueued, yet the recovery is recorded and the
quarantine record removed. Under the lock `ResolvedIsDurable` holds.

**An acknowledged batch without audits** (`audit_gap`). The docstring of
`run_current_paper_shadow_cycle` promises that no event id is acknowledged until audits,
diagnostics and calibration of its batch are durable. A crash after the ledger save and before
the audits refutes it: the next run rebuilds the receipt from transaction and ledger,
reconciliation acknowledges the events, and the audits of that batch are never written. Run
`audit_gap` is the shortest such behaviour. What does hold is `CalibratedBeforeDecision` and
`HonestCompletion`: the state files then stay tagged as evaluated, never as completed.

**A stored response hides a missing bar** (`stale_prices`). The resolver's docstring
says that provider coverage that lags the completed session fails closed. The
coverage it checks is the vendor's metadata; the bars come from the backfill, which
takes a stored response of the same name before it asks. The lifecycle and the
refresh store responses under these names earlier in the evening: one received
before the vendor had the last bar is used again once the metadata covers that
session, and the synchronisation reports ready without the bar. What does hold is
`AskedFor`: a missing session was asked for, or lies between stored bars.

**A hole between stored bars** (no run of its own; met in the proof of `AskedFor`).
`_missing_date_ranges` (`backfill.py:309-327`) compares a window with the first and the last
stored bar and asks for what lies before and behind them. After a long pause a window may
begin behind the last stored bar, and its answer leaves a hole. Windows begin 400 days before
the batch's first event (`current_market.py`), so a later batch of the same close with an
earlier event reaches back into the hole, and does not ask. What is missed are the sessions by
which one window reaches further back than another of the same close; `AskedFor` excepts them
(`Hole`), and `AskedForCorrect` proves that nothing else is missed.

**The V5 fence is twenty sessions for a sixty-session label** (`v5_maturity`).
`annual_walk_forward_splits` documents that systems of several horizons must pass
the latest exit. The freeze of the V5 champion and four experiments use its default,
the exit of the stored target, so that validation rows late in a year bring returns
of the test year. The maturity-safe screening, qualification and freeze pass it;
with their fence `HindsightIsPointInTime` holds in `research`.

**Stored contract events that no poll recovers** (no run of its own). The comment before the
event write (`run_current_usaspending_shadow.py:613-615`) says that after a crash "the overlap
poll recovers the stored event". It does so only if it meets the award and resolves it again.
`NoOrphan` names what it excuses; each part stands for a behaviour in which the watermark
passes a stored, unqueued event:

* *A listing that moves* (`Moved`). Awards are listed in the ascending order of their last
  modification (`contracts/client.py:109`). When one on a page already read is modified again
  while the poll goes on, all later ones move one place forward, and the first of the next page
  comes to stand on the page just read.
* *An award that has become ambiguous* (`run.unmapped`). The run that died had resolved the
  award by an alias of its recipient. In the next, an award of the same parent is read first,
  under another company; its parent's UEI enters the run's index (451-453), the award now has two
  candidates and is dropped (428-438).
* *A row without one detail* (`run.unmatched`, 541-558).
* *An action grown too old* by the time of the next poll (`StaleAction`).

Without any of the four, run `lanes` finds a behaviour; `NoneOrphaned` proves that there
is no fifth. New transactions are passed over in the same ways, but that no file shows. A stored
event of an award without a recipient's UEI, known by its parent only, may meet the opposite: when
its parent is put under another company first, every poll raises at 585, for as long as the
watermark, which then stays, has it in its window (`CompanyChanged`).

**A failed freeze that is not cleaned up** (no run of its own). The handler of
`freeze_maturity_safe_finalists` says "Clean every path created by this invocation so a failed
freeze can be retried safely" (`lightgbm_strategy_freeze_executable_maturity.py:300-301`). Two
raises are excepted by `FailedFreezeRetries`. The summary is written (291) after the registry's
save (261) but inside the `try`: when it raises, the handler deletes manifests and model
directories that the registry now names as SHADOW, the loader of every run fails, and the retry
finds the variants registered; `JobsKeepRuntime` excepts the same step (`LateRaise`). And a
manifest is listed for removal only after its write returned (220-221): when that raises
half-way, the torn file stays and the retry's preflight refuses it (150-151).

**A freeze undoes a session** (no run of its own). The freeze saves the records it read hours
before (127, 241-266). What an operator's session saved meanwhile is lost: a retired strategy is
active again, a promotion undone. If the session had retired what could not be loaded, the runtime
is broken again. `JobsKeepRuntime` excepts this save (`StaleSave`); that the champion is tradable
holds even then (`ChampionTradable`).

**A trade that earned nothing** (no run of its own; met in the proof of `ShadowReproduces`).
`_freeze_one` (`lightgbm_strategy_freeze_executable_maturity.py`) compares the replayed trades
of the model year with the qualified ones of the rows it kept, and the year's total with the
qualified total. When the data lose a row between qualification and freeze whose trade earned
exactly nothing, neither shows it: the strategy is registered with a scorecard that has a
trade its model year does not; likewise when it loses several whose returns add up to nothing.
`TotalsTell` leaves out exactly such returns.

## 7. Not modelled, and the plan

* **Amounts** in the ledger: cash, shares and prices of fills. A late BUY can be
  sized with the proceeds of a SELL of the close of its own session
  (`prices.py:63`), and a split changes the basis of adjusted prices; both are
  listed as hazards. The live cycle's gross-exposure cap only restricts the
  allocation further.
* **Numerics**: training, scoring, features. They are operators or constants here.
* **Parsers, download clients and language-model enrichment**: input and output;
  their failures are the raises of the models.
* **Single-run reports**: attribution, profit proofs and diagnostics keep no state that survives them.
* **The lock's own steps** (create, write, unlink, stale owner): every model
  takes one pipeline at a time as given, except where a tool takes no lock.
* **Instances not run**: `Rebootstrap` of `StrategyRuntime`, a second bootstrap by an operator,
  which overwrites the champion's manifest before it refuses; overlapping screenings in
  `StrategyResearch`; a second scorecard batch, whose states exceed what a run can hold.
* **Universe files**: a command that writes a universe over an existing file (see section 2).

What would come next, in this order: the session guard as a function of the clock, the lock's
steps, and amounts in the ledger.
