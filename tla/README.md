# axile: a verification project

axile is a trading-execution service: a FastAPI server that turns requests, cron jobs and
supplement plans into executions, one worker process per trading account that talks to the
counter, and a web interface. This directory holds TLA+ models of its control logic, the TLC
configurations that check them on small instances, and TLAPS proofs for arbitrary ones.

Contents: [inventory](#inventory) · [modules](#modules) · [runs](#runs-and-what-they-show) ·
[fairness](#fairness) · [findings](#findings) · [proofs](#proofs) · [limits](#what-is-not-modelled) ·
[plan](#plan) · [how to run](#how-to-run)

## Inventory

Paths are below `src/axile/`. "Correct when" names what the models state or will state.

### The execution control plane (`server/execution/`)

One asyncio process; coroutines interleave only at `await`. Everything below is keyed by account.

| Component | State | Operations | Hard behaviour | Correct when |
|---|---|---|---|---|
| intents.py | rows `execution_intent` (QUEUED, RUNNING, TERMINATING, five final statuses); unique indexes: one queued and one running row per account | submit (conflict table: create, coalesce, supersede, busy), compare-and-set, promote, close | rows are read before an await and used after it; some routes act without the account lock; look-then-update in `mark_intent_finished` | one ticket waits, one runs; closed stays closed; every ticket gets its turn |
| registry.py | `_execution_tasks` (status, cancel event, task), running, queued and refresh slots, eviction timers | register, terminate, finalize, evict | termination races with promotion and with the end of the run | one user of the channel at a time; a written stop is heard; slots come back; entries go |
| dispatcher.py | `_dispatch_tasks`: one loop per account | wake, load, launch, collect, leave; recover at start | wake during departure; retry while a refresh has the channel | a waiting ticket is not forgotten |
| lifecycle.py | the execution task and its locals | bind, run, record, tell, close, unwind | asyncio cancellation at every await; errors at every step | every run is closed and gives its slots back |
| records.py | rows `execute_record`, unique per execution id, the first stays | append success, error, terminated | two ends of one execution; crash between record and row | rows and records agree |
| rebalance.py, clear_positions.py, backend.py | none of their own | compute a target, promote, run, record | fail before or after the promotion | see lifecycle |
| scheduler.py | in-memory jobs | submit at cron times | coalescing with manual requests | modelled as a source of requests |
| supplements.py, supplement_notifications.py | groups (active, completed, cancelling, cancelled), steps (pending, queued, finished, cancelled), links to tickets | create, fire, attach, cancel, settle, expire, recover | cancellations without the lock race with the end of a ticket | a group ends once, is reported once and never hangs |
| notification_outbox.py | rows `notification_event`, runner per account, `_rerun`, `recovering` | enqueue, wake, call, store, recover | crash around the call; wake that meets a leaving runner | at most once, in order, none forgotten |
| account_runtime_sync.py | rows with revision, status, rebuild flag; a lock per account | enqueue, attempt, write back, recover | the account changes, is cleared or deleted during an attempt that takes minutes | synchronized means the account as it is; a rebuild request is not lost; a deletion leaves nothing |
| resident_connection.py, live.py | executor of the account, connected, tried, cooling down, switched off; progress of a run | resolve, build, confirm, fail, reconnect, recover; publish, evict | a front that breaks under a query; requests, order commands and the monitor share one session | a complete list of orders is current; nothing replaces the session of a run; logins are spaced |

### The worker backend (`server/execution/worker_backend/`)

| Component | State | Operations | Hard behaviour | Correct when |
|---|---|---|---|---|
| manager.py, protocol.py, orders.py | one handle per account (process, command pipe, stop pipe, order pipe, request lock), the pending order command, the live session | compute, prepare, execute, read, order command, drop, shut down; kill and replace | limits of time on every wait, late answers, an order command carried out after its time-out, a stop that overtakes its run, a worker that is replaced while others wait for it | a request is carried out at most once and the truth is told about it; a stop reaches its own run; everybody comes back |
| worker.py, worker_state.py, worker_requests.py | active run, requested stops, resident executor | command loop, control thread, order thread | hangs, dies, asks to be replaced | see manager |
| order_monitor.py | adopted executor, retry time | sample, repair | only tries the lock that everybody else takes | the list of orders heals |

### The executor (`executor/`)

| Component | State | Operations | Hard behaviour | Correct when |
|---|---|---|---|---|
| execution_engine.py, execution_session.py, execution_runtime.py, termination*.py | plan of a run, results and terminations of its threads, deadline and stop | plan, withdraw, reduce, increase, merge, stop | threads per symbol; a stop meets each of them somewhere else; orders whose end nobody saw | nothing is increased before everything is reduced; a success is one; a stop ends the run and is recorded with what it left behind |
| algorithms/utils (order_tracker, order_helper, outcome), algorithms/defaults | pending and completed orders, chases, buffered reports | submit, wait, chase, give to the market, sweep | callback threads; reports early, late, twice; cancellations that come too late | a line never trades more than it was asked to; done means done; what ended stays ended |
| account_control (with its part of the server) | counts and queue of an account, baselines, rows per context | permit, wait, refuse, flush, sample | counts in memory until a context ends; lost workers; minutes and days that end | no more orders than the rules allow; no false alarm; counts written once; waiting ends |
| account_orders.py, ctp/ | order book, session, queries in flight | push, query, reconcile, place | answers of an old session, a front that breaks | see resident_connection.py |
| futures_close_policy.py, query runtime, catalogue, gm/, tq/ | caches, vendor sessions | convert, query | vendor callbacks | not modelled, see below |

### The rest

API routes, connection state (sessions of which only the current one may speak), event streams,
evidence export, performance analysis, migrations, CLI, web interface: see `PROJECT.json`, which
lists every component with its status, and every hazard with the properties that cover it.

### How the modelled parts interact

A request, cron job or step calls `submit_intent` under the account lock. It inserts a row, fills
the registry and wakes the dispatcher. The dispatcher loads the queued row, launches a task and
waits. The task computes a target, promotes its ticket (lock, channel slot, compare-and-set), lets
the worker trade, records the result, tells the registry, closes the row and gives the slots back.
Terminations and cancellations change the row first and the registry afterwards; two routes do the
former without the lock. Closing a row also settles supplement groups and writes notification
events in the same transaction, after which the outbox is woken.

"Lets the worker trade" is a request through the manager to the worker of the account. The worker
has the account's one connection, which runs, pages, order commands and the monitor share, and hands
the run to the engine of the executor. The engine starts a thread per symbol, each with a session, a
tracker and orders; the account control stands before every call to the channel. A stop travels the
same way: the registry's event, the stop pipe, the checkpoints of sessions, engine and guard.

## Modules

| Module | Models | With |
|---|---|---|
| `ExecutionControl` | the control plane of one account, with crashes and recovery | `MC…`, `…Proofs` |
| `TicketLedger` | its abstract specification: a ledger of tickets and a channel | `ExecutionControlProofs` |
| `NotificationOutbox` | the outbox of one account, with faults, crashes and recovery | `MC…`, `AccountControlProofs` |
| `AccountRuntimeSync` | scheduler job and worker of one account, brought into line with its settings | `MC…`, `…Proofs` |
| `Supplements` | groups and steps of one account and the tickets they share | `MC…`, `…Proofs` |
| `WorkerBackend` | threads of the server, handles, pipes and worker processes of one account | `MC…`, `…Proofs` |
| `RequestLedger` | its abstract specification: a ledger of requests | `WorkerBackendProofs` |
| `AccountConnection` | the one connection of an account inside its worker, its order book and its monitor | `MC…`, `…Proofs` |
| `AccountControl` | limits, counts and queue of an account across runs, order commands and catalog queries | `MC…`, `…Proofs` |
| `SymbolDispatch` | one run inside the executor: two phases, a thread per symbol, stops, merged results | `MC…`, `…Proofs` |
| `OrderTracker` | the orders of one algorithm: chases, fallback to the market, reports | `MC…`, `…Proofs` |

`MC…` modules hold definitions for TLC, `…Proofs` modules inductive invariants and theorems.
`AccountControlProofs` extends two models, that of the guard and that of the outbox which its warnings
go through, so the latter's common names carry a prefix (`OutboxInit`, `OutboxNext`, …). They share no
state and are not composed: each theorem is about one of the two specifications.

One account is enough: every slot, lock, index, dispatcher, runner, handle, connection and guard is
keyed by account id, and nothing in them looks at two accounts. (The catalogue and the channel of a
currency are shared, and not modelled.)

### ExecutionControl

State. `status`, `kind`, `stepOnly`, `started` and `record` are the database and survive a crash:
`stepOnly` holds the tickets that only supplement steps ask for. `mem`, `signalled`, `owned`,
`evicting`, `runSlot`, `queSlot` and `refresh` are the registry. `ctl` is the coroutine that holds
`account_lock` with its locals, `task` the execution task, `disp` and `dseen` the registered
dispatcher, `leaving` and `leavingSeen` count dispatchers that have deregistered but still run the
awaits of their `finally` clause.

Granularity. An action is the code between two awaits, or one transaction. What the code reads
before an await and uses after it is stored (`ctl.run`, `ctl.que`, `dseen`, `leavingSeen`,
`task.out`). Two facts of the environment matter:

- SQLite under SQLAlchemy's default driver begins a transaction at the first write. A session that
  selects, decides and writes is therefore two actions when another writer may come between
  (`TaskLook`, `TaskMark`), and one where nothing else can write to that row or where it would
  write the same (`Finished`).
- `asyncio.Task.cancel` ends a task that has not reached its `try` block, and sends one inside it
  to its `finally` clause (`Cancelled`).

| Actions | Code |
|---|---|
| `SubmitBegin` … `SubmitSuperseded` | `submit_intent`, `_submit_intent`, `_coalesce`, `_insert_intent`, `ensure_memory_from_intent`, `_supersede_queued_with_clear` |
| `StopBegin`, `StopReap` | `cancel_groups_locked`, `reap_cancelled_queue`, the terminate route; an account update that cancels does the same under the same lock |
| `StopQueued` … `StopFinalize` | `terminate_running_account_execution`, `_terminate_one_execution`, `_finalize_terminated_queued_execution` |
| `RevokeUnlocked` | whoever revokes without the lock: the one-click clear, and the close of a run that found the whole session over (`supplement_notifications.py:191`) |
| `Disp…`, `Leave…` | `_dispatch_account`, `_run_claimed_intent` |
| `TaskBind` … `TaskUnwind` | `_run_execution_task`, `promote_intent_to_running`, `mark_intent_finished` |
| `RefreshBegin`, `RefreshEnd`, `Evict` | asset and target refreshes, the eviction timer |
| `Crash`, `Recover…` | death of the server; `recover_supplements`, `recover_intents_on_startup` |

Abstractions. Payloads, reasons, times and algorithm names are dropped. Of a supplement group only
its effect on tickets is kept: `StopBegin` and `RevokeUnlocked` revoke what `revoke_cancelled_intents`
would, and a ticket of steps may fail `validate_execution_requests`. What a run returns is one of
`Outcomes`, a failure or a termination; a run may also raise after its record was written. The
`IntegrityError` handlers of `submit_intent` are not modelled, because they are never entered:
`IndexesNeverBite`, which is proved.

### TicketLedger

What the control plane promises without its machinery: `Admit` only into an empty queue, `Start`
only on a free channel, `RequestStop`, `Withdraw`, `Close`, refreshes on a free channel. `Amend`
(TERMINATED becomes FAILED) is there because the code does it; see the observations below.
`RefinesLedger` states that `ExecutionControl` implements it, by identity on `status` and `refresh`; it
is checked in a run with a crash, and proved.

### NotificationOutbox

State. `status`, `seq` and `last` are the table with its autoincremented sequence; `calls` counts
calls of the user's function and is a history variable; `waking` holds events whose enqueuing
coroutine has committed but not yet called `wake_notifications`; `runner`, `event`, `rerun` and
`soon` are the runner of the account, the `_rerun` flag and a wake handed to `call_soon`; `phase`,
`unsure` and `due` are start-up recovery. A runner commits "calling" (`RunTake`), calls (`RunCall`) or
finds no function (`RunSkip`), and commits the result (`RunStore`) without looking at the status
again. `RunFault` is an exception at any of these points. The summary tables are left out.

### AccountRuntimeSync

State. `alive`, `sched`, `channel` are the account with the two settings that decide its runtime;
`rev`, `state`, `reset` are its row of `account_runtime_sync` (`rev = 0`: none), `tried` the revision
of its newest attempt record. `job` is the scheduler's job, identified by its cron expression,
`worker` whether the manager has a worker. `run` is the holder of `account_runtime_lock` with the
snapshot of `_begin_attempt`; `waiting` says that a reconciliation waits for the lock. `patch` and
`clear` are a change of the account and a one-click clear between their read and their last step,
`recovering` start-up. `need` and `dropped` are history: the revision of the last rebuild request
and the one the last dropped worker was dropped for.

| Actions | Code |
|---|---|
| `Retry`, `LockTake` | the retry route; `reconcile_account_runtime`, `reconcile_scheduled_account`, connection and delete routes waiting for the lock |
| `Begin` … `Finish` | `_begin_attempt`, `_apply_account_job`, `reconcile_china_channel_account`, `_prepare_runtime_target`, `_finish_attempt` and the loop of `_reconcile_locked` |
| `Connect`, `DeleteRow` … `DeleteWorker` | `_connection_operation`, `delete_account` |
| `PatchRead`, `PatchCommit`, `PatchGone` | `update_account` with `apply_patch` and `enqueue_account_runtime_sync` |
| `ClearRead` … `ClearJob` | the schedule part of `empty_all_positions` |
| `WorkerDies`, `Crash`, `Recover` | external; `recover_account_runtime_on_startup` |

Abstractions. Portfolio binding and supplement settings, which also decide the job, change together
with the cron expression in `sched`. Reconciliations that wait at the same time are one, since each
takes its snapshot once it has the lock. Connecting is one step that leaves a worker or not. Copying
an account takes the lock of its source and changes nothing of it, so it is left out. A
reconciliation is cancelled only when the server stops, which is a `Crash`.

### Supplements

State. `now` is the time in steps of the plan, `group`, `step` and `row` are tables, `slot` the
queued slot in memory, `busy` who holds the account lock over an await, `doomed` the groups somebody
waits to cancel, `due` the expiry jobs, `clear` the one-click clear with what it has read. `started`
and `config` stand for the switch and the fingerprint of the account.

| Actions | Code |
|---|---|
| `CreateGroup`, `Tick` | a base trigger and the times of its steps |
| `SubmitRefused`, `Insert`, `Coalesce`, `Attach` | `fire_step`, `submit_intent`, `attach_step` |
| `Validate`, `Claim`, `FailEarly`, `EndRun`, `ReleaseSlot` | what steps notice of a ticket's life: `validate_execution_requests`, promotion, `settle_groups` at its end |
| `CancelGroup`, `Terminate`, `Update`, `ClearReads` … `ClearEnds` | cancellations with the lock, and the routes |
| `ExpireGroup` | `expire_group` |
| `Crash`, `RecoverGroup`, `RecoverIntents` | `recover_supplements`, `recover_intents_on_startup` |

Abstractions. Steps fire in their order, step 0 first; a late step is one that waits for the lock.
The expiry job is never missed, only late. Validation is one step. A ticket that clears positions
is one that runs; TERMINATING is seen as running. Calendars and times of day are gone.

### WorkerBackend and RequestLedger

State. `plan` is what each thread of the server is going to ask, one request after the other;
`workers` the registered handle, `handle` the lock, the retired and open flags and the instance of
each handle; `pipe` commands, answers and stops under way; `orders` the channel of the order commands
with its lock, the command that is pending, its own pipe and what the worker's order thread is at;
`worker` the process; `session` the live session of the account; `call` where each thread is; `result`
what it was told. `begun` and `carried` are history, which the refinement maps to the ledger.

| Actions | Code |
|---|---|
| `Begin`, `Get`, `Lock`, `Send`, `Receive`, `TimeOut`, `Broken` | a request through the manager: find or spawn a worker, its lock, check, send, wait with a limit |
| `AskStop`, `PassStop`, `ForceStop` | a stop on its own pipe, and its grace period |
| `Kill…`, `Dispose…`, `RetireIdle`, `Unregister` | replacing, dropping and closing workers |
| `OrderBind`, `OrderLock`, `OrderBusy`, `OrderSend`, `OrderReceive`, `OrderBroken`, `OrderTimeOut` | order commands on their own channel (`OrdersChannel` in `orders.py`): the lock, the answer of the last command that must be received first, the command, its answer or time-out |
| `OrderTake`, `OrderCarried` | the order thread of the worker (`serve_orders`), beside the command loop |
| `Take`, `Hear`, `Connects`, `Obey`, `Answer`, `AskReplacement`, `Leave`, `Die` | the process: command loop, control thread, the end of a run, death |

Time is abstract: a wait that has a limit may reach it at any moment.

An order command that times out is not taken back (`orders.py:47`). Its asker hears that the outcome has
yet to be confirmed, which is the result "unconfirmed". A worker that nobody uses is dropped then; when
the request lock is taken or a run is registered, `_retire_idle_order_timeout` keeps the worker
(`manager.py:769`), and the order thread carries the command out later. The next order command first
receives the answer that is pending, and times out itself while there is none.

`compute` is `calculate_portfolio` for a run. The manager passes a stop on during it
(`manager.py:869`), but the worker only activates the stops of `prepare` and `execute`: the stop
stays among `pending`, where the preparation of the same run would find it, and what ends a hanging
computation is the grace period of the waiting thread. `Stoppable` is this difference.

`RequestLedger` says what callers rely on: a request is started once and carried out once, it is
reported as answered or stopped only if it was, and nothing is done for it after it was reported as
failed. Of a request reported as unconfirmed it promises less: it may still be started and carried
out, but once. `RefinesLedger` states that threads, pipes and processes implement it; it is checked, and
proved.

Abstractions. Progress of a CTP login, which only stretches a limit, and the pipes of catalogue and
monitor are left out. Disconnecting is a request like the others. Both locks of a handle are waited for
as a whole: the channel's lock gives up at any moment when it is taken. A worker that leaves its
command loop takes its order thread with it in the same step.

### AccountConnection

State. `market` and `wire` are the exchange and the pushes under way, `phase` the session of the
resident executor, `book` its order book with mark and versions, `syncs` the queries in flight;
`lock` the resource lock and `pc` its three kinds of users; `once`, `tried`, `error`, `hot`, `off`,
`moved` the fields of the resident state; `adopted`, `enabled`, `due` the monitor.

A query notes the book's version, its rows arrive later, and installing them must not undo what
pushes have said since (`Asks`, `Answer`, `Install`). `LogIn`, `BecomeReady`, `ConnectFails`,
`Confirm` are a connection attempt; `MainAsked` … `RunEnds` requests and runs; `CommandAsked` …
`CommandEnds` order commands; `Sample`, `RecoveryEnters` the monitor and its recovery.

Abstractions. A CTP session that breaks is never repaired in place; channels whose SDK reconnects by
itself (TQ, GM) are not covered. The account's configuration is constant. The callback of a broken
front is one step. Reasons are one value. Failing to close a session is left out.

### AccountControl

State. `ctx` is a context (a run, an order command, a catalogue query) with its guard: the baseline
it has read, the counts it has added, what it waits for; `lock`, `active`, `queue`, `quota` the
worker's resource lock, the registered guard, the queue and the shared counts; `saved` and `row` the
database; `seen` the row that the sampling server thread has read and not yet written. Buckets are
named for the current minute and day; `NextMinute` and `NextDay` empty them.

`LoadCounters`, `CheckHistory`, `Ready`, `InsertRow` are the beginning of a context (baseline,
`has_incomplete_risk_history`), or `Borrow`, when an order command uses the guard of a run; `Ask`,
`Allow`, `Block`, `Quit` a request for a permit; `Flush`, `FlushFails`, `FlushBorrowed` the end.
`LoseWorker`, `NewWorker` and `RestartServer` are what fails, `MonitorReads` and `MonitorMarks` the
sampling of the server, which marks the rows of runs it finds gone.

Abstractions. Limits by symbol and minimal intervals, warnings, late outcomes of events. The page
contexts for assets begin and end like the ones modelled. An order command has no time limit here.

### SymbolDispatch

State. `pos` and `target` are the position of a symbol and the volume it is to have, `ord` its latest
order as the exchange has it, `asked` and `expired` what the operator asked for and whether the time
is up; `main`, `one`, `two` the engine and the symbols of its phases; `got` the statuses of a
symbol's results; `th` the thread of a symbol; `first` the first thread that a stop has ended;
`rec` what is recorded of the run.

| Actions | Code |
|---|---|
| `Plan`, `Prepare`, `PhaseOne`, `SkipTwo`, `PhaseTwo`, `Output` | `_build_symbol_algorithm_plans`, `_classify_symbol_dispatch_phases`, `_prepare_account_for_symbol_dispatch`, `_run_phase_one_dispatch`, `_run_phase_two_dispatch`, `_create_standard_output_from_results` |
| `Begin`, `Read` … `Final` | SINGLE-MAKER over `_submit_close_open_orders`: read, size, checkpoint, place, wait, give up, confirm, `summarize_outcome` |
| `SessionStop`, `CleanQuery`, `CleanCancel`, `CleanVerify` | the checkpoint of a session and its withdrawal |
| `GuardStop`, `EngineStop` | the checkpoint of the owner, which withdraws nothing: calls that wait for quota, the engine |
| `Recovery`, `EngineFails`, `Join` | errors that ask for a new session; the end of the pool with `_merge_symbol_terminations` |
| `Ask`, `Expire`; `Fill`, `EndOrder`, `Report` | the operator and the clock; the exchange |

Abstractions. Volumes are small integers and fills are lots. Prices and quotes only decide whether a
symbol can be planned or a book is usable. Of the tracker remains what it has seen of the order it
waits for, of the guard that every call may wait as long as it likes: `OrderTracker` and
`AccountControl` have the rest. The algorithm is SINGLE-MAKER without chasing, on a channel whose
orders open or close. Every built-in channel dispatches in parallel, so the serial path is left out;
a queued thread may begin arbitrarily late, which covers small pools. A symbol has one order alive at a
time, while `_place_offset_leg` (`order_helper.py:549-593`) may put several chunks of one leg there at
once (today's and yesterday's positions, the maximal volume of an order): what the model says of
withdrawing and of orders whose end nobody saw is said of one of them. Orders of earlier runs, and
what remains of them after `cancel_all_orders`, are left out.

### OrderTracker

State. `exch`, `cancelling` and `reports` are the exchange and the reports under way; `book` is what
the tracker's lock protects (pending, completed, fills seen, chase contexts, the chased order,
batches of the fallback, early reports buffered by order, the signal); `pc` … `result` the thread of the
algorithm, `job` and `replay` what each thread has in hand outside the lock; `expired` the deadline.
`lost` is history: lines whose replacement nobody tracks (see the observations).

Actions follow `add_order`, `on_order_update` with `_merge_order_update` and the early buffer,
`_wait_callback`, `_check_and_chase` (choose, claim, cancel, confirm, place, register),
`_fallback_to_market_order`, `_submit_market_fallback_batch`, `_query_pending_orders` with
`_reconcile_missing_pending`, and the sweep at the end of a wait.

What is at stake on a line is a set of lots (`AtStake`): those that its orders have traded and those
that its open orders may still trade. `NoDoubleExposure` counts them.

Abstractions. `Replace` and `PlaceChild` take a placement that raises for one that left no order at the
exchange, as `order_tracker.py:903-951` and `1218-1268` do, which then only note the error of the line. For CTP this is what happens, since the native insert either goes out or raises; a channel
whose call raises after the exchange has taken the order (`SymbolDispatch` has this case for the first
placement) would leave an order that no list knows, and `NoDoubleExposure` says nothing of it.
Prices and intervals only decide whether an order is chased: free choices. Trade
records are left out: the last report of an order carries all of its fill.

## Runs and what they show

| Run | Instance | States | Shows |
|---|---|---|---|
| `control_safety` | 2 tickets, all requests and stops, 1 refresh | 0.95 million | `TypeOK`, `ChannelExclusive`, `StopIsHeard`, `QueuedSlotIsReal`, `IndexesNeverBite`, `NeverReopened` |
| `control_crash` | 2 tickets, requests without steps, terminate, 1 crash | 0.50 million | `LedgerAgrees`, `EveryRunEnds`, `RefinesLedger` |
| `control_live_steps` | 2 tickets, steps, cancel, 1 refresh, 1 crash | 0.36 million | `DispatcherServes` |
| `outbox_delivery` | 1 event, 1 warning, 1 fault, 2 crashes | 67 thousand | `AtMostOnce`, `InOrder`, `EveryEventEnds` |
| `sync_attempts` | 2 cron values, CTP and TQ, 2 revisions, 1 clear, 1 crash | 0.7 million | `TypeOK`, `SyncedJob`, `RebuildDone`, `DeletedLeavesNothing`, `EveryTargetTried` |
| `supplement_groups` | 2 groups of 2 steps and 1, 2 tickets, 1 request, 1 route, 1 crash | 0.29 million | `CancelledNeverRuns`, `StepsEnd` |
| `worker_requests` | 10 plans of up to 3 threads and 3 requests, 4 workers, 1 death or replacement | 0.17 million | `IdleIsIdle`, `StopReachesItsRun`, `RefinesLedger`, `EveryRequestEnds` |
| `account_connection` | 1 order, 2 faults, 4 requests | 0.53 million | `CompleteIsCurrent`, `RunKeepsItsSession`, `LoginsAreSpaced`, `BookHeals`, no deadlock |
| `account_control` | run, order command, run; catalogue query, run; 2 operations each, 1 fault | 76 thousand | `QuotaKept`, `NoFalseAlarm`, `RecordsComplete`, `Served` |
| `symbol_dispatch` | 2 symbols, 2 worlds, 2 orders per algorithm, 1 failing call, cancel_pending | 0.44 million | `ReducedFirst`, `SuccessIsTrue`, `CleanedIsReported`, `StopIsRecorded`, `StopEndsTheRun` |
| `tracker_orders` | 2 lines, 2 lots, 1 chase, 1 order that ends by itself | 1.4 million | `NoDoubleExposure`, `DoneMeansDone`, `NeverRevived` |
| `clear_undone` | expects a violation | – | `StopSticks`, see the findings |

What each property says stands above its definition, with the code it is about. Every property of a
passing run has a mutant in `PROJECT.json`: an operator standing before the definition it replaces,
which breaks the property the way a plausible edit would. `TypeOK` is defined in every module. Two
runs check it; six more modules have it proved (`TypeCorrect`, `AccountTyped`, `OutboxTyped`), and it
held in larger and smaller instances of all of them.

### Bounds

`Ids` are the tickets that can exist; `MaxRefreshes`, `MaxCrashes`, `MaxFaults`, `MaxInterrupts`, `MaxRev`,
`MaxClears`, `MaxRequests`, `MaxRoutes`, `MaxAsks`, `MaxHandles`, `MaxEnds`, `MaxChase`, `MaxVolume`,
`MaxLegs` bound what their names say.

- Control plane: an account has at most one running and one queued ticket, so two tickets make every
  conflict of the admission table happen; a ticket can be coalesced, superseded, stopped, refused,
  refreshed away and dispatched again. One crash reaches every recovery state. Ids are uuids that are
  only compared, so symmetry is sound; liveness runs do not use it.
- Outbox: two events are what an order needs; the proofs cover any number.
- Runtime: two revisions let a rebuild request meet a change that does not ask for one, and an
  attempt run under the older of two. TQ rebuilds before a session, CTP may stay pending.
- Supplements: the groups are one with a step in the middle and one without; a step can share its
  ticket with the next group's or with a request, be cancelled by a route and be missed by a crash.
- Worker backend: the plans put next to a run each of the things that may happen to its worker; order
  commands of one thread and of two follow each other while one is pending. A
  worker that hangs needs no bound, since time limits may be reached at any moment. Four handles are
  one more than any plan uses up.
- Connection: orders are independent of each other except for the book's version numbers; two faults
  let a reconnect fail after a break.
- Account control: the limits are two orders a day, one call a minute (which waits) and one query a
  day, so that both kinds of buckets fill with two operations per context.
- Dispatch: a position is closed before another is opened, or two are reduced side by side while one
  of them changes its side. A safety run with five worlds, two-lot volumes and both modes
  (2.4 million states) found nothing either. Four orders are allowed in the code; a second one is
  enough for what rests on a position read between orders.
- Tracker: two lots let an order be filled in part before it is chased; the second line is the other
  order that a chase, a batch or the signal must not forget.

`CHECK_DEADLOCK FALSE` stands where a finished instance has nothing left to do.

### What some properties leave out

`EveryEventEnds` says nothing once a runner has failed (`interrupts > 0`): the code does not retry, and
the event stays in "calling" until a restart. `SyncedJob` says nothing after a one-click clear, which
changes the schedule without registering it, nor between a restart and the first attempt after it.
`EveryTargetTried` promises an attempt, not a success. `StopIsHeard` is checked without crashes:
after one nothing is working. `QueuedSlotIsReal` excepts a ticket revoked without the lock
(`Stranded`), when somebody may do that at all, but no ticket that was started, stopped or superseded.
`StopReachesItsRun` excepts the computation of the targets, which hears no stop.
`DispatcherServes` only speaks of a dispatcher that is registered,
`DoneMeansDone` excepts untracked replacements, `StepsEnd` steps attached to a ticket that had
ended, `NoFalseAlarm` is about faultless days, `CleanedIsReported` about symbols whose session did its withdrawal: the observations below say
what the code does in the other cases.

## Fairness

`FairSpec` assumes of the control plane: the event loop runs every ready coroutine (weak fairness of
admission, stopping, dispatching, executing, recovery, as groups of the steps of one coroutine), the
timers fire, and a run ends because the worker enforces `execution_timeout`. Strong fairness is
assumed only of `Promoting`: a promotion that waits for the account lock while others take and
release it gets it, since `asyncio.Lock` wakes its waiters in order. Nothing is assumed of requests,
stops, refreshes and crashes; a refresh that started ends.

- Runtime: attempts, connection requests, deletions and recovery go on (each external call has a
  time limit) and, strongly, a waiting reconciliation gets the lock, which is an `asyncio.Lock`.
- Outbox: the same of its runner and recovery; the user's function returns (it has a time limit) and
  the monitor polls for warnings.
- Supplements: time passes, scheduled jobs and coroutines run, a run ends. Nothing of routes,
  requests and crashes.
- Worker backend: the threads of the server go on, where reaching a time limit is a step. Nothing is
  assumed of workers, which may hang.
- Connection: callbacks and whoever holds the lock go on, the monitor samples, cooldowns and retry
  times pass. Nothing of requests and faults.
- Account control: a permit that can be decided is decided, and days end.
- Dispatch: a thread that is to stop notices (checkpoints are polled at least once a second, the
  withdrawal has four seconds), and the engine joins its threads. Nothing is assumed of fills,
  reports, limits of time or quota.
- Tracker: no liveness; the wait ends by its time.

## Findings

`clear_undone` (`expect: violation`; the quoted line is in `PROJECT.json`): the one-click clear stops
the schedule first, so that cron does not interfere; a concurrent change of the account that had read
the schedule before writes the whole column back and starts it again, and its reconciliation restores
the job.

### Observations

What the models showed, or what reading the code for them did, and no run checks any more. Most are
excluded by name from a property.

Control plane.
- A ticket inserted behind a running execution is not announced to the dispatcher
  (`intents.py:542`), which may leave in between; the ticket waits until the next submission or
  restart, although `dispatcher.py:53` promises otherwise.
- The one-click clear revokes a step's ticket but leaves the queued slot, and is then refused as busy
  by the slot it left (`Stranded` in `QueuedSlotIsReal`). So does the close of a run that found the whole session over
  (`supplement_notifications.py:191`), which cancels the groups of its steps in its own transaction.
  `supplements.py:1` says that the account lock serialises triggers, cancellations and admission to a
  run; these two cancellations are not serialised, and may come between a row and its memory entry.
- A crash between a failure's record and the closing of its row (`lifecycle.py:560`) lets the ticket
  trade later, with its result dropped in favour of the failure.
- A close can overwrite another close (TERMINATED by FAILED): `mark_intent_finished` looks first.
- An entry that is stopped before a task is launched for it is closed without an eviction timer
  (`registry.py:843`) and stays until a restart.
- `dispatcher.py:136` closes an interrupted row one transaction before `dispatcher.py:142` records
  it; a second crash in between leaves a failed run without a record.
- `app.py:248` lets runners start before `recover_notifications` scans the outbox: an event whose
  call is under way is marked "unknown", and its runner (`notification_outbox.py:66`) overwrites that
  mark, which `notification_outbox.py:97` calls permanent.

Supplements.
- A step attached to a ticket that has ended (a stale slot after a failed start, or the unlocked
  clear between `_coalesce`'s read and its commit) stays "queued" for ever; expiry ignores it and a
  cancellation leaves the group "cancelling".
- The unlocked clear can write "cancelling" over a group that was completed in between, and a step
  can become queued in a group that has ended.
- A middle step that was missed while the server was down is cancelled without settling its group;
  if its last step is done too, the group stays active until the account's next settlement, against
  the docstring of `expire_group` (`supplements.py:110`).
- When such a missed step rode on a queued ticket, `validate_execution_requests`
  (`supplement_notifications.py:57`) cancels the whole group when that ticket starts, against
  `supplements.py:377`.

Worker and connection.
- `_confirm_ready` reads the connection's revision after the reconciliation
  (`resident_connection.py:349`), and the observation "ok" overwrites an error seen meanwhile; a
  natively restored connection (TQ, GM) may pass for reconciled until the monitor looks, against
  `connection_state.py:211`.
- `attempt_revision` is also bumped by failures on the way to reuse a connection, so that a forced
  reconnect waiting for the lock is refused although nobody attempted one
  (`resident_connection.py:288`).
- `_resolve_prepared_executor` clears `connected_once` outside the lock. A request that arrives
  between the setting of the flag and the observation "ok" clears it again: the session is healthy
  and the book complete, but pages and order commands are refused until the next run or reconnect.

Account control.
- An order command that is lost with its worker leaves an active row that nobody closes or marks,
  because the sampling marks only the latest run; new orders stay refused, which
  `guard.py:362` means to be for the day only.
- The sampling writes on a row it has read before (`monitor.py:133`, `monitor.py:244`) and can mark a
  run incomplete that was closed in between.
- A limit of 0 per day with waiting makes the head of the queue wait for ever. Order commands that
  borrow a guard have no time limit of their own.

Executor.
- An order that ends by itself between `_get_orders_needing_chase` and the claim of its chase loses
  its chase context; the chase goes on, and `_update_chase_info` (`order_tracker.py:1071`) does
  nothing for the replacement, which is in neither list. The wait may report that all is done,
  against `order_tracker.py:357`. `lost` in `OrderTracker` marks these lines.
- An order that is filled while it is being chased leaves the signal unset; the wait runs to its
  limit and returns False although all is done.
- A thread that waits for quota is stopped by the checkpoint of the owner (`guard.py:1214`), not of
  its session: its order is neither withdrawn nor reported, and for "cancel_pending"
  `lifecycle.py:303` records that withdrawing was attempted. The same holds at the checkpoints of the
  engine, and for orders of symbols that have already failed.
- `execution_engine.py:164` says that all terminations of a run have the same source. They need not,
  when the time is up first and the operator asks afterwards; the first to end wins.
- An error of one symbol that asks for a new session drops the termination records of the others.
- `cancel_all_orders` does not wait until the orders have ended, so an old one may be filled while an
  algorithm sizes its own.
- Failures of planning and closed markets do not keep phase two from running; a symbol whose
  algorithm raised is FAILED without its orders.
- `_smart_close_position` (`ctp_target_pos_task/impl.py:480`) reads positions again; when the opposite
  one shrank it reports success for the reduced volume, and the remainder is opened.

## Proofs

TLC checks two or three tickets, orders or symbols; the theorems hold for every value of the
constants under the assumption of each module, which TLC evaluates in every run: ids and null values
are distinct, bounds are numbers, inputs are among those of the code. Nothing is assumed of their
size, except that a tracker has finitely many lines, that threads of the worker backend ask for at
most `MaxAsks` things each, and that the account control has finitely many operations (they are an
enumeration of the code) and plans of contexts.

Every safety property that a run expects to hold is proved. Each module has one inductive invariant, one lemma per action, and a step per conjunct that
the action disturbs. Invariants were checked with TLC before they were proved, on the instances of
the runs and, where a number is given, on others.

### Control plane

`ExecutionControlProofs` proves `TypeCorrect`, `ChannelIsExclusive` and `ClosedStaysClosed` from
`IInv`:

- `TypeOK`, because every other part speaks of fields of `ctl` and `task`;
- `Naming`: a coroutine past its choice names an execution and an ending task knows how it ends;
  without it a step could write to the row of "no execution", and types would not be kept;
- `Waiting`: before recovery is over there are no coroutines, so the wakes of recovery meet none;
- `Holding`: a claim in progress keeps the lock and its own task waits in "promote" with the channel
  registered; only the waiting dispatcher has a task; a task at work has the channel and a running
  row. `ChannelExclusive` alone is not inductive, since nothing in it says that the claim that ends
  in "work" registered the channel, or that no second task can be launched meanwhile.

`ClosedStaysClosed` is an action property and uses the same invariant: rows move by compare-and-set,
or are overwritten with a final status by `TaskMark`, where `Naming` says that `task.out` is one.

Its second part proves from `IInv` and `LInv` what the rows promise: `IndexesAreEnough`,
`StopsAreHeard`, `TicketAndRecordAgree`, and that the control plane implements the ledger of tickets
(`ControlRefinesLedger`). `LInv` adds:

- `Rows`: a row has a kind, and has started if and only if it runs or has run;
- `Deciding`: what a submission has seen of the queue stays true while it has the lock, because only
  holders of the lock make a row wait. The indexes rest on this: the property itself says nothing
  about what happens between the look and the insert;
- `Occupying`: a running row is that of the execution in the channel slot, whose task is at work or
  ending, or that was claimed a moment ago. A claim therefore finds no other running row, and a
  start in the ledger finds the channel free;
- `Signalling`: the coroutine that wrote TERMINATING still has the lock, or the event is set;
- `Recording`: "succeeded" is recorded after the work and before the close, which then agrees.

Each action maps to one action of the ledger or leaves it alone; the recovery's closing of
interrupted rows is a `Close`, a coalesced submission a stutter. `LedgerInOrder` proves of the ledger
alone that one ticket waits, one runs and no refresh shares the channel; `TicketsInOrder` carries this
to the control plane through the refinement.

Its third part proves `QueuedSlotIsRight` from `IInv` and `QInv`, for every choice of `Stops`. The code
does revoke without the lock (`account_execution.py:588`, `supplement_notifications.py:191`), and
then a slot may stay behind; the property says of which tickets. Where nobody does so the exception is
empty. TLC checked `QInv` on 2.2 million states, with steps, all ways of stopping, a refresh and a crash:

- `Slotted`: a slot whose ticket does not wait is about to be given back, by the coroutine that closed
  or claimed the ticket and still has the lock, or by a finally clause that will run, or its
  ticket is `Stranded`;
- `Entered`: the slot is entered only with the first entry of a ticket that waits. A submission that
  has committed its row may be overtaken by a dispatcher whose task runs and fails before the slot
  is entered; then the task has made the entry, and keeps it from eviction, so the submission
  enters nothing. It may also be overtaken by a revocation, and then strands the ticket itself;
- `Withdrawn`: a cancelled task that ends without its finally clause belongs to a ticket that had lost
  its slot before;
- `Unmarked`: a ticket that still waits has not started, and no stop of it is recorded; what is being
  recorded as stopped has lost its slot. So what is revoked from waiting can be told from the rest.

`SupplementsProofs` proves `CancelledStepsNeverRun` from `SInv`, for any groups, requests and tickets,
with the clear that cancels without the lock (also checked with 3 tickets, 2 requests and 2 routes,
7.7 million states). The property speaks of the moment a ticket runs; the invariant says it of every
ticket that waits or runs:

- `Wanted`: a request asked for it, or a step that is not cancelled rides on it. A ticket that loses its
  last step is revoked in the same transaction, and a started one is left alone;
- `Rides`: a step has no ticket before it is queued, and is finished only by its ticket's end;
- `Joining`: a submission that read its step under the lock but has not attached it yet has a step
  without a ticket, whatever the unlocked clear did to its group in between;
- `OneWaits`: a step joins the one ticket that waits.

The last part of `AccountControlProofs` proves `DeliveredAtMostOnce`, `DeliveredInOrder` and
`OutboxTyped` from an invariant that adds to the property: sequence numbers of existing rows are between
1 and `last` and distinct from later ones, rows that do not exist or are pending have not been called,
the runner holds an event that is calling and that no pending row precedes, and what recovery saw in
calling has left the queue. At-most-once rests on "calling" being committed before the call and nothing
leading back to "pending".

`AccountRuntimeSyncProofs` proves all safety of its module, `SyncTyped`, `SynchronizedIsCurrent`,
`RebuildNotLost` and `DeletedIsGone`, from `SyncInv`. The properties speak of rows that say
synchronized; the invariant says what an attempt has established by each of its steps if nothing was
registered since its snapshot: `Held` (the row is pending, the snapshot is the account and carries
the rebuild request), `Achieved` (after the job step the job is right, after the drop the rebuild is
done), `Numbers` (revisions only grow, an open rebuild request stays in the row), `Steps` and `Gone`
(until the deletion gives the lock back, only it may leave a job or a worker).

### Worker

`WorkerBackendProofs` proves `OrdersSpareOthers`, `StopsReachTheirRun`, `BackendRefinesLedger` and
`TypeCorrect` from an invariant of two layers, `WInv` about the two pipes of a handle and `OInv` about
the channel of the order commands. Of the pipes it says:

- `Locking`: who has the request lock of which handle. The lock alone does not keep an order command
  from dropping a worker under a run: a run whose request failed gives the lock back before its worker
  is dropped. So `Locking` also says that no run drops a handle that an order command drops.
- `Once`: a request is in one place, on one pipe or at one worker; it is there only while its thread
  is out with it or was told that the answer did not match; it is not yet carried out, and begun
  exactly when a worker has it. `Placed` says how far each thread is, `Unmade` that handles not yet
  made carry nothing, `Answering` that an answer on a pipe names a request that was carried out.
- `Stopping`: whatever says "stop" (the event, the list of a worker, the stop pipe) names runs that
  were asked to stop. `PassedOn`: a stop that was passed on is on the pipe, or kept by a worker whose
  command has not come, or set. The stop pipe is not ordered with the command pipe, so all three occur.

Of the channel:

- `Pending`: there is nothing on the channel but the command that is pending, and this in one place, on
  its way, at the order thread or on its way back; so an answer that comes is the pending one's. Its
  asker waits for it, or was told that it is unconfirmed, or the worker is gone;
- `Seats`: who has the channel's lock, and what is pending then;
- `Fresh`: a command that was not sent yet is nowhere; `Tabled`: the channel of a worker that is up is
  open, and a handle leaves the table before it is dropped.

A step either leaves the channel alone (`Aside`), or is the exchange of the thread that has its lock
(`Exchanges`), or one of the order thread (`OrderThreadKeeps`); each case is proved once.

The refinement uses `Once` for "started once" and for the mismatch; that a dropped worker is gone
before its request is reported as failed (`Kill`) is what makes "nothing is done for it afterwards".
For order commands it uses `Pending`: what may still be carried out was reported as unconfirmed or not
at all.

`AccountConnectionProofs` proves `CompleteListsAreCurrent`, `RunsKeepTheirSession`,
`LoginsComeSpaced` and `TypeCorrect` from `CInv` (also checked with two orders, 2.6 million states):

- `Truthful`: what the book, a push on the wire, an answered query and a call under way say of an
  order may differ from the exchange only while a push that sets it right is on its way. The hard case
  is a query whose rows do not have an order that the book has: it may have appeared after the
  query was answered, and only `changed` against `mark` tells (`Answered`).
- `Versions`: marks and changes never exceed the book's version, a live session's book was never
  lost, and one that broke under its user cannot be made good by a query that began before.
- `Sessions`, `Turns`, `Asking`: how far the session is by what the holder of the lock does with it,
  and to whom a query belongs. No recovery begins under a run, and the phase of a session leaves
  "ready" only by breaking.
- `Spaced`: after a failure the connection is switched off or cooling down, and a forced attempt that
  still waits for the lock was asked for after the failure.

### Executor

`SymbolDispatchProofs` proves `ReductionsComeFirst`, `SuccessesAreTrue`, `WithdrawalsAreReported`,
`StopsAreRecorded` and `TypeCorrect` from `DInv`, for any number of symbols, positions and orders (also
checked with five worlds, 1.7 million states). Of each symbol it says:

- `Pooled`: who has a thread in which phase; what ended before the join stays until it;
- `Trading`: while a thread trades, the position moves only by its own order, which leads to its goal;
  `seen` is what the tracker has seen of the order's end, and without an error it means that the
  order is not alive;
- `Nearing`: a reduction never crosses its goal, which is zero for a symbol that changes its side. This
  is why a reduction by sessions that fill in part, fail and retry never opens a position;
- `Ordered`, `Answering`: which orders exist in which phase, and what the results of a symbol say about
  its position: nothing but successes means the target;
- `Stopping`, `Tidying`: a thread that leaves does so for a stop that was due, and says what it left.

`OrderTrackerProofs` proves `LinesAreNotOverdone`, `DoneIsDone`, `EndedStaysEnded` and `TypeCorrect` from
`OInv`, for any lines, volumes and number of chases (also checked with one line of three lots, with
three lots per line, with no chase and with two):

- `Reported`: reports on their way, buffered or being replayed were true when they were sent, and an
  end is for good; the tracker's fill of an order never exceeds the exchange's (`Booked`), and what it
  calls completed has ended with exactly that fill;
- `Chained`: all orders of a line but the last are completed, so a chase replaces an order whose fill
  is final, although the fill may have grown between the choice and the confirmation;
- `Room`: what is at stake on a line, plus what may still be asked for in place of its last order, plus
  what a batch has left to submit, is within the line's volume. The property is not inductive, since it
  says nothing of what a replacement is about to ask for;
- `Batches`: a batch belongs to one thread, comes after an order that ended with no chases left, and
  uses numbers of its own. The waiter and the callback thread may each have one, never of one line;
- `Watched`, `Calm`, `InHand`: an open order is pending, or in the hand of the thread that placed it,
  or on a line that lost its replacement; the signal means that nothing is pending or submitting.

`LotsGrow` and `RoomMoves` do the counting: an order that grows by n lots takes n of its line.

### Account control

`AccountControlProofs` proves `QuotaIsKept`, `NoFalseAlarms`, `RecordsAreComplete` and `AccountTyped`
for any operations, rules and priorities, plans of any number of contexts, any number of minutes, days
and failures, with guards that share their counts and guards that do not. The three properties compare
sums: what was permitted (`sent`) with what contexts have written, and what a guard believes with what
all contexts did. `AccountInv` has six layers, each of which uses the ones before:

- `Shape`: who is at work beside whom (`Placed`, `Beside`). One run at a time; an order command has the
  lock or borrows the guard of the registered run; where guards share nothing there are no catalogue
  queries. Everything below fails without it, since two guards that both read before the other wrote
  would each permit the whole limit;
- `Holdings`: only a guard that is at work has counts of its own, only a context that has ended has
  written any, only runs have counts of orders, and none whose row could not be inserted. So no
  count is in two places, and a run that loses its counts has a row that says so;
- `Exact`: `sent` is the sum over contexts of what they wrote and hold (`Total`), bucket by bucket, as
  long as nothing was lost. After a loss it still is for orders, unless a row *tells*: it belongs to a
  run of today, or of a day before and never closed. The disjunction is too weak for a run at work: it has
  looked for such rows once and found none, or began on a day before (`Trusts`), and permits orders
  without looking again. For it the invariant keeps the equation itself;
- `Based`: the baseline that a run has read is what the database says, and stays so while it works
  (`Reads`); what guards share is at least the baseline and own counts of each of them, and at least
  `sent` (`Covers`), which is what lets a guard permit for contexts that have not written yet;
- `Limited`: hence no permit exceeds a rule: the guard that permits sees, in its view of the counts,
  everything that the rule is about (`ViewCovers`). For rules about orders this holds after losses too;
- `Faultless`: while nothing has failed, an open row belongs to somebody at work, and the run that
  checks the history has the lock, so nobody else's row is there to alarm it (`NoAlarm`).

The invariant was also checked with TLC with four plans (`order, run, catalog` and three runs added) and
two failures, 0.79 million states.

The model sums over contexts and over the operations of a rule with the folds of the community modules,
which are recursive and take elements in an order nobody knows. The module begins with what the
proofs need of them. Induction over a finite set is `SubsetInduction`: the claim is given as the set
of subsets that satisfy it, not as an operator, and a minimal counterexample under strict inclusion is
refuted (`WFMin`, which needs no operator either). `FoldExists` builds the solution of a fold's recursion
on every finite set, so that its `CHOOSE` is one; from there, `SumSteps`, `SumCompare`, `CountSteps`,
`FoldCompare` and `FoldSame` say that sums have the equation one expects and move by what one summand
moves.

### Only model-checked

- `StopSticks`, which does not hold (see the findings).
- All liveness (`EveryRunEnds`, `DispatcherServes`, `EveryEventEnds`, `EveryTargetTried`, `StepsEnd`,
  `EveryRequestEnds`, `BookHeals`, `Served`, `StopEndsTheRun`): tlapm cannot reason about fairness and
  `ENABLED`.

No model needs a recursive operator.

## What is not modelled

- Control plane: deletion of an account while it has tickets, the orderly shutdown
  (`shutdown_dispatchers`), the inline execution helpers (no caller outside the tests), the live
  broadcast, log and audit events, failures of the database itself. Submissions come after start-up
  recovery, as the server does not serve requests before it; cron jobs can fire a moment earlier.
  The eviction timer (five minutes) is taken to be longer than a single request.
- An execution prepares the worker with the account it loaded (`manager.py:927`), which may be older
  than the last synchronization; no model looks at what a worker was configured with.
- Algorithms other than SINGLE-MAKER (TWAP, POV, option exercise, CTP target positions) slice volumes
  and prices over the same sessions and trackers. Their arithmetic on floats is better tested.
- GM and TQ: the behaviour of their SDKs, which call back, poll and reconnect by themselves, is not in
  the repository, and a model of it would be guessed. The same holds for the rest of `ctp_execute.py`:
  conversions between its structures and the unified ones, without control of their own.
- The futures close policy, supplement times and trading clocks are functions of prices, dates and
  positions; their reference would be a copy of the code.
- Query runtime, catalogue, live hub and event streams lose at worst freshness: each answer is
  replaced by the next, nothing is decided by a page. The stored connection history is such a table.
- The serial dispatch of symbols and hooks before the engine starts; migrations, evidence export,
  performance analysis, CLI, configuration, web interface: no state that others act on, or scripts.

`PROJECT.json` lists every component with its status.

## Plan

Modelled: the control plane, outbox, runtime, supplements, worker backend, connection, account
control, dispatch and tracker. Proved: all their safety and both refinements. What would come next, in
this order: the configuration a worker was prepared with against the account's revision, limits by symbol
and warnings of the account control, the query runtime, and the TWAP and POV slicing over `OrderTracker`.

## How to run

    tlc -workers 2 -config control_safety.cfg MCExecutionControl.tla
    tlapm ExecutionControlProofs.tla

`PROJECT.json` names the module of every configuration. The largest run has 1.4 million states;
no run takes much more than two minutes. The proofs of a module take between one and seven.
