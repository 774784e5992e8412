# Verification of the Kingdee synchronisation service

The service (Go, `src/apps/server`) pulls forms from a Kingdee ERP over HTTP and
writes them to a SQL Server database. Every synchronisation is a *run*: a row of
`sync_runs` in a local state database, executed by one in-process engine that
has room for a single run. Runs are asked for by the HTTP API, by its retry
handler, by a cron scheduler and by the recovery at start-up; they are stopped
by users, by watchdogs, by deadlines and by the shutdown of the process.

This directory holds TLA+ modules of that system, the TLC configurations that
check them on small instances, and proofs that TLAPS checks for every instance.

## 1. Inventory

| Component | State | Operations | Talks to | Hard behaviour |
|---|---|---|---|---|
| Run contract (`internal/api/contract`) | none | `CanTransition`, `IsTerminalStatus` | everyone | one state machine, seven writers |
| State database (`internal/gormdb`) | `sync_runs`, `checkpoints`, `schedule_runs`, `schedule_jobs`, approvals | compare-and-set transitions, finalisation, abnormal marking, recovery queries | engine, API, scheduler, `main` | any call may fail; several goroutines write one row |
| Sync engine (`internal/syncengine/engine.go`) | the slot: `active`, `executing`, `current`, `stopRequested`, `gracefulStop`, `runCancel`, `runDone`, `stopWatcherStarted`, `shutdownRequested` | `PrepareRun`, `SyncDataWithRunID`, `RequestStop`, `GracefulStop`, `PrepareRecovery`, `MarkAbnormalExit` | state database, forms, writers | reservation and execution are two steps by two goroutines; stop, deadline, finalisation and shutdown race |
| Form pipeline (`runSync`'s form goroutines, `syncCursorForm`, `cursor_*.go`) | checkpoint, cursor, results | page loop, resume, write, orphan cleanup | Kingdee client, writers, state database | partial pages, lost checkpoints, a stop in mid-form |
| Writers (`sqlserver_writer.go`) | target tables, staging tables | upsert, staged merge, snapshot replacement | SQL Server | atomicity of a replacement, auto-committed batches |
| Orphan safety (`orphan_reconcile.go`, `orphan_safety.go`, `snapshot.go`) | approvals, a staging table named by the hash of the keys | evaluate, approve, delete | state database, writers | thresholds, single use, overlapping calls |
| Runs API (`api/routes/v1/runs.go`) | `activeTask`, `syncMutex` | create, retry, stop, status | engine, state database | a mutex held over some steps only; a watchdog of its own |
| Scheduler (`internal/schedule`, `routes/v1/schedules.go`) | cron entries with copies of job rows, `paused`, `schedule_jobs`, `schedule_runs` | dispatch, timeout, pause, reload, job edits | engine, state database | does not share the API's mutex; its timer knows the rows only; two histories of one run; copies saved whole |
| Process (`cmd/server/main.go`, `internal/runtime`) | none | start, recovery, signal, drain, exit | all | crash at any step |
| Kingdee client (`internal/kind`, `retry`, `ratelimit`, `circuit`) | session, login gate, breaker, limiter | login, query, keep-alive | external HTTP API | expired sessions seen by many forms at once |
| Monitoring, webhooks (`internal/monitor`, `internal/webhook`) | last probe state | probe, notify | external HTTP | transition-only alerts, bounded retries |
| Services, configuration, front end | read models, CRUD | | | none of their own |

What makes each correct is listed as properties in section 4 for what is
modelled and in sections 7 and 8 for what is not; `PROJECT.json` lists every
component with its status and every hazard at its line.

## 2. Modules

| Module | Models |
|---|---|
| `RunContract` | the statuses and what each state-database call does to the status of one row |
| `RunLifecycle` | abstract specification: what the history of runs promises its readers |
| `SyncEngine` | rows, checkpoint owners, the engine's slot, the goroutine of every run, stop requests, watchdogs, shutdown, crash, start, recovery |
| `CursorSync` | one cursor form over the runs that synchronise it: source, target table, checkpoint, page loop, staged keys, orphan deletion |
| `KingdeeClient` | the process-wide client of the Kingdee API: session, login gate, circuit breaker, retry loop, the loops over pages and months, keep-alive |
| `Scheduler` | job rows, cron entries, the handlers that change them, the dispatch of a job, its `schedule_runs` record, timer, summary and notification |
| `TargetTable` | abstract specification: what readers of a target table may see of a form without a cursor |
| `FormWrite` | such a form round by round: budget, query, refusals, staging table, transaction, direct batches, status |
| `OrphanReconcile` | overlapping calls of the guarded deletion, its thresholds, its approvals |
| `RunLifecycle_proofs`, `SyncEngine_proofs`, `SyncEngineRuns_proofs`, `CursorSync_proofs`, `KingdeeClient_proofs`, `FormWrite_proofs`, `Scheduler_proofs`, `OrphanReconcile_proofs` | theorems and their proofs |
| `MCSyncEngine`, `MCCursorSync`, `MCKingdeeClient`, `MCScheduler`, `MCFormWrite`, `MCOrphanReconcile` | instances for TLC |

`SyncEngine` EXTENDS `RunContract` and INSTANCEs `RunLifecycle` (`status <- row`),
which it is shown to implement. `CursorSync` refines what `SyncEngine` calls a
form (`FormSave`, `FormSucceed`, `FormFail`) for the forms that page by cursor;
it lets runs follow one another because `SingleExecution` holds. A query of
`CursorSync` (`QueryPage`, `QueryFails`) is a call of `KingdeeClient`, whose
`ResultExact` says that a page is what Kingdee has. `FormWrite` refines the same form
steps for the forms without a cursor, and INSTANCEs `TargetTable`, which it is shown to
implement. `Scheduler` EXTENDS `RunContract` and INSTANCEs `RunLifecycle` for the runs it
creates; it sees the engine as its caller does (a reservation that may be refused, a
run whose row moves and that returns or not), while `SyncEngine` has the scheduler as
one of its callers and all of the engine.

### SyncEngine: state

| Variable | Code |
|---|---|
| `row`, `parent` | `sync_runs.status`, `parent_run_id` |
| `cpOwner` | `checkpoints.run_id` of each large form, `NoRun` when the row is cleared |
| `eng` | the fields of `SyncEngine` under `e.mu`; `cancelled` is "runCancel was called", `watched` is `stopWatcherStarted` |
| `pc`, `ctx`, `job`, `seen` | per run: position of the goroutine that carries it, its caller's context, who called for which forms, the status it holds in a local variable |
| `form` | the result (or progress) of each form of the executing run |
| `stopWatch`, `taskWatch` | `watchStopTimeout`, `watchActiveTaskStop`; "marked" and "told" are the points between their calls |
| `cancelDue` | `stopSync` handlers between `RequestStop` and `task.cancel()` |
| `activeTask` | the API's task; `syncMutex` is held exactly while an API or retry run is "created" (`SyncMutexFree`) |
| `drain` | the shutdown coordinator inside `GracefulStop` |
| `phase`, `todo` | start-up: stale and abnormal recovery, resumption, serving; `todo` is the loop's remaining rows |

### SyncEngine: actions

An action is one critical section of `e.mu`, one database call or one channel
event. Everything the code does under one lock is one action; between two
actions every other goroutine may act.

| Actions | Code |
|---|---|
| `Persist`, `Reserve`, `ReserveRejected` | `createRun`, `retryFailedForms`, `runJob`; `PrepareRun`, `beginRun` |
| `RunnerStart`, `RunnerQuery`, `RunnerQueryFails`, `RunnerGate`, `RunnerGraceStop` | `SyncDataWithRunID` |
| `RunnerClosePrepared`, `RunnerReleasePrepared` | `finishPreparedRunStopped` |
| `RunnerEnter`, `RunnerOpen`, `RunnerOpenFails`, `Release` | `runSync` outside its forms |
| `FormStart`, `FormSkip`, `FormSave`, `FormSucceed`, `FormFail` | the form goroutines |
| `FinalDecide`, `FinalPersist` | the finalisation, which holds `e.mu` over its database calls (`MuFree`) |
| `AfterResult`, `AfterError`, `RunnerExit` | the callers' tails, `finishSyncRunAfterError` |
| `CtxExpire`, `ScheduleTimeout` | deadlines of the callers |
| `RequestStop`, `StopCancel`, `StopWatch*`, `TaskWatch*` | `stopSync`, `RequestStop`, the two watchdogs |
| `Shutdown`, `Drain*`, `Exit`, `Crash` | `ShutdownCoordinator`, `GracefulStop`, end of the process |
| `Start`, `RecoverRow`, `RecoverDone`, `ResumeNext`, `Serve` | `main`, `RecoverStaleRunningRuns`, `RecoverAbnormalRuns`, `RecoverPendingAbnormalRuns`, `PrepareRecovery` |

`Fault` is a failing state-database call (after its three attempts, where the
code has them); it is offered at every call whose failure changes what follows.

### CursorSync: state and actions

| Variable | Code |
|---|---|
| `born`, `mod`, `now` | the rows of the form in Kingdee: creation, last change (the increment field), the clock; a row is its place in the cursor order |
| `tgt`, `synced` | the target table: which change of the source each row holds, and its `SYNC_TIME` |
| `cp` | `checkpoints.run_id`, `cursor_value`; the rest is history: when the pull began (`from`), the lower bound it began with (`low`), the highest bound one of its runs has asked with (`asked`) |
| `low`, `asked` | the same two bounds for the pull under way, taken over by `LoadCheckpoint`; a pull is everything from a first run to the last recovery of it |
| `status`, `kind`, `parent` | the rows of `sync_runs` |
| `since` | the lower bound in the filter (`GetLastSyncTime`) |
| `prev`, `resumed`, `collecting`, `fetched`, `page` | `previous`, `resumed`, `pkCollector != nil`, `FetchedCount`, `result.Rows` with their content |
| `staged` | the keys in the collector's staging table |

| Action | Code |
|---|---|
| `BeginRun`, `BeginRecovery` | a run reaches the form; `PrepareRecovery`; the incremental filter |
| `LoadCheckpoint` | restore of the cursor, `checkpointBelongsToRun`, the key collector |
| `QueryPage`, `QueryFails` | the query of a page with its retries, `ValidateCursorPage`, `isTerminalEmptyCursorPage` |
| `WritePage`, `WriteFails` | `Upsert`: a staged merge is one transaction, direct batches leave a prefix |
| `StageKeys` | `AddPage` |
| `SaveCursor` | `SaveCursorCheckpoint`, end of the data at a short page |
| `Finish`, `Reconcile`, `Clear` | the gates, `ReconcileAndDelete`, `ClearCheckpoint` and success |
| `SourceSaves`, `SourceDeletes` | Kingdee's users (external) |
| `RequestStop`, `Crash` | a stop that cancels the contexts; the end of the process, with what the write in progress has committed |

### KingdeeClient: state and actions

| Variable | Code |
|---|---|
| `loggedIn`, `session`, `gate` | `c.loggedIn`, `c.sessionID` (0 is empty), the token in `c.loginGate` and whose it is |
| `breaker` | the global gobreaker: state, `TotalFailures`, whether the half-open call is out, generation |
| `op`, `pc`, `stopped` | what each caller asks for, where it is, whether its context has ended |
| `req` | the request under way: generation that admitted it, attempts made, session cookie it was sent with |
| `res` | `currentRow` (or months done), `pageIndex`, `result.Rows` |
| `cookie`, `expired` | the latest session, in the cookie jar; the last session Kingdee refuses |
| `logins`, `lost`, `blank` | history: logins granted, usable sessions given up, logins without an id |

| Action | Code |
|---|---|
| `Start`, `Acquire`, `AcquireCancelled` | `LoginContext` up to its request, `acquireLogin` |
| `Admit`, `Refuse`, `CoolDown` | the breaker in front of `doPostWithRetryContext`, its time-out |
| `Send`, `TryAgain`, `PostFails`, `BadAnswer`, `Abort` | `RetryContext`, its attempts, the checks behind it |
| `LoginGranted` | the tail of `LoginContext` with the deferred `releaseLogin` |
| `Turn`, `PageAnswer`, `SessionError` | `QueryDataContext`, `QueryAccountBalanceContext` |
| `Tick`, `Cancel` | the keep-alive goroutine; stops and deadlines of callers |
| `Expire` | Kingdee (external) |

A caller is in exactly one place, so the token in the gate and the place of its
owner tell a login from a page. An error of any kind ends the call and frees the
gate in one step (`Fail`): nothing lies between them but returns.

### Scheduler: state and actions

| Variable | Code |
|---|---|
| `jobRow` | `schedule_jobs`: existence, `enabled`, `last_run_id`, `last_status` |
| `sched`, `row` | `schedule_runs.status`, `sync_runs.status` |
| `entry` | cron entries; `copy` is the `job` their closure holds and saves whole |
| `cronOn`, `paused` | the cron's loop, the flag under `mu` |
| `reload` | the goroutines of the handlers and of `main`, inside `ReloadJobs` and around it |
| `fire`, `result`, `expired` | `runJob` and its run goroutine, the status returned, the deadline of its context |
| `timer`, `mark` | the goroutine with its own timer, `markTimeout` behind its `sync.Once` |
| `told` | what DingTalk and the webhooks heard |

| Action | Code |
|---|---|
| `Ensure`, `ReloadQuery`, `ReloadAdd`, `ReloadSave`, `CronStart` | `Init`: `ensureDefaultJobs`, `loadJobs`, `registerJob` |
| `WriteJob`, `LoadJob`, `SaveJob`, `PauseFlag`, `PauseCron`, `ResumeFlag` | the handlers of `schedules.go`, `Pause`, `Resume` |
| `ReloadList`, `ReloadRemove`, `ReloadDone` | `ReloadJobs`, which holds no lock |
| `CronFire`, `FirePaused`, `FireSkipped` | the cron's call, the flag, the window and the grant-queue guard |
| `CreateScheduleRun`, `CreateSyncRun`, `PrepareRun`, `StartRun` | `runJob` up to its goroutine |
| `StopRun`, `CtxExpire`, `RunnerReturns`, `RunnerFails` | the engine and its users, as the caller sees them |
| `TimerFires`, `TimerStops`, `MarkSync`, `MarkSched`, `RunnerTimeout` | the timer and `markTimeout` |
| `FailSync`, `FailSched`, `FinishResult`, `Summary*`, `Hook` | the ends of a run, `updateJobSummaryFromScheduleRun`, the completion hook of `main` |

What the code does here and a reader may not expect: a default job is created enabled,
because the column has a default and gorm leaves `false` out of the insert
(`scheduler.go:90`); the webhook branch of the hook spells the abnormal exit
differently from the contract and has no case for partial (`main.go:128`, `134`), so both
send nothing; a dispatch that the engine refuses is in the history and calls no hook;
the branch of line 319 for a cancelled context is never taken.

### FormWrite and TargetTable: state and actions

A row of the source is a constant with its business key and its accounting period,
either of which may be missing; two rows with one key are versions or fragments of one
record. A row of the target is the set of source rows it stands for, so that an
aggregation shows what it has counted. The three forms are those of the
configuration: "whole" is the inventory form, aggregated and replaced as a whole;
"scoped" is the account balance, replaced by its periods; "table" is every other form,
merged by key.

| Variable | Code |
|---|---|
| `form`, `target` | the kind of form; committed rows of its table |
| `staging`, `tx` | staging tables that exist, by round; the table as the open transaction sees it |
| `pc`, `mode`, `dry`, `round` | the form's goroutine, `syncType`, `dryRun`, the run |
| `batch`, `loaded`, `todo`, `part` | `result.Rows`, the staging table's rows, rows and batch of `directUpsert` |
| `result`, `stat` | `UpsertResult` with its error, `FormStat` |
| `tail` | the goroutine of `createRun` is behind its run and has not sent its DELETE yet |
| `cancelled`, `late`, `fetchStopped` | the run's context, the form's own deadline, `isFetchStopped` |

| Action | Code |
|---|---|
| `StartRound`, `Preamble`, `FetchAnswers`, `FetchFails`, `FetchAborts`, `CheckFetched` | the row path of `runSync`'s form goroutine up to its writes |
| `Truncate`, `Columns` | the reset; `writeRowsWithMode`, its duplicate check and `validateSnapshotScope` |
| `CreateStaging`, `LoadStaging`, `CountExisting`, `BeginTx`, `DeleteOld`, `InsertNew`, `Merge`, `Commit`, `DropStaging` | `stagingUpsert` and `ReplaceSnapshot` |
| `DirectMerge`, `DirectCount` | `directUpsert`, batch by batch |
| `CallFails`, `CallAborts`, `MergeRefusedError` | an error of a call with what it may have done; a call whose context is done; SQL Server's refusal to update a row twice |
| `Written` | the status the form ends with |
| `PruneStock` | `DELETE FROM stk_inventory WHERE FBASEQTY = 0`, which ends a run of the API (`runs.go:206`); records without stock are a constant (`NoStock`) |
| `Cancel`, `StopFetch`, `BudgetRunsOut`, `Crash` | stops, shutdown, the form's budget, the end of the process |

`TargetTable` sees the target and the last answer of the source (`answer <- batch`): a
snapshot becomes visible whole and in one step, and a merge may become visible in parts of
that answer. Two steps write something else: the TRUNCATE of a reset, and `Prune`, which
takes the records without stock out of a snapshot. The latter is the DELETE of an API run;
it is sent after the run has freed the slot, so that it may fall into the next round of
the same form, wherever that round does not lock the table, and it follows a dry run too.

An incremental round differs from a full one in its filter and in that an empty
answer is a success; the source may answer with any set of rows in every mode, so the
instance uses full and reset. `directUpsert` counts the rows that exist after its MERGE
has run, so it reports every row as updated; the sum is right, and that is what
`isWriteComplete` looks at.

### OrphanReconcile: state and actions

| Variable | Code |
|---|---|
| `target`, `staging` | keys of the target table; `snapshot_keys_<hash>`, one for each set of keys |
| `approvals` | `orphan_delete_approvals`: hash, expected count, `used_at` |
| `pc`, `input`, `rest`, `counted`, `orphans`, `approval`, `deleted` | a call of `ReconcileOrphans` and its locals |
| `overlapped` | history: whether another call for the same keys ran at the same time |

`Begin`, `DropEarlier`, `CreateStaging`, `StageKeys`, `CountTarget`, `QueryOrphans`,
`DeleteKeys` and `Cleanup` are the database calls of `ReconcileOrphans` in order;
`Blocked` and `Automatic` are `EvaluateOrphanDelete`; `LoadApproval` and `UseApproval` are
the two statements of `ConsumeOrphanDeleteApproval`. `Approve` is
`CreateOrphanDeleteApproval`; `SyncWrites` is the synchronisation next to it. Nothing in
production calls `ReconcileOrphans` at this commit; it is modelled for the day
something does, calls in parallel included.

### What is abstracted

* A form reports success, failure or a stop, or is skipped; how it does so is
  the form pipeline's business. A form's own budget is one of its failures.
* A checkpoint is its owner. Whether its position is usable is part of having one.
* Times: a heartbeat is stale or fresh and a row is older than three hours or
  not, as the environment likes (`RecoverRow`); watchdogs may fire at any time
  once armed.
* The caller's deadline (half an hour to two hours) does not pass in the
  milliseconds before the forms start (`CtxExpire`).
* `stopSync` reads its task and calls `RequestStop` in one step; `cancel()` is
  called in the step of the critical section that fetched it.
* Retry asks for a run that ended without success; that it has failed forms on
  record is the environment's choice.
* Run identifiers are numbers in order of `start_time` (recovery walks in that
  order). A finished goroutine's locals are reset, so that they do not multiply states.
* In `CursorSync` a row without the cursor key stands where the source sorts it;
  cursor key and primary key are both there or both missing. Values are not
  compared: the source returns rows in the order asked for, and a page out of
  order is one of the failures of `QueryFails`.
* A direct write that fails leaves any prefix of its page, which covers every
  size of batch. Inserted plus updated always equals fetched (see below), so
  `isWriteComplete` holds.
* A run synchronises one form; its other forms are other instances, since forms
  share no table. A reset of a form with a cursor is left out of `CursorSync`;
  `createRun` does not check `sync_type`, so a caller may ask for one, and `FormWrite`
  has it for its own forms.
* In `Scheduler` the engine's other callers appear as a reservation that is refused. A
  restart is not modelled: a `schedule_runs` row that a crash leaves running stays so,
  since nothing recovers it. `next_run_at` and cron expressions are left out, except
  that the cron may refuse an expression.
* In `FormWrite` the staging table is written by nobody else, and its name is fresh for
  every write. Values are not compared: two rows are the same or they are not.
* In `KingdeeClient` a back-off, a wait for the rate limiter and the breaker's
  time-out end at any moment. A month of the report is one row. A query starts at
  row 0; `StartRow` only shifts it. What a failing answer looks like matters in two
  respects only: whether it is tried again, and whether the breaker counts it.
* The `form_count` of a recovery run, whose update may fail after the insert
  (`gormdb.go:216`) and then leaves a running row without a goroutine, is left out. Only
  the next start looks at such a row, as at one that a crash after the insert leaves.
* `finishSyncRunAfterError` reads the row, looks at the context and writes in one step
  (`ApiAfterError`); a write that comes late is refused by the compare-and-set either way.
* In `Scheduler` a deleted job that a stale save inserts again keeps its identifier and its
  `enabled = false`; in the code it gets a new identifier and, as the column has a default,
  comes back enabled. The completion hook is called in the step of the dispatch, although
  it runs in a goroutine of its own and is registered after the cron has started.
* Counts of inserted rows are clamped at zero in the code (`sqlserver_writer.go:192`, `478`);
  in `FormWrite` they cannot fall below it (`TypeOK`).
* Not modelled: `SyncData` and `SetStopping`, which nothing calls; dry runs,
  whose control is the same; log rows, progress, form statistics.
* `FormSucceed` clears a large form's checkpoint on every path. The early return
  of `syncCursorForm` after an incomplete write would keep it, but
  `SQLServerWriter` always reports inserted plus updated equal to the rows it
  was given, so that return is dead with the only writer there is.

## 3. Bounds

`MaxRuns`, `MaxFaults`, `MaxShutdowns`, `MaxStarts`, `MaxCrashes` cap the
counters; `Kinds` and `AllowStop` select who exists in an instance. Two runs are
enough for every race over the slot (one holds it, one wants it, and a watchdog
of the first can meet the second); three for recovery (a parent, a child, a
second child). One form per run suffices where the forms' outcomes do not
matter; `endings` uses three in two groups with one permit,
so that a form waits for a permit and a group for a form. `CursorSync` has four
rows and pages of two, so that a pull takes three queries, and the two rows in the
middle have no key, so that they may fill a page, share one with a keyed row or
end the data; two runs are a run and its recovery or successor; the cap of one
tenth is a half (`OrphanCap`), which leaves one orphan of two to four rows
deletable. `MaxTime = 2` is one change of the source, at any point of any run;
`incremental_gap` needs no more. `recovery_gap` has two, so that rows of the pull differ in
age, and neither rows without a key nor faults. `KingdeeClient` has two callers and the
keep-alive, so that one logs in, one waits and a third gives the session up; pages
of two rows, three rows for one caller (a short last page) and five for the other
(more than its two pages); two attempts, so that a failure can be the last or not;
a threshold of two, before which one earlier call may have failed; one failing
request, one expiry and one tick, at any point. `Scheduler` has one job, two dispatches
and two registrations, so that an old entry can fire while a new one exists, and
`MaxActivity = 4` counts a request or a fault once and a dispatch twice: one dispatch
and two requests, or a fault, or two dispatches. A day has four minutes and the window
lies across midnight. `FormWrite` has two versions of one record, a record of another
period and a row without key and period; fewer than three rows go by direct
batches of one row, three or more through the staging table; two rounds, so that the
second meets what a fault, a crash or a stop has left; the two versions
of the record, added up, have no stock and neither has the record of the other period,
while the row without a key has some, so that the DELETE takes nothing, a part of a
snapshot or all of it. `OrphanReconcile` has three keys,
snapshots that miss one and two of them, two calls, and thresholds at which one
orphan of three rows is deleted without approval and two of three are not. Deadlock is
not checked: with all identifiers used, or a process that is down and may not start
again, the system has really stopped.

`concurrent` has no shutdown; with one its six properties hold as well, as does
`WriterKeepsContext` (9,151,465 distinct states, too many for a routine run).

## 4. Runs

| Run | Instance | Shows |
|---|---|---|
| `concurrent` | API, retry and scheduler, two runs, stops, no faults | `SingleExecution`; `LiveViewAgrees` (live view and history end alike); `NoOrphanRow` (no active row without a goroutine); `CancelOnlyStopped` (a late watchdog never cancels the next run); `SlotIsFreed` (a goroutine leaves only when its slot is free, unless its context was cancelled) |
| `endings` | two instances in one (`ManyFormsNoFault`): a run of API or scheduler over one form, two faults, stop, shutdown; an API run over three forms or none, stop, without faults; fairness of goroutines | `StopIsDurable`, `WriterKeepsContext`, `ShutdownEnds`, `StopEnds`; `SuccessMeansAllForms`, `EveryRunEnds` (if forms end) |
| `recovery` | scheduler, three runs, two crashes, two starts, one fault | `SingleSuccessfulRecovery`; `LifecycleSpec` (refinement) |
| `kingdee` | two callers in three mixes of operations and the keep-alive, one failing request, one expiry, one tick, cancellations | `ResultExact`, `LoginEconomy`, `OneProbe`, `GateHeld`, `CancelEnds` |
| `cursor` | one cursor form, two runs (a recovery among them), one change of the source, one fault, one crash, stops, direct writes | `SuccessIsComplete`, `CheckpointIsDurable`, `LiveRowsKept`, `FormEnds` |
| `schedule` | one job, a user, two dispatches, one fault, fairness of goroutines and timers | `ScheduleFollowsRun` (the two histories of a run agree), `SummaryIsRecorded` (the job shows a recorded end), `FailureIsTold` (the hook tells the status that stays), `ScheduledRunsKeepContract` (refinement of `RunLifecycle`), `EveryScheduleRunEnds` (though the engine hangs) |
| `write` | one form without a cursor of each kind, two rounds, one fault, one crash, stops, an exhausted budget | `SuccessIsWritten`, `LeaksAreFaults` (a staging table survives a fault or a crash, never a stop), `WritesAsATable` (refinement of `TargetTable`: whole snapshots, which lose at most their records without stock, in one step), `FormEnds` (though neither Kingdee nor the database answers) |
| `orphan` | two overlapping calls, one approval, one write of the sync, one fault | `ApprovedOnce`, `DeletionIsBounded` (whatever overlaps), `OnlyTargetOnly` (for calls that do not overlap) |

`SuccessIsComplete` says of a full pull that a success has every row it owed, also when
crashes split it over several runs, and of an incremental one that it has every row its
filter let through when a single run made it. A recovery of an incremental pull asks
with a later bound than its parent; the property allows it to miss the rows below that
bound and no others. `CheckpointIsDurable` says of a saved cursor that every row which the
pull asked for up to it is in the target; for a full pull nothing else is owed, for an
incremental one something may be (`recovery_gap`).

Four runs end in a violation, because the code does not do what it or its
documents say:

* `slot_wedged`: a stop of an API run that arrives while its goroutine reads the
  row cancels that read; `SyncDataWithRunID` returns an error without giving the
  slot back. The row ends stopped; every later run is refused with a 409 that
  `docs/openapi.yaml` explains as "a run is executing".
* `incremental_gap`: the comment on `SYNC_TIME`, the time of the write, calls its
  maximum a lower bound for the next incremental pull. A row saved in the source
  between the read of its page and the write is not asked for again until it
  changes once more or a full run comes, although every run succeeds.
* `job_disabled`: the README offers jobs that are started, stopped and changed at
  will. `registerJob` and `runJob` save the whole row that the cron entry was made from;
  a user who disables or deletes the job in between finds it enabled again.
* `recovery_gap`: the checkpoint exists so that an interrupted run goes on from its
  cursor instead of fetching the whole table. The recovery of an incremental run goes on
  from the cursor, but with the lower bound of now (`engine.go:1143`), which is the
  `SYNC_TIME` of the pages its parent has written. A row behind the cursor that changed
  before those pages were written is never asked for and the recovery succeeds
  (`RecoveryIsComplete`). Nothing brings the row later but a further change or a full run.

`SlotIsFreed` says what does hold of the slot: without a cancelled context, as for the
callers whose contexts only end by deadline, every way out of the runner frees it.

Four more disagreements that the models show and no run is spent on:
ADR-0007 (line 69) says that readers of a snapshot form only ever see a complete snapshot,
and the DELETE behind an API run (`PruneStock`, `runs.go:207`) leaves them a part of it,
also after a dry run, which otherwise writes nothing;
`contract/types.go:45` says that only recovery may create `failed_abnormal_exit`, and
five places create it while the process serves; `engine.go:760` says that `GracefulStop`
waits for the active run, and for a run that has not entered `runSync` it returns at
once (`DrainLook`), which leaves the row in `stopping` for the next start; `circuit.go`
speaks of consecutive failures and counts all since its last change of state. With two
handlers at a time two reloads can register a job twice (`Handlers` with two
members); the instances have one.

## 5. Fairness

Liveness is checked under weak fairness of each run's own goroutine
(`RunnerStep`), of the stop handler's remaining calls, of armed watchdogs (their
timers fire) and of the drain: the Go scheduler runs every ready goroutine,
timers fire, and a database call returns (with a fault or without). No form
makes progress by assumption in `FairSpec`: queries may hang, and `StopEnds` and
`ShutdownEnds` hold nevertheless, by the watchdog and the drain's deadline.
Only `EveryRunEnds` needs that every form ends, which its own budget
(`formRunTimeout`, ten minutes by default) guarantees; it says so itself
(`FormsEnd => ...`). `CursorSync` assumes weak fairness of the form's goroutine (`FormStep`) and
nothing of the source: `FormEnds` holds because every page moves the cursor, and
because a page that cannot ends the form. `KingdeeClient` assumes weak fairness
of what each goroutine does by itself (`Step`) and no answer of Kingdee: `CancelEnds`
must hold while a request hangs. Its HTTP time-out is not used. `Scheduler` assumes it of
`runJob`'s goroutines and of the timer, and nothing of the engine's run, which may hang:
the timer alone ends the record. `FormWrite` assumes that the goroutine goes on, that the
budget's deadline passes and that a call whose context is done comes back
(`CallAborts`, `FetchAborts`); a call under a live context need never be answered.
`TRUNCATE` of a reset and the look-up of the column names are sent without a context
(`engine.go:1352`, `2108`), so that `FormEnds` has to assume their answers. Nothing is assumed of users, faults, crashes or signals.

## 6. Theorems

For every value of the constants that satisfies the module's assumption:

| Theorem | States | Argument |
|---|---|---|
| `RunLifecycle_proofs!TypeCorrect`, `RecoveryIsOfAbnormal`, `EndsAreFinal` | `TypeOK`, `RecoveryOfAbnormal`, `EndIsFinal` of the abstract lifecycle | one inductive invariant: the two together; abnormal is terminal, so a parent never leaves it |
| `SyncEngine_proofs!TypeCorrect` | `TypeOK` | one step per action |
| `SyncEngine_proofs!SingleExecutionHolds` | `SingleExecution` | strengthened to `SlotInv`: whoever is past the reservation and before the release while the slot is not yet executing owns it (`SlotOwned`), or executes in it; `Begun` needs a free slot, `Released` is only reached by the owner |
| `SyncEngine_proofs!StopIsDurableHolds` | `StopIsDurable` | part of `LifecycleInv`; a row that is stopping only moves to stopped or abnormal, whoever writes it |
| `SyncEngine_proofs!ImplementsLifecycle` | `LifecycleSpec` | `NextRowStep`: every step leaves `row` and `parent` alone or is a step of `RunLifecycle`; needs that `todo` holds only abnormal runs while the process resumes (`ResumeOfAbnormal`) |
| `SyncEngineRuns_proofs!SingleSuccessfulRecoveryHolds` | `SingleSuccessfulRecovery` | `RecoveryInv`, see below |
| `SyncEngineRuns_proofs!CancelOnlyStoppedHolds`, `WriterKeepsContextHolds` | the properties of those names | `WatchInv`, see below |
| `SyncEngineRuns_proofs!NoOrphanRowHolds` | `NoOrphanRow` | `EndsInv`, see below |
| `SyncEngineRuns_proofs!LiveViewAgreesHolds` | `LiveViewAgrees` | `ViewFollows`, see below |
| `SyncEngineRuns_proofs!SuccessMeansAllFormsHolds` | `SuccessMeansAllForms` | `FormsInv`, see below |
| `SyncEngineRuns_proofs!SlotIsFreedHolds` | `SlotIsFreed` | `SlotFreeInv`, see below |
| `CursorSync_proofs!TypeCorrect` | `TypeOK` | one step per action |
| `CursorSync_proofs!CheckpointIsDurableHolds`, `SuccessIsCompleteHolds`, `LiveRowsKeptHolds` | the properties of those names | one inductive invariant `IInv`, see below |
| `KingdeeClient_proofs!TypeCorrect`, `ResultsAreExact`, `LoginsAreEconomical`, `ProbesAreAlone`, `GateIsFreed` | `TypeOK`, `ResultExact`, `LoginEconomy`, `OneProbe`, `GateHeld` | one inductive invariant `IInv`, see below |
| `FormWrite_proofs!TypeCorrect`, `SuccessIsWrittenHolds`, `LeaksAreFaultsHolds` | `TypeOK`, `SuccessIsWritten`, `LeaksAreFaults` | one inductive invariant `IInv`, see below |
| `FormWrite_proofs!WritesAsATableHolds` | `WritesAsATable` | every step is a step of `TargetTable` on `target` and `batch` or leaves both alone; a commit needs `TxInv`, a direct batch that its rows are among those fetched, and the DELETE of an API run is `Prune` |
| `Scheduler_proofs!TypeCorrect`, `ScheduleFollowsRunHolds`, `SummaryIsRecordedHolds`, `FailureIsToldHolds` | the properties of those names | one inductive invariant `IInv`, see below |
| `Scheduler_proofs!KeepsContract` | `ScheduledRunsKeepContract` | `NextRowStep`: every step leaves `row` alone or is a step of `RunLifecycle`; the insert needs that a dispatch at "recorded" has no row yet (`RowsAt`) |
| `OrphanReconcile_proofs!TypeCorrect`, `ApprovedOnceHolds`, `DeletionIsBoundedHolds`, `OnlyTargetOnlyHolds` | the properties of those names | one inductive invariant `IInv`, see below |

`SyncEngineRuns_proofs` first summarises the module's actions: what a step can do to the
program counters (`RunnerMoves`), to the slot (`RunnerSlot`), to a row (`RowMoves`), and
that a step moves one goroutine only (`OnlyItself`). Its invariants stand on `Base`, which
adds to the two above that a run has a row once it has a goroutine, that a run which has
not reserved the slot does not hold it, that an executing slot's goroutine is inside
`runSync`, and that no goroutine survives the process. None of the seven properties is
inductive by itself:

* `RecoveryInv`: while a recovery run is at work no other of the same parent is at work
  or has succeeded (`LiveChildAlone`), and the parents that are still to be looked at
  have none at work (`TodoIdle`). This is why the look-up of a successful recovery just
  before the child is persisted is enough, although the checkpoint may never be cleared.
* `WatchInv`: whoever watches a run, the stop's watchdog, the task's or the drain, does
  so for a run that was asked to stop or exists, and after its deadline the row shows an
  end unless that write failed. So the identifier compared by `cancelActiveRun` suffices.
* `EndsInv`: what a goroutine has decided still fits the row when it is written
  (`FinalDecided`), and the row has its end at every exit. It speaks of the first
  process, because a later one may find rows that it cannot close.
* `ViewFollows`: at each point of the goroutine between its start and its end, an end in
  the view is the row's, and an end in the row is the view's except for the abnormal
  exit that a deadline has just written and not yet told.
* `FormsInv`: a form that was skipped has seen an ended context (`FormsHave`), and a
  context does not come back to life; so a success that waits to be written was earned.
* `SlotFreeInv`: before `runSync` no deadline runs for the run (`TimesInv`) but that of a
  cancelled task, so that its row is active and it is closed only for a stop
  (`ClosesStopped`, `PreparedActive`); whoever leaves with the slot was cancelled.

`IInv` of `FormWrite_proofs`: `GoroutineInv` says which locals are still empty at each
step and `LoadedInv` that the staging table holds the rows to be written; `TxInv` that
the open transaction is, just before its commit, exactly the table a commit may make
visible (`Complete`), which is why a round that dies earlier shows nothing; `TailInv` that a
DELETE is pending for the form that is replaced as a whole only; `DirectInv`
that the rows sent by direct batches have arrived and are counted, batch by batch;
`DoneInv` carries both to the end of the call. `LeakInv` counts: apart from the table of
the running round there are no more staging tables than faults and crashes.

`IInv` of `Scheduler_proofs` has one part for each dispatch (`RunOk`) and two that relate
dispatches, entries and jobs. `RowsAt` says how far the two rows are at each point of
`runJob`, whatever has failed. `EndedAt`, as long as nothing has failed, that the run's
row has ended wherever the schedule's record is about to be closed: by the runner's own
result, by `failSyncRun` or by `markTimeout`, whose two halves other goroutines may
enter between. `FollowsAt` is `ScheduleFollowsRun` for one dispatch. `EntryInv` says that a
dispatch keeps the entry it was made from although reloads remove entries. `CopiesInv`
is why `SummaryIsRecorded` survives the saves of whole rows: not only the rows but every
copy of them, in cron entries and in handlers, shows a recorded end of its own job
(`Sourced`: no step invents a status).

`IInv` of `OrphanReconcile_proofs`: `ApprovalInv`, an approval belongs to the one call that
marked it; `BoundInv`, what a call has weighed on its way to the DELETE; `StagingInv`,
that calls for the same keys know of each other (`CompanyInv`) and a call without such
company finds in the staging table what it has put there.

`IInv` of `KingdeeClient_proofs` has one part for each of them. `SessionInv`: while
somebody holds the gate no session is usable, so a login always replaces a session
that was counted as lost. `BreakerInv`: no request is of a later generation than
the breaker, and half-open one of the present generation means that `probing` is
set; calls of earlier generations change nothing when they end. `ProgressInv`: a
caller that waits has read full pages only, `row = page * PageSize`; one that asks
is one page ahead, which is why giving the page back after a lost session is exact.
Neither the types (a page never passes the cap by more than one, attempts never
pass theirs) nor the others hold by themselves.

`IInv` of `CursorSync_proofs` says why a resumed or interrupted pull is safe:

* `CheckpointInv`, `PullInv`: whatever lies up to the saved cursor, up to the
  cursor in memory, or on a page already written, is in the target (`Covered`);
* `PageInv`: the page in memory is current for every row that has not changed since
  the pull began, and no owed row lies between the cursor and the page's end
  (`PageWithoutGaps`: a page is the first rows the filter matches, a short page
  all of them);
* `CountInv`: the live rows passed so far and the staged keys together are no more
  than the rows fetched. Rows without a key may be fetched twice, which only makes
  the difference larger; so when the staged keys are as many as the rows fetched,
  every live row is among them and the deletion cannot touch it (`StagedIsLive`);
* `LocalInv`, `RunInv`: a resumed pull keeps its parent's sync type, begins no
  earlier than the checkpoint it takes over and never lowers its bound; a run that is no
  recovery has asked with the bound its pull began with (`asked = low`), which is why only
  a recovery can miss something.

It needs no assumption on the cap of the deletion: `OrphanCap` limits how much is
deleted, not what. `CursorAssumption` asks only that bounds are natural numbers,
and that a page has room for a row.

`EndIsFinal` and `RecoveryOfAbnormal` carry over to the engine through the
refinement. `ConstantsAssumption` asks only that bounds are natural numbers,
that permits are positive and that forms have a group from 0 to 2.

The assumptions of `FormWrite`, `Scheduler` and `OrphanReconcile` ask for natural bounds,
finite sets of rows and keys, and that there is a job (`Jobs # {}`), since the blank
entry of the cron needs one.

Model-checked only, on the instances above, because it rests on fairness: liveness, that
is `EveryRunEnds`, `ShutdownEnds` and `StopEnds` of `SyncEngine`, `FormEnds` of
`CursorSync` and of `FormWrite`, `CancelEnds` of `KingdeeClient` and `EveryScheduleRunEnds`
of `Scheduler`. Every safety property of the passing runs is a theorem.

## 7. Not modelled

See the components with status `not_modelled` in `PROJECT.json`: configuration,
connection set-up, read models and single-row CRUD, the front end, SQL text and
value normalisation. `WindowRunner`, `SnapshotManager`, `deleteOrphanedWithSnapshot` and
the task service's own queue have no production caller at this commit. The row
checkpoint of a large form without cursor keys (`engine.go:1183` to `1213`) is not
modelled: every form of the large group has cursor keys in its configuration. The
monitor's probe and the webhook's retries keep no state that others read.

## 8. Plan

1. `CursorSync`: a reset and a dry run of a form with a cursor.
2. `Scheduler`: a restart between two dispatches, with the rows it leaves.
3. Notifications: probe transitions, webhook retries.
