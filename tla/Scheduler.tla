----------------------------- MODULE Scheduler -----------------------------
(***************************************************************************)
(* The scheduler: the schedule_jobs table, the cron entries registered     *)
(* from it, the dispatch of a job (runJob), its schedule_runs record and   *)
(* its notification (schedule/scheduler.go, guard.go, the handlers of      *)
(* api/routes/v1/schedules.go and the completion hook of main.go).         *)
(*                                                                         *)
(* An entry's closure keeps a copy of its job row and saves the whole copy *)
(* later; the entries, the copies and the rows are therefore three things. *)
(* The engine appears through what its caller sees: a reservation that may *)
(* be refused, and a run whose row moves along the run contract.           *)
(***************************************************************************)
EXTENDS RunContract, Naturals, FiniteSets

CONSTANTS Jobs,        \* the jobs that exist or may be created
          DefaultJobs, \* the jobs ensureDefaultJobs creates
          MaxRuns,     \* bound on dispatches
          MaxEntries,  \* bound on cron registrations
          Handlers,    \* API handlers that may be busy at the same time
          Operations,  \* the operations users ask for in this instance
          MaxActivity, \* bound on requests, dispatches and faults together
          MaxFaults,   \* bound on failing state-database calls
          Day,         \* minutes of a day
          Window       \* the sync window, [start, end], or NoWindow

NoWindow == [start |-> Day, end |-> Day]

AllOperations == {"create", "edit", "enable", "disable", "delete", "start", "stop"}

ASSUME ConstantsAssumption ==
  /\ DefaultJobs \subseteq Jobs /\ Jobs # {}
  /\ MaxRuns \in Nat /\ MaxEntries \in Nat
  /\ Operations \subseteq AllOperations
  /\ "main" \notin Handlers
  /\ MaxActivity \in Nat /\ MaxFaults \in Nat
  /\ Day \in Nat \ {0}
  /\ Window \in [start : 0..Day, end : 0..Day]

Runs == 1..MaxRuns
NoRun == 0
EntryIds == 1..MaxEntries
NoEntry == 0

\* The goroutines that reload: the API's handlers, and main at start-up.
Reloaders == Handlers \cup {"main"}

VARIABLES
  jobRow,   \* schedule_jobs
  sched,    \* status of each schedule_runs row
  row,      \* status of each sync_runs row
  entry,    \* cron entries: live or removed, the job and its copy
  cronOn,   \* the cron's loop runs
  paused,   \* the scheduler's flag, under mu
  reload,   \* the goroutines inside a handler or the start-up
  fire,     \* the dispatch that carries each run
  result,   \* the status its runner returned
  expired,  \* its context's deadline has passed
  timer,    \* its separate timer goroutine
  mark,     \* its markTimeout, run at most once
  told,     \* what DingTalk and the webhooks were told
  requests, faults

runVars == <<sched, row, fire, result, expired, timer, mark, told>>
vars == <<jobRow, entry, cronOn, paused, reload, runVars, requests, faults>>

NoJobRow == [exists |-> FALSE, enabled |-> FALSE, lastRun |-> NoRun, lastStatus |-> Absent]
JobRows == [exists : BOOLEAN, enabled : BOOLEAN, lastRun : Runs \cup {NoRun},
            lastStatus : RowStatuses]

EntryStates == {"free", "live", "removed"}
IdleReload == [pc |-> "idle", op |-> "none", entries |-> {}, todo |-> {},
               copies |-> [j \in Jobs |-> NoJobRow], entry |-> NoEntry]
ReloadPcs == {"idle", "ensure", "loaded", "cronStart", "cronStop", "list", "remove",
              "query", "add", "save"}

HoldsSlot == {"reserved", "running"}
Executing == {"running", "result", "summary", "summarize", "copy", "fail",
              "failSched", "timeout"}
FirePcs == {"none", "fired", "allowed", "recorded", "inserted", "refused", "reserved",
            "hook", "done"} \cup Executing

Dispatched(r) == fire[r].entry # NoEntry
JobOf(r) == entry[fire[r].entry].job

TypeOK ==
  /\ jobRow \in [Jobs -> JobRows]
  /\ sched \in [Runs -> RowStatuses] /\ row \in [Runs -> RowStatuses]
  /\ entry \in [EntryIds -> [state : EntryStates, job : Jobs, copy : JobRows]]
  /\ cronOn \in BOOLEAN /\ paused \in BOOLEAN
  /\ reload \in [Reloaders -> [pc : ReloadPcs, op : AllOperations \cup {"none", "boot"},
                               entries : SUBSET EntryIds, todo : SUBSET Jobs,
                               copies : [Jobs -> JobRows],
                               entry : EntryIds \cup {NoEntry}]]
  /\ fire \in [Runs -> [pc : FirePcs, entry : EntryIds \cup {NoEntry}, started : BOOLEAN]]
  /\ result \in [Runs -> RowStatuses]
  /\ expired \in [Runs -> BOOLEAN]
  /\ timer \in [Runs -> {"off", "armed", "gone"}]
  /\ mark \in [Runs -> {"off", "sync", "sched", "done"}]
  /\ told \in [Runs -> [dingtalk : RowStatuses \cup {"skipped"},
                        webhook : {"none", "completed", "failed"}]]
  /\ requests \in Nat /\ faults \in Nat

Init ==
  /\ \E on \in SUBSET DefaultJobs, known \in SUBSET DefaultJobs :
       jobRow = [j \in Jobs |-> IF j \in known
                                THEN [NoJobRow EXCEPT !.exists = TRUE, !.enabled = j \in on]
                                ELSE NoJobRow]
  /\ sched = [r \in Runs |-> Absent] /\ row = [r \in Runs |-> Absent]
  /\ entry = [e \in EntryIds |-> [state |-> "free", job |-> CHOOSE j \in Jobs : TRUE,
                                  copy |-> NoJobRow]]
  /\ cronOn = FALSE /\ paused = FALSE
  /\ reload = [h \in Reloaders |->
                 IF h = "main" THEN [IdleReload EXCEPT !.pc = "ensure", !.op = "boot"]
                 ELSE IdleReload]
  /\ fire = [r \in Runs |-> [pc |-> "none", entry |-> NoEntry, started |-> FALSE]]
  /\ result = [r \in Runs |-> Absent]
  /\ expired = [r \in Runs |-> FALSE]
  /\ timer = [r \in Runs |-> "off"]
  /\ mark = [r \in Runs |-> "off"]
  /\ told = [r \in Runs |-> [dingtalk |-> Absent, webhook |-> "none"]]
  /\ requests = 0 /\ faults = 0

-----------------------------------------------------------------------------
\* Helpers.

\* What has happened to this instance; a dispatch counts twice.
Activity == requests + faults + 2 * Cardinality({r \in Runs : fire[r].pc # "none"})

Fault ==
  /\ faults < MaxFaults /\ Activity < MaxActivity
  /\ faults' = faults + 1

Live == {e \in EntryIds : entry[e].state = "live"}

Reloading(h, pc) == reload' = [reload EXCEPT ![h].pc = pc]
Done(h) == reload' = [reload EXCEPT ![h] = IdleReload]

At(r, pc) == fire' = [fire EXCEPT ![r].pc = pc]

\* db.Save of a whole row: an upsert, which also inserts a row that is gone.
SaveCopy(j, copy) == jobRow' = [jobRow EXCEPT ![j] = [copy EXCEPT !.exists = TRUE]]

\* FinishScheduleRun writes a row that is still running, and only that.
ScheduleFinished(r, s) ==
  sched' = [sched EXCEPT ![r] = IF @ = "running" THEN s ELSE @]

\* FinishScheduleRunWithRetry and FinishSyncRunWithRetry by a caller that only
\* logs their error.
FinishSched(r, s) ==
  \/ ScheduleFinished(r, s) /\ UNCHANGED faults
  \/ Fault /\ UNCHANGED sched

FinishSync(r, s) ==
  \/ row' = [row EXCEPT ![r] = Finished(@, s)] /\ UNCHANGED faults
  \/ Fault /\ UNCHANGED row

-----------------------------------------------------------------------------
\* Start-up and the handlers of the API.

\* ensureDefaultJobs: a missing default job is created. It asks for a disabled
\* row, but the column has a default and gorm leaves a false value out.
Ensure ==
  /\ reload["main"].pc = "ensure"
  /\ \/ /\ jobRow' = [j \in Jobs |->
                        IF j \in DefaultJobs /\ ~jobRow[j].exists
                        THEN [NoJobRow EXCEPT !.exists = TRUE, !.enabled = TRUE]
                        ELSE jobRow[j]]
        /\ Reloading("main", "query") /\ UNCHANGED faults
     \/ Fault /\ Done("main") /\ UNCHANGED jobRow
  /\ UNCHANGED <<entry, cronOn, paused, runVars, requests>>

Ask(h, op) ==
  /\ reload["main"].pc = "idle" /\ reload[h].pc = "idle"
  /\ op \in Operations
  /\ Activity < MaxActivity /\ requests' = requests + 1

\* createSchedule, and batchScheduleAction or deleteSchedule: one statement, and
\* then a reload. A batch ignores an error, the others return it.
WriteJob(h, op, j) ==
  /\ op \in {"create", "enable", "disable", "delete"}
  /\ Ask(h, op)
  /\ op = "create" <=> ~jobRow[j].exists
  /\ \/ /\ jobRow' = [jobRow EXCEPT ![j] =
              CASE op = "create" -> [NoJobRow EXCEPT !.exists = TRUE, !.enabled = TRUE]
                [] op = "delete" -> NoJobRow
                [] OTHER -> [@ EXCEPT !.enabled = op = "enable"]]
        /\ reload' = [reload EXCEPT ![h].pc = "list", ![h].op = op]
        /\ UNCHANGED faults
     \/ Fault /\ op # "create" /\ UNCHANGED jobRow
        /\ reload' = [reload EXCEPT ![h].pc = "list", ![h].op = op]
     \/ Fault /\ op \in {"create", "delete"} /\ UNCHANGED <<jobRow, reload>>
  /\ UNCHANGED <<entry, cronOn, paused, runVars>>

\* updateSchedule reads the row ...
LoadJob(h, j) ==
  /\ Ask(h, "edit")
  /\ jobRow[j].exists
  /\ reload' = [reload EXCEPT ![h] = [IdleReload EXCEPT !.pc = "loaded", !.op = "edit",
                                        !.todo = {j}, !.copies[j] = jobRow[j]]]
  /\ UNCHANGED <<jobRow, entry, cronOn, paused, runVars, faults>>

\* ... and saves it whole, with the enabled flag the request asks for.
SaveJob(h) ==
  /\ reload[h].pc = "loaded"
  /\ \E j \in reload[h].todo, on \in BOOLEAN :
       \/ /\ SaveCopy(j, [reload[h].copies[j] EXCEPT !.enabled = on])
          /\ reload' = [reload EXCEPT ![h].pc = "list", ![h].todo = {}]
          /\ UNCHANGED faults
       \/ Fault /\ Done(h) /\ UNCHANGED jobRow
  /\ UNCHANGED <<entry, cronOn, paused, runVars, requests>>

\* Pause and Resume set the flag under mu and act on the cron after it.
PauseFlag(h) ==
  /\ Ask(h, "stop")
  /\ paused' = TRUE
  /\ reload' = [reload EXCEPT ![h].pc = "cronStop", ![h].op = "stop"]
  /\ UNCHANGED <<jobRow, entry, cronOn, runVars, faults>>

PauseCron(h) ==
  /\ reload[h].pc = "cronStop"
  /\ cronOn' = FALSE
  /\ Done(h)
  /\ UNCHANGED <<jobRow, entry, paused, runVars, requests, faults>>

ResumeFlag(h) ==
  /\ Ask(h, "start")
  /\ paused' = FALSE
  /\ reload' = [reload EXCEPT ![h].pc = "cronStart", ![h].op = "start"]
  /\ UNCHANGED <<jobRow, entry, cronOn, runVars, faults>>

\* Resume reloads after it started the cron; Init starts it after loadJobs.
CronStart(h) ==
  /\ reload[h].pc = "cronStart"
  /\ cronOn' = TRUE
  /\ IF reload[h].op = "start" THEN Reloading(h, "list") ELSE Done(h)
  /\ UNCHANGED <<jobRow, entry, paused, runVars, requests, faults>>

\* ReloadJobs holds no lock: the entries of now ...
ReloadList(h) ==
  /\ reload[h].pc = "list"
  /\ reload' = [reload EXCEPT ![h].pc = "remove", ![h].entries = Live]
  /\ UNCHANGED <<jobRow, entry, cronOn, paused, runVars, requests, faults>>

\* ... are removed ...
ReloadRemove(h) ==
  /\ reload[h].pc = "remove"
  /\ entry' = [e \in EntryIds |-> IF e \in reload[h].entries
                                  THEN [entry[e] EXCEPT !.state = "removed"] ELSE entry[e]]
  /\ reload' = [reload EXCEPT ![h].pc = "query", ![h].entries = {}]
  /\ UNCHANGED <<jobRow, cronOn, paused, runVars, requests, faults>>

\* ... and the enabled rows of now (loadJobs reads the same) ...
ReloadQuery(h) ==
  /\ reload[h].pc = "query"
  /\ \/ /\ reload' = [reload EXCEPT ![h].pc = "add", ![h].copies = jobRow,
                        ![h].todo = {j \in Jobs : jobRow[j].exists /\ jobRow[j].enabled}]
        /\ UNCHANGED faults
     \/ Fault /\ Done(h)
  /\ UNCHANGED <<jobRow, entry, cronOn, paused, runVars, requests>>

\* ... are registered one by one (registerJob); the cron may refuse an expression.
ReloadAdd(h) ==
  /\ reload[h].pc = "add"
  /\ \E j \in reload[h].todo :
       \/ \E e \in EntryIds :
            /\ entry[e].state = "free" /\ \A d \in EntryIds : d < e => entry[d].state # "free"
            /\ entry' = [entry EXCEPT ![e] = [state |-> "live", job |-> j,
                                              copy |-> reload[h].copies[j]]]
            /\ reload' = [reload EXCEPT ![h].pc = "save", ![h].entry = e, ![h].todo = @ \ {j}]
       \/ reload' = [reload EXCEPT ![h].todo = @ \ {j}] /\ UNCHANGED entry
  /\ UNCHANGED <<jobRow, cronOn, paused, runVars, requests, faults>>

\* Each registration saves the copy for its next_run_at.
ReloadSave(h) ==
  /\ reload[h].pc = "save"
  /\ \/ SaveCopy(entry[reload[h].entry].job, entry[reload[h].entry].copy) /\ UNCHANGED faults
     \/ Fault /\ UNCHANGED jobRow
  /\ reload' = [reload EXCEPT ![h].pc = "add", ![h].entry = NoEntry]
  /\ UNCHANGED <<entry, cronOn, paused, runVars, requests>>

ReloadDone(h) ==
  /\ reload[h].pc = "add" /\ reload[h].todo = {}
  /\ IF reload[h].op = "boot" THEN Reloading(h, "cronStart") ELSE Done(h)
  /\ UNCHANGED <<jobRow, entry, cronOn, paused, runVars, requests, faults>>

-----------------------------------------------------------------------------
\* Dispatch: runJob on a goroutine of the cron.

CronFire(r, e) ==
  /\ cronOn /\ e \in Live /\ Activity + 1 < MaxActivity
  /\ fire[r].pc = "none" /\ \A q \in Runs : q < r => fire[q].pc # "none"
  /\ fire' = [fire EXCEPT ![r].pc = "fired", ![r].entry = e]
  /\ UNCHANGED <<jobRow, entry, cronOn, paused, reload, sched, row, result, expired,
                 timer, mark, told, requests, faults>>

FirePaused(r) ==
  /\ fire[r].pc = "fired"
  /\ At(r, IF paused THEN "done" ELSE "allowed")
  /\ UNCHANGED <<jobRow, entry, cronOn, paused, reload, sched, row, result, expired,
                 timer, mark, told, requests, faults>>

\* isWithinTimeWindow, both ends included; no window or an unreadable one allows.
Within(w, now) ==
  \/ w = NoWindow
  \/ w.start <= w.end /\ now >= w.start /\ now <= w.end
  \/ w.start > w.end /\ (now >= w.start \/ now <= w.end)

\* Outside the window nothing happens; a target database that queues for memory
\* grants skips the round and is reported, one that cannot be asked does not.
FireSkipped(r) ==
  /\ fire[r].pc = "allowed"
  /\ \/ \E now \in 0..(Day - 1) : ~Within(Window, now) /\ UNCHANGED told
     \/ told' = [told EXCEPT ![r].dingtalk = "skipped"]
  /\ At(r, "done")
  /\ UNCHANGED <<jobRow, entry, cronOn, paused, reload, sched, row, result, expired,
                 timer, mark, requests, faults>>

CreateScheduleRun(r) ==
  /\ fire[r].pc = "allowed"
  /\ \E now \in 0..(Day - 1) : Within(Window, now)
  /\ \/ sched' = [sched EXCEPT ![r] = "running"] /\ At(r, "recorded") /\ UNCHANGED faults
     \/ Fault /\ At(r, "done") /\ UNCHANGED sched
  /\ UNCHANGED <<jobRow, entry, cronOn, paused, reload, row, result, expired,
                 timer, mark, told, requests>>

CreateSyncRun(r) ==
  /\ fire[r].pc = "recorded"
  /\ \/ row' = [row EXCEPT ![r] = "running"] /\ At(r, "inserted") /\ UNCHANGED faults
     \/ Fault /\ At(r, "failSched") /\ UNCHANGED row
  /\ UNCHANGED <<jobRow, entry, cronOn, paused, reload, sched, result, expired,
                 timer, mark, told, requests>>

\* PrepareRun: refused while another run, scheduled or not, holds the engine.
PrepareRun(r) ==
  /\ fire[r].pc = "inserted"
  /\ \/ (\A q \in Runs : fire[q].pc \notin HoldsSlot) /\ At(r, "reserved")
     \/ At(r, "fail")
  /\ UNCHANGED <<jobRow, entry, cronOn, paused, reload, sched, row, result, expired,
                 timer, mark, told, requests, faults>>

\* The entry's copy gets the run and is saved; the goroutine and its timer start.
StartRun(r) ==
  /\ fire[r].pc = "reserved"
  /\ LET e == fire[r].entry
         copy == [entry[e].copy EXCEPT !.lastRun = r]
     IN /\ entry' = [entry EXCEPT ![e].copy = copy]
        /\ \/ SaveCopy(entry[e].job, copy) /\ UNCHANGED faults
           \/ Fault /\ UNCHANGED jobRow
  /\ fire' = [fire EXCEPT ![r].pc = "running", ![r].started = TRUE]
  /\ timer' = [timer EXCEPT ![r] = "armed"]
  /\ UNCHANGED <<cronOn, paused, reload, sched, row, result, expired, mark, told, requests>>

-----------------------------------------------------------------------------
\* The engine, as its caller sees it.

\* A user stops the run; the engine's own watchdog may give it up.
StopRun(r) ==
  /\ fire[r].pc \in {"inserted", "reserved", "running"}
  /\ \/ row[r] = "running" /\ row' = [row EXCEPT ![r] = "stopping"]
     \/ row[r] = "stopping" /\ row' = [row EXCEPT ![r] = Abnormal]
  /\ UNCHANGED <<jobRow, entry, cronOn, paused, reload, sched, fire, result, expired,
                 timer, mark, told, requests, faults>>

CtxExpire(r) ==
  /\ fire[r].pc = "running" /\ ~expired[r]
  /\ expired' = [expired EXCEPT ![r] = TRUE]
  /\ UNCHANGED <<jobRow, entry, cronOn, paused, reload, sched, row, fire, result,
                 timer, mark, told, requests, faults>>

\* The runner returns a result: the status it persisted, and reloaded. It only
\* decides on an end the row's status allows.
RunnerReturns(r) ==
  /\ fire[r].pc = "running"
  /\ \E s \in {t \in TerminalStatuses : t = Abnormal \/ ~FinishRejected(row[r], t)} :
       LET now == IF s = Abnormal THEN Aborted(row[r]) ELSE Finished(row[r], s)
       IN \/ /\ row' = [row EXCEPT ![r] = now]
             /\ result' = [result EXCEPT ![r] = now]
             /\ UNCHANGED faults
          \/ /\ Fault /\ row' = [row EXCEPT ![r] = now]
             /\ result' = [result EXCEPT ![r] = s]
          \/ /\ Fault /\ UNCHANGED row
             /\ result' = [result EXCEPT ![r] = Abnormal]
  /\ At(r, "result")
  /\ expired' = [expired EXCEPT ![r] = FALSE]
  /\ UNCHANGED <<jobRow, entry, cronOn, paused, reload, sched, timer, mark, told, requests>>

\* Mutant: a deadline is left to the timer goroutine.
RunnerLeavesTimeout(r) ==
  /\ fire[r].pc = "running"
  /\ At(r, IF expired[r] THEN "hook" ELSE "fail")
  /\ UNCHANGED <<jobRow, entry, cronOn, paused, reload, sched, row, result, expired,
                 timer, mark, told, requests, faults>>

\* It returns an error, or panics; an error after the deadline is a timeout.
RunnerFails(r) ==
  /\ fire[r].pc = "running"
  /\ \/ At(r, IF expired[r] THEN "timeout" ELSE "fail")
     \/ At(r, "fail")
  /\ expired' = [expired EXCEPT ![r] = FALSE]
  /\ UNCHANGED <<jobRow, entry, cronOn, paused, reload, sched, row, result, timer,
                 mark, told, requests, faults>>

-----------------------------------------------------------------------------
\* The end of a run.

\* The timer goroutine: its select may take the timer although done is closed.
TimerFires(r) ==
  /\ timer[r] = "armed"
  /\ timer' = [timer EXCEPT ![r] = "gone"]
  /\ mark' = [mark EXCEPT ![r] = IF @ = "off" THEN "sync" ELSE @]
  /\ UNCHANGED <<jobRow, entry, cronOn, paused, reload, sched, row, fire, result,
                 expired, told, requests, faults>>

TimerStops(r) ==
  /\ timer[r] = "armed" /\ fire[r].pc \in {"hook", "done"}
  /\ timer' = [timer EXCEPT ![r] = "gone"]
  /\ UNCHANGED <<jobRow, entry, cronOn, paused, reload, sched, row, fire, result,
                 expired, mark, told, requests, faults>>

\* Mutant: only the schedule's record is closed.
MarkSyncForgotten(r) ==
  /\ mark[r] = "sync"
  /\ mark' = [mark EXCEPT ![r] = "sched"]
  /\ UNCHANGED <<jobRow, entry, cronOn, paused, reload, sched, row, fire, result, expired,
                 timer, told, requests, faults>>

\* Mutant: a finished run is given up as well.
MarkSyncAlways(r) ==
  /\ mark[r] = "sync"
  /\ row' = [row EXCEPT ![r] = Abnormal]
  /\ mark' = [mark EXCEPT ![r] = "sched"]
  /\ UNCHANGED <<jobRow, entry, cronOn, paused, reload, sched, fire, result, expired,
                 timer, told, requests, faults>>

\* markTimeout: the run's row, then the schedule's.
MarkSync(r) ==
  /\ mark[r] = "sync"
  /\ \/ row' = [row EXCEPT ![r] = Aborted(@)] /\ UNCHANGED faults
     \/ Fault /\ UNCHANGED row
  /\ mark' = [mark EXCEPT ![r] = "sched"]
  /\ UNCHANGED <<jobRow, entry, cronOn, paused, reload, sched, fire, result, expired,
                 timer, told, requests>>

MarkSched(r) ==
  /\ mark[r] = "sched"
  /\ FinishSched(r, Abnormal)
  /\ mark' = [mark EXCEPT ![r] = "done"]
  /\ UNCHANGED <<jobRow, entry, cronOn, paused, reload, row, fire, result, expired,
                 timer, told, requests>>

\* The runner's own call of markTimeout runs it, or waits for the one that does.
RunnerTimeout(r) ==
  /\ fire[r].pc = "timeout"
  /\ \/ mark[r] = "off" /\ mark' = [mark EXCEPT ![r] = "sync"] /\ UNCHANGED fire
     \/ mark[r] = "done" /\ At(r, "hook") /\ UNCHANGED mark
  /\ UNCHANGED <<jobRow, entry, cronOn, paused, reload, sched, row, result, expired,
                 timer, told, requests, faults>>

\* failSyncRun, then failScheduleRun.
FailSync(r) ==
  /\ fire[r].pc = "fail"
  /\ FinishSync(r, "failed")
  /\ At(r, "failSched")
  /\ UNCHANGED <<jobRow, entry, cronOn, paused, reload, sched, result, expired, timer,
                 mark, told, requests>>

\* Mutant: the schedule's record is left open.
FailSchedForgotten(r) ==
  /\ fire[r].pc = "failSched"
  /\ At(r, IF fire[r].started THEN "hook" ELSE "done")
  /\ UNCHANGED <<jobRow, entry, cronOn, paused, reload, sched, row, result, expired, timer,
                 mark, told, requests, faults>>

\* A dispatch that never started its goroutine calls no hook.
FailSched(r) ==
  /\ fire[r].pc = "failSched"
  /\ FinishSched(r, "failed")
  /\ At(r, IF fire[r].started THEN "hook" ELSE "done")
  /\ UNCHANGED <<jobRow, entry, cronOn, paused, reload, row, result, expired, timer,
                 mark, told, requests>>

\* A result finishes the schedule's record with the run's status ...
FinishResult(r) ==
  /\ fire[r].pc = "result"
  /\ FinishSched(r, result[r])
  /\ At(r, "summary")
  /\ UNCHANGED <<jobRow, entry, cronOn, paused, reload, row, result, expired, timer,
                 mark, told, requests>>

\* Mutant: the job's summary takes the runner's word.
SummaryTrusted(r) ==
  /\ fire[r].pc = "summary"
  /\ At(r, "summarize")
  /\ UNCHANGED <<jobRow, entry, cronOn, paused, reload, sched, row, result, expired,
                 timer, mark, told, requests, faults>>

\* ... updateJobSummaryFromScheduleRun reads it back, a prior timeout having won ...
SummaryRead(r) ==
  /\ fire[r].pc = "summary"
  /\ \/ /\ result' = [result EXCEPT ![r] = sched[r]]
        /\ At(r, "summarize") /\ UNCHANGED faults
     \/ Fault /\ At(r, "hook") /\ UNCHANGED result
  /\ UNCHANGED <<jobRow, entry, cronOn, paused, reload, sched, row, expired, timer,
                 mark, told, requests>>

\* ... updates a job that still points at this run ...
SummaryWrite(r) ==
  /\ fire[r].pc = "summarize"
  /\ LET j == JobOf(r)
         hit == jobRow[j].exists /\ jobRow[j].lastRun = r
     IN \/ /\ jobRow' = IF hit THEN [jobRow EXCEPT ![j].lastStatus = result[r]] ELSE jobRow
           /\ At(r, IF hit THEN "copy" ELSE "hook") /\ UNCHANGED faults
        \/ Fault /\ At(r, "hook") /\ UNCHANGED jobRow
  /\ UNCHANGED <<entry, cronOn, paused, reload, sched, row, result, expired, timer,
                 mark, told, requests>>

\* ... and the entry's copy.
SummaryCopy(r) ==
  /\ fire[r].pc = "copy"
  /\ LET e == fire[r].entry
     IN entry' = IF entry[e].copy.lastRun = r
                 THEN [entry EXCEPT ![e].copy.lastStatus = result[r]] ELSE entry
  /\ At(r, "hook")
  /\ UNCHANGED <<jobRow, cronOn, paused, reload, sched, row, result, expired, timer,
                 mark, told, requests, faults>>

\* The completion hook reads the run's row: DingTalk hears of every end but
\* success; the webhooks know neither partial nor the contract's abnormal exit.
Hook(r) ==
  /\ fire[r].pc = "hook"
  /\ \/ /\ told' = [told EXCEPT ![r] =
                     [dingtalk |-> IF row[r] \in {"failed", "partial", "stopped", Abnormal}
                                   THEN row[r] ELSE Absent,
                      webhook |-> CASE row[r] = "success" -> "completed"
                                    [] row[r] \in {"failed", "stopped"} -> "failed"
                                    [] OTHER -> "none"]]
        /\ UNCHANGED faults
     \/ Fault /\ UNCHANGED told
  /\ At(r, "done")
  /\ result' = [result EXCEPT ![r] = Absent]
  /\ UNCHANGED <<jobRow, entry, cronOn, paused, reload, sched, row, expired, timer,
                 mark, requests>>

-----------------------------------------------------------------------------
ReloadStep(h) ==
  \/ ReloadList(h) \/ ReloadRemove(h) \/ ReloadQuery(h) \/ ReloadAdd(h)
  \/ ReloadSave(h) \/ ReloadDone(h) \/ CronStart(h) \/ PauseCron(h) \/ SaveJob(h)

UserStep(h) ==
  \/ \E op \in Operations, j \in Jobs : WriteJob(h, op, j)
  \/ \E j \in Jobs : LoadJob(h, j)
  \/ PauseFlag(h) \/ ResumeFlag(h)

DispatchStep(r) ==
  \/ FirePaused(r) \/ FireSkipped(r)
  \/ CreateScheduleRun(r) \/ CreateSyncRun(r) \/ PrepareRun(r) \/ StartRun(r)

EngineStep(r) == StopRun(r) \/ CtxExpire(r) \/ RunnerReturns(r) \/ RunnerFails(r)

EndStep(r) ==
  \/ RunnerTimeout(r) \/ FailSync(r) \/ FailSched(r) \/ FinishResult(r)
  \/ SummaryRead(r) \/ SummaryWrite(r) \/ SummaryCopy(r) \/ Hook(r)

TimeoutStep(r) == TimerFires(r) \/ TimerStops(r) \/ MarkSync(r) \/ MarkSched(r)

Next ==
  \/ Ensure
  \/ \E h \in Reloaders : ReloadStep(h)
  \/ \E h \in Handlers : UserStep(h)
  \/ \E r \in Runs :
       \/ \E e \in EntryIds : CronFire(r, e)
       \/ DispatchStep(r) \/ EngineStep(r) \/ EndStep(r) \/ TimeoutStep(r)

Spec == Init /\ [][Next]_vars

\* Goroutines are scheduled and timers fire; the engine's run may hang for ever.
FairSpec ==
  /\ Spec
  /\ \A r \in Runs : WF_vars(DispatchStep(r) \/ EndStep(r)) /\ WF_vars(TimeoutStep(r))

-----------------------------------------------------------------------------
\* The schedule's record never says more than the run's: it ends after the run's
\* row did, and an end other than failure is the run's own (the runner's result,
\* the timer and the failure paths race for both rows, each in two calls).
ScheduleFollowsRun ==
  faults = 0 => \A r \in Runs : sched[r] \in TerminalStatuses =>
    /\ row[r] \in TerminalStatuses
    /\ sched[r] \in {"success", "partial", "stopped"} => row[r] = sched[r]

\* The status shown on a job is the recorded end of one of its runs: a runner
\* that comes after the watchdog does not replace it by its own result, and the
\* copies that are saved whole carry no other (updateJobSummaryFromScheduleRun).
SummaryIsRecorded ==
  faults = 0 => \A j \in Jobs : jobRow[j].lastStatus # Absent =>
    \E r \in Runs : /\ Dispatched(r) /\ JobOf(r) = j
                    /\ sched[r] = jobRow[j].lastStatus
                    /\ sched[r] \in TerminalStatuses

\* A scheduled run that began and did not succeed is reported with the status
\* the history shows for it: the hook reads a row that has ended and stays.
FailureIsTold ==
  faults = 0 => \A r \in Runs :
    fire[r].pc = "done" /\ fire[r].started /\ row[r] # "success" => told[r].dingtalk = row[r]

\* The runs the scheduler creates keep the contract of every run: the runner, the
\* timer and the failure paths write the same row.
Lifecycle == INSTANCE RunLifecycle WITH status <- row, parent <- [r \in Runs |-> NoRun]

ScheduledRunsKeepContract == Lifecycle!Spec

\* Every schedule record ends, even when the engine hangs: the timer sees to it.
EveryScheduleRunEnds ==
  \A r \in Runs : sched[r] = "running" ~> sched[r] # "running" \/ faults > 0

-----------------------------------------------------------------------------
\* What documents and comments say and the code does not do.

\* README.md, "调度任务可在管理台按需启停": a job that a user disabled or deleted
\* stays so until a user enables it, edits it or creates it again.
DisabledStays ==
  [][\A j \in Jobs :
       ~jobRow[j].enabled /\ jobRow'[j].enabled =>
         \/ requests' # requests
         \/ \E h \in Reloaders : reload[h].pc \in {"ensure", "loaded"} /\ reload'[h] # reload[h]
    ]_vars
=============================================================================
