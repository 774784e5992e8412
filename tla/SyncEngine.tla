----------------------------- MODULE SyncEngine -----------------------------
(***************************************************************************)
(* The run lifecycle of the server: the state database's sync_runs rows,   *)
(* the one-slot SyncEngine, the callers that put runs into it (the HTTP    *)
(* API, the retry handler, the scheduler, recovery at start-up), the stop  *)
(* requests and watchdogs that act on a run from other goroutines, and the *)
(* process around them (shutdown, crash, start and recovery).              *)
(*                                                                         *)
(* One action is one critical section, one state-database call or one      *)
(* channel event; between two of them every other goroutine may act.       *)
(* Forms are abstracted to the outcome they report.                        *)
(***************************************************************************)
EXTENDS RunContract, Naturals, FiniteSets

CONSTANTS MaxRuns,      \* bound on the runs ever created
          Forms,        \* the configured forms
          Group,        \* priority group of each form (PriorityMap)
          Concurrency,  \* permits of groups 0 and 1 (table_concurrency)
          Requests,     \* the form sets callers ask for; {} when none is configured
          Kinds,        \* which callers exist in this instance
          AllowStop,    \* whether users stop runs in this instance
          MaxFaults,    \* bound on failing state-database calls
          MaxShutdowns, \* bound on shutdown signals
          MaxStarts,    \* bound on restarts of the process
          MaxCrashes    \* bound on crashes

CallerKinds == {"api", "retry", "schedule", "recovery"}

ASSUME ConstantsAssumption ==
  /\ MaxRuns \in Nat
  /\ Group \in [Forms -> 0..2]
  /\ Concurrency \in Nat \ {0}
  /\ Requests \subseteq SUBSET Forms
  /\ Kinds \subseteq CallerKinds
  /\ AllowStop \in BOOLEAN
  /\ MaxFaults \in Nat /\ MaxShutdowns \in Nat
  /\ MaxStarts \in Nat /\ MaxCrashes \in Nat

Runs == 1..MaxRuns
NoRun == 0
LargeForms == {f \in Forms : Group[f] = 2}
Permits(g) == IF g = 2 THEN 1 ELSE Concurrency

VARIABLES
  \* state database
  row,         \* status of each sync_runs row
  parent,      \* parent_run_id
  cpOwner,     \* run_id of each large form's checkpoint, NoRun when cleared
  \* process
  phase,       \* "down", "recover", "resume" or "serving"
  todo,        \* rows the start-up loop has still to look at
  \* SyncEngine, under e.mu
  eng,
  \* the goroutine that carries each run
  pc,          \* where it is
  ctx,         \* the context its caller made: "live", "canceled", "expired"
  job,         \* who called and for which forms
  seen,        \* the status it last read from the database or decided on
  form,        \* the forms of the executing run
  \* other goroutines
  stopWatch,   \* the engine's watchStopTimeout of each run
  taskWatch,   \* the API's watchActiveTaskStop of each run
  cancelDue,   \* stopSync handlers that have yet to call task.cancel
  activeTask,  \* the API's task
  drain,       \* the shutdown coordinator in GracefulStop
  \* bounds
  faults, shutdowns, starts, crashes

storeVars  == <<row, parent, cpOwner>>
runnerVars == <<pc, ctx, job, seen>>
watchVars  == <<stopWatch, taskWatch, cancelDue, activeTask, drain>>
procVars   == <<phase, todo, shutdowns, starts, crashes>>
vars == <<storeVars, eng, runnerVars, form, watchVars, procVars, faults>>

EngineIdle == [active |-> FALSE, executing |-> FALSE, run |-> NoRun,
               status |-> Absent, stopRequested |-> FALSE,
               gracefulStop |-> FALSE, cancelled |-> FALSE,
               watched |-> FALSE, shutdown |-> FALSE]

EngineState == [active : BOOLEAN, executing : BOOLEAN, run : Runs \cup {NoRun},
                status : RowStatuses, stopRequested : BOOLEAN,
                gracefulStop : BOOLEAN, cancelled : BOOLEAN,
                watched : BOOLEAN, shutdown : BOOLEAN]

NoJob == [kind |-> "none", forms |-> {}]

\* Steps of a run's goroutine, from the persisted row to its end.
InRunSync == {"open", "openBg", "forms", "finalizing", "ending"}
BeforeRunSync == {"prepared", "query", "queryBg", "gate", "gracestop",
                  "close", "closed", "enter"}
AfterRunSync == {"ok", "err", "exit"}
LivePcs == {"created"} \cup BeforeRunSync \cup InRunSync \cup AfterRunSync
RunnerPcs == LivePcs \cup {"none", "done"}

WatchStates == {"off", "armed", "marked", "told"}
FormStates == {"absent", "waiting", "running", "success", "failed", "stopped", "skipped"}
DrainPcs == {"idle", "ask", "look", "wait", "marked", "told", "exit"}

TypeOK ==
  /\ row \in [Runs -> RowStatuses]
  /\ parent \in [Runs -> Runs \cup {NoRun}]
  /\ cpOwner \in [LargeForms -> Runs \cup {NoRun}]
  /\ phase \in {"down", "recover", "resume", "serving"}
  /\ todo \in SUBSET Runs
  /\ eng \in EngineState
  /\ pc \in [Runs -> RunnerPcs]
  /\ ctx \in [Runs -> {"live", "canceled", "expired"}]
  /\ job \in [Runs -> [kind : CallerKinds \cup {"none"}, forms : SUBSET Forms]]
  /\ seen \in [Runs -> RowStatuses]
  /\ form \in [Forms -> FormStates]
  /\ stopWatch \in [Runs -> WatchStates]
  /\ taskWatch \in [Runs -> WatchStates]
  /\ cancelDue \in SUBSET Runs
  /\ activeTask \in Runs \cup {NoRun}
  /\ drain \in [pc : DrainPcs, run : Runs \cup {NoRun}]
  /\ faults \in Nat /\ shutdowns \in Nat /\ starts \in Nat /\ crashes \in Nat

Init ==
  /\ row = [r \in Runs |-> Absent]
  /\ parent = [r \in Runs |-> NoRun]
  /\ cpOwner = [f \in LargeForms |-> NoRun]
  /\ phase = "serving" /\ todo = {}
  /\ eng = EngineIdle
  /\ pc = [r \in Runs |-> "none"]
  /\ ctx = [r \in Runs |-> "live"]
  /\ job = [r \in Runs |-> NoJob]
  /\ seen = [r \in Runs |-> Absent]
  /\ form = [f \in Forms |-> "absent"]
  /\ stopWatch = [r \in Runs |-> "off"]
  /\ taskWatch = [r \in Runs |-> "off"]
  /\ cancelDue = {} /\ activeTask = NoRun
  /\ drain = [pc |-> "idle", run |-> NoRun]
  /\ faults = 0 /\ shutdowns = 0 /\ starts = 0 /\ crashes = 0

-----------------------------------------------------------------------------
\* Helpers.

\* Run identifiers are handed out in order of start_time.
Fresh(r) == row[r] = Absent /\ \A q \in Runs : q < r => row[q] # Absent

\* e.mu is held across finalisation's database calls.
MuFree == \A r \in Runs : pc[r] # "finalizing"

\* syncMutex is held from the admission check to the end of PrepareRun.
SyncMutexFree ==
  \A r \in Runs : pc[r] = "created" => job[r].kind \notin {"api", "retry"}

\* One state-database call fails (after its retries, where it has them).
Fault == faults < MaxFaults /\ faults' = faults + 1

SetRow(r, s) == row' = [row EXCEPT ![r] = s]

\* FinishSyncRunWithRetry by a caller that ignores its error.
FinishRow(r, s) ==
  \/ SetRow(r, Finished(row[r], s)) /\ UNCHANGED faults
  \/ Fault /\ UNCHANGED row

\* MarkSyncRunAbnormalExitWithRetry by a caller that ignores its error.
AbortRow(r) ==
  \/ SetRow(r, Aborted(row[r])) /\ UNCHANGED faults
  \/ Fault /\ UNCHANGED row

\* runCtx.Err() # nil: the caller's context or runCancel ended it.
CtxErr(r) == ctx[r] # "live" \/ (eng.run = r /\ eng.cancelled)

\* MarkAbnormalExit: only the current run, only when not yet terminal.
ToldAbnormal(r) ==
  IF eng.run = r /\ eng.status \notin TerminalStatuses
  THEN [eng EXCEPT !.status = Abnormal]
  ELSE eng

\* Mutant: cancelActiveRun cancels whatever executes.
CancelledAny(r) ==
  IF eng.executing THEN [eng EXCEPT !.cancelled = TRUE] ELSE eng

\* cancelActiveRun: the identifier is compared again under the lock.
CancelledActive(r) ==
  IF eng.run = r /\ eng.executing THEN [eng EXCEPT !.cancelled = TRUE] ELSE eng

Goto(r, p) == pc' = [pc EXCEPT ![r] = p]

-----------------------------------------------------------------------------
\* Admission.

\* beginRun, when it succeeds.
Begun(r) == [EngineIdle EXCEPT !.active = TRUE, !.run = r,
                               !.status = "running", !.shutdown = eng.shutdown]

\* createRun, retryFailedForms and runJob persist a run before they reserve
\* the engine. The API handlers first look for a running one under syncMutex;
\* the scheduler leaves that to the engine.
Persist(r, k, fs) ==
  /\ phase = "serving"
  /\ Fresh(r)
  /\ k = "api" => ~eng.shutdown
  /\ k = "retry" => \E q \in Runs : row[q] \in TerminalStatuses \ {"success"}
  /\ k \in {"api", "retry"} =>
       SyncMutexFree /\ MuFree /\ activeTask = NoRun /\ ~eng.active
  /\ SetRow(r, "running")
  /\ job' = [job EXCEPT ![r] = [kind |-> k, forms |-> fs]]
  /\ Goto(r, "created")
  /\ UNCHANGED <<parent, cpOwner, eng, ctx, seen, form, watchVars, procVars, faults>>

\* Mutant: beginRun without its look at e.active.
ReserveUnchecked(r) ==
  /\ pc[r] = "created"
  /\ MuFree
  /\ ~eng.shutdown /\ row[r] = "running"
  /\ eng' = Begun(r)
  /\ activeTask' = IF job[r].kind = "api" THEN r ELSE activeTask
  /\ Goto(r, "prepared")
  /\ UNCHANGED <<storeVars, ctx, job, seen, form, stopWatch, taskWatch,
                 cancelDue, drain, procVars, faults>>

\* PrepareRun takes the slot; createRun then publishes its task.
Reserve(r) ==
  /\ pc[r] = "created"
  /\ MuFree
  /\ ~eng.active /\ ~eng.shutdown /\ row[r] = "running"
  /\ eng' = Begun(r)
  /\ activeTask' = IF job[r].kind = "api" THEN r ELSE activeTask
  /\ Goto(r, "prepared")
  /\ UNCHANGED <<storeVars, ctx, job, seen, form, stopWatch, taskWatch,
                 cancelDue, drain, procVars, faults>>

\* Mutant: a refused caller leaves its row behind.
ReserveRejectedForgotten(r) ==
  /\ pc[r] = "created"
  /\ MuFree
  /\ eng.active \/ eng.shutdown \/ row[r] # "running"
  /\ Goto(r, "done")
  /\ job' = [job EXCEPT ![r] = NoJob]
  /\ UNCHANGED <<storeVars, eng, ctx, seen, form, watchVars, procVars, faults>>

\* PrepareRun refuses (or cannot read the row): the caller fails the run, and
\* the recovery loop gives up.
ReserveRejected(r) ==
  /\ pc[r] = "created"
  /\ MuFree
  /\ \/ (eng.active \/ eng.shutdown \/ row[r] # "running") /\ FinishRow(r, "failed")
     \/ Fault /\ SetRow(r, Finished(row[r], "failed"))
  /\ Goto(r, "done")
  /\ job' = [job EXCEPT ![r] = NoJob]
  /\ todo' = IF job[r].kind = "recovery" THEN {} ELSE todo
  /\ UNCHANGED <<parent, cpOwner, eng, ctx, seen, form, watchVars, phase,
                 shutdowns, starts, crashes>>

-----------------------------------------------------------------------------
\* The runner: SyncDataWithRunID on a goroutine of the caller.

\* The slot must still be this run's; the row is then read with the caller's
\* context if that is live, otherwise with a background one.
RunnerStart(r) ==
  /\ pc[r] = "prepared"
  /\ Goto(r, IF ~eng.active \/ eng.run # r THEN "err"
             ELSE IF ctx[r] = "live" THEN "query" ELSE "queryBg")
  /\ UNCHANGED <<storeVars, eng, ctx, job, seen, form, watchVars, procVars, faults>>

\* The read fails with its context or with the database: an early return that
\* keeps the slot.
RunnerQueryFails(r) ==
  /\ pc[r] \in {"query", "queryBg"}
  /\ \/ pc[r] = "query" /\ ctx[r] # "live" /\ UNCHANGED faults
     \/ Fault
  /\ Goto(r, "err")
  /\ UNCHANGED <<storeVars, eng, ctx, job, seen, form, watchVars, procVars>>

RunnerQuery(r) ==
  /\ pc[r] \in {"query", "queryBg"}
  /\ seen' = [seen EXCEPT ![r] = row[r]]
  /\ Goto(r, IF row[r] \in ActiveStatuses THEN "gate" ELSE "err")
  /\ UNCHANGED <<storeVars, eng, ctx, job, form, watchVars, procVars, faults>>

\* The row read above is combined with the engine's view of now.
RunnerGate(r) ==
  /\ pc[r] = "gate"
  /\ LET stopping == eng.status = "stopping"
     IN Goto(r, IF seen[r] = "running" /\ eng.shutdown /\ ~stopping THEN "gracestop"
                ELSE IF seen[r] = "stopping" \/ stopping THEN "close"
                ELSE "enter")
  /\ UNCHANGED <<storeVars, eng, ctx, job, seen, form, watchVars, procVars, faults>>

\* Mutant: the error of UpdateSyncRunStatus is swallowed.
AskedUnsaved(r, graceful) ==
  /\ eng.active /\ eng.run = r /\ row[r] \in ActiveStatuses
  /\ SetRow(r, "stopping") \/ UNCHANGED row
  /\ eng' = [eng EXCEPT !.status = "stopping", !.stopRequested = TRUE,
                        !.gracefulStop = graceful,
                        !.cancelled = @ \/ (eng.executing /\ ~graceful),
                        !.watched = @ \/ eng.executing]
  /\ stopWatch' = IF eng.executing /\ ~eng.watched
                  THEN [stopWatch EXCEPT ![r] = "armed"] ELSE stopWatch

\* Mutant: a graceful stop cancels the run's context, not only the fetches'.
AskedCancels(r, graceful) ==
  /\ eng.active /\ eng.run = r /\ row[r] \in ActiveStatuses
  /\ SetRow(r, "stopping")
  /\ eng' = [eng EXCEPT !.status = "stopping", !.stopRequested = TRUE,
                        !.gracefulStop = graceful,
                        !.cancelled = @ \/ eng.executing,
                        !.watched = @ \/ eng.executing]
  /\ stopWatch' = IF eng.executing /\ ~eng.watched
                  THEN [stopWatch EXCEPT ![r] = "armed"] ELSE stopWatch

\* Mutant: no watchdog for a stop that finds the run executing.
AskedUnwatched(r, graceful) ==
  /\ eng.active /\ eng.run = r /\ row[r] \in ActiveStatuses
  /\ SetRow(r, "stopping")
  /\ eng' = [eng EXCEPT !.status = "stopping", !.stopRequested = TRUE,
                        !.gracefulStop = graceful,
                        !.cancelled = @ \/ (eng.executing /\ ~graceful)]
  /\ UNCHANGED stopWatch

\* RequestStop and RequestGracefulStop, when they return true.
Asked(r, graceful) ==
  /\ eng.active /\ eng.run = r /\ row[r] \in ActiveStatuses
  /\ SetRow(r, "stopping")
  /\ eng' = [eng EXCEPT !.status = "stopping", !.stopRequested = TRUE,
                        !.gracefulStop = graceful,
                        !.cancelled = @ \/ (eng.executing /\ ~graceful),
                        !.watched = @ \/ eng.executing]
  /\ stopWatch' = IF eng.executing /\ ~eng.watched
                  THEN [stopWatch EXCEPT ![r] = "armed"] ELSE stopWatch

\* A run prepared before the shutdown asks for its own graceful stop, which is
\* refused when its row has ended since it was read.
RunnerGraceStop(r) ==
  /\ pc[r] = "gracestop"
  /\ \/ Asked(r, TRUE) /\ Goto(r, "close") /\ UNCHANGED faults
     \/ /\ \/ row[r] \in TerminalStatuses /\ UNCHANGED faults
           \/ Fault
        /\ Goto(r, "err") /\ UNCHANGED <<row, eng, stopWatch>>
  /\ UNCHANGED <<parent, cpOwner, ctx, job, seen, form, taskWatch, cancelDue,
                 activeTask, drain, procVars>>

\* finishPreparedRunStopped: the row first, then the slot; an error of either
\* call returns with the slot kept.
RunnerClosePrepared(r) ==
  /\ pc[r] = "close"
  /\ \/ /\ SetRow(r, Finished(row[r], "stopped"))
        /\ Goto(r, IF FinishRejected(row[r], "stopped") THEN "err" ELSE "closed")
        /\ UNCHANGED faults
     \/ Fault /\ Goto(r, "err") /\ UNCHANGED row
  /\ UNCHANGED <<parent, cpOwner, eng, ctx, job, seen, form, watchVars, procVars>>

\* Mutant: the slot of a run stopped before its start is kept.
ReleasePreparedKeeps(r) ==
  /\ pc[r] = "closed"
  /\ eng' = [eng EXCEPT !.status = row[r]]
  /\ seen' = [seen EXCEPT ![r] = row[r]]
  /\ Goto(r, "ok")
  /\ UNCHANGED <<storeVars, ctx, job, form, watchVars, procVars, faults>>

RunnerReleasePrepared(r) ==
  /\ pc[r] = "closed"
  /\ \/ /\ eng' = [eng EXCEPT !.status = row[r], !.active = FALSE]
        /\ seen' = [seen EXCEPT ![r] = row[r]]
        /\ Goto(r, "ok") /\ UNCHANGED faults
     \/ Fault /\ Goto(r, "err") /\ UNCHANGED <<eng, seen>>
  /\ UNCHANGED <<storeVars, ctx, job, form, watchVars, procVars>>

\* runSync's entry: contexts are made, a stop asked for since the gate cancels
\* at once and starts the watchdog.
RunnerEnter(r) ==
  /\ pc[r] = "enter"
  /\ LET stopNow == eng.stopRequested /\ ~eng.gracefulStop
     IN /\ eng' = [eng EXCEPT !.executing = TRUE, !.cancelled = stopNow,
                              !.watched = @ \/ eng.stopRequested]
        /\ Goto(r, IF stopNow \/ ctx[r] # "live" THEN "openBg" ELSE "open")
  /\ stopWatch' = IF eng.stopRequested /\ ~eng.watched
                  THEN [stopWatch EXCEPT ![r] = "armed"] ELSE stopWatch
  /\ UNCHANGED <<storeVars, ctx, job, seen, form, taskWatch, cancelDue,
                 activeTask, drain, procVars, faults>>

\* runSync's deferred function: done is closed, the slot is free.
Released == [eng EXCEPT !.executing = FALSE, !.active = FALSE, !.cancelled = FALSE]

WatchReleased(r) ==
  stopWatch' = IF stopWatch[r] = "armed" THEN [stopWatch EXCEPT ![r] = "off"]
               ELSE stopWatch

\* No form to run, or the row cannot be read with the context picked at entry.
RunnerOpenFails(r) ==
  /\ pc[r] \in {"open", "openBg"}
  /\ \/ job[r].forms = {} /\ UNCHANGED faults
     \/ job[r].forms # {} /\ pc[r] = "open" /\ CtxErr(r) /\ UNCHANGED faults
     \/ job[r].forms # {} /\ Fault
  /\ eng' = Released
  /\ WatchReleased(r)
  /\ Goto(r, "err")
  /\ UNCHANGED <<storeVars, ctx, job, seen, form, taskWatch, cancelDue,
                 activeTask, drain, procVars>>

RunnerOpen(r) ==
  /\ pc[r] \in {"open", "openBg"}
  /\ job[r].forms # {}
  /\ form' = [f \in Forms |-> IF f \in job[r].forms THEN "waiting" ELSE "absent"]
  /\ Goto(r, "forms")
  /\ UNCHANGED <<storeVars, eng, ctx, job, seen, watchVars, procVars, faults>>

-----------------------------------------------------------------------------
\* The forms of the executing run: one goroutine per form, groups in sequence,
\* a semaphore within the group.

Unsettled == {"waiting", "running"}

\* Mutant: a form waits for its own group, too.
GroupReadyStrict(f) ==
  \A g \in Forms \ {f} : Group[g] <= Group[f] => form[g] \notin Unsettled

GroupReady(f) ==
  \A g \in Forms : Group[g] < Group[f] => form[g] \notin Unsettled

PermitFree(f) ==
  Cardinality({g \in Forms : Group[g] = Group[f] /\ form[g] = "running"})
    < Permits(Group[f])

SetForm(f, s) == form' = [form EXCEPT ![f] = s]

\* A form that gets its permit after the stop reports "stopped" at once.
FormStart(r, f) ==
  /\ pc[r] = "forms" /\ form[f] = "waiting"
  /\ GroupReady(f) /\ PermitFree(f)
  /\ SetForm(f, IF CtxErr(r) \/ eng.gracefulStop THEN "stopped" ELSE "running")
  /\ UNCHANGED <<storeVars, eng, runnerVars, watchVars, procVars, faults>>

\* The semaphore wait loses to the context: the form leaves no result.
FormSkip(r, f) ==
  /\ pc[r] = "forms" /\ form[f] = "waiting"
  /\ GroupReady(f) /\ CtxErr(r)
  /\ SetForm(f, "skipped")
  /\ UNCHANGED <<storeVars, eng, runnerVars, watchVars, procVars, faults>>

\* A page of a large form is written and its checkpoint taken over.
FormSave(r, f) ==
  /\ pc[r] = "forms" /\ form[f] = "running"
  /\ f \in LargeForms /\ cpOwner[f] # r
  /\ cpOwner' = [cpOwner EXCEPT ![f] = r]
  /\ UNCHANGED <<row, parent, eng, runnerVars, form, watchVars, procVars, faults>>

\* Only a large form that succeeded clears its checkpoint; a failing clear is
\* logged and forgotten.
FormSucceed(r, f) ==
  /\ pc[r] = "forms" /\ form[f] = "running"
  /\ SetForm(f, "success")
  /\ IF f \in LargeForms
     THEN \/ cpOwner' = [cpOwner EXCEPT ![f] = NoRun] /\ UNCHANGED faults
          \/ Fault /\ UNCHANGED cpOwner
     ELSE UNCHANGED <<cpOwner, faults>>
  /\ UNCHANGED <<row, parent, eng, runnerVars, watchVars, procVars>>

FormFail(r, f) ==
  /\ pc[r] = "forms" /\ form[f] = "running"
  /\ \/ SetForm(f, "failed")
     \/ (CtxErr(r) \/ eng.gracefulStop) /\ SetForm(f, "stopped")
  /\ UNCHANGED <<storeVars, eng, runnerVars, watchVars, procVars, faults>>

-----------------------------------------------------------------------------
\* Finalisation, under e.mu.

\* Forms that left no result do not count.
ResultStatus ==
  LET good == \E f \in Forms : form[f] = "success"
      bad  == \E f \in Forms : form[f] \in {"failed", "stopped"}
  IN IF bad /\ ~good THEN "failed" ELSE IF bad THEN "partial" ELSE "success"

Decide(r, s) ==
  /\ seen' = [seen EXCEPT ![r] = s]
  /\ eng' = [eng EXCEPT !.status = s]

\* Mutant: the context is not looked at.
FinalDecideBlind(r) ==
  /\ pc[r] = "forms"
  /\ \A f \in Forms : form[f] \notin Unsettled
  /\ Decide(r, CASE row[r] = "stopping" -> "stopped"
                 [] row[r] \in TerminalStatuses -> row[r]
                 [] OTHER -> ResultStatus)
  /\ Goto(r, "finalizing")
  /\ UNCHANGED <<storeVars, ctx, job, form, watchVars, procVars, faults>>

\* What the forms, the row and the context together decide.
FinalDecide(r) ==
  /\ pc[r] = "forms"
  /\ \A f \in Forms : form[f] \notin Unsettled
  /\ \/ \* the row cannot be read: the forms alone decide
        /\ Fault
        /\ Decide(r, ResultStatus) /\ Goto(r, "finalizing") /\ UNCHANGED row
     \/ \* the context ended and nobody asked to stop
        /\ CtxErr(r) /\ ~eng.stopRequested
        /\ Decide(r, Abnormal)
        /\ \/ SetRow(r, Aborted(row[r])) /\ Goto(r, "finalizing") /\ UNCHANGED faults
           \/ Fault /\ Goto(r, "ending") /\ UNCHANGED row
     \/ /\ ~(CtxErr(r) /\ ~eng.stopRequested)
        /\ LET now == IF CtxErr(r) /\ row[r] = "running" THEN "stopping" ELSE row[r]
           IN /\ SetRow(r, now)
              /\ Decide(r, CASE now = "stopping" -> "stopped"
                             [] now \in TerminalStatuses -> now
                             [] OTHER -> ResultStatus)
        /\ Goto(r, "finalizing") /\ UNCHANGED faults
  /\ UNCHANGED <<parent, cpOwner, ctx, job, form, watchVars, procVars>>

\* Mutant: the row is not read back.
FinalPersistUnread(r) ==
  /\ pc[r] = "finalizing"
  /\ SetRow(r, Finished(row[r], seen[r]))
  /\ Goto(r, "ending")
  /\ UNCHANGED <<parent, cpOwner, eng, ctx, job, seen, form, watchVars, procVars, faults>>

\* The decision is persisted and the row read back; a failure to persist is
\* only shown by the live view.
FinalPersist(r) ==
  /\ pc[r] = "finalizing"
  /\ LET now == IF seen[r] = Abnormal THEN row[r] ELSE Finished(row[r], seen[r])
     IN \/ SetRow(r, now) /\ Decide(r, now) /\ UNCHANGED faults
        \/ SetRow(r, now) /\ Fault /\ UNCHANGED <<seen, eng>>
        \/ seen[r] # Abnormal /\ Fault /\ Decide(r, Abnormal) /\ UNCHANGED row
  /\ Goto(r, "ending")
  /\ UNCHANGED <<parent, cpOwner, ctx, job, form, watchVars, procVars>>

Release(r) ==
  /\ pc[r] = "ending"
  /\ eng' = Released
  /\ WatchReleased(r)
  /\ form' = [f \in Forms |-> "absent"]
  /\ Goto(r, "ok")
  /\ UNCHANGED <<storeVars, ctx, job, seen, taskWatch, cancelDue, activeTask,
                 drain, procVars, faults>>

-----------------------------------------------------------------------------
\* The caller after SyncDataWithRunID returned.

\* A result: only the retry handler writes the run's row again.
AfterResult(r) ==
  /\ pc[r] = "ok"
  /\ SetRow(r, IF job[r].kind = "retry" THEN Finished(row[r], seen[r]) ELSE row[r])
  /\ Goto(r, "exit")
  /\ UNCHANGED <<parent, cpOwner, eng, ctx, job, seen, form, watchVars, procVars, faults>>

\* finishSyncRunAfterError.
ApiAfterError(r) ==
  \/ Fault /\ eng' = ToldAbnormal(r) /\ UNCHANGED row
  \/ /\ row[r] \in TerminalStatuses
     /\ UNCHANGED <<row, eng, faults>>
  \/ /\ row[r] \in ActiveStatuses
     /\ IF ctx[r] = "canceled" /\ row[r] = "stopping"
        THEN FinishRow(r, "stopped") /\ UNCHANGED eng
        ELSE IF ctx[r] # "live"
        THEN AbortRow(r) /\ eng' = ToldAbnormal(r)
        ELSE FinishRow(r, "failed") /\ UNCHANGED eng

AfterError(r) ==
  /\ pc[r] = "err"
  /\ CASE job[r].kind = "api" -> ApiAfterError(r)
       [] job[r].kind = "recovery" -> UNCHANGED <<row, eng, faults>>
       [] job[r].kind = "schedule" /\ ctx[r] = "expired" -> AbortRow(r) /\ UNCHANGED eng
       [] OTHER -> FinishRow(r, "failed") /\ UNCHANGED eng
  /\ Goto(r, "exit")
  /\ UNCHANGED <<parent, cpOwner, ctx, job, seen, form, watchVars, procVars>>

\* The goroutine ends; createRun's clears its task and closes task.done.
RunnerExit(r) ==
  /\ pc[r] = "exit"
  /\ job[r].kind = "api" => SyncMutexFree
  /\ activeTask' = IF activeTask = r THEN NoRun ELSE activeTask
  /\ taskWatch' = IF taskWatch[r] = "armed" THEN [taskWatch EXCEPT ![r] = "off"]
                  ELSE taskWatch
  /\ Goto(r, "done")
  /\ ctx' = [ctx EXCEPT ![r] = "live"]
  /\ job' = [job EXCEPT ![r] = NoJob]
  /\ seen' = [seen EXCEPT ![r] = Absent]
  /\ UNCHANGED <<storeVars, eng, form, stopWatch, cancelDue, drain, procVars, faults>>

-----------------------------------------------------------------------------
\* Deadlines, stop requests and watchdogs.

\* The caller's WithTimeout; it is far longer than the steps before the forms.
CtxExpire(r) ==
  /\ pc[r] \in {"forms", "finalizing", "ending", "err"}
  /\ ctx[r] = "live" /\ job[r].kind # "recovery"
  /\ ctx' = [ctx EXCEPT ![r] = "expired"]
  /\ UNCHANGED <<storeVars, eng, pc, job, seen, form, watchVars, procVars, faults>>

\* The scheduler's own timer, on a goroutine of its own; it knows the row and
\* not the engine.
ScheduleTimeout(r) ==
  /\ job[r].kind = "schedule" /\ ctx[r] = "expired"
  /\ row[r] \in ActiveStatuses
  /\ SetRow(r, Aborted(row[r]))
  /\ UNCHANGED <<parent, cpOwner, eng, runnerVars, form, watchVars, procVars, faults>>

\* stopSync up to the return of RequestStop.
RequestStop(r) ==
  /\ AllowStop
  /\ phase = "serving"
  /\ MuFree
  /\ Asked(r, FALSE)
  /\ cancelDue' = IF activeTask = r THEN cancelDue \cup {r} ELSE cancelDue
  /\ UNCHANGED <<parent, cpOwner, runnerVars, form, taskWatch, activeTask,
                 drain, procVars, faults>>

\* The rest of stopSync: cancel the task's context, watch the task.
StopCancel(r) ==
  /\ r \in cancelDue
  /\ SyncMutexFree
  /\ cancelDue' = cancelDue \ {r}
  /\ ctx' = IF pc[r] \in LivePcs /\ ctx[r] = "live"
            THEN [ctx EXCEPT ![r] = "canceled"] ELSE ctx
  /\ taskWatch' = IF activeTask = r /\ taskWatch[r] = "off"
                  THEN [taskWatch EXCEPT ![r] = "armed"] ELSE taskWatch
  /\ UNCHANGED <<storeVars, eng, pc, job, seen, form, stopWatch, activeTask,
                 drain, procVars, faults>>

\* watchStopTimeout after its 60 seconds: row, live view, context.
StopWatchFire(r) ==
  /\ stopWatch[r] = "armed"
  /\ AbortRow(r)
  /\ stopWatch' = [stopWatch EXCEPT ![r] = "marked"]
  /\ UNCHANGED <<parent, cpOwner, eng, runnerVars, form, taskWatch, cancelDue,
                 activeTask, drain, procVars>>

StopWatchTell(r) ==
  /\ stopWatch[r] = "marked" /\ MuFree
  /\ eng' = ToldAbnormal(r)
  /\ stopWatch' = [stopWatch EXCEPT ![r] = "told"]
  /\ UNCHANGED <<storeVars, runnerVars, form, taskWatch, cancelDue,
                 activeTask, drain, procVars, faults>>

StopWatchCancel(r) ==
  /\ stopWatch[r] = "told" /\ MuFree
  /\ eng' = CancelledActive(r)
  /\ stopWatch' = [stopWatch EXCEPT ![r] = "off"]
  /\ UNCHANGED <<storeVars, runnerVars, form, taskWatch, cancelDue,
                 activeTask, drain, procVars, faults>>

\* watchActiveTaskStop after its 30 seconds: row, live view, the API's task.
TaskWatchFire(r) ==
  /\ taskWatch[r] = "armed"
  /\ AbortRow(r)
  /\ taskWatch' = [taskWatch EXCEPT ![r] = "marked"]
  /\ UNCHANGED <<parent, cpOwner, eng, runnerVars, form, stopWatch, cancelDue,
                 activeTask, drain, procVars>>

TaskWatchTell(r) ==
  /\ taskWatch[r] = "marked" /\ MuFree
  /\ eng' = ToldAbnormal(r)
  /\ taskWatch' = [taskWatch EXCEPT ![r] = "told"]
  /\ UNCHANGED <<storeVars, runnerVars, form, stopWatch, cancelDue,
                 activeTask, drain, procVars, faults>>

TaskWatchClear(r) ==
  /\ taskWatch[r] = "told" /\ SyncMutexFree
  /\ activeTask' = IF activeTask = r THEN NoRun ELSE activeTask
  /\ taskWatch' = [taskWatch EXCEPT ![r] = "off"]
  /\ UNCHANGED <<storeVars, eng, runnerVars, form, stopWatch, cancelDue,
                 drain, procVars, faults>>

-----------------------------------------------------------------------------
\* The process: shutdown, crash, start, recovery.

\* SIGTERM: dispatch is paused and admission closed.
Shutdown ==
  /\ phase = "serving" /\ drain.pc = "idle" /\ MuFree
  /\ shutdowns < MaxShutdowns
  /\ shutdowns' = shutdowns + 1
  /\ eng' = [eng EXCEPT !.shutdown = TRUE]
  /\ drain' = [drain EXCEPT !.pc = "ask"]
  /\ UNCHANGED <<storeVars, runnerVars, form, stopWatch, taskWatch, cancelDue,
                 activeTask, phase, todo, starts, crashes, faults>>

\* GracefulStop: a current run is asked to stop; without one, or when the
\* request is refused, there is nothing to wait for.
DrainAsk ==
  /\ drain.pc = "ask" /\ MuFree
  /\ IF eng.active /\ row[eng.run] \in ActiveStatuses
     THEN \/ /\ Asked(eng.run, TRUE)
             /\ drain' = [pc |-> "look", run |-> eng.run]
             /\ UNCHANGED faults
          \/ /\ Fault
             /\ drain' = [drain EXCEPT !.pc = "exit"]
             /\ UNCHANGED <<row, eng, stopWatch>>
     ELSE /\ drain' = [drain EXCEPT !.pc = "exit"]
          /\ UNCHANGED <<row, eng, stopWatch, faults>>
  /\ UNCHANGED <<parent, cpOwner, runnerVars, form, taskWatch, cancelDue,
                 activeTask, procVars>>

\* runDone is nil until runSync is entered and after it was left.
DrainLook ==
  /\ drain.pc = "look" /\ MuFree
  /\ drain' = [drain EXCEPT !.pc = IF eng.executing THEN "wait" ELSE "exit"]
  /\ UNCHANGED <<storeVars, eng, runnerVars, form, stopWatch, taskWatch,
                 cancelDue, activeTask, procVars, faults>>

\* done is closed.
DrainDone ==
  /\ drain.pc = "wait" /\ ~eng.executing
  /\ drain' = [drain EXCEPT !.pc = "exit"]
  /\ UNCHANGED <<storeVars, eng, runnerVars, form, stopWatch, taskWatch,
                 cancelDue, activeTask, procVars, faults>>

\* Mutant: the drain has no deadline.
DrainTimeoutNever == FALSE /\ UNCHANGED vars

\* The shutdown deadline: row, live view, context.
DrainTimeout ==
  /\ drain.pc = "wait"
  /\ AbortRow(drain.run)
  /\ drain' = [drain EXCEPT !.pc = "marked"]
  /\ UNCHANGED <<parent, cpOwner, eng, runnerVars, form, stopWatch, taskWatch,
                 cancelDue, activeTask, procVars>>

DrainTell ==
  /\ drain.pc = "marked" /\ MuFree
  /\ eng' = ToldAbnormal(drain.run)
  /\ drain' = [drain EXCEPT !.pc = "told"]
  /\ UNCHANGED <<storeVars, runnerVars, form, stopWatch, taskWatch, cancelDue,
                 activeTask, procVars, faults>>

DrainCancel ==
  /\ drain.pc = "told" /\ MuFree
  /\ eng' = CancelledActive(drain.run)
  /\ drain' = [drain EXCEPT !.pc = "exit"]
  /\ UNCHANGED <<storeVars, runnerVars, form, stopWatch, taskWatch, cancelDue,
                 activeTask, procVars, faults>>

\* Everything that lives in memory is gone.
Halt ==
  /\ phase' = "down" /\ todo' = {}
  /\ eng' = EngineIdle
  /\ pc' = [r \in Runs |-> IF pc[r] = "none" THEN "none" ELSE "done"]
  /\ ctx' = [r \in Runs |-> "live"]
  /\ job' = [r \in Runs |-> NoJob]
  /\ seen' = [r \in Runs |-> Absent]
  /\ form' = [f \in Forms |-> "absent"]
  /\ stopWatch' = [r \in Runs |-> "off"]
  /\ taskWatch' = [r \in Runs |-> "off"]
  /\ cancelDue' = {} /\ activeTask' = NoRun
  /\ drain' = [pc |-> "idle", run |-> NoRun]
  /\ UNCHANGED <<storeVars, shutdowns, starts, faults>>

\* main returns once the drain and the HTTP server's shutdown are through,
\* whatever other goroutines are doing.
Exit == drain.pc = "exit" /\ Halt /\ UNCHANGED crashes

Crash ==
  /\ phase # "down"
  /\ crashes < MaxCrashes
  /\ crashes' = crashes + 1
  /\ Halt

\* The process starts; RecoverStaleRunningRuns and RecoverAbnormalRuns look at
\* the rows of the runs that were cut off.
Start ==
  /\ phase = "down"
  /\ starts < MaxStarts
  /\ starts' = starts + 1
  /\ phase' = "recover"
  /\ todo' = {r \in Runs : row[r] \in ActiveStatuses}
  /\ UNCHANGED <<storeVars, eng, runnerVars, form, watchVars, shutdowns, crashes, faults>>

\* A running row older than three hours fails; an active row without a fresh
\* heartbeat ends abnormally; a fresh one is left for a later start. A failing
\* sweep is logged and the start goes on.
RecoverRow ==
  /\ phase = "recover"
  /\ \E r \in todo :
       \/ /\ \/ row[r] = "running" /\ SetRow(r, "failed")
             \/ SetRow(r, Aborted(row[r]))
             \/ UNCHANGED row
          /\ todo' = todo \ {r} /\ UNCHANGED faults
       \/ Fault /\ todo' = {} /\ UNCHANGED row
  /\ UNCHANGED <<parent, cpOwner, phase, shutdowns, starts, crashes, eng, runnerVars, form, watchVars>>

\* RecoverPendingAbnormalRuns lists the abnormal runs, or fails to.
RecoverDone ==
  /\ phase = "recover" /\ todo = {}
  /\ \/ /\ phase' = "resume"
        /\ todo' = {r \in Runs : row[r] = Abnormal}
        /\ UNCHANGED faults
     \/ Fault /\ phase' = "serving" /\ UNCHANGED todo
  /\ UNCHANGED <<storeVars, shutdowns, starts, crashes, eng, runnerVars, form, watchVars>>

\* Mutant: HasSuccessfulRecovery is not asked.
RecoveredNever(p) == FALSE

RecoveredAlready(p) == \E r \in Runs : parent[r] = p /\ row[r] = "success"

\* Large forms whose checkpoint still belongs to the abnormal run.
ResumableForms(p) == {f \in LargeForms : cpOwner[f] = p}

\* One round of the loop for the oldest abnormal run that creates no child.
ResumePass(p) ==
  /\ todo' = IF RecoveredAlready(p) THEN todo \ {p}
             ELSE IF eng.active THEN {} ELSE todo \ {p}
  /\ RecoveredAlready(p) \/ eng.active \/ ResumableForms(p) = {}
  /\ UNCHANGED <<row, parent, eng, pc, job, faults>>

\* PrepareRecovery persists the child; Reserve or ReserveRejected is next.
ResumeChild(p, r) ==
  /\ ~RecoveredAlready(p) /\ ~eng.active /\ ResumableForms(p) # {}
  /\ Fresh(r)
  /\ SetRow(r, "running")
  /\ parent' = [parent EXCEPT ![r] = p]
  /\ job' = [job EXCEPT ![r] = [kind |-> "recovery", forms |-> ResumableForms(p)]]
  /\ Goto(r, "created")
  /\ todo' = todo \ {p}
  /\ UNCHANGED <<eng, faults>>

\* The loop runs on main's goroutine: one abnormal run after the other.
ResumePending == \E r \in Runs : pc[r] = "created" /\ job[r].kind = "recovery"

ResumeNext ==
  /\ phase = "resume" /\ MuFree /\ ~ResumePending
  /\ \E p \in todo :
       /\ \A q \in todo : p <= q
       /\ \/ ResumePass(p)
          \/ \E r \in Runs : ResumeChild(p, r)
          \/ Fault /\ todo' = {} /\ UNCHANGED <<row, parent, eng, pc, job>>
  /\ UNCHANGED <<cpOwner, phase, shutdowns, starts, crashes, ctx, seen, form, watchVars>>

\* The services, the scheduler and the HTTP server come up.
Serve ==
  /\ phase = "resume" /\ todo = {} /\ ~ResumePending
  /\ phase' = "serving"
  /\ UNCHANGED <<storeVars, todo, shutdowns, starts, crashes, eng, runnerVars, form,
                 watchVars, faults>>

-----------------------------------------------------------------------------
\* What a run's goroutine does by itself, from the reservation to its end.
RunnerStep(r) ==
  \/ Reserve(r) \/ ReserveRejected(r)
  \/ RunnerStart(r) \/ RunnerQueryFails(r) \/ RunnerQuery(r) \/ RunnerGate(r)
  \/ RunnerGraceStop(r) \/ RunnerClosePrepared(r) \/ RunnerReleasePrepared(r)
  \/ RunnerEnter(r) \/ RunnerOpenFails(r) \/ RunnerOpen(r)
  \/ FinalDecide(r) \/ FinalPersist(r) \/ Release(r)
  \/ AfterResult(r) \/ AfterError(r) \/ RunnerExit(r)

FormStep(r) ==
  \E f \in Forms : FormStart(r, f) \/ FormSkip(r, f) \/ FormSave(r, f)
                   \/ FormSucceed(r, f) \/ FormFail(r, f)

\* The goroutines that act on a run from outside.
WatchStep(r) ==
  \/ StopCancel(r)
  \/ StopWatchFire(r) \/ StopWatchTell(r) \/ StopWatchCancel(r)
  \/ TaskWatchFire(r) \/ TaskWatchTell(r) \/ TaskWatchClear(r)

\* What users, clocks and deadlines may do to a run.
Request(r) ==
  \/ \E k \in Kinds \ {"recovery"}, fs \in Requests : Persist(r, k, fs)
  \/ RequestStop(r) \/ CtxExpire(r) \/ ScheduleTimeout(r)

DrainStep ==
  DrainAsk \/ DrainLook \/ DrainDone \/ DrainTimeout \/ DrainTell \/ DrainCancel

ProcessStep ==
  \/ Shutdown \/ DrainStep \/ Exit \/ Crash
  \/ Start \/ RecoverRow \/ RecoverDone \/ ResumeNext \/ Serve

Next ==
  \/ \E r \in Runs : RunnerStep(r) \/ FormStep(r) \/ WatchStep(r) \/ Request(r)
  \/ ProcessStep

Spec == Init /\ [][Next]_vars

\* Goroutines are scheduled, timers fire and database calls return; nothing is
\* assumed of the forms, whose queries may hang until their context ends.
GoroutinesRun ==
  \A r \in Runs :
    /\ WF_vars(RunnerStep(r))
    /\ WF_vars(StopCancel(r))
    /\ WF_vars(StopWatchFire(r) \/ StopWatchTell(r) \/ StopWatchCancel(r))
    /\ WF_vars(TaskWatchFire(r) \/ TaskWatchTell(r) \/ TaskWatchClear(r))

FairSpec == Spec /\ GoroutinesRun /\ WF_vars(DrainStep)

\* Besides, every form ends: its queries are bounded by the form's own budget.
FormsEnd ==
  \A r \in Runs :
    /\ WF_vars(\E f \in Forms : FormStart(r, f) \/ FormSkip(r, f))
    /\ WF_vars(\E f \in Forms : FormSucceed(r, f) \/ FormFail(r, f))

-----------------------------------------------------------------------------
\* Safety.

\* At most one run is inside runSync, it is the run the slot was reserved for,
\* and the engine knows that it executes (beginRun, runSync's entry checks and
\* deferred release).
SingleExecution ==
  \A r \in Runs : pc[r] \in InRunSync => eng.active /\ eng.executing /\ eng.run = r

\* A stop that was accepted is in the database, and the run can only end
\* stopped or abnormal, whatever its forms achieved (RequestStop changes the
\* row before the memory, both under e.mu).
StopIsDurable ==
  eng.active /\ eng.stopRequested => row[eng.run] \in {"stopping", "stopped", Abnormal}

\* When the live view of the executing run shows an end, the history shows the
\* same end: the watchdogs, the scheduler's timer and the finalisation may race
\* for the row, and the loser reloads it.
LiveViewAgrees ==
  faults = 0 /\ eng.executing /\ MuFree /\ eng.status \in TerminalStatuses
    => row[eng.run] = eng.status

\* While the process serves, an active row has a goroutine that will end it;
\* the exits of every caller leave a terminal row behind.
NoOrphanRow ==
  faults = 0 /\ starts = 0 /\ phase = "serving" =>
    \A r \in Runs : row[r] \in ActiveStatuses => pc[r] \in LivePcs

\* An abnormal run is recovered successfully at most once, over any number of
\* restarts, although clearing the checkpoint may fail (HasSuccessfulRecovery).
SingleSuccessfulRecovery ==
  \A q, r \in Runs :
    parent[q] # NoRun /\ parent[q] = parent[r] /\ row[q] = "success" /\ row[r] = "success"
      => q = r

-----------------------------------------------------------------------------
\* Action properties.

\* A run is only recorded as a success when every form it was asked for
\* succeeded: forms skipped by an ending context leave no result and must not
\* be taken for success (FinalDecide's look at the context).
SuccessMeansAllForms ==
  [][\A r \in Runs : faults = 0 /\ row[r] # "success" /\ row'[r] = "success" =>
       \A f \in job[r].forms : form[f] = "success"]_vars

\* The context of an executing run is only cancelled for its own stop: a
\* watchdog that outlives its run never cancels the next one
\* (cancelActiveRun compares the identifier).
CancelOnlyStopped ==
  [][~eng.cancelled /\ eng'.cancelled => row[eng'.run] # "running" \/ row'[eng'.run] # "running"]_vars

\* A run's goroutine does not end before the slot reserved for it is free again,
\* unless the context that its row is read with was cancelled (see
\* SlotHasRunner): every way out of SyncDataWithRunID before runSync frees it.
SlotIsFreed ==
  [][\A r \in Runs :
       faults = 0 /\ phase' = "serving" /\ eng.active /\ eng.run = r /\ pc[r] \in LivePcs
         => pc'[r] \in LivePcs \/ ctx[r] = "canceled"]_vars

\* A graceful shutdown leaves the writer its context until the run is given
\* up: it is cancelled only when the row shows an end (RequestGracefulStop
\* cancels the fetch context alone, "the writer keeps the run context until
\* the shutdown deadline").
WriterKeepsContext ==
  [][faults = 0 /\ ~eng.cancelled /\ eng'.cancelled /\ eng'.gracefulStop =>
       row'[eng'.run] \in TerminalStatuses]_vars

\* The public state machine, with recovery children attached to abnormal runs.
Lifecycle == INSTANCE RunLifecycle WITH status <- row

LifecycleSpec == Lifecycle!Spec

-----------------------------------------------------------------------------
\* Liveness.

\* A run that is stopping ends although its forms may hang, unless the process
\* goes first or the state database fails: the watchdog ends what the forms do not.
StopEnds ==
  \A r \in Runs :
    row[r] = "stopping" ~> row[r] \in TerminalStatuses \/ phase = "down" \/ faults > 0

\* A shutdown that has begun comes to the process' exit, although forms may
\* hang: the drain gives up at its deadline.
ShutdownEnds == drain.pc = "ask" ~> drain.pc = "exit" \/ phase = "down"

\* Every persisted run ends when its forms do, unless a database call fails (its
\* row then waits for the next start).
EveryRunEnds ==
  FormsEnd =>
    \A r \in Runs :
      row[r] = "running" ~> row[r] \in TerminalStatuses \/ phase = "down" \/ faults > 0

-----------------------------------------------------------------------------
\* What documents and comments say and the code does not do.

\* docs/openapi.yaml says of a refused run that another one is executing: a
\* reserved slot always has a live goroutine.
SlotHasRunner ==
  eng.active => pc[eng.run] \in LivePcs \ {"created"}
=============================================================================
