------------------------ MODULE SyncEngineRuns_proofs ------------------------
(***************************************************************************)
(* What becomes of a run of SyncEngine, from its row to its end, whoever   *)
(* interferes: an abnormal run is recovered successfully once, only a      *)
(* stopped run is cancelled, no row is left without a goroutine, the live  *)
(* view shows the end the history shows, the slot is free when the         *)
(* goroutine goes, and a success means that every form succeeded.          *)
(*                                                                         *)
(* The first part says once what a step can do to the program counters,    *)
(* the engine's slot and the rows; every invariant below is then proved    *)
(* from these summaries and from the few actions that concern it.          *)
(***************************************************************************)
EXTENDS SyncEngine_proofs

USE DEF ActiveStatuses, TerminalStatuses, Statuses, Absent, Abnormal

-----------------------------------------------------------------------------
\* The kinds of steps.

\* Goroutines that act on a run from outside, and its forms: none of them
\* moves a run's own goroutine or gives the slot away.
Outside ==
  \/ \E r \in Runs : FormStep(r) \/ WatchStep(r) \/ RequestStop(r) \/ CtxExpire(r)
                     \/ ScheduleTimeout(r)
  \/ Shutdown \/ DrainStep

\* The start of the process, except for the birth of a recovery run.
Starting ==
  \/ Start \/ RecoverRow \/ RecoverDone \/ Serve
  \/ ResumeNext /\ UNCHANGED <<row, parent, eng, pc, job>> /\ todo' \subseteq todo

\* A run is persisted.
Born(r) ==
  \/ \E k \in Kinds \ {"recovery"}, fs \in Requests : Persist(r, k, fs)
  \/ ResumeNext /\ \E p \in todo : ResumeChild(p, r)

LEMMA NextCases ==
  ASSUME TypeOK, Next
  PROVE  \/ \E r \in Runs : Born(r) \/ RunnerStep(r)
         \/ Outside \/ Starting \/ Exit \/ Crash
<1>1. ASSUME ResumeNext PROVE Starting \/ \E r \in Runs : Born(r)
  <2>1. PICK p \in todo :
          \/ ResumePass(p)
          \/ \E r \in Runs : ResumeChild(p, r)
          \/ Fault /\ todo' = {} /\ UNCHANGED <<row, parent, eng, pc, job>>
    BY <1>1 DEF ResumeNext
  <2>2. CASE ResumePass(p)
    BY <1>1, <2>2 DEF ResumePass, Starting
  <2>3. CASE \E r \in Runs : ResumeChild(p, r)
    BY <1>1, <2>3 DEF Born
  <2>4. CASE Fault /\ todo' = {} /\ UNCHANGED <<row, parent, eng, pc, job>>
    BY <1>1, <2>4 DEF Starting
  <2> QED
    BY <2>1, <2>2, <2>3, <2>4
<1>2. ASSUME NEW r \in Runs, Request(r)
      PROVE  Born(r) \/ RequestStop(r) \/ CtxExpire(r) \/ ScheduleTimeout(r)
  BY <1>2 DEF Request, Born
<1> QED
  BY <1>1, <1>2 DEF Next, ProcessStep, Outside, Starting

\* What follows each step of a run's goroutine.
ControlFlow ==
  {<<"created", "prepared">>, <<"created", "done">>,
   <<"prepared", "err">>, <<"prepared", "query">>, <<"prepared", "queryBg">>,
   <<"query", "err">>, <<"query", "gate">>, <<"queryBg", "err">>, <<"queryBg", "gate">>,
   <<"gate", "gracestop">>, <<"gate", "close">>, <<"gate", "enter">>,
   <<"gracestop", "close">>, <<"gracestop", "err">>,
   <<"close", "closed">>, <<"close", "err">>, <<"closed", "ok">>, <<"closed", "err">>,
   <<"enter", "open">>, <<"enter", "openBg">>,
   <<"open", "forms">>, <<"openBg", "forms">>, <<"open", "err">>, <<"openBg", "err">>,
   <<"forms", "finalizing">>, <<"forms", "ending">>, <<"finalizing", "ending">>,
   <<"ending", "ok">>, <<"ok", "exit">>, <<"err", "exit">>, <<"exit", "done">>}

Moves(r) == \E p \in RunnerPcs : <<pc[r], p>> \in ControlFlow /\ Goto(r, p)

LEMMA RunnerMoves ==
  ASSUME TypeOK, NEW r \in Runs, RunnerStep(r)
  PROVE  Moves(r)
<1> USE DEF Moves, ControlFlow, RunnerPcs, LivePcs, BeforeRunSync, InRunSync, AfterRunSync
<1>1. CASE Reserve(r)
  BY <1>1 DEF Reserve
<1>2. CASE ReserveRejected(r)
  BY <1>2 DEF ReserveRejected
<1>3. CASE RunnerStart(r)
  BY <1>3 DEF RunnerStart
<1>4. CASE RunnerQueryFails(r)
  BY <1>4 DEF RunnerQueryFails
<1>5. CASE RunnerQuery(r)
  BY <1>5 DEF RunnerQuery
<1>6. CASE RunnerGate(r)
  BY <1>6 DEF RunnerGate
<1>7. CASE RunnerGraceStop(r)
  BY <1>7 DEF RunnerGraceStop
<1>8. CASE RunnerClosePrepared(r)
  BY <1>8 DEF RunnerClosePrepared
<1>9. CASE RunnerReleasePrepared(r)
  BY <1>9 DEF RunnerReleasePrepared
<1>10. CASE RunnerEnter(r)
  BY <1>10 DEF RunnerEnter
<1>11. CASE RunnerOpenFails(r)
  BY <1>11 DEF RunnerOpenFails
<1>12. CASE RunnerOpen(r)
  BY <1>12 DEF RunnerOpen
<1>13. CASE FinalDecide(r)
  BY <1>13 DEF FinalDecide
<1>14. CASE FinalPersist(r)
  BY <1>14 DEF FinalPersist
<1>15. CASE Release(r)
  BY <1>15 DEF Release
<1>16. CASE AfterResult(r)
  BY <1>16 DEF AfterResult
<1>17. CASE AfterError(r)
  BY <1>17 DEF AfterError
<1>18. CASE RunnerExit(r)
  BY <1>18 DEF RunnerExit
<1> QED
  BY <1>1, <1>2, <1>3, <1>4, <1>5, <1>6, <1>7, <1>8, <1>9, <1>10, <1>11, <1>12, <1>13,
     <1>14, <1>15, <1>16, <1>17, <1>18 DEF RunnerStep

\* The step leaves the run's goroutines and the slot alone.
SameSlot ==
  eng'.active = eng.active /\ eng'.run = eng.run /\ eng'.executing = eng.executing

RunsFrame == UNCHANGED <<parent, pc, job, seen, phase, todo, starts>> /\ SameSlot

LEMMA OutsideFrame ==
  ASSUME TypeOK, Outside
  PROVE  RunsFrame
<1>0. eng \in EngineState
  BY DEF TypeOK
<1> USE <1>0 DEF RunsFrame, SameSlot, runnerVars, procVars, storeVars
<1>1. ASSUME NEW r \in Runs, FormStep(r) PROVE RunsFrame
  BY <1>1 DEF FormStep, FormStart, FormSkip, FormSave, FormSucceed, FormFail
<1>2. ASSUME NEW r \in Runs, WatchStep(r) PROVE RunsFrame
  BY <1>2, EngineKeeps DEF WatchStep, StopCancel, StopWatchFire, StopWatchTell,
     StopWatchCancel, TaskWatchFire, TaskWatchTell, TaskWatchClear
<1>3. ASSUME NEW r \in Runs, RequestStop(r) PROVE RunsFrame
  BY <1>3, AskedKeeps DEF RequestStop
<1>4. ASSUME NEW r \in Runs, CtxExpire(r) \/ ScheduleTimeout(r) PROVE RunsFrame
  BY <1>4 DEF CtxExpire, ScheduleTimeout
<1>5. CASE Shutdown
  BY <1>5 DEF Shutdown, EngineState
<1>6. CASE DrainAsk
  BY <1>6, AskedKeeps DEF DrainAsk
<1>7. CASE DrainStep /\ ~DrainAsk
  BY <1>7, EngineKeeps DEF DrainStep, DrainLook, DrainDone, DrainTimeout, DrainTell,
     DrainCancel
<1> QED
  BY <1>1, <1>2, <1>3, <1>4, <1>5, <1>6, <1>7 DEF Outside

LEMMA StartingFrame ==
  ASSUME Starting
  PROVE  /\ UNCHANGED <<parent, eng, runnerVars, form, watchVars>>
         /\ phase # "serving"
BY DEF Starting, Start, RecoverRow, RecoverDone, Serve, ResumeNext, storeVars, runnerVars

\* A goroutine at its own work leaves the other runs and the process alone.
LEMMA RunnerFrame ==
  ASSUME TypeOK, NEW r \in Runs, RunnerStep(r)
  PROVE  /\ UNCHANGED <<parent, phase, starts, cancelDue, drain>>
         /\ todo' \subseteq todo
         /\ \A q \in Runs \ {r} : job'[q] = job[q] /\ seen'[q] = seen[q] /\ ctx'[q] = ctx[q]
         /\ job'[r] \in {job[r], NoJob}
<1> USE DEF runnerVars, procVars, storeVars, watchVars, TypeOK
<1>1. CASE Reserve(r) \/ RunnerStart(r) \/ RunnerQueryFails(r) \/ RunnerGate(r)
  BY <1>1 DEF Reserve, RunnerStart, RunnerQueryFails, RunnerGate
<1>2. CASE ReserveRejected(r)
  BY <1>2 DEF ReserveRejected
<1>3. CASE RunnerQuery(r)
  BY <1>3 DEF RunnerQuery
<1>4. CASE RunnerGraceStop(r) \/ RunnerClosePrepared(r)
  BY <1>4 DEF RunnerGraceStop, RunnerClosePrepared
<1>5. CASE RunnerReleasePrepared(r)
  <2>1. UNCHANGED <<parent, ctx, job, cancelDue, drain, phase, todo, starts>>
    BY <1>5 DEF RunnerReleasePrepared
  <2>2. \A q \in Runs \ {r} : seen'[q] = seen[q]
    BY <1>5 DEF RunnerReleasePrepared
  <2> QED
    BY <2>1, <2>2
<1>6. CASE RunnerEnter(r) \/ RunnerOpenFails(r) \/ RunnerOpen(r)
  BY <1>6 DEF RunnerEnter, RunnerOpenFails, RunnerOpen
<1>7. CASE FinalDecide(r) \/ FinalPersist(r)
  <2>1. UNCHANGED <<parent, ctx, job, cancelDue, drain, phase, todo, starts>>
    BY <1>7 DEF FinalDecide, FinalPersist
  <2>2. \A q \in Runs \ {r} : seen'[q] = seen[q]
    BY <1>7 DEF FinalDecide, FinalPersist, Decide
  <2> QED
    BY <2>1, <2>2
<1>8. CASE Release(r) \/ AfterResult(r) \/ AfterError(r)
  BY <1>8 DEF Release, AfterResult, AfterError
<1>9. CASE RunnerExit(r)
  BY <1>9 DEF RunnerExit
<1> QED
  BY <1>1, <1>2, <1>3, <1>4, <1>5, <1>6, <1>7, <1>8, <1>9 DEF RunnerStep

\* The slot is taken by Reserve, entered by RunnerEnter and given back by the
\* three ways out that free it.
LEMMA RunnerSlot ==
  ASSUME TypeOK, NEW r \in Runs, RunnerStep(r)
  PROVE  \/ SameSlot
         \/ Reserve(r) /\ eng'.run = r /\ eng'.active /\ ~eng'.executing
         \/ RunnerEnter(r) /\ eng'.run = eng.run /\ eng'.active = eng.active /\ eng'.executing
         \/ /\ RunnerReleasePrepared(r) /\ pc'[r] = "ok"
            /\ eng'.run = eng.run /\ ~eng'.active /\ eng'.executing = eng.executing
         \/ /\ RunnerOpenFails(r) \/ Release(r)
            /\ eng'.run = eng.run /\ ~eng'.active /\ ~eng'.executing
<1>0. eng \in EngineState /\ pc \in [Runs -> RunnerPcs]
  BY DEF TypeOK
<1> USE <1>0 DEF SameSlot
<1>1. CASE Reserve(r)
  BY <1>1 DEF Reserve, Begun, EngineIdle
<1>2. CASE RunnerEnter(r)
  BY <1>2 DEF RunnerEnter, EngineState
<1>3. CASE RunnerReleasePrepared(r)
  BY <1>3 DEF RunnerReleasePrepared, EngineState, Goto
<1>4. CASE RunnerOpenFails(r) \/ Release(r)
  BY <1>4 DEF RunnerOpenFails, Release, Released, EngineState
<1>5. CASE RunnerGraceStop(r)
  BY <1>5, AskedKeeps DEF RunnerGraceStop
<1>6. CASE FinalDecide(r) \/ FinalPersist(r)
  BY <1>6, DecideKeeps DEF FinalDecide, FinalPersist
<1>7. CASE AfterError(r)
  BY <1>7, EngineKeeps DEF AfterError, ApiAfterError
<1> QED
  BY <1>1, <1>2, <1>3, <1>4, <1>5, <1>6, <1>7 DEF RunnerStep, ReserveRejected,
     RunnerStart, RunnerQueryFails, RunnerQuery, RunnerGate, RunnerClosePrepared,
     RunnerOpen, AfterResult, RunnerExit

\* Only RunnerOpenFails and Release leave runSync.
LEMMA RunnerStays ==
  ASSUME TypeOK, NEW r \in Runs, RunnerStep(r), ~RunnerOpenFails(r), ~Release(r),
         pc[r] \in InRunSync
  PROVE  pc'[r] \in InRunSync
BY DEF RunnerStep, Reserve, ReserveRejected, RunnerStart, RunnerQueryFails, RunnerQuery,
   RunnerGate, RunnerGraceStop, RunnerClosePrepared, RunnerReleasePrepared, RunnerEnter,
   RunnerOpen, FinalDecide, FinalPersist, AfterResult, AfterError, RunnerExit, InRunSync,
   Goto, TypeOK

-----------------------------------------------------------------------------
\* What a step can make of a run's row.

MovesItsRow == {"created", "gracestop", "close", "forms", "finalizing", "ok", "err"}

RowMove(q) ==
  \/ row'[q] = row[q]
  \/ row[q] \in ActiveStatuses /\ row'[q] = Abnormal
  \/ row[q] \in ActiveStatuses /\ row'[q] = "stopping" /\ eng.run = q /\ MuFree
     /\ eng'.status = "stopping"
  \/ row[q] = "running" /\ row'[q] = "failed" /\ phase = "recover"
  \/ row[q] \in ActiveStatuses /\ row'[q] \in Statuses
     /\ RunnerStep(q) /\ pc[q] \in MovesItsRow

LEMMA FinishedKeepsEnd ==
  ASSUME NEW from, NEW to
  PROVE  /\ from \notin ActiveStatuses => Finished(from, to) = from
         /\ from \in ActiveStatuses => Finished(from, to) \in Statuses
BY DEF Finished, FinishRejected, FinishTarget

LEMMA OwnRowMoves ==
  ASSUME TypeOK, NEW r \in Runs, RunnerStep(r), NEW q \in Runs
  PROVE  RowMove(q)
<1> USE DEF RowMove, MovesItsRow, TypeOK
<1>1. CASE UNCHANGED row
  BY <1>1
<1>2. ASSUME NEW s, SetRow(r, s), row[r] \notin ActiveStatuses => s = row[r],
             row[r] \in ActiveStatuses => s \in Statuses, pc[r] \in MovesItsRow
      PROVE  RowMove(q)
  BY <1>2 DEF SetRow
<1>3. CASE ReserveRejected(r)
  BY <1>1, <1>2, <1>3, FinishedKeepsEnd DEF ReserveRejected, FinishRow
<1>4. CASE RunnerGraceStop(r)
  BY <1>1, <1>2, <1>4 DEF RunnerGraceStop, Asked
<1>5. CASE RunnerClosePrepared(r)
  BY <1>1, <1>2, <1>5, FinishedKeepsEnd DEF RunnerClosePrepared
<1>6. CASE FinalDecide(r)
  BY <1>1, <1>2, <1>6 DEF FinalDecide, Aborted
<1>7. CASE FinalPersist(r)
  BY <1>1, <1>2, <1>7, FinishedKeepsEnd DEF FinalPersist
<1>8. CASE AfterResult(r)
  BY <1>1, <1>2, <1>8, FinishedKeepsEnd DEF AfterResult
<1>9. CASE AfterError(r)
  BY <1>1, <1>2, <1>9, FinishedKeepsEnd DEF AfterError, ApiAfterError, FinishRow,
     AbortRow, Aborted
<1> QED
  BY <1>1, <1>3, <1>4, <1>5, <1>6, <1>7, <1>8, <1>9 DEF RunnerStep, Reserve, RunnerStart,
     RunnerQueryFails, RunnerQuery, RunnerGate, RunnerReleasePrepared, RunnerEnter,
     RunnerOpenFails, RunnerOpen, Release, RunnerExit, storeVars

LEMMA OutsideRowMoves ==
  ASSUME TypeOK, Outside, NEW q \in Runs
  PROVE  RowMove(q)
<1> USE DEF RowMove, TypeOK
<1>1. CASE UNCHANGED row
  BY <1>1
<1>2. ASSUME NEW r, AbortRow(r) PROVE RowMove(q)
  BY <1>2 DEF AbortRow, SetRow, Aborted
<1>3. ASSUME NEW r, NEW graceful \in BOOLEAN, Asked(r, graceful), MuFree PROVE RowMove(q)
  <2>1. eng'.status = "stopping" /\ eng.run = r /\ row[r] \in ActiveStatuses
    BY <1>3 DEF Asked, EngineState
  <2> QED
    BY <1>3, <2>1 DEF Asked, SetRow
<1>4. ASSUME NEW r \in Runs, FormStep(r) PROVE UNCHANGED row
  BY <1>4 DEF FormStep, FormStart, FormSkip, FormSave, FormSucceed, FormFail, storeVars
<1>5. ASSUME NEW r \in Runs, WatchStep(r) PROVE RowMove(q)
  BY <1>1, <1>2, <1>5 DEF WatchStep, StopCancel, StopWatchFire, StopWatchTell,
     StopWatchCancel, TaskWatchFire, TaskWatchTell, TaskWatchClear, storeVars
<1>6. ASSUME NEW r \in Runs, RequestStop(r) PROVE RowMove(q)
  BY <1>3, <1>6 DEF RequestStop
<1>7. ASSUME NEW r \in Runs, CtxExpire(r) PROVE UNCHANGED row
  BY <1>7 DEF CtxExpire, storeVars
<1>8. ASSUME NEW r \in Runs, ScheduleTimeout(r) PROVE RowMove(q)
  BY <1>8 DEF ScheduleTimeout, SetRow, Aborted
<1>9. CASE DrainAsk
  BY <1>1, <1>3, <1>9 DEF DrainAsk
<1>10. CASE Shutdown \/ (DrainStep /\ ~DrainAsk)
  BY <1>1, <1>2, <1>10 DEF Shutdown, DrainStep, DrainLook, DrainDone, DrainTimeout,
     DrainTell, DrainCancel, storeVars
<1> QED
  BY <1>1, <1>4, <1>5, <1>6, <1>7, <1>8, <1>9, <1>10 DEF Outside

LEMMA ProcessRowMoves ==
  ASSUME TypeOK, Starting \/ Exit \/ Crash, NEW q \in Runs
  PROVE  RowMove(q)
<1>1. CASE RecoverRow
  BY <1>1 DEF RecoverRow, SetRow, Aborted, RowMove, TypeOK
<1>2. CASE Starting /\ ~RecoverRow
  BY <1>2 DEF Starting, Start, RecoverDone, Serve, storeVars, RowMove
<1>3. CASE Exit \/ Crash
  BY <1>3 DEF Exit, Crash, Halt, storeVars, RowMove
<1> QED
  BY <1>1, <1>2, <1>3

LEMMA RowMoves ==
  ASSUME TypeOK, Next, NEW q \in Runs
  PROVE  Born(q) \/ RowMove(q)
<1>1. ASSUME NEW r \in Runs \ {q}, Born(r) PROVE RowMove(q)
  BY <1>1 DEF Born, Persist, ResumeChild, SetRow, TypeOK, RowMove
<1> QED
  BY <1>1, NextCases, OwnRowMoves, OutsideRowMoves, ProcessRowMoves

-----------------------------------------------------------------------------
\* What SyncEngine_proofs established, and where a run's row and goroutine are.

Known == LifecycleInv /\ SlotInv

LEMMA KnownStep == Known /\ [Next]_vars => Known'
BY StepLifecycleInv, SlotStep DEF Known, LifecycleInv

\* A stop was accepted for the run, or it ended.
BeenStopped(r) == row[r] \notin {Absent, "running"}

LEMMA RowsMoveOn ==
  ASSUME Known, [Next]_vars, NEW q \in Runs
  PROVE  /\ row[q] \in TerminalStatuses => row'[q] = row[q]
         /\ row[q] # Absent => row'[q] # Absent
         /\ BeenStopped(q) => BeenStopped(q)'
<1>1. CASE UNCHANGED vars
  BY <1>1 DEF vars, storeVars, BeenStopped
<1>2. CASE Next
  <2>1. RowStep /\ row \in [Runs -> RowStatuses]
    BY <1>2, NextRowStep DEF Known, LifecycleInv, TypeOK
  <2> QED
    BY <2>1, RowEnds DEF BeenStopped, RowStatuses, Known, LifecycleInv, TypeOK
<1> QED
  BY <1>1, <1>2

\* A run has a row from the moment it has a goroutine.
RowStarted == \A r \in Runs : row[r] = Absent <=> pc[r] = "none"

\* The slot is never that of a run whose caller has not reserved it yet.
Unreserved == \A r \in Runs : pc[r] \in {"none", "created"} => eng.run # r

\* Whatever executes is inside runSync.
ExecutingInside == eng.executing => eng.run \in Runs /\ pc[eng.run] \in InRunSync

\* Until recovery has swept the rows, no goroutine is at work.
CutOff == phase \in {"down", "recover"} => \A r \in Runs : pc[r] \notin LivePcs

RunsInv == RowStarted /\ Unreserved /\ ExecutingInside /\ CutOff

LEMMA BornFrame ==
  ASSUME TypeOK, NEW r \in Runs, Born(r)
  PROVE  /\ row[r] = Absent /\ row'[r] = "running" /\ Goto(r, "created")
         /\ UNCHANGED <<eng, ctx, seen, form, watchVars, phase, starts, faults>>
         /\ todo' \subseteq todo /\ phase \in {"resume", "serving"}
         /\ \A q \in Runs \ {r} : row'[q] = row[q] /\ job'[q] = job[q]
         /\ \A q \in Runs \ {r} : parent'[q] = parent[q]
<1> USE DEF TypeOK, procVars
<1>1. ASSUME NEW k \in Kinds \ {"recovery"}, NEW fs \in Requests, Persist(r, k, fs)
      PROVE  /\ row[r] = Absent /\ SetRow(r, "running") /\ Goto(r, "created")
             /\ UNCHANGED <<parent, eng, ctx, seen, form, watchVars, todo, phase, starts, faults>>
             /\ phase = "serving"
             /\ \A q \in Runs \ {r} : job'[q] = job[q]
  BY <1>1 DEF Persist, Fresh
<1>2. ASSUME NEW p \in todo, ResumeNext, ResumeChild(p, r)
      PROVE  /\ row[r] = Absent /\ SetRow(r, "running") /\ Goto(r, "created")
             /\ UNCHANGED <<eng, ctx, seen, form, watchVars, phase, starts, faults>>
             /\ phase = "resume" /\ todo' \subseteq todo
             /\ \A q \in Runs \ {r} : job'[q] = job[q] /\ parent'[q] = parent[q]
  BY <1>2 DEF ResumeNext, ResumeChild, Fresh
<1> QED
  BY <1>1, <1>2 DEF Born, SetRow

LEMMA RowStartedStep == TypeOK /\ RowStarted /\ Next => RowStarted'
<1> SUFFICES ASSUME TypeOK, RowStarted, Next, NEW q \in Runs
             PROVE  row'[q] = Absent <=> pc'[q] = "none"
  BY DEF RowStarted
<1>0. pc \in [Runs -> RunnerPcs] /\ (row[q] = Absent <=> pc[q] = "none")
  BY DEF TypeOK, RowStarted
<1>1. ASSUME NEW r \in Runs, Born(r) PROVE row'[q] = Absent <=> pc'[q] = "none"
  BY <1>0, <1>1, BornFrame DEF Goto
<1>2. ASSUME RowMove(q) PROVE row'[q] = Absent <=> row[q] = Absent
  BY <1>2 DEF RowMove
<1>3. ASSUME NEW r \in Runs, RunnerStep(r) PROVE row'[q] = Absent <=> pc'[q] = "none"
  <2>1. pc'[q] = "none" <=> pc[q] = "none"
    BY <1>0, <1>3, RunnerMoves DEF Moves, ControlFlow, Goto
  <2> QED
    BY <1>0, <1>2, <1>3, <2>1, OwnRowMoves
<1>4. CASE Outside
  BY <1>0, <1>2, <1>4, OutsideFrame, OutsideRowMoves DEF RunsFrame
<1>5. CASE Starting
  BY <1>0, <1>2, <1>5, StartingFrame, ProcessRowMoves DEF runnerVars
<1>6. CASE Exit \/ Crash
  BY <1>0, <1>2, <1>6, ProcessRowMoves DEF Exit, Crash, Halt
<1> QED
  BY <1>1, <1>3, <1>4, <1>5, <1>6, NextCases

LEMMA UnreservedStep == TypeOK /\ RowStarted /\ Unreserved /\ Next => Unreserved'
<1> SUFFICES ASSUME TypeOK, RowStarted, Unreserved, Next, NEW q \in Runs,
                    pc'[q] \in {"none", "created"}
             PROVE  eng'.run # q
  BY DEF Unreserved
<1>0. /\ pc \in [Runs -> RunnerPcs] /\ eng \in EngineState
      /\ pc[q] \in {"none", "created"} => eng.run # q
      /\ row[q] = Absent => pc[q] = "none"
  BY DEF TypeOK, Unreserved, RowStarted
<1>1. ASSUME NEW r \in Runs, Born(r) PROVE eng'.run # q
  BY <1>0, <1>1, BornFrame DEF Goto
<1>2. ASSUME NEW r \in Runs, RunnerStep(r) PROVE eng'.run # q
  <2>1. pc[q] \in {"none", "created"} /\ q # r
    BY <1>0, <1>2, RunnerMoves DEF Moves, ControlFlow, Goto
  <2>2. eng'.run \in {eng.run, r}
    BY <1>0, <1>2, RunnerSlot DEF SameSlot
  <2> QED
    BY <1>0, <2>1, <2>2
<1>3. CASE Outside
  BY <1>0, <1>3, OutsideFrame DEF RunsFrame, SameSlot
<1>4. CASE Starting
  BY <1>0, <1>4, StartingFrame DEF runnerVars
<1>5. CASE Exit \/ Crash
  BY <1>5 DEF Exit, Crash, Halt, EngineIdle, NoRun, Runs
<1> QED
  BY <1>1, <1>2, <1>3, <1>4, <1>5, NextCases

LEMMA ExecutingInsideStep ==
  TypeOK /\ SlotInv /\ RowStarted /\ ExecutingInside /\ Next => ExecutingInside'
<1> SUFFICES ASSUME TypeOK, SlotInv, RowStarted, ExecutingInside, Next, eng'.executing
             PROVE  eng'.run \in Runs /\ pc'[eng'.run] \in InRunSync
  BY DEF ExecutingInside
<1>0. /\ pc \in [Runs -> RunnerPcs] /\ eng \in EngineState
      /\ eng.executing => eng.run \in Runs /\ pc[eng.run] \in InRunSync
      /\ \A r \in Runs : pc[r] \in BeforeRunSync \cup InRunSync => eng.run = r
  BY DEF TypeOK, ExecutingInside, SlotInv, SlotOwned
<1>1. ASSUME NEW r \in Runs, Born(r)
      PROVE  eng'.run \in Runs /\ pc'[eng'.run] \in InRunSync
  <2>1. pc[r] = "none"
    BY <1>1, BornFrame DEF RowStarted
  <2> QED
    BY <1>0, <1>1, <2>1, BornFrame DEF Goto, InRunSync
<1>2. ASSUME NEW r \in Runs, RunnerStep(r)
      PROVE  eng'.run \in Runs /\ pc'[eng'.run] \in InRunSync
  <2>1. CASE SameSlot
    <3>1. eng.run \in Runs /\ pc[eng.run] \in InRunSync
      BY <1>0, <2>1 DEF SameSlot
    <3>2. CASE eng.run = r
      <4>1. ~RunnerOpenFails(r) /\ ~Release(r)
        BY <1>0, <2>1 DEF SameSlot, RunnerOpenFails, Release, Released, EngineState
      <4>2. pc[r] \in InRunSync => pc'[r] \in InRunSync
        BY <1>0, <1>2, <4>1, RunnerStays
      <4> QED
        BY <2>1, <3>1, <3>2, <4>2 DEF SameSlot
    <3>3. CASE eng.run # r
      BY <1>0, <1>2, <2>1, <3>1, <3>3, RunnerMoves DEF SameSlot, Moves, Goto
    <3> QED
      BY <3>2, <3>3
  <2>2. CASE RunnerEnter(r)
    BY <1>0, <2>2, EnterType DEF RunnerEnter, EngineState, Goto, BeforeRunSync, InRunSync
  <2>3. CASE RunnerReleasePrepared(r) /\ eng'.executing = eng.executing
    BY <1>0, <2>3 DEF RunnerReleasePrepared, BeforeRunSync, InRunSync
  <2> QED
    BY <1>2, <2>1, <2>2, <2>3, RunnerSlot
<1>3. CASE Outside
  BY <1>0, <1>3, OutsideFrame DEF RunsFrame, SameSlot
<1>4. CASE Starting
  BY <1>0, <1>4, StartingFrame DEF runnerVars
<1>5. CASE Exit \/ Crash
  BY <1>5 DEF Exit, Crash, Halt, EngineIdle
<1> QED
  BY <1>1, <1>2, <1>3, <1>4, <1>5, NextCases

LEMMA CutOffStep == TypeOK /\ CutOff /\ Next => CutOff'
<1> SUFFICES ASSUME TypeOK, CutOff, Next, phase' \in {"down", "recover"}, NEW q \in Runs
             PROVE  pc'[q] \notin LivePcs
  BY DEF CutOff
<1>0. phase \in {"down", "recover"} => \A r \in Runs : pc[r] \notin LivePcs
  BY DEF CutOff
<1> USE DEF LivePcs, BeforeRunSync, InRunSync, AfterRunSync
<1>1. ASSUME NEW r \in Runs, Born(r) PROVE FALSE
  BY <1>1, BornFrame
<1>2. ASSUME NEW r \in Runs, RunnerStep(r) PROVE FALSE
  BY <1>0, <1>2, RunnerFrame, RunnerMoves DEF Moves, ControlFlow
<1>3. CASE Outside
  BY <1>0, <1>3, OutsideFrame DEF RunsFrame
<1>4. CASE Starting
  <2>1. phase \in {"down", "recover"}
    BY <1>4 DEF Starting, Start, RecoverRow, RecoverDone, Serve, ResumeNext
  <2> QED
    BY <1>0, <1>4, <2>1, StartingFrame DEF runnerVars
<1>5. CASE Exit \/ Crash
  BY <1>5 DEF Exit, Crash, Halt
<1> QED
  BY <1>1, <1>2, <1>3, <1>4, <1>5, NextCases

\* The facts every invariant below starts from.
Base == Known /\ RunsInv

LEMMA BaseInit == Init /\ TypeOK => Base
BY InitLifecycleInv DEF Init, EngineIdle, Base, Known, SlotInv, SlotOwned, SingleExecution,
   RunsInv, RowStarted, Unreserved, ExecutingInside, CutOff, BeforeRunSync, InRunSync,
   NoRun, Runs

LEMMA BaseStep == Base /\ [Next]_vars => Base'
<1> SUFFICES ASSUME Base, [Next]_vars PROVE Base'
  OBVIOUS
<1>1. Known'
  BY KnownStep DEF Base
<1>2. CASE Next
  BY <1>1, <1>2, RowStartedStep, UnreservedStep, ExecutingInsideStep, CutOffStep
     DEF Base, Known, LifecycleInv, RunsInv
<1>3. CASE UNCHANGED vars
  BY <1>1, <1>3 DEF Base, RunsInv, RowStarted, Unreserved, ExecutingInside, CutOff, vars,
     storeVars, runnerVars, procVars
<1> QED
  BY <1>2, <1>3

LEMMA BaseHolds == Spec => []Base
BY BaseInit, BaseStep, TypeCorrect, PTL DEF Spec

-----------------------------------------------------------------------------
\* Recovery.

\* A recovery run has a row.
ChildHasRow == \A r \in Runs : parent[r] # NoRun => row[r] # Absent

\* While a recovery run is at work, it is the only one of its parent that may
\* come to a success.
LiveChildAlone ==
  \A q, r \in Runs :
    parent[r] # NoRun /\ parent[q] = parent[r] /\ q # r /\ pc[r] \in LivePcs
      => row[q] # "success" /\ pc[q] \notin LivePcs

\* No recovery run of a run that recovery has still to look at is at work.
TodoIdle ==
  phase = "resume" => \A p \in todo, q \in Runs : parent[q] = p => pc[q] \notin LivePcs

RecoveryInv == ChildHasRow /\ LiveChildAlone /\ TodoIdle /\ SingleSuccessfulRecovery

\* Except for the birth of a recovery run, a step attaches none, and only a run
\* at work comes to a success or stays at work.
RecoveryQuiet ==
  /\ \A q \in Runs : parent'[q] = parent[q]
  /\ \A q \in Runs : row[q] # Absent => row'[q] # Absent
  /\ \A q \in Runs : pc'[q] \in LivePcs => pc[q] \in LivePcs \/ row[q] = Absent
  /\ \A q \in Runs : row'[q] = "success" => row[q] = "success" \/ pc[q] \in LivePcs
  /\ phase' = "resume" =>
       \/ phase = "resume" /\ todo' \subseteq todo
       \/ phase = "recover" /\ UNCHANGED pc

LEMMA RecoveryQuietStep ==
  ASSUME Base, Next
  PROVE  RecoveryQuiet \/ \E r \in Runs, p \in todo : ResumeNext /\ ResumeChild(p, r)
<1>0. TypeOK /\ pc \in [Runs -> RunnerPcs] /\ RowStarted
  BY DEF Base, Known, LifecycleInv, RunsInv, TypeOK
<1>1. ASSUME NEW q \in Runs, RowMove(q)
      PROVE  row'[q] = "success" => row[q] = "success" \/ pc[q] \in LivePcs
  BY <1>1 DEF RowMove, MovesItsRow, LivePcs, BeforeRunSync, InRunSync, AfterRunSync
<1>2. \A q \in Runs : row[q] # Absent => row'[q] # Absent
  BY RowsMoveOn DEF Base
<1> USE DEF RecoveryQuiet
<1>3. ASSUME NEW r \in Runs, NEW k \in Kinds \ {"recovery"}, NEW fs \in Requests,
             Persist(r, k, fs)
      PROVE  RecoveryQuiet
  BY <1>0, <1>2, <1>3 DEF Persist, Fresh, SetRow, Goto, procVars, TypeOK
<1>4. ASSUME NEW r \in Runs, RunnerStep(r) PROVE RecoveryQuiet
  <2>1. \A q \in Runs : pc'[q] \in LivePcs => pc[q] \in LivePcs
    BY <1>0, <1>4, RunnerMoves DEF Moves, ControlFlow, Goto, LivePcs, BeforeRunSync,
       InRunSync, AfterRunSync
  <2> QED
    BY <1>0, <1>1, <1>2, <1>4, <2>1, OwnRowMoves, RunnerFrame
<1>5. CASE Outside
  BY <1>0, <1>1, <1>2, <1>5, OutsideRowMoves, OutsideFrame DEF RunsFrame
<1>6. CASE Starting
  <2>1. phase' = "resume" =>
          (phase = "resume" /\ todo' \subseteq todo) \/ phase = "recover"
    BY <1>6 DEF Starting, Start, RecoverRow, RecoverDone, Serve, ResumeNext
  <2> QED
    BY <1>0, <1>1, <1>2, <1>6, <2>1, ProcessRowMoves, StartingFrame DEF runnerVars
<1>7. CASE Exit \/ Crash
  BY <1>0, <1>1, <1>2, <1>7, ProcessRowMoves DEF Exit, Crash, Halt, storeVars, LivePcs,
     BeforeRunSync, InRunSync, AfterRunSync
<1> QED
  BY <1>0, <1>3, <1>4, <1>5, <1>6, <1>7, NextCases DEF Born

LEMMA RecoveryQuietKeeps == Base /\ RecoveryInv /\ RecoveryQuiet => RecoveryInv'
<1> SUFFICES ASSUME Base, RecoveryInv, RecoveryQuiet PROVE RecoveryInv'
  OBVIOUS
<1> USE DEF RecoveryInv, RecoveryQuiet
<1>1. ChildHasRow'
  BY DEF ChildHasRow
<1>2. LiveChildAlone'
  BY DEF ChildHasRow, LiveChildAlone
<1>3. TodoIdle'
  <2>1. NoRun \notin todo
    BY DEF NoRun, Runs, Base, Known, LifecycleInv, TypeOK
  <2>2. phase = "recover" => \A q \in Runs : pc[q] \notin LivePcs
    BY DEF Base, RunsInv, CutOff
  <2> QED
    BY <2>1, <2>2 DEF TodoIdle, ChildHasRow
<1>4. SingleSuccessfulRecovery'
  BY DEF SingleSuccessfulRecovery, LiveChildAlone
<1> QED
  BY <1>1, <1>2, <1>3, <1>4

\* A child of the oldest abnormal run is born only when none of its children
\* has succeeded, and none of them is at work.
LEMMA ChildBornKeeps ==
  ASSUME Base, RecoveryInv, ResumeNext, NEW r \in Runs, NEW p \in todo, ResumeChild(p, r)
  PROVE  RecoveryInv'
<1>0. /\ row \in [Runs -> RowStatuses] /\ parent \in [Runs -> Runs \cup {NoRun}]
      /\ pc \in [Runs -> RunnerPcs] /\ todo \in SUBSET Runs
  BY DEF Base, Known, LifecycleInv, TypeOK
<1>1. /\ row[r] = Absent /\ pc[r] = "none" /\ phase = "resume" /\ UNCHANGED phase
      /\ row' = [row EXCEPT ![r] = "running"]
      /\ parent' = [parent EXCEPT ![r] = p]
      /\ pc' = [pc EXCEPT ![r] = "created"]
      /\ todo' = todo \ {p}
      /\ \A q \in Runs : parent[q] = p => row[q] # "success"
  BY DEF ResumeNext, ResumeChild, Fresh, SetRow, Goto, RecoveredAlready, Base, RunsInv,
     RowStarted
<1>2. p # NoRun /\ parent[r] = NoRun /\ pc[r] \notin LivePcs
  BY <1>0, <1>1 DEF RecoveryInv, ChildHasRow, NoRun, Runs, LivePcs, BeforeRunSync,
     InRunSync, AfterRunSync
<1>3. \A q \in Runs : parent[q] = p => pc[q] \notin LivePcs
  BY <1>1 DEF RecoveryInv, TodoIdle
<1> USE <1>0, <1>1, <1>2, <1>3 DEF RecoveryInv
<1>4. ChildHasRow'
  BY DEF ChildHasRow
<1>5. LiveChildAlone'
  BY DEF LiveChildAlone
<1>6. TodoIdle'
  BY DEF TodoIdle
<1>7. SingleSuccessfulRecovery'
  BY DEF SingleSuccessfulRecovery
<1> QED
  BY <1>4, <1>5, <1>6, <1>7

LEMMA RecoveryStep == Base /\ RecoveryInv /\ [Next]_vars => RecoveryInv'
<1>1. CASE UNCHANGED vars
  BY <1>1 DEF vars, storeVars, runnerVars, procVars, RecoveryInv, ChildHasRow,
     LiveChildAlone, TodoIdle, SingleSuccessfulRecovery
<1>2. CASE Next
  BY <1>2, RecoveryQuietStep, RecoveryQuietKeeps, ChildBornKeeps
<1> QED
  BY <1>1, <1>2

\* Over any number of crashes, restarts and failing calls, an abnormal run has
\* at most one recovery run that succeeded.
THEOREM SingleSuccessfulRecoveryHolds == Spec => []SingleSuccessfulRecovery
<1>1. Init => RecoveryInv
  BY DEF Init, RecoveryInv, ChildHasRow, LiveChildAlone, TodoIdle, SingleSuccessfulRecovery
<1>2. RecoveryInv => SingleSuccessfulRecovery
  BY DEF RecoveryInv
<1> QED
  BY <1>1, <1>2, BaseHolds, RecoveryStep, PTL DEF Spec

-----------------------------------------------------------------------------
\* The watchdogs and the drain.

\* A watchdog runs only for a run that was asked to stop.
StopWatched == \A r \in Runs : stopWatch[r] # "off" => BeenStopped(r)

Draining == {"look", "wait", "marked", "told"}

\* So does the drain.
DrainWatched == drain.pc \in Draining => drain.run \in Runs /\ BeenStopped(drain.run)

\* The API's task, and what watches it, belong to a persisted run.
TaskKnown == \A r \in Runs : activeTask = r \/ taskWatch[r] # "off" => row[r] # Absent

\* A deadline of the run has passed and its row was written.
GivenUp(r) ==
  \/ stopWatch[r] \in {"marked", "told"} \/ taskWatch[r] \in {"marked", "told"}
  \/ drain.pc \in {"marked", "told"} /\ drain.run = r

\* Unless that write failed, the row shows an end.
WatchEnds == faults = 0 => \A r \in Runs : GivenUp(r) => row[r] \in TerminalStatuses

WatchInv == StopWatched /\ DrainWatched /\ TaskKnown /\ WatchEnds

\* What a step can make of them for one run.
WatchMove(q) ==
  /\ stopWatch'[q] # "off" => stopWatch[q] # "off" \/ BeenStopped(q)'
  /\ taskWatch'[q] # "off" => taskWatch[q] # "off" \/ activeTask = q
  /\ activeTask' = q => activeTask = q \/ pc[q] = "created"
  /\ faults' = 0 => faults = 0
  /\ faults' = 0 /\ GivenUp(q)' => GivenUp(q) \/ row'[q] \notin ActiveStatuses

LEMMA NoRunIsNone == NoRun \notin Runs
BY DEF NoRun, Runs

LEMMA AskedWatches ==
  ASSUME TypeOK, ActiveHasRun, NEW r, NEW graceful \in BOOLEAN, Asked(r, graceful),
         NEW q \in Runs
  PROVE  /\ r \in Runs /\ BeenStopped(r)'
         /\ stopWatch'[q] \in {stopWatch[q], "armed"}
         /\ stopWatch'[q] # "off" => stopWatch[q] # "off" \/ BeenStopped(q)'
BY DEF Asked, ActiveHasRun, SetRow, BeenStopped, TypeOK, EngineState

LEMMA AbortWatches ==
  ASSUME TypeOK, NEW r \in Runs, AbortRow(r)
  PROVE  faults' = 0 => faults = 0 /\ row'[r] \notin ActiveStatuses
BY DEF AbortRow, Fault, SetRow, Aborted, TypeOK

LEMMA QuietWatches ==
  ASSUME TypeOK, UNCHANGED watchVars, faults' \in {faults, faults + 1}, NEW q \in Runs
  PROVE  WatchMove(q)
BY DEF watchVars, WatchMove, GivenUp, TypeOK, Draining

LEMMA RunnerWatches ==
  ASSUME Base, NEW r \in Runs, RunnerStep(r), NEW q \in Runs
  PROVE  WatchMove(q)
<1>0. TypeOK /\ ActiveHasRun
  BY DEF Base, Known, LifecycleInv
<1>1. CASE Reserve(r)
  BY <1>0, <1>1 DEF Reserve, WatchMove, GivenUp, Draining
<1>2. CASE RunnerGraceStop(r)
  <2>1. CASE Asked(r, TRUE) /\ UNCHANGED faults
    BY <1>0, <1>2, <2>1, AskedWatches DEF RunnerGraceStop, WatchMove, GivenUp, Draining
  <2>2. CASE (Fault \/ UNCHANGED faults) /\ UNCHANGED stopWatch
    BY <1>0, <1>2, <2>2, QuietWatches DEF RunnerGraceStop, Fault, watchVars
  <2> QED
    BY <1>2, <2>1, <2>2 DEF RunnerGraceStop
<1>3. CASE RunnerEnter(r)
  <2>1. eng.stopRequested => BeenStopped(r)'
    BY <1>3 DEF Base, Known, LifecycleInv, StopIsDurable, SlotInv, SlotOwned, RunnerEnter,
       BeforeRunSync, BeenStopped, storeVars
  <2> QED
    BY <1>0, <1>3, <2>1 DEF RunnerEnter, WatchMove, GivenUp, Draining, TypeOK
<1>4. CASE RunnerOpenFails(r) \/ Release(r)
  BY <1>0, <1>4 DEF RunnerOpenFails, Release, WatchReleased, Fault, WatchMove, GivenUp,
     Draining, TypeOK
<1>5. CASE RunnerExit(r)
  BY <1>0, <1>5, NoRunIsNone DEF RunnerExit, WatchMove, GivenUp, Draining, TypeOK
<1>6. CASE UNCHANGED watchVars /\ faults' \in {faults, faults + 1}
  BY <1>0, <1>6, QuietWatches
<1>7. CASE ReserveRejected(r) \/ RunnerStart(r) \/ RunnerQueryFails(r) \/ RunnerQuery(r)
           \/ RunnerGate(r) \/ RunnerClosePrepared(r) \/ RunnerReleasePrepared(r)
           \/ RunnerOpen(r)
  BY <1>6, <1>7 DEF ReserveRejected, FinishRow, RunnerStart, RunnerQueryFails, RunnerQuery,
     RunnerGate, RunnerClosePrepared, RunnerReleasePrepared, RunnerOpen, Fault
<1>8. CASE FinalDecide(r) \/ FinalPersist(r)
  BY <1>6, <1>8 DEF FinalDecide, FinalPersist, Fault
<1>9. CASE AfterResult(r) \/ AfterError(r)
  BY <1>6, <1>9 DEF AfterResult, AfterError, ApiAfterError, FinishRow, AbortRow, Fault
<1> QED
  BY <1>1, <1>2, <1>3, <1>4, <1>5, <1>7, <1>8, <1>9 DEF RunnerStep

LEMMA OutsideWatches ==
  ASSUME Base, WatchInv, Outside, NEW q \in Runs
  PROVE  WatchMove(q)
<1>0. TypeOK /\ ActiveHasRun
  BY DEF Base, Known, LifecycleInv
<1>1. ASSUME UNCHANGED watchVars, faults' \in {faults, faults + 1} PROVE WatchMove(q)
  BY <1>0, <1>1, QuietWatches
<1>2. ASSUME NEW r \in Runs, FormStep(r) PROVE WatchMove(q)
  BY <1>1, <1>2 DEF FormStep, FormStart, FormSkip, FormSave, FormSucceed, FormFail, Fault
<1>3. ASSUME NEW r \in Runs, CtxExpire(r) \/ ScheduleTimeout(r) PROVE WatchMove(q)
  BY <1>1, <1>3 DEF CtxExpire, ScheduleTimeout
<1>4. ASSUME NEW r \in Runs, RequestStop(r) PROVE WatchMove(q)
  BY <1>0, <1>4, AskedWatches DEF RequestStop, WatchMove, GivenUp, Draining
<1>5. ASSUME NEW r \in Runs, StopCancel(r) PROVE WatchMove(q)
  BY <1>0, <1>5 DEF StopCancel, WatchMove, GivenUp, Draining, TypeOK
<1>6. ASSUME NEW r \in Runs, StopWatchFire(r) \/ TaskWatchFire(r) PROVE WatchMove(q)
  <2>1. faults' = 0 => faults = 0 /\ row'[r] \notin ActiveStatuses
    BY <1>0, <1>6, AbortWatches DEF StopWatchFire, TaskWatchFire
  <2> QED
    BY <1>0, <1>6, <2>1 DEF StopWatchFire, TaskWatchFire, WatchMove, GivenUp, Draining, TypeOK
<1>7. ASSUME NEW r \in Runs, StopWatchTell(r) \/ StopWatchCancel(r) \/ TaskWatchTell(r)
                             \/ TaskWatchClear(r)
      PROVE  WatchMove(q)
  BY <1>0, <1>7, NoRunIsNone DEF StopWatchTell, StopWatchCancel, TaskWatchTell, TaskWatchClear,
     WatchMove, GivenUp, Draining, TypeOK
<1>8. CASE Shutdown
  BY <1>0, <1>8 DEF Shutdown, WatchMove, GivenUp, Draining, TypeOK
<1>9. CASE DrainAsk
  <2>1. CASE Asked(eng.run, TRUE) /\ drain' = [pc |-> "look", run |-> eng.run]
             /\ UNCHANGED faults
    BY <1>0, <1>9, <2>1, AskedWatches DEF DrainAsk, WatchMove, GivenUp, Draining
  <2>2. CASE drain' = [drain EXCEPT !.pc = "exit"] /\ UNCHANGED stopWatch
             /\ faults' \in {faults, faults + 1}
    BY <1>0, <1>9, <2>2 DEF DrainAsk, WatchMove, GivenUp, Draining, TypeOK
  <2> QED
    BY <1>9, <2>1, <2>2 DEF DrainAsk, Fault
<1>10. CASE DrainTimeout
  <2>1. drain.run \in Runs /\ drain.pc = "wait"
    BY <1>10 DEF DrainTimeout, WatchInv, DrainWatched, Draining
  <2>2. faults' = 0 => faults = 0 /\ row'[drain.run] \notin ActiveStatuses
    BY <1>0, <1>10, <2>1, AbortWatches DEF DrainTimeout
  <2> QED
    BY <1>0, <1>10, <2>1, <2>2 DEF DrainTimeout, WatchMove, GivenUp, Draining, TypeOK
<1>11. CASE DrainLook \/ DrainDone \/ DrainTell \/ DrainCancel
  BY <1>0, <1>11 DEF DrainLook, DrainDone, DrainTell, DrainCancel, WatchMove, GivenUp,
     Draining, TypeOK
<1> QED
  BY <1>2, <1>3, <1>4, <1>5, <1>6, <1>7, <1>8, <1>9, <1>10, <1>11 DEF Outside, WatchStep,
     DrainStep

LEMMA WatchMoves ==
  ASSUME Base, WatchInv, Next, NEW q \in Runs
  PROVE  WatchMove(q)
<1>0. TypeOK
  BY DEF Base, Known, LifecycleInv
<1>1. ASSUME NEW r \in Runs, Born(r) PROVE WatchMove(q)
  BY <1>0, <1>1, BornFrame, QuietWatches
<1>2. CASE Starting
  <2>1. faults' \in {faults, faults + 1}
    BY <1>2 DEF Starting, Start, RecoverRow, RecoverDone, Serve, ResumeNext, ResumePass,
       ResumeChild, Fault
  <2> QED
    BY <1>0, <1>2, <2>1, StartingFrame, QuietWatches
<1>3. CASE Exit \/ Crash
  BY <1>0, <1>3, NoRunIsNone DEF Exit, Crash, Halt, WatchMove, GivenUp, Draining
<1> QED
  BY <1>0, <1>1, <1>2, <1>3, NextCases, RunnerWatches, OutsideWatches

\* Only the shutdown coordinator moves itself, until the process is gone.
LEMMA DrainOnly ==
  ASSUME TypeOK, Next
  PROVE  UNCHANGED drain \/ Shutdown \/ DrainStep \/ Exit \/ Crash
<1>1. ASSUME NEW r \in Runs, FormStep(r) \/ CtxExpire(r) \/ ScheduleTimeout(r)
                             \/ RequestStop(r)
      PROVE  UNCHANGED drain
  BY <1>1 DEF FormStep, FormStart, FormSkip, FormSave, FormSucceed, FormFail, CtxExpire,
     ScheduleTimeout, RequestStop, watchVars
<1>2. ASSUME NEW r \in Runs, WatchStep(r) PROVE UNCHANGED drain
  BY <1>2 DEF WatchStep, StopCancel, StopWatchFire, StopWatchTell, StopWatchCancel,
     TaskWatchFire, TaskWatchTell, TaskWatchClear
<1>3. ASSUME NEW r \in Runs, Born(r) \/ RunnerStep(r) PROVE UNCHANGED drain
  BY <1>3, BornFrame, RunnerFrame DEF watchVars
<1>4. CASE Starting
  BY <1>4, StartingFrame DEF watchVars
<1> QED
  BY <1>1, <1>2, <1>3, <1>4, NextCases DEF Outside

LEMMA DrainMoves ==
  ASSUME Base, Next, drain'.pc \in Draining
  PROVE  \/ drain.pc \in Draining /\ drain'.run = drain.run
         \/ (drain.run \in Runs /\ BeenStopped(drain.run))'
<1>0. TypeOK /\ ActiveHasRun
  BY DEF Base, Known, LifecycleInv
<1>1. CASE DrainAsk
  <2>1. Asked(eng.run, TRUE) /\ drain' = [pc |-> "look", run |-> eng.run]
    BY <1>0, <1>1 DEF DrainAsk, Draining, TypeOK
  <2>2. eng.run \in Runs
    BY <1>0, <2>1 DEF Asked, ActiveHasRun
  <2> QED
    BY <1>0, <2>1, <2>2 DEF Asked, ActiveHasRun, SetRow, BeenStopped, TypeOK
<1>2. CASE Shutdown \/ DrainLook \/ DrainDone \/ DrainTimeout \/ DrainTell \/ DrainCancel
  BY <1>0, <1>2 DEF Shutdown, DrainLook, DrainDone, DrainTimeout, DrainTell, DrainCancel,
     Draining, TypeOK
<1>3. CASE Exit \/ Crash
  BY <1>3 DEF Exit, Crash, Halt, Draining
<1> QED
  BY <1>0, <1>1, <1>2, <1>3, DrainOnly DEF DrainStep

LEMMA WatchInvStep == Base /\ WatchInv /\ [Next]_vars => WatchInv'
<1>1. CASE UNCHANGED vars
  BY <1>1 DEF vars, storeVars, watchVars, WatchInv, StopWatched, DrainWatched, TaskKnown,
     WatchEnds, GivenUp, BeenStopped
<1>2. ASSUME Base, WatchInv, Next PROVE WatchInv'
  <2>0. /\ \A q \in Runs : WatchMove(q)
        /\ \A q \in Runs : /\ row[q] \in TerminalStatuses => row'[q] = row[q]
                           /\ row[q] # Absent => row'[q] # Absent
                           /\ BeenStopped(q) => BeenStopped(q)'
    BY <1>2, WatchMoves, RowsMoveOn DEF Base
  <2>1. StopWatched'
    BY <1>2, <2>0 DEF WatchMove, WatchInv, StopWatched
  <2>2. DrainWatched'
    <3>1. CASE drain.pc \in Draining /\ drain'.run = drain.run
      BY <1>2, <2>0, <3>1 DEF WatchInv, DrainWatched, BeenStopped
    <3>2. CASE (drain.run \in Runs /\ BeenStopped(drain.run))'
      BY <3>2 DEF DrainWatched
    <3>3. CASE drain'.pc \notin Draining
      BY <3>3 DEF DrainWatched
    <3> QED
      BY <1>2, <3>1, <3>2, <3>3, DrainMoves
  <2>3. TaskKnown'
    BY <1>2, <2>0 DEF WatchMove, WatchInv, TaskKnown, Base, RunsInv, RowStarted
  <2>4. WatchEnds'
    <3>1. row' \in [Runs -> RowStatuses]
      BY <1>2, BaseStep DEF Base, Known, LifecycleInv, TypeOK
    <3>2. ASSUME NEW q \in Runs, GivenUp(q)' PROVE row'[q] # Absent
      BY <2>1, <2>2, <2>3, <3>2 DEF GivenUp, StopWatched, DrainWatched, TaskKnown, Draining,
         BeenStopped
    <3> QED
      BY <1>2, <2>0, <3>1, <3>2 DEF WatchMove, WatchInv, WatchEnds, RowStatuses
  <2> QED
    BY <2>1, <2>2, <2>3, <2>4 DEF WatchInv
<1> QED
  BY <1>1, <1>2

LEMMA WatchHolds == Spec => [](Base /\ WatchInv)
<1>1. Init => WatchInv
  BY NoRunIsNone DEF Init, WatchInv, StopWatched, DrainWatched, TaskKnown, WatchEnds,
     GivenUp, Draining
<1> QED
  BY <1>1, BaseHolds, WatchInvStep, PTL DEF Spec

-----------------------------------------------------------------------------
\* Who cancels the context of the executing run, and when.

\* Its run was stopped; if that was gracefully, it has been given up.
RightlyCancelled ==
  /\ eng'.run = eng.run /\ eng.run \in Runs
  /\ row'[eng.run] # "running"
  /\ faults = 0 /\ eng'.gracefulStop => row'[eng.run] \in TerminalStatuses

LEMMA AskedCancelsOwn ==
  ASSUME TypeOK, ActiveHasRun, NEW r, NEW graceful \in BOOLEAN, Asked(r, graceful),
         ~eng.cancelled, eng'.cancelled
  PROVE  RightlyCancelled
BY DEF Asked, ActiveHasRun, SetRow, RightlyCancelled, TypeOK, EngineState

LEMMA WatchCancelsOwn ==
  ASSUME Base, WatchInv, NEW r \in Runs, UNCHANGED row,
         stopWatch[r] = "told" \/ (drain.pc = "told" /\ drain.run = r),
         eng' = CancelledActive(r), ~eng.cancelled, eng'.cancelled
  PROVE  RightlyCancelled
<1>1. eng.run = r /\ eng'.run = eng.run
  BY DEF CancelledActive, Base, Known, LifecycleInv, TypeOK, EngineState
<1>2. BeenStopped(r) /\ (faults = 0 => row[r] \in TerminalStatuses)
  BY DEF WatchInv, StopWatched, DrainWatched, Draining, WatchEnds, GivenUp
<1> QED
  BY <1>1, <1>2 DEF RightlyCancelled, BeenStopped

LEMMA CancelMoves ==
  ASSUME Base, WatchInv, Next, ~eng.cancelled, eng'.cancelled
  PROVE  RightlyCancelled
<1>0. TypeOK /\ ActiveHasRun /\ eng \in EngineState
  BY DEF Base, Known, LifecycleInv, TypeOK
<1>t. ASSUME NEW r, eng' = ToldAbnormal(r) PROVE eng'.cancelled = eng.cancelled
  BY <1>0, <1>t DEF ToldAbnormal, EngineState
<1>1. ASSUME NEW r \in Runs, RunnerStep(r) PROVE RightlyCancelled
  <2>1. CASE RunnerEnter(r)
    <3>1. eng.active /\ eng.run = r /\ eng.stopRequested /\ ~eng.gracefulStop
      BY <1>0, <2>1 DEF RunnerEnter, EngineState, Base, Known, SlotInv, SlotOwned,
         BeforeRunSync
    <3>2. row[r] # "running" /\ UNCHANGED row
      BY <2>1, <3>1 DEF Base, Known, LifecycleInv, StopIsDurable, RunnerEnter, storeVars
    <3> QED
      BY <1>0, <2>1, <3>1, <3>2 DEF RunnerEnter, EngineState, RightlyCancelled
  <2>2. CASE RunnerGraceStop(r)
    BY <1>0, <2>2, AskedCancelsOwn DEF RunnerGraceStop
  <2>3. CASE Reserve(r)
    BY <2>3 DEF Reserve, Begun, EngineIdle
  <2>4. CASE RunnerReleasePrepared(r) \/ RunnerOpenFails(r) \/ Release(r)
    BY <1>0, <2>4 DEF RunnerReleasePrepared, RunnerOpenFails, Release, Released, EngineState
  <2>5. CASE FinalDecide(r) \/ FinalPersist(r)
    BY <1>0, <2>5 DEF FinalDecide, FinalPersist, Decide, EngineState
  <2>6. CASE AfterError(r)
    BY <1>t, <2>6 DEF AfterError, ApiAfterError
  <2> QED
    BY <1>1, <2>1, <2>2, <2>3, <2>4, <2>5, <2>6 DEF RunnerStep, ReserveRejected,
       RunnerStart, RunnerQueryFails, RunnerQuery, RunnerGate, RunnerClosePrepared,
       RunnerOpen, AfterResult, RunnerExit
<1>2. ASSUME NEW r \in Runs, WatchStep(r) PROVE RightlyCancelled
  <2>1. CASE StopWatchCancel(r)
    BY <2>1, WatchCancelsOwn DEF StopWatchCancel, storeVars
  <2> QED
    BY <1>2, <1>t, <2>1 DEF WatchStep, StopCancel, StopWatchFire, StopWatchTell,
       TaskWatchFire, TaskWatchTell, TaskWatchClear
<1>3. ASSUME NEW r \in Runs, RequestStop(r) PROVE RightlyCancelled
  BY <1>0, <1>3, AskedCancelsOwn DEF RequestStop
<1>4. ASSUME NEW r \in Runs, FormStep(r) \/ CtxExpire(r) \/ ScheduleTimeout(r)
      PROVE  UNCHANGED eng
  BY <1>4 DEF FormStep, FormStart, FormSkip, FormSave, FormSucceed, FormFail, CtxExpire,
     ScheduleTimeout
<1>5. CASE DrainAsk
  BY <1>0, <1>5, AskedCancelsOwn DEF DrainAsk
<1>6. CASE DrainCancel
  <2>1. drain.run \in Runs
    BY <1>6 DEF DrainCancel, WatchInv, DrainWatched, Draining
  <2> QED
    BY <1>6, <2>1, WatchCancelsOwn DEF DrainCancel, storeVars
<1>7. CASE Shutdown \/ DrainLook \/ DrainDone \/ DrainTimeout \/ DrainTell
  BY <1>0, <1>t, <1>7 DEF Shutdown, DrainLook, DrainDone, DrainTimeout, DrainTell,
     EngineState
<1>8. ASSUME NEW r \in Runs, Born(r) PROVE UNCHANGED eng
  BY <1>0, <1>8, BornFrame
<1>9. CASE Starting
  BY <1>9, StartingFrame
<1>10. CASE Exit \/ Crash
  BY <1>10 DEF Exit, Crash, Halt, EngineIdle
<1> QED
  BY <1>0, <1>1, <1>2, <1>3, <1>4, <1>5, <1>6, <1>7, <1>8, <1>9, <1>10, NextCases
     DEF Outside, DrainStep

LEMMA CancelSteps ==
  ASSUME Base, WatchInv, [Next]_vars, ~eng.cancelled, eng'.cancelled
  PROVE  RightlyCancelled
BY CancelMoves DEF vars

\* A watchdog, a drain or a stop request only ever cancels the run it was meant
\* for, and no run is cancelled that nobody stopped.
THEOREM CancelOnlyStoppedHolds == Spec => CancelOnlyStopped
<1>1. Base /\ WatchInv /\ [Next]_vars =>
        [~eng.cancelled /\ eng'.cancelled =>
           row[eng'.run] # "running" \/ row'[eng'.run] # "running"]_vars
  BY CancelSteps DEF RightlyCancelled
<1> QED
  BY <1>1, WatchHolds, PTL DEF Spec, CancelOnlyStopped

\* A graceful stop leaves the writer's context alone until the history shows
\* that the run has been given up.
THEOREM WriterKeepsContextHolds == Spec => WriterKeepsContext
<1>1. Base /\ WatchInv /\ [Next]_vars =>
        [faults = 0 /\ ~eng.cancelled /\ eng'.cancelled /\ eng'.gracefulStop =>
           row'[eng'.run] \in TerminalStatuses]_vars
  BY CancelSteps DEF RightlyCancelled
<1> QED
  BY <1>1, WatchHolds, PTL DEF Spec, WriterKeepsContext

-----------------------------------------------------------------------------
\* What becomes of a run's row when its goroutine is through with it.

\* Neither the run's goroutine nor what it knows moves.
Settled(q) == pc'[q] = pc[q] /\ seen'[q] = seen[q] /\ job'[q] = job[q]

LEMMA OnlyItself ==
  ASSUME Base, Next, NEW q \in Runs
  PROVE  Born(q) \/ RunnerStep(q) \/ Settled(q) \/ Exit \/ Crash
<1>0. TypeOK /\ pc \in [Runs -> RunnerPcs]
  BY DEF Base, Known, LifecycleInv, TypeOK
<1>1. ASSUME NEW r \in Runs \ {q}, Born(r) PROVE Settled(q)
  BY <1>0, <1>1, BornFrame DEF Goto, Settled
<1>2. ASSUME NEW r \in Runs \ {q}, RunnerStep(r) PROVE Settled(q)
  <2>1. pc'[q] = pc[q]
    BY <1>0, <1>2, RunnerMoves DEF Moves, Goto
  <2> QED
    BY <1>0, <1>2, <2>1, RunnerFrame DEF Settled
<1>3. CASE Outside
  BY <1>0, <1>3, OutsideFrame DEF RunsFrame, Settled
<1>4. CASE Starting
  BY <1>4, StartingFrame DEF runnerVars, Settled
<1> QED
  BY <1>0, <1>1, <1>2, <1>3, <1>4, NextCases

\* A failing call is never forgotten.
LEMMA FaultsStay ==
  ASSUME Base, WatchInv, Next, faults' = 0, NEW q \in Runs
  PROVE  faults = 0
BY WatchMoves DEF WatchMove

\* The decision that waits to be written is one the row can take, or the row
\* has its end already.
FinalDecided(r) ==
  \/ row[r] \in TerminalStatuses
  \/ row[r] = "running" /\ seen[r] \in {"success", "partial", "failed"}
  \/ row[r] = "stopping" /\ seen[r] = "stopped"

EndsWritten ==
  faults = 0 => \A r \in Runs :
    /\ pc[r] = "finalizing" => FinalDecided(r)
    /\ pc[r] \in {"closed", "ending", "ok"} => row[r] \in TerminalStatuses

LEMMA DecisionKept ==
  ASSUME Base, Next, NEW q \in Runs, Settled(q), pc[q] = "finalizing", FinalDecided(q)
  PROVE  FinalDecided(q)'
<1>1. ~RunnerStep(q)
  BY RunnerMoves DEF Moves, ControlFlow, Goto, Settled, Base, Known, LifecycleInv, TypeOK
<1>2. ~Born(q)
  BY BornFrame DEF Goto, Settled, Base, Known, LifecycleInv, TypeOK
<1>3. RowMove(q) /\ row \in [Runs -> RowStatuses]
  BY <1>2, RowMoves DEF Base, Known, LifecycleInv, TypeOK
<1> QED
  BY <1>1, <1>3 DEF RowMove, MuFree, FinalDecided, Settled

LEMMA ResultDecides == ResultStatus \in {"success", "partial", "failed"}
BY DEF ResultStatus

LEMMA DecisionMade ==
  ASSUME Base, NEW r \in Runs, FinalDecide(r), faults' = 0
  PROVE  pc'[r] = "finalizing" /\ FinalDecided(r)'
<1>0. /\ row \in [Runs -> RowStatuses] /\ seen \in [Runs -> RowStatuses]
      /\ pc \in [Runs -> RunnerPcs] /\ faults \in Nat
      /\ row[r] # Absent
  BY DEF Base, Known, LifecycleInv, TypeOK, RunsInv, RowStarted, FinalDecide
<1>1. ~Fault
  BY <1>0 DEF Fault
<1>2. CASE CtxErr(r) /\ ~eng.stopRequested
  BY <1>0, <1>1, <1>2 DEF FinalDecide, SetRow, Aborted, Goto, FinalDecided, RowStatuses
<1>3. CASE ~(CtxErr(r) /\ ~eng.stopRequested)
  <2> DEFINE now == IF CtxErr(r) /\ row[r] = "running" THEN "stopping" ELSE row[r]
  <2>1. /\ row' = [row EXCEPT ![r] = now]
        /\ seen' = [seen EXCEPT ![r] = CASE now = "stopping" -> "stopped"
                                         [] now \in TerminalStatuses -> now
                                         [] OTHER -> ResultStatus]
        /\ pc' = [pc EXCEPT ![r] = "finalizing"]
    BY <1>1, <1>3 DEF FinalDecide, SetRow, Decide, Goto
  <2> QED
    BY <1>0, <2>1, ResultDecides DEF FinalDecided, RowStatuses
<1> QED
  BY <1>2, <1>3

LEMMA DecisionWritten ==
  ASSUME Base, NEW r \in Runs, FinalPersist(r), FinalDecided(r), faults' = 0
  PROVE  row'[r] \in TerminalStatuses
<1>0. row \in [Runs -> RowStatuses] /\ faults \in Nat
  BY DEF Base, Known, LifecycleInv, TypeOK
<1>1. ~Fault
  BY <1>0 DEF Fault
<1>2. SetRow(r, IF seen[r] = Abnormal THEN row[r] ELSE Finished(row[r], seen[r]))
  BY <1>1 DEF FinalPersist
<1> QED
  BY <1>0, <1>2 DEF SetRow, FinalDecided, Finished, FinishRejected, FinishTarget,
     CanTransition, Statuses

\* FinishSyncRun gives an active row an end when its caller asks for one.
LEMMA FinishEnds ==
  ASSUME NEW from \in Statuses,
         NEW to, to = "failed" \/ (to = "stopped" /\ ~FinishRejected(from, to))
                 \/ (to = "stopped" /\ from = "stopping")
  PROVE  Finished(from, to) \in TerminalStatuses
BY DEF Finished, FinishRejected, FinishTarget, CanTransition

LEMMA EndsWrittenStep == Base /\ WatchInv /\ EndsWritten /\ Next => EndsWritten'
<1> SUFFICES ASSUME Base, WatchInv, EndsWritten, Next, faults' = 0, NEW q \in Runs
             PROVE  /\ pc'[q] = "finalizing" => FinalDecided(q)'
                    /\ pc'[q] \in {"closed", "ending", "ok"} => row'[q] \in TerminalStatuses
  BY DEF EndsWritten
<1>0. /\ pc \in [Runs -> RunnerPcs] /\ row \in [Runs -> RowStatuses] /\ faults \in Nat
      /\ row[q] # Absent <=> pc[q] # "none"
      /\ row[q] \in TerminalStatuses => row'[q] = row[q]
  BY RowsMoveOn DEF Base, Known, LifecycleInv, TypeOK, RunsInv, RowStarted
<1>1. /\ pc[q] = "finalizing" => FinalDecided(q)
      /\ pc[q] \in {"closed", "ending", "ok"} => row[q] \in TerminalStatuses
  BY FaultsStay DEF EndsWritten
<1>2. CASE Born(q)
  BY <1>0, <1>2, BornFrame DEF Goto, Base, Known, LifecycleInv
<1>3. CASE Settled(q)
  BY <1>0, <1>1, <1>3, DecisionKept DEF Settled
<1>4. CASE Exit \/ Crash
  BY <1>4 DEF Exit, Crash, Halt
<1>5. CASE RunnerStep(q)
  <2>0. ~Fault
    BY <1>0 DEF Fault
  <2>1. CASE FinalDecide(q)
    BY <2>1, DecisionMade
  <2>2. CASE FinalPersist(q)
    BY <1>0, <1>1, <2>2, DecisionWritten DEF FinalPersist, Goto
  <2>3. CASE RunnerClosePrepared(q)
    <3>1. /\ row' = [row EXCEPT ![q] = Finished(row[q], "stopped")]
          /\ pc' = [pc EXCEPT ![q] = IF FinishRejected(row[q], "stopped")
                                     THEN "err" ELSE "closed"]
      BY <2>0, <2>3 DEF RunnerClosePrepared, SetRow, Goto
    <3>2. row[q] \in Statuses
      BY <1>0, <2>3 DEF RowStatuses, RunnerClosePrepared
    <3> QED
      BY <1>0, <3>1, <3>2, FinishEnds
  <2>4. CASE RunnerReleasePrepared(q) \/ Release(q)
    BY <1>0, <1>1, <2>4 DEF RunnerReleasePrepared, Release, Goto
  <2>5. CASE /\ ~FinalDecide(q) /\ ~FinalPersist(q) /\ ~RunnerClosePrepared(q)
             /\ ~RunnerReleasePrepared(q) /\ ~Release(q)
    BY <1>0, <1>5, <2>5 DEF RunnerStep, Reserve, ReserveRejected, RunnerStart,
       RunnerQueryFails, RunnerQuery, RunnerGate, RunnerGraceStop, RunnerEnter,
       RunnerOpenFails, RunnerOpen, AfterResult, AfterError, RunnerExit, Goto
  <2> QED
    BY <2>1, <2>2, <2>3, <2>4, <2>5
<1> QED
  BY <1>2, <1>3, <1>4, <1>5, OnlyItself

\* Until the process has been restarted there is nothing to recover.
NoRecoveryYet ==
  starts = 0 => phase \in {"serving", "down"} /\ \A r \in Runs : job[r].kind # "recovery"

ExitWritten ==
  faults = 0 /\ starts = 0 => \A r \in Runs :
    /\ pc[r] = "exit" => row[r] \in TerminalStatuses
    /\ pc[r] = "done" /\ phase = "serving" => row[r] \in TerminalStatuses

EndsInv == EndsWritten /\ NoRecoveryYet /\ ExitWritten

LEMMA NoRecoveryYetStep == Base /\ NoRecoveryYet /\ Next => NoRecoveryYet'
<1> SUFFICES ASSUME Base, NoRecoveryYet, Next, starts' = 0
             PROVE  phase' \in {"serving", "down"} /\ \A q \in Runs : job'[q].kind # "recovery"
  BY DEF NoRecoveryYet
<1>0. TypeOK /\ starts \in Nat
  BY DEF Base, Known, LifecycleInv, TypeOK
<1>1. starts = 0 =>
        phase \in {"serving", "down"} /\ \A q \in Runs : job[q].kind # "recovery"
  BY DEF NoRecoveryYet
<1> USE DEF NoJob
<1>2. ASSUME NEW r \in Runs, NEW k \in Kinds \ {"recovery"}, NEW fs \in Requests,
             Persist(r, k, fs)
      PROVE  phase' \in {"serving", "down"} /\ \A q \in Runs : job'[q].kind # "recovery"
  BY <1>0, <1>1, <1>2 DEF Persist, procVars, TypeOK
<1>3. ASSUME NEW r \in Runs, NEW p \in todo, ResumeNext, ResumeChild(p, r) PROVE FALSE
  BY <1>1, <1>3 DEF ResumeNext
<1>4. ASSUME NEW r \in Runs, RunnerStep(r)
      PROVE  phase' \in {"serving", "down"} /\ \A q \in Runs : job'[q].kind # "recovery"
  BY <1>0, <1>1, <1>4, RunnerFrame
<1>5. CASE Outside
  BY <1>0, <1>1, <1>5, OutsideFrame DEF RunsFrame
<1>6. CASE Starting
  BY <1>0, <1>1, <1>6 DEF Starting, Start, RecoverRow, RecoverDone, Serve, ResumeNext
<1>7. CASE Exit \/ Crash
  BY <1>7 DEF Exit, Crash, Halt
<1> QED
  BY <1>0, <1>2, <1>3, <1>4, <1>5, <1>6, <1>7, NextCases DEF Born

\* Every caller but recovery ends the row of a run that did not come to a result.
LEMMA ErrorEnds ==
  ASSUME Base, NEW r \in Runs, AfterError(r), faults' = 0, job[r].kind # "recovery"
  PROVE  row'[r] \in TerminalStatuses
<1>0. row \in [Runs -> RowStatuses] /\ faults \in Nat /\ row[r] # Absent
  BY DEF Base, Known, LifecycleInv, TypeOK, RunsInv, RowStarted, AfterError
<1>1. ~Fault /\ row[r] \in Statuses
  BY <1>0 DEF Fault, RowStatuses
<1>2. ASSUME NEW s, FinishRow(r, s), s = "failed" \/ (s = "stopped" /\ row[r] = "stopping")
      PROVE  row'[r] \in TerminalStatuses
  BY <1>0, <1>1, <1>2, FinishEnds DEF FinishRow, SetRow
<1>3. AbortRow(r) => row'[r] \in TerminalStatuses
  BY <1>0, <1>1 DEF AbortRow, SetRow, Aborted
<1>4. ApiAfterError(r) => row'[r] \in TerminalStatuses
  BY <1>1, <1>2, <1>3 DEF ApiAfterError
<1> QED
  BY <1>2, <1>3, <1>4 DEF AfterError

LEMMA ExitWrittenStep ==
  Base /\ WatchInv /\ EndsInv /\ NoRecoveryYet' /\ Next => ExitWritten'
<1> SUFFICES ASSUME Base, WatchInv, EndsInv, NoRecoveryYet', Next, faults' = 0, starts' = 0,
                    NEW q \in Runs
             PROVE  /\ pc'[q] = "exit" => row'[q] \in TerminalStatuses
                    /\ pc'[q] = "done" /\ phase' = "serving" => row'[q] \in TerminalStatuses
  BY DEF ExitWritten
<1>0. /\ TypeOK /\ pc \in [Runs -> RunnerPcs] /\ row \in [Runs -> RowStatuses]
      /\ faults \in Nat /\ starts \in Nat
      /\ row[q] # Absent <=> pc[q] # "none"
      /\ row[q] \in TerminalStatuses => row'[q] = row[q]
  BY RowsMoveOn DEF Base, Known, LifecycleInv, TypeOK, RunsInv, RowStarted
<1>1. starts = 0
  BY <1>0, NextCases, BornFrame, RunnerFrame, OutsideFrame
     DEF RunsFrame, Starting, Start, RecoverRow, RecoverDone, Serve, ResumeNext, Exit, Crash, Halt
<1>2. /\ phase \in {"serving", "down"} /\ job[q].kind # "recovery"
      /\ pc[q] = "ok" => row[q] \in TerminalStatuses
      /\ pc[q] = "exit" => row[q] \in TerminalStatuses
      /\ pc[q] = "done" /\ phase = "serving" => row[q] \in TerminalStatuses
  BY <1>1, FaultsStay DEF EndsInv, NoRecoveryYet, ExitWritten, EndsWritten
<1>3. CASE Born(q)
  BY <1>0, <1>3, BornFrame DEF Goto
<1>4. CASE Settled(q)
  <2>1. phase' = "serving" => phase = "serving"
    BY <1>0, <1>2, NextCases, BornFrame, RunnerFrame, OutsideFrame
       DEF RunsFrame, Starting, Start, RecoverRow, RecoverDone, Serve, ResumeNext, Exit,
       Crash, Halt
  <2> QED
    BY <1>0, <1>2, <1>4, <2>1 DEF Settled
<1>5. CASE Exit \/ Crash
  BY <1>5 DEF Exit, Crash, Halt
<1>6. CASE RunnerStep(q)
  <2>0. ~Fault
    BY <1>0 DEF Fault
  <2>1. CASE AfterResult(q)
    BY <1>0, <1>2, <2>1 DEF AfterResult, Goto
  <2>2. CASE AfterError(q)
    BY <1>0, <1>2, <2>2, ErrorEnds DEF AfterError, Goto
  <2>3. CASE RunnerExit(q)
    BY <1>0, <1>2, <2>3 DEF RunnerExit, Goto
  <2>4. CASE ReserveRejected(q)
    <3>1. row' = [row EXCEPT ![q] = Finished(row[q], "failed")] /\ row[q] \in Statuses
      BY <1>0, <2>0, <2>4 DEF ReserveRejected, FinishRow, SetRow, RowStatuses
    <3> QED
      BY <1>0, <2>4, <3>1, FinishEnds DEF ReserveRejected, Goto
  <2>5. CASE ~AfterResult(q) /\ ~AfterError(q) /\ ~RunnerExit(q) /\ ~ReserveRejected(q)
    BY <1>0, <1>6, <2>5 DEF RunnerStep, Reserve, RunnerStart, RunnerQueryFails, RunnerQuery,
       RunnerGate, RunnerGraceStop, RunnerClosePrepared, RunnerReleasePrepared, RunnerEnter,
       RunnerOpenFails, RunnerOpen, FinalDecide, FinalPersist, Release, Goto
  <2> QED
    BY <2>1, <2>2, <2>3, <2>4, <2>5
<1> QED
  BY <1>3, <1>4, <1>5, <1>6, OnlyItself

LEMMA EndsStep == Base /\ WatchInv /\ EndsInv /\ [Next]_vars => EndsInv'
<1>1. CASE UNCHANGED vars
  BY <1>1 DEF vars, storeVars, runnerVars, procVars, EndsInv, EndsWritten, FinalDecided,
     NoRecoveryYet, ExitWritten
<1>2. CASE Next
  BY <1>2, EndsWrittenStep, NoRecoveryYetStep, ExitWrittenStep DEF EndsInv
<1> QED
  BY <1>1, <1>2

LEMMA EndsHolds == Spec => [](Base /\ WatchInv /\ EndsInv)
<1>1. Init => EndsInv
  BY DEF Init, EndsInv, EndsWritten, NoRecoveryYet, ExitWritten, NoJob
<1> QED
  BY <1>1, WatchHolds, EndsStep, PTL DEF Spec

\* Whatever refusal, early return, error or race a run meets, its row has its
\* end by the time its goroutine is gone.
THEOREM NoOrphanRowHolds == Spec => []NoOrphanRow
<1>1. Base /\ EndsInv => NoOrphanRow
  BY DEF NoOrphanRow, Base, Known, LifecycleInv, TypeOK, RunnerPcs, RunsInv, RowStarted,
     EndsInv, ExitWritten
<1> QED
  BY <1>1, EndsHolds, PTL

-----------------------------------------------------------------------------
\* The live view.

\* The steps in which another goroutine may give the run up: not those under
\* e.mu, and not those in which it is closed before its start.
Watchable == (BeforeRunSync \ {"closed"}) \cup (InRunSync \ {"finalizing"})

\* An end in the view is the row's, and an end of the row, unless a deadline
\* has just written it, is the view's.
ViewOf(r) ==
  /\ eng.status \in TerminalStatuses => row[r] = eng.status
  /\ row[r] \in TerminalStatuses => row[r] = Abnormal \/ eng.status = row[r]

ViewFollows ==
  faults = 0 => \A r \in Runs : eng.run = r /\ pc[r] \in Watchable => ViewOf(r)

\* What others can do to the row and the view of the run that holds the slot:
\* write its abnormal exit, tell it, or ask it to stop.
ViewMove(q) ==
  \/ /\ eng'.status = eng.status
     /\ \/ row'[q] = row[q]
        \/ row[q] \in ActiveStatuses /\ row'[q] = Abnormal
  \/ /\ eng'.status = Abnormal /\ eng.status \notin TerminalStatuses
     /\ row'[q] = row[q] /\ (faults = 0 => row[q] \in TerminalStatuses)
  \/ eng'.status = "stopping" /\ row'[q] = "stopping"

LEMMA AbortView ==
  ASSUME TypeOK, NEW r, AbortRow(r), UNCHANGED eng, NEW q \in Runs
  PROVE  ViewMove(q)
BY DEF AbortRow, SetRow, Aborted, ViewMove, TypeOK

LEMMA ToldView ==
  ASSUME TypeOK, NEW q \in Runs, eng.run = q, NEW r, eng' = ToldAbnormal(r), UNCHANGED row,
         r = q => (faults = 0 => row[q] \in TerminalStatuses)
  PROVE  ViewMove(q)
BY DEF ToldAbnormal, ViewMove, TypeOK, EngineState

LEMMA AskedView ==
  ASSUME TypeOK, NEW q \in Runs, eng.run = q, NEW r, NEW graceful \in BOOLEAN,
         Asked(r, graceful)
  PROVE  ViewMove(q)
BY DEF Asked, SetRow, ViewMove, TypeOK, EngineState

LEMMA CancelledView ==
  ASSUME TypeOK, NEW q \in Runs, NEW r, eng' = CancelledActive(r), UNCHANGED row
  PROVE  ViewMove(q)
BY DEF CancelledActive, ViewMove, TypeOK, EngineState

LEMMA OutsideView ==
  ASSUME Base, WatchInv, NEW q \in Runs, eng.run = q, Outside
  PROVE  ViewMove(q)
<1>0. TypeOK /\ eng \in EngineState
  BY DEF Base, Known, LifecycleInv, TypeOK
<1>w. ASSUME GivenUp(q) PROVE faults = 0 => row[q] \in TerminalStatuses
  BY <1>w DEF WatchInv, WatchEnds
<1>1. CASE UNCHANGED <<eng, row>>
  BY <1>1 DEF ViewMove
<1>2. ASSUME NEW r \in Runs, FormStep(r) \/ CtxExpire(r) PROVE UNCHANGED <<eng, row>>
  BY <1>2 DEF FormStep, FormStart, FormSkip, FormSave, FormSucceed, FormFail, CtxExpire,
     storeVars
<1>3. ASSUME NEW r \in Runs, ScheduleTimeout(r) PROVE ViewMove(q)
  BY <1>0, <1>3 DEF ScheduleTimeout, SetRow, Aborted, ViewMove, TypeOK
<1>4. ASSUME NEW r \in Runs, RequestStop(r) PROVE ViewMove(q)
  BY <1>0, <1>4, AskedView DEF RequestStop
<1>5. ASSUME NEW r \in Runs, WatchStep(r) PROVE ViewMove(q)
  BY <1>0, <1>w, <1>1, <1>5, AbortView, ToldView, CancelledView DEF WatchStep, StopCancel,
     StopWatchFire, StopWatchTell, StopWatchCancel, TaskWatchFire, TaskWatchTell,
     TaskWatchClear, storeVars, GivenUp
<1>6. CASE DrainStep
  BY <1>0, <1>w, <1>1, <1>6, AskedView, AbortView, ToldView, CancelledView DEF DrainStep,
     DrainAsk, DrainLook, DrainDone, DrainTimeout, DrainTell, DrainCancel, storeVars, GivenUp
<1>7. CASE Shutdown
  BY <1>0, <1>7 DEF Shutdown, storeVars, EngineState, ViewMove
<1> QED
  BY <1>2, <1>1, <1>3, <1>4, <1>5, <1>6, <1>7 DEF Outside

\* A goroutine that does not hold the slot cannot touch the run that does.
LEMMA OthersView ==
  ASSUME Base, NEW q \in Runs, eng.run = q, NEW r \in Runs \ {q}, RunnerStep(r), eng'.run = q
  PROVE  eng'.status = eng.status /\ row'[q] = row[q]
<1>0. /\ eng \in EngineState /\ row \in [Runs -> RowStatuses]
      /\ pc[r] \notin BeforeRunSync \cup InRunSync
  BY DEF Base, Known, LifecycleInv, TypeOK, SlotInv, SlotOwned
<1>1. CASE ReserveRejected(r)
  BY <1>0, <1>1 DEF ReserveRejected, FinishRow, SetRow
<1>2. CASE AfterResult(r) \/ RunnerExit(r)
  BY <1>0, <1>2 DEF AfterResult, RunnerExit, SetRow, storeVars
<1>3. CASE AfterError(r)
  BY <1>0, <1>3 DEF AfterError, ApiAfterError, FinishRow, AbortRow, SetRow, ToldAbnormal
<1>4. CASE Reserve(r)
  BY <1>0, <1>4 DEF Reserve, Begun, EngineIdle
<1> QED
  BY <1>0, <1>1, <1>2, <1>3, <1>4 DEF RunnerStep, RunnerStart, RunnerQueryFails, RunnerQuery,
     RunnerGate, RunnerGraceStop, RunnerClosePrepared, RunnerReleasePrepared, RunnerEnter,
     RunnerOpenFails, RunnerOpen, FinalDecide, FinalPersist, Release, BeforeRunSync, InRunSync

\* The run's own goroutine agrees with its row whenever it reserves the slot,
\* persists its decision or accepts its own stop.
LEMMA OwnView ==
  ASSUME Base, NEW q \in Runs, RunnerStep(q), faults \in Nat, faults' = 0,
         pc'[q] \in Watchable,
         pc[q] \in Watchable /\ eng.run = q => ViewOf(q)
  PROVE  ViewOf(q)'
<1>0. /\ TypeOK /\ eng \in EngineState /\ row \in [Runs -> RowStatuses]
      /\ pc \in [Runs -> RunnerPcs]
      /\ pc[q] \in BeforeRunSync \cup InRunSync => eng.run = q
  BY DEF Base, Known, LifecycleInv, TypeOK, SlotInv, SlotOwned
<1>1. ~Fault
  BY DEF Fault
<1> USE DEF Watchable, BeforeRunSync, InRunSync
<1>2. CASE Reserve(q)
  BY <1>0, <1>2 DEF Reserve, Begun, EngineIdle, ViewOf, storeVars
<1>3. CASE RunnerGraceStop(q)
  BY <1>0, <1>1, <1>3 DEF RunnerGraceStop, Asked, SetRow, EngineState, ViewOf
<1>4. CASE FinalPersist(q)
  <2> DEFINE now == IF seen[q] = Abnormal THEN row[q] ELSE Finished(row[q], seen[q])
  <2>1. SetRow(q, now) /\ Decide(q, now)
    BY <1>1, <1>4 DEF FinalPersist
  <2>2. row'[q] = now /\ eng'.status = now
    BY <1>0, <2>1 DEF SetRow, Decide, EngineState
  <2> QED
    BY <2>2 DEF ViewOf
<1>5. CASE FinalDecide(q)
  BY <1>0, <1>1, <1>5 DEF FinalDecide, Goto
<1>6. CASE RunnerStart(q) \/ RunnerQueryFails(q) \/ RunnerQuery(q) \/ RunnerGate(q)
           \/ RunnerOpen(q)
  BY <1>0, <1>6 DEF RunnerStart, RunnerQueryFails, RunnerQuery, RunnerGate, RunnerOpen,
     ViewOf, storeVars
<1>7. CASE RunnerEnter(q)
  BY <1>0, <1>7 DEF RunnerEnter, EngineState, ViewOf, storeVars
<1>8. CASE RunnerClosePrepared(q) \/ RunnerReleasePrepared(q) \/ RunnerOpenFails(q)
           \/ Release(q) \/ ReserveRejected(q) \/ AfterResult(q) \/ AfterError(q)
           \/ RunnerExit(q)
  BY <1>0, <1>8 DEF RunnerClosePrepared, RunnerReleasePrepared, RunnerOpenFails, Release,
     ReserveRejected, AfterResult, AfterError, RunnerExit, Goto
<1> QED
  BY <1>2, <1>3, <1>4, <1>5, <1>6, <1>7, <1>8 DEF RunnerStep

LEMMA ViewStep == Base /\ WatchInv /\ ViewFollows /\ [Next]_vars => ViewFollows'
<1>1. CASE UNCHANGED vars
  BY <1>1 DEF vars, storeVars, runnerVars, ViewFollows, ViewOf
<1>2. ASSUME Base, WatchInv, ViewFollows, Next PROVE ViewFollows'
  <2> SUFFICES ASSUME faults' = 0, NEW q \in Runs, eng'.run = q, pc'[q] \in Watchable
               PROVE  ViewOf(q)'
    BY DEF ViewFollows
  <2>0. /\ TypeOK /\ pc \in [Runs -> RunnerPcs] /\ faults \in Nat /\ faults = 0
        /\ pc[q] \in Watchable /\ eng.run = q => ViewOf(q)
    BY <1>2, FaultsStay DEF Base, Known, LifecycleInv, TypeOK, ViewFollows
  <2>1. CASE RunnerStep(q)
    BY <1>2, <2>0, <2>1, OwnView
  <2>2. CASE Born(q)
    BY <2>0, <2>2, BornFrame DEF Goto, Watchable, BeforeRunSync, InRunSync
  <2>3. ASSUME NEW r \in Runs \ {q}, Born(r) PROVE ViewOf(q)'
    BY <2>0, <2>3, BornFrame DEF Goto, ViewOf
  <2>4. ASSUME NEW r \in Runs \ {q}, RunnerStep(r) PROVE ViewOf(q)'
    <3>1. eng.run = q
      BY <2>0, <2>4, RunnerSlot DEF SameSlot
    <3>2. pc[q] \in Watchable
      BY <2>0, <2>4, RunnerMoves DEF Moves, Goto
    <3> QED
      BY <1>2, <2>0, <2>4, <3>1, <3>2, OthersView DEF ViewOf
  <2>5. CASE Outside
    <3>1. eng.run = q /\ pc[q] \in Watchable
      BY <2>0, <2>5, OutsideFrame DEF RunsFrame, SameSlot
    <3>2. ViewMove(q)
      BY <1>2, <2>5, <3>1, OutsideView
    <3> QED
      BY <2>0, <3>1, <3>2 DEF ViewMove, ViewOf
  <2>6. CASE Starting
    <3>1. phase # "recover"
      BY <1>2, <2>6, StartingFrame DEF Base, RunsInv, CutOff, runnerVars, Watchable, LivePcs
    <3>2. UNCHANGED row
      BY <2>6, <3>1 DEF Starting, Start, RecoverRow, RecoverDone, Serve, storeVars
    <3> QED
      BY <2>0, <2>6, <3>2, StartingFrame DEF ViewOf, runnerVars
  <2>7. CASE Exit \/ Crash
    BY <2>7, NoRunIsNone DEF Exit, Crash, Halt, EngineIdle
  <2> QED
    BY <1>2, <2>0, <2>1, <2>2, <2>3, <2>4, <2>5, <2>6, <2>7, NextCases
<1> QED
  BY <1>1, <1>2

\* Whoever wins the race for the row, the watchdogs, the timers or the
\* finalisation, the view of the executing run never shows another end.
THEOREM LiveViewAgreesHolds == Spec => []LiveViewAgrees
<1>1. Init => ViewFollows
  BY NoRunIsNone DEF Init, ViewFollows, EngineIdle
<1>2. Base /\ ViewFollows => LiveViewAgrees
  BY DEF LiveViewAgrees, Base, RunsInv, ExecutingInside, ViewFollows, ViewOf, Watchable, MuFree
<1> QED
  BY <1>1, <1>2, WatchHolds, ViewStep, PTL DEF Spec

-----------------------------------------------------------------------------
\* What the forms achieved.

\* While a run holds the slot, the goroutines of the others leave it and the
\* forms alone.
LEMMA OthersKeep ==
  ASSUME Base, NEW q \in Runs, pc[q] \in BeforeRunSync \cup InRunSync,
         NEW r \in Runs \ {q}, RunnerStep(r)
  PROVE  eng' \in {eng, ToldAbnormal(r)} /\ UNCHANGED <<form, stopWatch>>
<1>0. eng.active /\ pc[r] \notin BeforeRunSync \cup InRunSync
  BY DEF Base, Known, SlotInv, SlotOwned
<1>1. CASE ReserveRejected(r) \/ AfterResult(r) \/ RunnerExit(r)
  BY <1>1 DEF ReserveRejected, AfterResult, RunnerExit, watchVars
<1>2. CASE AfterError(r)
  BY <1>2 DEF AfterError, ApiAfterError, watchVars
<1>3. CASE Reserve(r)
  BY <1>0, <1>3 DEF Reserve
<1> QED
  BY <1>0, <1>1, <1>2, <1>3 DEF RunnerStep, RunnerStart, RunnerQueryFails, RunnerQuery,
     RunnerGate, RunnerGraceStop, RunnerClosePrepared, RunnerReleasePrepared, RunnerEnter,
     RunnerOpenFails, RunnerOpen, FinalDecide, FinalPersist, Release, BeforeRunSync, InRunSync

\* Its context only ever comes to an end.
LEMMA ContextEnds ==
  ASSUME Base, NEW q \in Runs, Outside, CtxErr(q)
  PROVE  CtxErr(q)'
<1>0. TypeOK /\ eng \in EngineState /\ ctx \in [Runs -> {"live", "canceled", "expired"}]
  BY DEF Base, Known, LifecycleInv, TypeOK
<1> USE <1>0 DEF CtxErr
<1>1. ASSUME eng'.run = eng.run, eng.cancelled => eng'.cancelled, UNCHANGED ctx
      PROVE  CtxErr(q)'
  BY <1>1
<1>2. ASSUME NEW r, NEW graceful \in BOOLEAN, Asked(r, graceful), UNCHANGED ctx
      PROVE  CtxErr(q)'
  BY <1>2 DEF Asked, EngineState
<1>3. ASSUME NEW r, eng' = ToldAbnormal(r) \/ eng' = CancelledActive(r), UNCHANGED ctx
      PROVE  CtxErr(q)'
  BY <1>3 DEF ToldAbnormal, CancelledActive, EngineState
<1>4. ASSUME NEW r \in Runs, FormStep(r) \/ CtxExpire(r) \/ ScheduleTimeout(r) PROVE CtxErr(q)'
  BY <1>4 DEF FormStep, FormStart, FormSkip, FormSave, FormSucceed, FormFail, CtxExpire,
     ScheduleTimeout, runnerVars
<1>5. ASSUME NEW r \in Runs, RequestStop(r) PROVE CtxErr(q)'
  BY <1>2, <1>5 DEF RequestStop, runnerVars
<1>6. ASSUME NEW r \in Runs, StopCancel(r) PROVE CtxErr(q)'
  BY <1>6 DEF StopCancel
<1>7. ASSUME NEW r \in Runs, WatchStep(r), ~StopCancel(r) PROVE CtxErr(q)'
  BY <1>1, <1>3, <1>7 DEF WatchStep, StopWatchFire, StopWatchTell, StopWatchCancel,
     TaskWatchFire, TaskWatchTell, TaskWatchClear, runnerVars
<1>8. CASE Shutdown
  BY <1>8 DEF Shutdown, runnerVars, EngineState
<1>9. CASE DrainStep
  BY <1>1, <1>2, <1>3, <1>9 DEF DrainStep, DrainAsk, DrainLook, DrainDone, DrainTimeout,
     DrainTell, DrainCancel, runnerVars
<1> QED
  BY <1>4, <1>5, <1>6, <1>7, <1>8, <1>9 DEF Outside

LEMMA FormMoves ==
  ASSUME Base, Next, NEW q \in Runs, Settled(q), pc[q] \in {"forms", "finalizing"}
  PROVE  /\ UNCHANGED form \/ (pc[q] = "forms" /\ FormStep(q))
         /\ CtxErr(q) => CtxErr(q)'
<1>0. /\ TypeOK /\ pc \in [Runs -> RunnerPcs] /\ eng \in EngineState
      /\ \A r \in Runs : pc[r] \in BeforeRunSync \cup InRunSync => eng.run = r
      /\ pc[q] \in InRunSync
  BY DEF Base, Known, LifecycleInv, TypeOK, SlotInv, SlotOwned, InRunSync
<1>1. ASSUME NEW r \in Runs, Born(r)
      PROVE  UNCHANGED <<form, eng, ctx>>
  BY <1>0, <1>1, BornFrame
<1>2. ASSUME NEW r \in Runs, RunnerStep(r)
      PROVE  UNCHANGED form /\ (CtxErr(q) => CtxErr(q)')
  <2>1. r # q
    BY <1>0, <1>2, RunnerMoves DEF Moves, ControlFlow, Goto, Settled
  <2>2. UNCHANGED form /\ eng' \in {eng, ToldAbnormal(r)}
    BY <1>0, <1>2, <2>1, OthersKeep
  <2>3. ctx'[q] = ctx[q] /\ eng'.run = eng.run /\ eng'.cancelled = eng.cancelled
    BY <1>0, <1>2, <2>1, <2>2, RunnerFrame DEF ToldAbnormal, EngineState
  <2> QED
    BY <2>2, <2>3 DEF CtxErr
<1>3. CASE Outside
  <2>1. ASSUME NEW r \in Runs, FormStep(r) PROVE r = q /\ pc[q] = "forms"
    BY <1>0, <2>1 DEF FormStep, FormStart, FormSkip, FormSave, FormSucceed, FormFail, InRunSync
  <2>2. ASSUME NEW r \in Runs, WatchStep(r) \/ RequestStop(r) \/ CtxExpire(r)
                               \/ ScheduleTimeout(r)
        PROVE  UNCHANGED form
    BY <2>2 DEF WatchStep, StopCancel, StopWatchFire, StopWatchTell, StopWatchCancel,
       TaskWatchFire, TaskWatchTell, TaskWatchClear, RequestStop, CtxExpire, ScheduleTimeout
  <2>3. Shutdown \/ DrainStep => UNCHANGED form
    BY DEF Shutdown, DrainStep, DrainAsk, DrainLook, DrainDone, DrainTimeout, DrainTell,
       DrainCancel
  <2> QED
    BY <1>3, <2>1, <2>2, <2>3, ContextEnds DEF Outside
<1>4. CASE Starting
  BY <1>4, StartingFrame DEF runnerVars, CtxErr
<1>5. CASE Exit \/ Crash
  BY <1>0, <1>5 DEF Exit, Crash, Halt, Settled
<1> QED
  BY <1>0, <1>1, <1>2, <1>3, <1>4, <1>5, NextCases DEF CtxErr

\* Every form that was asked for is on its way, or was skipped because the
\* context had ended.
FormsHave ==
  \A r \in Runs : pc[r] = "forms" =>
    \A f \in job[r].forms : form[f] # "absent" /\ (form[f] = "skipped" => CtxErr(r))

\* A success that waits to be written was earned.
Achieved ==
  faults = 0 => \A r \in Runs :
    pc[r] = "finalizing" /\ row[r] = "running" /\ seen[r] = "success" =>
      \A f \in job[r].forms : form[f] = "success"

FormsInv == FormsHave /\ Achieved

LEMMA FormsHaveStep == Base /\ FormsHave /\ Next => FormsHave'
<1> SUFFICES ASSUME Base, FormsHave, Next, NEW q \in Runs, pc'[q] = "forms",
                    NEW f \in job'[q].forms
             PROVE  form'[f] # "absent" /\ (form'[f] = "skipped" => CtxErr(q)')
  BY DEF FormsHave
<1>0. /\ TypeOK /\ pc \in [Runs -> RunnerPcs] /\ form \in [Forms -> FormStates]
      /\ job[q].forms \subseteq Forms
      /\ pc[q] = "forms" => \A g \in job[q].forms :
                              form[g] # "absent" /\ (form[g] = "skipped" => CtxErr(q))
  BY DEF Base, Known, LifecycleInv, TypeOK, FormsHave
<1>1. CASE Born(q)
  BY <1>0, <1>1, BornFrame DEF Goto
<1>2. CASE Exit \/ Crash
  BY <1>2 DEF Exit, Crash, Halt
<1>3. CASE RunnerStep(q)
  <2>1. RunnerOpen(q)
    BY <1>0, <1>3 DEF RunnerStep, Reserve, ReserveRejected, RunnerStart, RunnerQueryFails,
       RunnerQuery, RunnerGate, RunnerGraceStop, RunnerClosePrepared, RunnerReleasePrepared,
       RunnerEnter, RunnerOpenFails, FinalDecide, FinalPersist, Release, AfterResult,
       AfterError, RunnerExit, Goto
  <2> QED
    BY <1>0, <2>1 DEF RunnerOpen
<1>4. CASE Settled(q)
  <2>1. UNCHANGED form \/ FormStep(q)
    BY <1>4, FormMoves DEF Settled
  <2>2. CtxErr(q) => CtxErr(q)'
    BY <1>4, FormMoves DEF Settled
  <2>3. CASE UNCHANGED form
    BY <1>0, <1>4, <2>2, <2>3 DEF Settled
  <2>4. CASE FormStep(q)
    <3>1. PICK g \in Forms : FormStart(q, g) \/ FormSkip(q, g) \/ FormSave(q, g)
                             \/ FormSucceed(q, g) \/ FormFail(q, g)
      BY <2>4 DEF FormStep
    <3>2. form'[f] = form[f] \/ form'[f] \in {"running", "stopped", "success", "failed"}
          \/ (form'[f] = "skipped" /\ CtxErr(q))
      BY <1>0, <1>4, <3>1 DEF FormStart, FormSkip, FormSave, FormSucceed, FormFail, SetForm,
         Settled
    <3> QED
      BY <1>0, <1>4, <2>2, <3>2 DEF Settled
  <2> QED
    BY <2>1, <2>3, <2>4
<1> QED
  BY <1>1, <1>2, <1>3, <1>4, OnlyItself

\* The decision looks at the context before it counts the forms.
LEMMA SuccessDecided ==
  ASSUME Base, FormsHave, NEW r \in Runs, FinalDecide(r), faults' = 0,
         row'[r] = "running", seen'[r] = "success", NEW f \in job[r].forms
  PROVE  form'[f] = "success"
<1>0. /\ row \in [Runs -> RowStatuses] /\ seen \in [Runs -> RowStatuses]
      /\ form \in [Forms -> FormStates] /\ f \in Forms /\ faults \in Nat
  BY DEF Base, Known, LifecycleInv, TypeOK
<1>1. ~Fault
  BY <1>0 DEF Fault
<1>2. ~(CtxErr(r) /\ ~eng.stopRequested)
  BY <1>0, <1>1 DEF FinalDecide, Decide
<1>3. ~CtxErr(r) /\ ResultStatus = "success"
  BY <1>0, <1>1, <1>2 DEF FinalDecide, Decide, SetRow
<1>4. form[f] \notin {"failed", "stopped", "waiting", "running"}
  BY <1>0, <1>3 DEF ResultStatus, FinalDecide, Unsettled
<1>5. form[f] \notin {"absent", "skipped"}
  BY <1>3 DEF FormsHave, FinalDecide
<1> QED
  BY <1>0, <1>4, <1>5 DEF FormStates, FinalDecide

LEMMA AchievedStep == Base /\ WatchInv /\ FormsInv /\ Next => Achieved'
<1> SUFFICES ASSUME Base, WatchInv, FormsInv, Next, faults' = 0, NEW q \in Runs,
                    pc'[q] = "finalizing", row'[q] = "running", seen'[q] = "success",
                    NEW f \in job'[q].forms
             PROVE  form'[f] = "success"
  BY DEF Achieved
<1>0. TypeOK /\ pc \in [Runs -> RunnerPcs]
  BY DEF Base, Known, LifecycleInv, TypeOK
<1>1. CASE Born(q)
  BY <1>0, <1>1, BornFrame DEF Goto
<1>2. CASE Exit \/ Crash
  BY <1>2 DEF Exit, Crash, Halt
<1>3. CASE RunnerStep(q)
  <2>1. FinalDecide(q)
    BY <1>0, <1>3 DEF RunnerStep, Reserve, ReserveRejected, RunnerStart, RunnerQueryFails,
       RunnerQuery, RunnerGate, RunnerGraceStop, RunnerClosePrepared, RunnerReleasePrepared,
       RunnerEnter, RunnerOpenFails, RunnerOpen, FinalPersist, Release, AfterResult,
       AfterError, RunnerExit, Goto
  <2>2. job' = job
    BY <2>1 DEF FinalDecide
  <2> QED
    BY <2>1, <2>2, SuccessDecided DEF FormsInv
<1>4. CASE Settled(q)
  <2>1. UNCHANGED form
    BY <1>4, FormMoves DEF Settled
  <2>2. row[q] = "running"
    BY <1>4, RowsMoveOn DEF BeenStopped, Settled, Base, RunsInv, RowStarted
  <2> QED
    BY <1>4, <2>1, <2>2, FaultsStay DEF Settled, FormsInv, Achieved
<1> QED
  BY <1>1, <1>2, <1>3, <1>4, OnlyItself

LEMMA FormsInvStep == Base /\ WatchInv /\ FormsInv /\ [Next]_vars => FormsInv'
<1>1. CASE UNCHANGED vars
  BY <1>1 DEF vars, storeVars, runnerVars, FormsInv, FormsHave, Achieved, CtxErr
<1>2. CASE Next
  BY <1>2, FormsHaveStep, AchievedStep DEF FormsInv
<1> QED
  BY <1>1, <1>2

\* Only the write of a success that was decided, or the retry handler's second
\* write, can make a row a success.
LEMMA SuccessStep ==
  ASSUME Base, WatchInv, EndsInv, FormsInv, [Next]_vars, NEW r \in Runs, faults = 0,
         row[r] # "success", row'[r] = "success", NEW f \in job[r].forms
  PROVE  form[f] = "success"
<1>0. row \in [Runs -> RowStatuses] /\ TypeOK
  BY DEF Base, Known, LifecycleInv, TypeOK
<1>1. Next /\ ~Born(r)
  BY <1>0, BornFrame DEF vars, storeVars
<1>2. RunnerStep(r) /\ row[r] \in ActiveStatuses
  BY <1>0, <1>1, RowMoves DEF RowMove
<1>3. CASE FinalPersist(r)
  <2>1. row'[r] \in {row[r], Finished(row[r], seen[r])}
    BY <1>0, <1>3 DEF FinalPersist, SetRow
  <2>2. row[r] = "running" /\ seen[r] = "success"
    BY <1>2, <2>1 DEF Finished, FinishRejected, FinishTarget
  <2> QED
    BY <1>3, <2>2 DEF FormsInv, Achieved, FinalPersist
<1>4. CASE AfterResult(r)
  BY <1>2, <1>4 DEF AfterResult, EndsInv, EndsWritten
<1>5. ASSUME NEW s \in {"failed", "stopped"} PROVE Finished(row[r], s) # "success"
  BY <1>5 DEF Finished, FinishTarget
<1>6. CASE ReserveRejected(r) \/ RunnerClosePrepared(r)
  BY <1>0, <1>5, <1>6 DEF ReserveRejected, RunnerClosePrepared, FinishRow, SetRow
<1>7. CASE RunnerGraceStop(r)
  BY <1>0, <1>7 DEF RunnerGraceStop, Asked, SetRow
<1>8. CASE FinalDecide(r)
  BY <1>0, <1>8 DEF FinalDecide, SetRow, Aborted
<1>9. CASE AfterError(r)
  BY <1>0, <1>5, <1>9 DEF AfterError, ApiAfterError, FinishRow, AbortRow, SetRow, Aborted
<1> QED
  BY <1>2, <1>3, <1>4, <1>6, <1>7, <1>8, <1>9 DEF RunnerStep, Reserve, RunnerStart,
     RunnerQueryFails, RunnerQuery, RunnerGate, RunnerReleasePrepared, RunnerEnter,
     RunnerOpenFails, RunnerOpen, Release, RunnerExit, storeVars

\* A run whose forms were cut off by an ending context is never recorded as a
\* success, for all that the others achieved.
THEOREM SuccessMeansAllFormsHolds == Spec => SuccessMeansAllForms
<1>1. Init => FormsInv
  BY DEF Init, FormsInv, FormsHave, Achieved
<1>2. Base /\ WatchInv /\ EndsInv /\ FormsInv /\ [Next]_vars =>
        [\A r \in Runs : faults = 0 /\ row[r] # "success" /\ row'[r] = "success" =>
           \A f \in job[r].forms : form[f] = "success"]_vars
  BY SuccessStep
<1> QED
  BY <1>1, <1>2, EndsHolds, FormsInvStep, PTL DEF Spec, SuccessMeansAllForms

-----------------------------------------------------------------------------
\* The slot and the goroutine it was reserved for: contexts, deadlines, stops.

NotBegun == {"none", "created"}

\* A context only ends once, by a stop of the API's task or by its deadline.
CtxMove(q) ==
  \/ ctx'[q] = ctx[q]
  \/ ctx[q] = "live" /\ ctx'[q] = "canceled"
  \/ /\ ctx[q] = "live" /\ ctx'[q] = "expired"
     /\ pc[q] \in {"forms", "finalizing", "ending", "err"}

LEMMA CtxMoves ==
  ASSUME Base, Next, NEW q \in Runs
  PROVE  CtxMove(q) \/ RunnerExit(q) \/ Exit \/ Crash
<1>0. TypeOK /\ ctx \in [Runs -> {"live", "canceled", "expired"}]
  BY DEF Base, Known, LifecycleInv, TypeOK
<1> USE DEF CtxMove
<1>1. ASSUME NEW r \in Runs, Born(r) PROVE CtxMove(q)
  BY <1>0, <1>1, BornFrame
<1>2. ASSUME NEW r \in Runs \ {q}, RunnerStep(r) PROVE CtxMove(q)
  BY <1>0, <1>2, RunnerFrame
<1>3. ASSUME RunnerStep(q), ~RunnerExit(q) PROVE UNCHANGED ctx
  BY <1>3 DEF RunnerStep, Reserve, ReserveRejected, RunnerStart, RunnerQueryFails,
     RunnerQuery, RunnerGate, RunnerGraceStop, RunnerClosePrepared, RunnerReleasePrepared,
     RunnerEnter, RunnerOpenFails, RunnerOpen, FinalDecide, FinalPersist, Release,
     AfterResult, AfterError
<1>4. ASSUME NEW r \in Runs, CtxExpire(r) \/ StopCancel(r) PROVE CtxMove(q)
  BY <1>0, <1>4 DEF CtxExpire, StopCancel
<1>5. ASSUME NEW r \in Runs, FormStep(r) \/ ScheduleTimeout(r) \/ RequestStop(r)
      PROVE  UNCHANGED ctx
  BY <1>5 DEF FormStep, FormStart, FormSkip, FormSave, FormSucceed, FormFail, ScheduleTimeout,
     RequestStop, runnerVars
<1>6. ASSUME NEW r \in Runs, WatchStep(r), ~StopCancel(r) PROVE UNCHANGED ctx
  BY <1>6 DEF WatchStep, StopWatchFire, StopWatchTell, StopWatchCancel, TaskWatchFire,
     TaskWatchTell, TaskWatchClear, runnerVars
<1>7. CASE Shutdown \/ DrainStep
  BY <1>7 DEF Shutdown, DrainStep, DrainAsk, DrainLook, DrainDone, DrainTimeout, DrainTell,
     DrainCancel, runnerVars
<1>8. CASE Starting
  BY <1>8, StartingFrame DEF runnerVars
<1> QED
  BY <1>0, <1>1, <1>2, <1>3, <1>4, <1>5, <1>6, <1>7, <1>8, NextCases DEF Outside

\* The caller's deadline is later than anything before the forms.
ExpiresInside ==
  \A r \in Runs : ctx[r] = "expired" =>
    pc[r] \in (InRunSync \ {"open", "openBg"}) \cup AfterRunSync

LEMMA ExpiresInsideStep == Base /\ ExpiresInside /\ Next => ExpiresInside'
<1> SUFFICES ASSUME Base, ExpiresInside, Next, NEW q \in Runs, ctx'[q] = "expired"
             PROVE  pc'[q] \in (InRunSync \ {"open", "openBg"}) \cup AfterRunSync
  BY DEF ExpiresInside
<1>0. /\ TypeOK /\ pc \in [Runs -> RunnerPcs] /\ ctx \in [Runs -> {"live", "canceled", "expired"}]
      /\ ctx[q] = "expired" => pc[q] \in (InRunSync \ {"open", "openBg"}) \cup AfterRunSync
  BY DEF Base, Known, LifecycleInv, TypeOK, ExpiresInside
<1>1. ~Exit /\ ~Crash /\ ~RunnerExit(q)
  BY <1>0 DEF Exit, Crash, Halt, RunnerExit
<1>2. pc[q] \in (InRunSync \ {"open", "openBg"}) \cup AfterRunSync
  BY <1>0, <1>1, CtxMoves DEF CtxMove, InRunSync, AfterRunSync
<1>3. CASE Born(q)
  <2>1. pc[q] = "none"
    BY <1>0, <1>3, BornFrame DEF Base, RunsInv, RowStarted
  <2> QED
    BY <1>2, <2>1 DEF InRunSync, AfterRunSync
<1>4. CASE RunnerStep(q)
  <2>1. pc[q] # "exit"
    BY <1>1, <1>4 DEF RunnerStep, Reserve, ReserveRejected, RunnerStart, RunnerQueryFails,
       RunnerQuery, RunnerGate, RunnerGraceStop, RunnerClosePrepared, RunnerReleasePrepared,
       RunnerEnter, RunnerOpenFails, RunnerOpen, FinalDecide, FinalPersist, Release,
       AfterResult, AfterError
  <2> QED
    BY <1>0, <1>2, <1>4, <2>1, RunnerMoves DEF Moves, ControlFlow, Goto, InRunSync, AfterRunSync
<1> QED
  BY <1>1, <1>2, <1>3, <1>4, OnlyItself DEF Settled

\* No deadline runs for a run before it is inside runSync, except the API's for
\* a task that was cancelled.
NotWatchedBefore ==
  \A r \in Runs : pc[r] \in NotBegun \cup BeforeRunSync => stopWatch[r] = "off"

TaskReserved ==
  \A r \in Runs : activeTask = r \/ taskWatch[r] # "off" => pc[r] \notin NotBegun

TaskCancelled ==
  \A r \in Runs : taskWatch[r] # "off" /\ pc[r] \in BeforeRunSync => ctx[r] = "canceled"

\* From the shutdown on nobody takes the slot, and the drain watches the run
\* that has it.
DrainsSlot ==
  /\ drain.pc # "idle" => eng.shutdown
  /\ drain.pc \in Draining => eng.run = drain.run
  /\ drain.pc \in Draining \ {"look"} => pc[drain.run] \notin NotBegun \cup BeforeRunSync

\* A run only begins, is only before runSync, by a step of its own.
LEMMA NotYet ==
  ASSUME Base, Next, NEW q \in Runs
  PROVE  /\ pc'[q] \in NotBegun => pc[q] \in NotBegun
         /\ pc'[q] \in NotBegun \cup BeforeRunSync => pc[q] \in NotBegun \cup BeforeRunSync
         /\ pc'[q] \in BeforeRunSync =>
              \/ Settled(q) /\ pc[q] \in BeforeRunSync
              \/ RunnerStep(q) /\ pc[q] \in BeforeRunSync
              \/ Reserve(q)
<1>0. TypeOK /\ pc \in [Runs -> RunnerPcs]
  BY DEF Base, Known, LifecycleInv, TypeOK
<1> USE DEF NotBegun, BeforeRunSync
<1>1. CASE Born(q)
  <2>1. pc[q] = "none"
    BY <1>0, <1>1, BornFrame DEF Base, RunsInv, RowStarted
  <2> QED
    BY <1>0, <1>1, <2>1, BornFrame DEF Goto
<1>2. CASE Exit \/ Crash
  BY <1>2 DEF Exit, Crash, Halt
<1>3. CASE Settled(q)
  BY <1>3 DEF Settled
<1>4. CASE RunnerStep(q)
  <2>1. /\ pc'[q] \notin NotBegun
        /\ pc'[q] \in BeforeRunSync => pc[q] \in {"created"} \cup BeforeRunSync
    BY <1>0, <1>4, RunnerMoves DEF Moves, ControlFlow, Goto
  <2>2. pc[q] = "created" => Reserve(q) \/ ReserveRejected(q)
    BY <1>4 DEF RunnerStep, RunnerStart, RunnerQueryFails, RunnerQuery, RunnerGate,
       RunnerGraceStop, RunnerClosePrepared, RunnerReleasePrepared, RunnerEnter,
       RunnerOpenFails, RunnerOpen, FinalDecide, FinalPersist, Release, AfterResult,
       AfterError, RunnerExit
  <2>3. ReserveRejected(q) => pc'[q] = "done"
    BY <1>0 DEF ReserveRejected, Goto
  <2> QED
    BY <1>4, <2>1, <2>2, <2>3
<1> QED
  BY <1>1, <1>2, <1>3, <1>4, OnlyItself

LEMMA ArmedInside ==
  ASSUME Base, Next, NEW q \in Runs, stopWatch[q] = "off", stopWatch'[q] # "off"
  PROVE  pc'[q] \in InRunSync
<1>0. /\ TypeOK /\ pc \in [Runs -> RunnerPcs] /\ stopWatch \in [Runs -> WatchStates]
      /\ eng.executing => eng.run \in Runs /\ pc[eng.run] \in InRunSync
  BY DEF Base, Known, LifecycleInv, TypeOK, RunsInv, ExecutingInside
<1>1. ASSUME NEW r, NEW graceful \in BOOLEAN, Asked(r, graceful)
      PROVE  r = q /\ pc[q] \in InRunSync
  BY <1>0, <1>1 DEF Asked
<1>2. ASSUME NEW r \in Runs, RunnerStep(r) PROVE pc'[q] \in InRunSync
  <2>1. CASE RunnerEnter(r)
    BY <1>0, <2>1 DEF RunnerEnter, Goto, InRunSync
  <2>2. CASE RunnerGraceStop(r)
    BY <1>0, <1>1, <2>2 DEF RunnerGraceStop, InRunSync
  <2>3. CASE RunnerOpenFails(r) \/ Release(r)
    BY <1>0, <2>3 DEF RunnerOpenFails, Release, WatchReleased
  <2> QED
    BY <1>2, <2>1, <2>2, <2>3 DEF RunnerStep, Reserve, ReserveRejected, RunnerStart,
       RunnerQueryFails, RunnerQuery, RunnerGate, RunnerClosePrepared,
       RunnerReleasePrepared, RunnerOpen, FinalDecide, FinalPersist, AfterResult,
       AfterError, RunnerExit, watchVars
<1>3. ASSUME NEW r \in Runs, FormStep(r) \/ CtxExpire(r) \/ ScheduleTimeout(r)
      PROVE  UNCHANGED stopWatch
  BY <1>3 DEF FormStep, FormStart, FormSkip, FormSave, FormSucceed, FormFail, CtxExpire,
     ScheduleTimeout, watchVars
<1>4. ASSUME NEW r \in Runs, WatchStep(r) PROVE stopWatch'[q] = "off"
  BY <1>0, <1>4 DEF WatchStep, StopCancel, StopWatchFire, StopWatchTell, StopWatchCancel,
     TaskWatchFire, TaskWatchTell, TaskWatchClear
<1>5. ASSUME NEW r \in Runs, RequestStop(r) PROVE pc'[q] \in InRunSync
  BY <1>1, <1>5 DEF RequestStop, runnerVars
<1>6. CASE Shutdown \/ DrainStep
  BY <1>1, <1>6 DEF Shutdown, DrainStep, DrainAsk, DrainLook, DrainDone, DrainTimeout,
     DrainTell, DrainCancel, runnerVars
<1>7. ASSUME NEW r \in Runs, Born(r) PROVE UNCHANGED stopWatch
  BY <1>0, <1>7, BornFrame DEF watchVars
<1>8. CASE Starting
  BY <1>8, StartingFrame DEF watchVars
<1>9. CASE Exit \/ Crash
  BY <1>9 DEF Exit, Crash, Halt
<1> QED
  BY <1>0, <1>2, <1>3, <1>4, <1>5, <1>6, <1>7, <1>8, <1>9, NextCases DEF Outside

LEMMA TaskMoves ==
  ASSUME Base, Next, NEW q \in Runs
  PROVE  /\ activeTask' = q /\ activeTask # q => Reserve(q)
         /\ taskWatch'[q] # "off" /\ taskWatch[q] = "off" => StopCancel(q) /\ activeTask = q
<1>0. TypeOK /\ taskWatch \in [Runs -> WatchStates]
  BY DEF Base, Known, LifecycleInv, TypeOK
<1>1. ASSUME NEW r \in Runs, RunnerStep(r)
      PROVE  /\ UNCHANGED activeTask \/ activeTask' = NoRun \/ (Reserve(r) /\ activeTask' = r)
             /\ UNCHANGED taskWatch \/ taskWatch' = [taskWatch EXCEPT ![r] = "off"]
  BY <1>1 DEF RunnerStep, Reserve, ReserveRejected, RunnerStart, RunnerQueryFails,
     RunnerQuery, RunnerGate, RunnerGraceStop, RunnerClosePrepared, RunnerReleasePrepared,
     RunnerEnter, RunnerOpenFails, RunnerOpen, FinalDecide, FinalPersist, Release,
     AfterResult, AfterError, RunnerExit, watchVars
<1>2. ASSUME NEW r \in Runs, FormStep(r) \/ CtxExpire(r) \/ ScheduleTimeout(r)
                             \/ RequestStop(r)
      PROVE  UNCHANGED <<activeTask, taskWatch>>
  BY <1>2 DEF FormStep, FormStart, FormSkip, FormSave, FormSucceed, FormFail, CtxExpire,
     ScheduleTimeout, RequestStop, watchVars
<1>3. ASSUME NEW r \in Runs, StopCancel(r)
      PROVE  /\ UNCHANGED activeTask
             /\ taskWatch'[q] # "off" /\ taskWatch[q] = "off" => r = q /\ activeTask = q
  BY <1>0, <1>3 DEF StopCancel
<1>4. ASSUME NEW r \in Runs, WatchStep(r), ~StopCancel(r)
      PROVE  /\ UNCHANGED activeTask \/ activeTask' = NoRun
             /\ taskWatch[q] = "off" => taskWatch'[q] = "off"
  BY <1>0, <1>4 DEF WatchStep, StopWatchFire, StopWatchTell, StopWatchCancel, TaskWatchFire,
     TaskWatchTell, TaskWatchClear
<1>5. CASE Shutdown \/ DrainStep
  BY <1>5 DEF Shutdown, DrainStep, DrainAsk, DrainLook, DrainDone, DrainTimeout, DrainTell,
     DrainCancel
<1>6. ASSUME NEW r \in Runs, Born(r) PROVE UNCHANGED <<activeTask, taskWatch>>
  BY <1>0, <1>6, BornFrame DEF watchVars
<1>7. CASE Starting
  BY <1>7, StartingFrame DEF watchVars
<1>8. CASE Exit \/ Crash
  BY <1>8, NoRunIsNone DEF Exit, Crash, Halt
<1> QED
  BY <1>0, <1>1, <1>2, <1>3, <1>4, <1>5, <1>6, <1>7, <1>8, NextCases, NoRunIsNone DEF Outside

LEMMA ShutdownStays ==
  ASSUME Base, Next, eng.shutdown
  PROVE  (eng'.shutdown /\ eng'.run = eng.run) \/ Exit \/ Crash
<1>0. TypeOK /\ eng \in EngineState
  BY DEF Base, Known, LifecycleInv, TypeOK
<1>1. ASSUME NEW r, NEW graceful \in BOOLEAN, Asked(r, graceful)
      PROVE  eng'.shutdown /\ eng'.run = eng.run
  BY <1>0, <1>1 DEF Asked, EngineState
<1>2. ASSUME NEW r, eng' = ToldAbnormal(r) \/ eng' = CancelledActive(r)
      PROVE  eng'.shutdown /\ eng'.run = eng.run
  BY <1>0, <1>2 DEF ToldAbnormal, CancelledActive, EngineState
<1>3. ASSUME NEW r, NEW s, Decide(r, s) PROVE eng'.shutdown /\ eng'.run = eng.run
  BY <1>0, <1>3 DEF Decide, EngineState
<1>4. ASSUME NEW r \in Runs, RunnerStep(r) PROVE eng'.shutdown /\ eng'.run = eng.run
  <2>1. CASE RunnerReleasePrepared(r) \/ RunnerEnter(r) \/ RunnerOpenFails(r) \/ Release(r)
    BY <1>0, <2>1 DEF RunnerReleasePrepared, RunnerEnter, RunnerOpenFails, Release, Released,
       EngineState
  <2>2. CASE RunnerGraceStop(r) \/ FinalDecide(r) \/ FinalPersist(r) \/ AfterError(r)
    BY <1>1, <1>2, <1>3, <2>2 DEF RunnerGraceStop, FinalDecide, FinalPersist, AfterError,
       ApiAfterError
  <2> QED
    BY <1>4, <2>1, <2>2 DEF RunnerStep, Reserve, ReserveRejected, RunnerStart,
       RunnerQueryFails, RunnerQuery, RunnerGate, RunnerClosePrepared, RunnerOpen,
       AfterResult, RunnerExit
<1>5. ASSUME NEW r \in Runs, FormStep(r) \/ CtxExpire(r) \/ ScheduleTimeout(r)
      PROVE  UNCHANGED eng
  BY <1>5 DEF FormStep, FormStart, FormSkip, FormSave, FormSucceed, FormFail, CtxExpire,
     ScheduleTimeout
<1>6. ASSUME NEW r \in Runs, WatchStep(r) PROVE eng'.shutdown /\ eng'.run = eng.run
  BY <1>2, <1>6 DEF WatchStep, StopCancel, StopWatchFire, StopWatchTell, StopWatchCancel,
     TaskWatchFire, TaskWatchTell, TaskWatchClear
<1>7. ASSUME NEW r \in Runs, RequestStop(r) PROVE eng'.shutdown /\ eng'.run = eng.run
  BY <1>1, <1>7 DEF RequestStop
<1>8. CASE Shutdown
  BY <1>0, <1>8 DEF Shutdown, EngineState
<1>9. CASE DrainStep
  BY <1>1, <1>2, <1>9 DEF DrainStep, DrainAsk, DrainLook, DrainDone, DrainTimeout, DrainTell,
     DrainCancel
<1>10. ASSUME NEW r \in Runs, Born(r) PROVE UNCHANGED eng
  BY <1>0, <1>10, BornFrame
<1>11. CASE Starting
  BY <1>11, StartingFrame
<1> QED
  BY <1>0, <1>4, <1>5, <1>6, <1>7, <1>8, <1>9, <1>10, <1>11, NextCases DEF Outside

TimesInv == ExpiresInside /\ NotWatchedBefore /\ TaskReserved /\ TaskCancelled /\ DrainsSlot

LEMMA TaskCancelledStep ==
  ASSUME Base, TimesInv, Next, NEW q \in Runs, taskWatch'[q] # "off",
         pc'[q] \in BeforeRunSync
  PROVE  ctx'[q] = "canceled"
<1>0. /\ TypeOK /\ ctx \in [Runs -> {"live", "canceled", "expired"}]
      /\ taskWatch[q] # "off" => pc[q] \notin NotBegun
      /\ taskWatch[q] # "off" /\ pc[q] \in BeforeRunSync => ctx[q] = "canceled"
      /\ ctx[q] = "expired" => pc[q] \notin BeforeRunSync
  BY DEF Base, Known, LifecycleInv, TypeOK, TimesInv, TaskReserved, TaskCancelled,
     ExpiresInside, InRunSync, AfterRunSync, BeforeRunSync
<1>1. ~Exit /\ ~Crash
  BY DEF Exit, Crash, Halt
<1>2. CASE taskWatch[q] # "off"
  <2>1. pc[q] \in BeforeRunSync
    BY <1>0, <1>2, NotYet
  <2>2. ~RunnerExit(q)
    BY <2>1 DEF RunnerExit, BeforeRunSync
  <2> QED
    BY <1>0, <1>1, <1>2, <2>1, <2>2, CtxMoves DEF CtxMove
<1>3. CASE taskWatch[q] = "off"
  <2>1. StopCancel(q)
    BY <1>3, TaskMoves
  <2>2. pc[q] \in BeforeRunSync
    BY <2>1 DEF StopCancel
  <2> QED
    BY <1>0, <2>1, <2>2 DEF StopCancel, LivePcs
<1> QED
  BY <1>2, <1>3

LEMMA DrainsSlotStep == Base /\ WatchInv /\ TimesInv /\ Next => DrainsSlot'
<1> SUFFICES ASSUME Base, WatchInv, TimesInv, Next PROVE DrainsSlot'
  OBVIOUS
<1>0. /\ TypeOK /\ drain \in [pc : DrainPcs, run : Runs \cup {NoRun}]
      /\ eng \in EngineState
      /\ eng.executing => pc[eng.run] \in InRunSync
  BY DEF Base, Known, LifecycleInv, TypeOK, RunsInv, ExecutingInside
<1>d. DrainsSlot /\ (drain.pc \in Draining => drain.run \in Runs)
  BY DEF TimesInv, WatchInv, DrainWatched
<1>1. CASE Exit \/ Crash
  BY <1>1 DEF Exit, Crash, Halt, DrainsSlot, Draining
<1>2. CASE Shutdown
  BY <1>0, <1>2 DEF Shutdown, DrainsSlot, Draining, EngineState
<1>3. CASE UNCHANGED drain /\ ~Exit /\ ~Crash
  <2>1. drain.pc \in Draining => eng.shutdown
    BY <1>d DEF DrainsSlot, Draining
  <2>2. \A q \in Runs : pc'[q] \in NotBegun \cup BeforeRunSync =>
                          pc[q] \in NotBegun \cup BeforeRunSync
    BY NotYet
  <2> QED
    BY <1>d, <1>3, <2>1, <2>2, ShutdownStays DEF DrainsSlot
<1>4. CASE DrainStep /\ ~Exit /\ ~Crash
  <2>1. eng.shutdown
    BY <1>4, <1>d DEF DrainsSlot, DrainStep, DrainAsk, DrainLook, DrainDone, DrainTimeout,
       DrainTell, DrainCancel
  <2>2. eng'.shutdown /\ eng'.run = eng.run
    BY <1>4, <2>1, ShutdownStays
  <2>3. CASE DrainAsk
    <3>1. \/ drain' = [pc |-> "look", run |-> eng.run]
          \/ drain' = [drain EXCEPT !.pc = "exit"]
      BY <2>3 DEF DrainAsk
    <3>2. \/ drain'.pc = "look" /\ drain'.run = eng.run
          \/ drain'.pc = "exit"
      BY <1>0, <3>1
    <3> QED
      BY <2>2, <3>2 DEF DrainsSlot, Draining
  <2>4. CASE DrainLook
    BY <1>0, <1>d, <2>2, <2>4 DEF DrainLook, DrainsSlot, Draining, runnerVars, NotBegun,
       BeforeRunSync, InRunSync
  <2>5. CASE DrainDone \/ DrainTimeout \/ DrainTell \/ DrainCancel
    BY <1>0, <1>d, <2>2, <2>5 DEF DrainDone, DrainTimeout, DrainTell, DrainCancel, DrainsSlot,
       Draining, runnerVars
  <2> QED
    BY <1>4, <2>3, <2>4, <2>5 DEF DrainStep
<1> QED
  BY <1>0, <1>1, <1>2, <1>3, <1>4, DrainOnly

LEMMA TimesInvStep == Base /\ WatchInv /\ TimesInv /\ [Next]_vars => TimesInv'
<1>1. CASE UNCHANGED vars
  BY <1>1 DEF vars, runnerVars, watchVars, TimesInv, ExpiresInside, NotWatchedBefore,
     TaskReserved, TaskCancelled, DrainsSlot
<1>2. ASSUME Base, WatchInv, TimesInv, Next PROVE TimesInv'
  <2>0. stopWatch \in [Runs -> WatchStates] /\ TypeOK
    BY <1>2 DEF Base, Known, LifecycleInv, TypeOK
  <2>1. ExpiresInside'
    BY <1>2, ExpiresInsideStep DEF TimesInv
  <2>2. NotWatchedBefore'
    <3>1. ASSUME NEW q \in Runs, pc'[q] \in NotBegun \cup BeforeRunSync
          PROVE  stopWatch'[q] = "off"
      BY <1>2, <3>1, NotYet, ArmedInside DEF TimesInv, NotWatchedBefore, NotBegun,
         BeforeRunSync, InRunSync
    <3> QED
      BY <3>1 DEF NotWatchedBefore
  <2>3. TaskReserved'
    <3>1. ASSUME NEW q \in Runs, activeTask' = q \/ taskWatch'[q] # "off"
          PROVE  pc'[q] \notin NotBegun
      <4>1. CASE activeTask = q \/ taskWatch[q] # "off"
        BY <1>2, <4>1, NotYet DEF TimesInv, TaskReserved
      <4>2. CASE Reserve(q)
        BY <2>0, <4>2 DEF Reserve, Goto, NotBegun, TypeOK
      <4> QED
        BY <1>2, <3>1, <4>1, <4>2, TaskMoves
    <3> QED
      BY <3>1 DEF TaskReserved
  <2>4. TaskCancelled'
    BY <1>2, TaskCancelledStep DEF TaskCancelled
  <2>5. DrainsSlot'
    BY <1>2, DrainsSlotStep
  <2> QED
    BY <2>1, <2>2, <2>3, <2>4, <2>5 DEF TimesInv
<1> QED
  BY <1>1, <1>2

\* A run is closed before its start only when it was stopped: the row its
\* goroutine read, or the view it looked at, said so.
ClosesStopped ==
  \A r \in Runs :
    /\ pc[r] = "gate" /\ seen[r] = "stopping" => BeenStopped(r)
    /\ pc[r] \in BeforeRunSync /\ eng.status = "stopping" => BeenStopped(r)
    /\ pc[r] = "close" => BeenStopped(r)

\* Before its start a run's goroutine changes the view only by its own stop.
LEMMA OwnClosesStopped ==
  ASSUME Base, ClosesStopped, [Next]_vars, NEW q \in Runs, RunnerStep(q),
         pc[q] \in BeforeRunSync, pc'[q] \in BeforeRunSync
  PROVE  /\ pc'[q] = "gate" /\ seen'[q] = "stopping" => BeenStopped(q)'
         /\ eng'.status = "stopping" => BeenStopped(q)'
         /\ pc'[q] = "close" => BeenStopped(q)'
<1>0. /\ TypeOK /\ pc \in [Runs -> RunnerPcs] /\ row \in [Runs -> RowStatuses]
      /\ seen \in [Runs -> RowStatuses] /\ eng \in EngineState
      /\ pc[q] = "gate" /\ seen[q] = "stopping" => BeenStopped(q)
      /\ eng.status = "stopping" => BeenStopped(q)
      /\ pc[q] = "close" => BeenStopped(q)
  BY DEF Base, Known, LifecycleInv, TypeOK, ClosesStopped
<1>1. BeenStopped(q) => BeenStopped(q)'
  BY RowsMoveOn DEF Base
<1>2. CASE RunnerGraceStop(q)
  BY <1>0, <1>1, <1>2 DEF RunnerGraceStop, Asked, SetRow, Goto, BeenStopped, BeforeRunSync
<1>3. CASE RunnerStart(q) \/ RunnerGate(q)
  BY <1>0, <1>1, <1>3 DEF RunnerStart, RunnerGate, Goto
<1>4. CASE RunnerQuery(q)
  BY <1>0, <1>1, <1>4 DEF RunnerQuery, Goto, BeenStopped, storeVars
<1>5. CASE ~RunnerGraceStop(q) /\ ~RunnerStart(q) /\ ~RunnerGate(q) /\ ~RunnerQuery(q)
  BY <1>0, <1>1, <1>5, RunnerMoves DEF RunnerStep, Reserve, ReserveRejected,
     RunnerQueryFails, RunnerClosePrepared, RunnerReleasePrepared, RunnerEnter,
     RunnerOpenFails, RunnerOpen, FinalDecide, FinalPersist, Release, AfterResult,
     AfterError, RunnerExit, Goto, BeforeRunSync
<1> QED
  BY <1>2, <1>3, <1>4, <1>5

\* What else happens to the row and the view of a run before its start.
LEMMA WaitingView ==
  ASSUME Base, WatchInv, Next, NEW q \in Runs, Settled(q), pc[q] \in BeforeRunSync
  PROVE  /\ ViewMove(q)
         /\ row'[q] = row[q] \/ Outside
<1>0. /\ TypeOK /\ pc \in [Runs -> RunnerPcs] /\ eng \in EngineState /\ eng.run = q
  BY DEF Base, Known, LifecycleInv, TypeOK, SlotInv, SlotOwned
<1> USE DEF ViewMove
<1>1. ASSUME NEW r \in Runs, Born(r) PROVE eng' = eng /\ row'[q] = row[q]
  <2>1. r # q
    BY <1>0, <1>1, BornFrame DEF Goto, Settled, BeforeRunSync
  <2> QED
    BY <1>0, <1>1, <2>1, BornFrame
<1>2. ASSUME NEW r \in Runs, RunnerStep(r) PROVE eng'.status = eng.status /\ row'[q] = row[q]
  <2>1. r # q
    BY <1>0, <1>2, RunnerMoves DEF Moves, ControlFlow, Goto, Settled
  <2>2. eng' \in {eng, ToldAbnormal(r)}
    BY <1>0, <1>2, <2>1, OthersKeep
  <2>3. eng'.run = q
    BY <1>0, <2>2, EngineKeeps
  <2> QED
    BY <1>0, <1>2, <2>1, <2>3, OthersView
<1>3. CASE Outside
  BY <1>0, <1>3, OutsideView
<1>4. CASE Starting
  <2>1. phase # "recover"
    BY DEF Base, RunsInv, CutOff, LivePcs
  <2>2. UNCHANGED row
    BY <1>4, <2>1 DEF Starting, Start, RecoverRow, RecoverDone, Serve, storeVars
  <2> QED
    BY <1>4, <2>2, StartingFrame
<1>5. CASE Exit \/ Crash
  BY <1>0, <1>5 DEF Exit, Crash, Halt, Settled, BeforeRunSync
<1> QED
  BY <1>0, <1>1, <1>2, <1>3, <1>4, <1>5, NextCases

LEMMA ClosesStoppedStep == Base /\ WatchInv /\ ClosesStopped /\ [Next]_vars => ClosesStopped'
<1>1. CASE UNCHANGED vars
  BY <1>1 DEF vars, storeVars, runnerVars, ClosesStopped, BeenStopped
<1>2. ASSUME Base, WatchInv, ClosesStopped, Next PROVE ClosesStopped'
  <2> SUFFICES ASSUME NEW q \in Runs, pc'[q] \in BeforeRunSync
               PROVE  /\ pc'[q] = "gate" /\ seen'[q] = "stopping" => BeenStopped(q)'
                      /\ eng'.status = "stopping" => BeenStopped(q)'
                      /\ pc'[q] = "close" => BeenStopped(q)'
    BY DEF ClosesStopped, BeforeRunSync
  <2>0. BeenStopped(q) => BeenStopped(q)'
    BY <1>2, RowsMoveOn DEF Base
  <2>1. CASE Reserve(q)
    BY <1>2, <2>1 DEF Reserve, Begun, EngineIdle, Goto, Base, Known, LifecycleInv, TypeOK
  <2>2. CASE RunnerStep(q) /\ pc[q] \in BeforeRunSync
    BY <1>2, <2>2, OwnClosesStopped
  <2>3. CASE Settled(q) /\ pc[q] \in BeforeRunSync
    <3>1. ViewMove(q)
      BY <1>2, <2>3, WaitingView
    <3>2. eng'.status = "stopping" => eng.status = "stopping" \/ row'[q] = "stopping"
      BY <3>1 DEF ViewMove
    <3> QED
      BY <1>2, <2>0, <2>3, <3>2 DEF ClosesStopped, Settled, BeenStopped
  <2> QED
    BY <1>2, <2>1, <2>2, <2>3, NotYet
<1> QED
  BY <1>1, <1>2

\* Before its start a run's row is active, whoever asked it to stop, unless the
\* API's deadline for a cancelled task has given it up.
PreparedActive ==
  faults = 0 => \A r \in Runs :
    pc[r] \in BeforeRunSync \ {"closed"} => row[r] \in ActiveStatuses \/ ctx[r] = "canceled"

\* A goroutine only leaves with the slot when its context was cancelled.
KeptCanceled ==
  faults = 0 => \A r \in Runs :
    eng.active /\ eng.run = r /\ pc[r] \in AfterRunSync => ctx[r] = "canceled"

SlotFreeInv == TimesInv /\ ClosesStopped /\ PreparedActive /\ KeptCanceled

\* Of all that gives runs up, only the API's deadline can find one here.
LEMMA OnlyTaskGivesUp ==
  ASSUME Base, WatchInv, TimesInv, Next, NEW q \in Runs, Settled(q), pc[q] \in BeforeRunSync,
         row[q] \in ActiveStatuses
  PROVE  row'[q] \in ActiveStatuses \/ ctx[q] = "canceled"
<1>0. /\ TypeOK /\ row \in [Runs -> RowStatuses]
      /\ stopWatch[q] = "off" /\ ctx[q] # "expired"
      /\ taskWatch[q] # "off" => ctx[q] = "canceled"
      /\ drain.pc \in Draining \ {"look"} => drain.run # q
  BY DEF Base, Known, LifecycleInv, TypeOK, TimesInv, NotWatchedBefore, TaskCancelled,
     ExpiresInside, DrainsSlot, InRunSync, AfterRunSync, BeforeRunSync
<1>1. CASE row'[q] = row[q]
  BY <1>1
<1>2. ASSUME NEW r, NEW graceful \in BOOLEAN, Asked(r, graceful)
      PROVE  row'[q] \in ActiveStatuses
  BY <1>0, <1>2 DEF Asked, SetRow
<1>3. ASSUME NEW r, r # q, AbortRow(r) PROVE row'[q] = row[q]
  BY <1>0, <1>3 DEF AbortRow, SetRow
<1>4. ASSUME NEW r \in Runs, FormStep(r) \/ CtxExpire(r) PROVE UNCHANGED row
  BY <1>4 DEF FormStep, FormStart, FormSkip, FormSave, FormSucceed, FormFail, CtxExpire,
     storeVars
<1>5. ASSUME NEW r \in Runs, ScheduleTimeout(r) PROVE row'[q] = row[q]
  BY <1>0, <1>5 DEF ScheduleTimeout, SetRow
<1>6. ASSUME NEW r \in Runs, RequestStop(r) PROVE row'[q] \in ActiveStatuses
  BY <1>2, <1>6 DEF RequestStop
<1>7. ASSUME NEW r \in Runs, WatchStep(r) PROVE row'[q] = row[q] \/ ctx[q] = "canceled"
  <2>1. CASE StopWatchFire(r) \/ TaskWatchFire(r)
    BY <1>0, <1>3, <2>1 DEF StopWatchFire, TaskWatchFire
  <2> QED
    BY <1>7, <2>1 DEF WatchStep, StopCancel, StopWatchTell, StopWatchCancel, TaskWatchTell,
       TaskWatchClear, storeVars
<1>8. CASE DrainAsk
  BY <1>1, <1>2, <1>8 DEF DrainAsk
<1>9. CASE DrainTimeout
  BY <1>0, <1>1, <1>3, <1>9 DEF DrainTimeout, Draining
<1>10. CASE Shutdown \/ DrainLook \/ DrainDone \/ DrainTell \/ DrainCancel
  BY <1>1, <1>10 DEF Shutdown, DrainLook, DrainDone, DrainTell, DrainCancel, storeVars
<1> QED
  BY <1>1, <1>4, <1>5, <1>6, <1>7, <1>8, <1>9, <1>10, WaitingView DEF Outside, DrainStep

LEMMA PreparedActiveStep == Base /\ WatchInv /\ SlotFreeInv /\ Next => PreparedActive'
<1> SUFFICES ASSUME Base, WatchInv, SlotFreeInv, Next, faults' = 0, NEW q \in Runs,
                    pc'[q] \in BeforeRunSync \ {"closed"}
             PROVE  row'[q] \in ActiveStatuses \/ ctx'[q] = "canceled"
  BY DEF PreparedActive
<1>0. /\ TypeOK /\ pc \in [Runs -> RunnerPcs] /\ row \in [Runs -> RowStatuses]
      /\ pc[q] \in BeforeRunSync \ {"closed"} =>
           row[q] \in ActiveStatuses \/ ctx[q] = "canceled"
  BY FaultsStay DEF Base, Known, LifecycleInv, TypeOK, SlotFreeInv, PreparedActive
<1>1. CASE Reserve(q)
  BY <1>0, <1>1 DEF Reserve, storeVars
<1>2. CASE Settled(q) /\ pc[q] \in BeforeRunSync
  <2>1. ctx[q] = "canceled" => ctx'[q] = "canceled"
    BY <1>2, CtxMoves DEF CtxMove, RunnerExit, Exit, Crash, Halt, Settled, BeforeRunSync
  <2> QED
    BY <1>0, <1>2, <2>1, OnlyTaskGivesUp DEF Settled, SlotFreeInv
<1>3. CASE RunnerStep(q) /\ pc[q] \in BeforeRunSync
  <2>1. pc[q] # "closed" /\ pc[q] # "close"
    BY <1>0, <1>3, RunnerMoves DEF Moves, ControlFlow, Goto, BeforeRunSync
  <2>2. CASE RunnerGraceStop(q)
    BY <1>0, <1>3, <2>1, <2>2 DEF RunnerGraceStop, Asked, SetRow
  <2>3. CASE ~RunnerGraceStop(q)
    <3>1. UNCHANGED <<row, ctx>>
      BY <1>3, <2>1, <2>3 DEF RunnerStep, Reserve, ReserveRejected, RunnerStart,
         RunnerQueryFails, RunnerQuery, RunnerGate, RunnerClosePrepared,
         RunnerReleasePrepared, RunnerEnter, RunnerOpenFails, RunnerOpen, FinalDecide,
         FinalPersist, Release, AfterResult, AfterError, RunnerExit, BeforeRunSync, storeVars
    <3> QED
      BY <1>0, <1>3, <2>1, <3>1
  <2> QED
    BY <2>2, <2>3
<1> QED
  BY <1>1, <1>2, <1>3, NotYet

\* The ways out of SyncDataWithRunID before runSync.
LEMMA LeavesSlot ==
  ASSUME Base, SlotFreeInv, NEW q \in Runs, RunnerStep(q), faults = 0, faults' = 0,
         pc'[q] \in {"ok", "err"}, eng'.active
  PROVE  ctx'[q] = "canceled"
<1>0. /\ TypeOK /\ pc \in [Runs -> RunnerPcs] /\ row \in [Runs -> RowStatuses]
      /\ ctx \in [Runs -> {"live", "canceled", "expired"}] /\ eng \in EngineState
      /\ pc[q] \in BeforeRunSync => eng.active /\ eng.run = q
      /\ pc[q] \in BeforeRunSync \ {"closed"} =>
           row[q] \in ActiveStatuses \/ ctx[q] = "canceled"
      /\ pc[q] \in BeforeRunSync => ctx[q] # "expired"
      /\ pc[q] = "close" => row[q] \notin {Absent, "running"}
  BY DEF Base, Known, LifecycleInv, TypeOK, SlotInv, SlotOwned, SlotFreeInv, PreparedActive,
     TimesInv, ExpiresInside, ClosesStopped, BeenStopped, BeforeRunSync, InRunSync, AfterRunSync
<1>1. ~Fault
  BY <1>0 DEF Fault
<1> USE DEF BeforeRunSync
<1>2. CASE RunnerStart(q)
  BY <1>0, <1>2 DEF RunnerStart, Goto
<1>3. CASE RunnerQueryFails(q)
  BY <1>0, <1>1, <1>3 DEF RunnerQueryFails
<1>4. CASE RunnerQuery(q)
  BY <1>0, <1>4 DEF RunnerQuery, Goto
<1>5. CASE RunnerGate(q)
  BY <1>0, <1>5 DEF RunnerGate, Goto
<1>6. CASE RunnerGraceStop(q)
  BY <1>0, <1>1, <1>6 DEF RunnerGraceStop, Goto
<1>7. CASE RunnerClosePrepared(q)
  <2>1. ~FinishRejected(row[q], "stopped")
    BY <1>0, <1>7 DEF RunnerClosePrepared, FinishRejected, FinishTarget, CanTransition,
       RowStatuses
  <2> QED
    BY <1>0, <1>1, <1>7, <2>1 DEF RunnerClosePrepared, Goto
<1>8. CASE RunnerReleasePrepared(q)
  BY <1>0, <1>1, <1>8 DEF RunnerReleasePrepared, EngineState
<1>9. CASE RunnerOpenFails(q) \/ Release(q)
  BY <1>0, <1>9 DEF RunnerOpenFails, Release, Released, EngineState
<1>10. CASE Reserve(q) \/ ReserveRejected(q) \/ RunnerEnter(q) \/ RunnerOpen(q)
            \/ FinalDecide(q) \/ FinalPersist(q) \/ AfterResult(q) \/ AfterError(q)
            \/ RunnerExit(q)
  BY <1>0, <1>10 DEF Reserve, ReserveRejected, RunnerEnter, RunnerOpen, FinalDecide,
     FinalPersist, AfterResult, AfterError, RunnerExit, Goto
<1> QED
  BY <1>2, <1>3, <1>4, <1>5, <1>6, <1>7, <1>8, <1>9, <1>10 DEF RunnerStep

LEMMA KeptCanceledStep == Base /\ WatchInv /\ SlotFreeInv /\ Next => KeptCanceled'
<1> SUFFICES ASSUME Base, WatchInv, SlotFreeInv, Next, faults' = 0, NEW q \in Runs,
                    eng'.active, eng'.run = q, pc'[q] \in AfterRunSync
             PROVE  ctx'[q] = "canceled"
  BY DEF KeptCanceled
<1>0. /\ TypeOK /\ pc \in [Runs -> RunnerPcs] /\ faults = 0
      /\ eng.active /\ eng.run = q /\ pc[q] \in AfterRunSync => ctx[q] = "canceled"
  BY FaultsStay DEF Base, Known, LifecycleInv, TypeOK, SlotFreeInv, KeptCanceled
<1>1. ~Exit /\ ~Crash
  BY NoRunIsNone DEF Exit, Crash, Halt, EngineIdle
<1>2. CASE Born(q)
  BY <1>0, <1>2, BornFrame DEF Goto, AfterRunSync
<1>3. CASE Settled(q)
  <2>1. ASSUME NEW r \in Runs, RunnerStep(r) PROVE SameSlot
    <3>1. r # q
      BY <1>0, <1>3, <2>1, RunnerMoves DEF Moves, ControlFlow, Goto, Settled
    <3>2. pc[r] \in BeforeRunSync \cup InRunSync => eng.run = r
      BY DEF Base, Known, SlotInv, SlotOwned
    <3> QED
      BY <1>0, <2>1, <3>1, <3>2, RunnerSlot DEF RunnerEnter, RunnerReleasePrepared,
         RunnerOpenFails, Release, BeforeRunSync, InRunSync
  <2>2. SameSlot
    BY <1>0, <1>1, <2>1, NextCases, BornFrame, OutsideFrame, StartingFrame
       DEF SameSlot, RunsFrame
  <2>3. ~RunnerExit(q)
    BY <1>0, <1>3 DEF Settled, RunnerExit, Goto
  <2> QED
    BY <1>0, <1>1, <1>3, <2>2, <2>3, CtxMoves DEF SameSlot, Settled, CtxMove
<1>4. CASE RunnerStep(q)
  <2>1. CASE pc'[q] \in {"ok", "err"}
    BY <1>0, <1>4, <2>1, LeavesSlot
  <2>2. CASE pc'[q] = "exit"
    <3>1. pc[q] \in {"ok", "err"} /\ ~RunnerExit(q)
      BY <1>0, <1>4, <2>2, RunnerMoves DEF Moves, ControlFlow, Goto, RunnerExit
    <3>2. SameSlot
      BY <1>0, <1>4, <3>1, RunnerSlot DEF Reserve, RunnerEnter, RunnerReleasePrepared,
         RunnerOpenFails, Release
    <3> QED
      BY <1>0, <1>1, <3>1, <3>2, CtxMoves DEF SameSlot, CtxMove, AfterRunSync
  <2> QED
    BY <2>1, <2>2 DEF AfterRunSync
<1> QED
  BY <1>1, <1>2, <1>3, <1>4, OnlyItself

LEMMA SlotFreeStep == Base /\ WatchInv /\ SlotFreeInv /\ [Next]_vars => SlotFreeInv'
<1>1. CASE UNCHANGED vars
  <2>1. Base /\ WatchInv /\ SlotFreeInv => TimesInv' /\ ClosesStopped'
    BY TimesInvStep, ClosesStoppedStep, <1>1 DEF SlotFreeInv
  <2> QED
    BY <1>1, <2>1 DEF vars, storeVars, runnerVars, SlotFreeInv, PreparedActive, KeptCanceled
<1>2. CASE Next
  BY <1>2, TimesInvStep, ClosesStoppedStep, PreparedActiveStep, KeptCanceledStep
     DEF SlotFreeInv
<1> QED
  BY <1>1, <1>2

\* Every way out of the run frees its slot, except the early return of a run
\* whose row could not be read because its context was cancelled.
THEOREM SlotIsFreedHolds == Spec => SlotIsFreed
<1>1. Init => SlotFreeInv
  BY DEF Init, SlotFreeInv, TimesInv, ExpiresInside, NotWatchedBefore, TaskReserved,
     TaskCancelled, DrainsSlot, ClosesStopped, PreparedActive, KeptCanceled, NotBegun,
     BeforeRunSync, AfterRunSync, Draining, NoRun, Runs
<1>2. ASSUME Base, WatchInv, SlotFreeInv, Next, NEW r \in Runs, faults = 0,
             phase' = "serving", eng.active, eng.run = r, pc[r] \in LivePcs
      PROVE  pc'[r] \in LivePcs \/ ctx[r] = "canceled"
  <2>0. /\ TypeOK /\ pc \in [Runs -> RunnerPcs] /\ pc[r] # "created"
        /\ pc[r] = "exit" => ctx[r] = "canceled"
    BY <1>2 DEF Base, Known, LifecycleInv, TypeOK, RunsInv, Unreserved, SlotFreeInv,
       KeptCanceled, AfterRunSync
  <2>1. CASE Settled(r)
    BY <1>2, <2>1 DEF Settled
  <2>2. CASE RunnerStep(r)
    BY <2>0, <2>2, RunnerMoves DEF Moves, ControlFlow, Goto, LivePcs, BeforeRunSync,
       InRunSync, AfterRunSync
  <2>3. CASE Born(r)
    BY <2>0, <2>3, BornFrame DEF Goto, LivePcs
  <2>4. ~Exit /\ ~Crash
    BY <1>2 DEF Exit, Crash, Halt
  <2> QED
    BY <1>2, <2>1, <2>2, <2>3, <2>4, OnlyItself
<1>3. Base /\ WatchInv /\ SlotFreeInv /\ [Next]_vars =>
        [\A r \in Runs :
           faults = 0 /\ phase' = "serving" /\ eng.active /\ eng.run = r /\ pc[r] \in LivePcs
             => pc'[r] \in LivePcs \/ ctx[r] = "canceled"]_vars
  BY <1>2
<1> QED
  BY <1>1, <1>3, WatchHolds, SlotFreeStep, PTL DEF Spec, SlotIsFreed
=============================================================================
