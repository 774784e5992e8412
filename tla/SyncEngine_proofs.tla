------------------------- MODULE SyncEngine_proofs -------------------------
(***************************************************************************)
(* Proofs about SyncEngine, for any number of runs, forms, callers, faults *)
(* and restarts: its types, the exclusive slot, and that it implements     *)
(* RunLifecycle: whatever callers, watchdogs, the scheduler's timer,       *)
(* shutdown and recovery do to the rows, every run moves along the public  *)
(* state machine. An accepted stop is durable. What becomes of a run on    *)
(* top of that is proved in SyncEngineRuns_proofs.                         *)
(***************************************************************************)
EXTENDS SyncEngine, TLAPS

-----------------------------------------------------------------------------
\* What the operators on statuses and on the engine return.

LEMMA FinishedType ==
  ASSUME NEW from \in RowStatuses, NEW to \in RowStatuses
  PROVE  Finished(from, to) \in RowStatuses
BY DEF Finished, FinishTarget, RowStatuses, Statuses, TerminalStatuses, ActiveStatuses

LEMMA AbortedType ==
  ASSUME NEW from \in RowStatuses
  PROVE  Aborted(from) \in RowStatuses
BY DEF Aborted, RowStatuses, Statuses, TerminalStatuses

LEMMA ResultType == ResultStatus \in RowStatuses
BY DEF ResultStatus, RowStatuses, Statuses, TerminalStatuses

LEMMA SetRowType ==
  ASSUME row \in [Runs -> RowStatuses], NEW r, NEW s \in RowStatuses, SetRow(r, s)
  PROVE  row' \in [Runs -> RowStatuses]
BY DEF SetRow

LEMMA FinishRowType ==
  ASSUME TypeOK, NEW r \in Runs, NEW s \in RowStatuses, FinishRow(r, s)
  PROVE  row' \in [Runs -> RowStatuses] /\ faults' \in Nat
<1>1. row \in [Runs -> RowStatuses] /\ faults \in Nat /\ row[r] \in RowStatuses
  BY DEF TypeOK
<1> QED
  BY <1>1, FinishedType, SetRowType DEF FinishRow, Fault

LEMMA AbortRowType ==
  ASSUME TypeOK, NEW r, AbortRow(r)
  PROVE  row' \in [Runs -> RowStatuses] /\ faults' \in Nat
<1>1. row \in [Runs -> RowStatuses] /\ faults \in Nat
  BY DEF TypeOK
<1>2. CASE r \in Runs
  BY <1>1, <1>2, AbortedType, SetRowType DEF AbortRow, Fault
<1>3. CASE r \notin Runs
  BY <1>1, <1>3 DEF AbortRow, SetRow, Fault
<1> QED
  BY <1>2, <1>3

LEMMA EngineType ==
  ASSUME eng \in EngineState, NEW r
  PROVE  /\ r \in Runs => Begun(r) \in EngineState
         /\ ToldAbnormal(r) \in EngineState
         /\ CancelledActive(r) \in EngineState
         /\ Released \in EngineState
<1>1. r \in Runs => Begun(r) \in EngineState
  BY DEF EngineState, Begun, EngineIdle, RowStatuses, Statuses, ActiveStatuses
<1>2. ToldAbnormal(r) \in EngineState
  BY DEF EngineState, ToldAbnormal, RowStatuses, Statuses, TerminalStatuses
<1>3. CancelledActive(r) \in EngineState
  BY DEF EngineState, CancelledActive
<1>4. Released \in EngineState
  BY DEF EngineState, Released
<1> QED
  BY <1>1, <1>2, <1>3, <1>4

LEMMA EngineStatusType ==
  ASSUME eng \in EngineState, NEW s \in RowStatuses
  PROVE  [eng EXCEPT !.status = s] \in EngineState
BY DEF EngineState

LEMMA DecideType ==
  ASSUME TypeOK, NEW r \in Runs, NEW s \in RowStatuses, Decide(r, s)
  PROVE  eng' \in EngineState /\ seen' \in [Runs -> RowStatuses]
<1>1. eng \in EngineState /\ seen \in [Runs -> RowStatuses]
  BY DEF TypeOK
<1> QED
  BY <1>1, EngineStatusType DEF Decide

LEMMA AskedType ==
  ASSUME TypeOK, NEW r, NEW graceful \in BOOLEAN, Asked(r, graceful)
  PROVE  /\ row' \in [Runs -> RowStatuses]
         /\ eng' \in EngineState
         /\ stopWatch' \in [Runs -> WatchStates]
<1>1. row \in [Runs -> RowStatuses] /\ eng \in EngineState /\ stopWatch \in [Runs ->
   WatchStates]
  BY DEF TypeOK
<1>2. "stopping" \in RowStatuses
  BY DEF RowStatuses, Statuses, ActiveStatuses
<1>3. row' \in [Runs -> RowStatuses]
  BY <1>1, <1>2, SetRowType DEF Asked
<1>4. eng' \in EngineState
  <2> DEFINE c == eng.cancelled \/ (eng.executing /\ ~graceful)
             w == eng.watched \/ eng.executing
  <2>1. eng' = [eng EXCEPT !.status = "stopping", !.stopRequested = TRUE,
                           !.gracefulStop = graceful, !.cancelled = c, !.watched = w]
    BY Zenon DEF Asked
  <2>2. c \in BOOLEAN /\ w \in BOOLEAN
    OBVIOUS
  <2> HIDE DEF c, w
  <2>3. \A g, x, y \in BOOLEAN :
          [eng EXCEPT !.status = "stopping", !.stopRequested = TRUE, !.gracefulStop = g,
                      !.cancelled = x, !.watched = y] \in EngineState
    BY ONLY <1>1, <1>2 DEF EngineState
  <2> QED
    BY Zenon, <2>1, <2>2, <2>3
<1>5. stopWatch' \in [Runs -> WatchStates]
  BY <1>1 DEF Asked, WatchStates
<1> QED
  BY <1>3, <1>4, <1>5

LEMMA ClosePreparedType ==
  ASSUME TypeOK, NEW r \in Runs, RunnerClosePrepared(r)
  PROVE  row' \in [Runs -> RowStatuses] /\ faults' \in Nat
<1>1. row \in [Runs -> RowStatuses] /\ faults \in Nat /\ row[r] \in RowStatuses
  BY DEF TypeOK
<1>2. Finished(row[r], "stopped") \in RowStatuses
  BY <1>1, FinishedType DEF RowStatuses, Statuses, TerminalStatuses
<1>3. CASE SetRow(r, Finished(row[r], "stopped")) /\ UNCHANGED faults
  BY ONLY <1>1, <1>2, <1>3, SetRowType
<1>4. CASE Fault /\ UNCHANGED row
  BY ONLY <1>1, <1>4 DEF Fault
<1> QED
  BY <1>3, <1>4 DEF RunnerClosePrepared

LEMMA FinalPersistType ==
  ASSUME TypeOK, NEW r \in Runs, FinalPersist(r)
  PROVE  /\ row' \in [Runs -> RowStatuses] /\ faults' \in Nat
         /\ eng' \in EngineState /\ seen' \in [Runs -> RowStatuses]
<1> DEFINE now == IF seen[r] = Abnormal THEN row[r] ELSE Finished(row[r], seen[r])
<1>1. /\ row \in [Runs -> RowStatuses] /\ seen \in [Runs -> RowStatuses]
      /\ faults \in Nat /\ eng \in EngineState
      /\ row[r] \in RowStatuses /\ seen[r] \in RowStatuses
  BY DEF TypeOK
<1>2. now \in RowStatuses /\ Abnormal \in RowStatuses
  BY <1>1, FinishedType DEF Abnormal, RowStatuses, Statuses, TerminalStatuses
<1>3. \/ SetRow(r, now) /\ Decide(r, now) /\ UNCHANGED faults
      \/ SetRow(r, now) /\ Fault /\ UNCHANGED <<seen, eng>>
      \/ Fault /\ Decide(r, Abnormal) /\ UNCHANGED row
  BY DEF FinalPersist
<1> HIDE DEF now
<1>4. row' \in [Runs -> RowStatuses]
  BY ONLY <1>1, <1>2, <1>3, SetRowType
<1>5. faults' \in Nat
  BY ONLY <1>1, <1>3 DEF Fault
<1>6. eng' \in EngineState /\ seen' \in [Runs -> RowStatuses]
  BY <1>1, <1>2, <1>3, DecideType
<1> QED
  BY ONLY <1>4, <1>5, <1>6

LEMMA EnterType ==
  ASSUME TypeOK, NEW r \in Runs, RunnerEnter(r)
  PROVE  /\ eng' \in EngineState /\ stopWatch' \in [Runs -> WatchStates]
         /\ pc' \in [Runs -> RunnerPcs]
<1>1. eng \in EngineState
  BY DEF TypeOK
<1>2. eng' \in EngineState
  BY ONLY <1>1, RunnerEnter(r) DEF RunnerEnter, EngineState
<1>3. stopWatch' \in [Runs -> WatchStates]
  BY DEF TypeOK, RunnerEnter, WatchStates
<1>4. \E p \in {"open", "openBg"} : Goto(r, p)
  BY DEF RunnerEnter
<1>5. pc' \in [Runs -> RunnerPcs]
  BY <1>4 DEF TypeOK, Goto, RunnerPcs, LivePcs, InRunSync
<1> QED
  BY ONLY <1>2, <1>3, <1>5

-----------------------------------------------------------------------------
\* Type correctness, action by action.

LEMMA TypeStep == TypeOK /\ [Next]_vars => TypeOK'
<1> SUFFICES ASSUME TypeOK, [Next]_vars PROVE TypeOK'
  OBVIOUS
<1> USE DEF TypeOK, RunnerPcs, LivePcs, BeforeRunSync, InRunSync, AfterRunSync,
   WatchStates, FormStates, DrainPcs, CallerKinds, RowStatuses, Statuses, ActiveStatuses,
   TerminalStatuses, Abnormal, Absent, storeVars, runnerVars, watchVars, procVars
<1>1. ASSUME NEW r \in Runs, NEW k \in Kinds \ {"recovery"}, NEW fs \in Requests,
   Persist(r, k, fs) PROVE TypeOK'
  BY <1>1, ConstantsAssumption DEF Persist, SetRow, Goto
<1>2. ASSUME NEW r \in Runs, Reserve(r) PROVE TypeOK'
  BY <1>2, EngineType DEF Reserve, Goto
<1>3. ASSUME NEW r \in Runs, ReserveRejected(r) PROVE TypeOK'
  <2>1. "failed" \in RowStatuses
    OBVIOUS
  <2>2. CASE FinishRow(r, "failed")
    <3>1. row' \in [Runs -> RowStatuses] /\ faults' \in Nat
      BY <2>1, <2>2, FinishRowType
    <3> QED
      BY <1>3, <3>1 DEF ReserveRejected, Goto, NoJob
  <2>3. CASE Fault /\ SetRow(r, Finished(row[r], "failed"))
    <3>1. Finished(row[r], "failed") \in RowStatuses
      BY <2>1, FinishedType
    <3>2. row' \in [Runs -> RowStatuses] /\ faults' \in Nat
      BY <2>3, <3>1, SetRowType DEF Fault
    <3> QED
      BY <1>3, <3>2 DEF ReserveRejected, Goto, NoJob
  <2> QED
    BY <1>3, <2>2, <2>3 DEF ReserveRejected
<1>4. ASSUME NEW r \in Runs, RunnerStart(r) PROVE TypeOK'
  BY <1>4 DEF RunnerStart, Goto
<1>5. ASSUME NEW r \in Runs, RunnerQueryFails(r) PROVE TypeOK'
  BY <1>5 DEF RunnerQueryFails, Fault, Goto
<1>6. ASSUME NEW r \in Runs, RunnerQuery(r) PROVE TypeOK'
  BY <1>6 DEF RunnerQuery, Goto
<1>7. ASSUME NEW r \in Runs, RunnerGate(r) PROVE TypeOK'
  BY <1>7 DEF RunnerGate, Goto
<1>8. ASSUME NEW r \in Runs, RunnerGraceStop(r) PROVE TypeOK'
  <2>1. CASE Asked(r, TRUE) /\ Goto(r, "close") /\ UNCHANGED faults
    <3>1. /\ row' \in [Runs -> RowStatuses] /\ eng' \in EngineState
          /\ stopWatch' \in [Runs -> WatchStates]
      BY <2>1, AskedType
    <3>2. pc' \in [Runs -> RunnerPcs]
      BY <2>1 DEF Goto
    <3> QED
      BY <1>8, <2>1, <3>1, <3>2 DEF RunnerGraceStop
  <2>2. CASE /\ Fault \/ UNCHANGED faults
             /\ Goto(r, "err") /\ UNCHANGED <<row, eng, stopWatch>>
    <3>1. faults' \in Nat /\ pc' \in [Runs -> RunnerPcs]
      BY <2>2 DEF Fault, Goto
    <3> QED
      BY <1>8, <2>2, <3>1 DEF RunnerGraceStop
  <2> QED
    BY <1>8, <2>1, <2>2 DEF RunnerGraceStop
<1>9. ASSUME NEW r \in Runs, RunnerClosePrepared(r) PROVE TypeOK'
  <2>1. row' \in [Runs -> RowStatuses] /\ faults' \in Nat
    BY <1>9, ClosePreparedType
  <2>2. pc' \in [Runs -> RunnerPcs]
    <3>1. \E p \in {"err", "closed"} : Goto(r, p)
      BY <1>9 DEF RunnerClosePrepared
    <3> QED
      BY <3>1 DEF Goto
  <2> QED
    BY <1>9, <2>1, <2>2 DEF RunnerClosePrepared
<1>10. ASSUME NEW r \in Runs, RunnerReleasePrepared(r) PROVE TypeOK'
  <2>1. faults' \in Nat /\ seen' \in [Runs -> RowStatuses] /\ pc' \in [Runs -> RunnerPcs]
    <3>1. faults' \in Nat
      BY <1>10 DEF RunnerReleasePrepared, Fault
    <3>2. seen' \in [Runs -> RowStatuses]
      BY <1>10 DEF RunnerReleasePrepared
    <3>3. \E p \in {"ok", "err"} : Goto(r, p)
      BY <1>10 DEF RunnerReleasePrepared
    <3>4. pc' \in [Runs -> RunnerPcs]
      BY <3>3 DEF Goto
    <3> QED
      BY <3>1, <3>2, <3>4
  <2>2. row[r] \in RowStatuses /\ eng \in EngineState
    OBVIOUS
  <2>3. eng' \in EngineState
    BY ONLY <1>10, <2>2 DEF RunnerReleasePrepared, EngineState
  <2> QED
    BY <1>10, <2>1, <2>3 DEF RunnerReleasePrepared
<1>11. ASSUME NEW r \in Runs, RunnerEnter(r) PROVE TypeOK'
  BY <1>11, EnterType DEF RunnerEnter
<1>12. ASSUME NEW r \in Runs, RunnerOpenFails(r) PROVE TypeOK'
  <2>1. eng' \in EngineState
    BY <1>12, EngineType DEF RunnerOpenFails
  <2>2. stopWatch' \in [Runs -> WatchStates] /\ pc' \in [Runs -> RunnerPcs] /\ faults'
     \in Nat
    BY <1>12 DEF RunnerOpenFails, WatchReleased, Goto, Fault
  <2> QED
    BY <1>12, <2>1, <2>2 DEF RunnerOpenFails
<1>13. ASSUME NEW r \in Runs, RunnerOpen(r) PROVE TypeOK'
  BY <1>13 DEF RunnerOpen, Goto
<1>14. ASSUME NEW r \in Runs, FinalDecide(r) PROVE TypeOK'
  <2>1. PICK s \in RowStatuses : Decide(r, s)
    BY <1>14, ResultType DEF FinalDecide
  <2>2. eng' \in EngineState /\ seen' \in [Runs -> RowStatuses]
    BY <2>1, DecideType
  <2>3. row' \in [Runs -> RowStatuses] /\ faults' \in Nat
    BY <1>14, AbortedType, SetRowType DEF FinalDecide, Fault
  <2>4. pc' \in [Runs -> RunnerPcs]
    <3>1. \E p \in {"finalizing", "ending"} : Goto(r, p)
      BY <1>14 DEF FinalDecide
    <3> QED
      BY <3>1 DEF Goto
  <2> QED
    BY <1>14, <2>2, <2>3, <2>4 DEF FinalDecide
<1>15. ASSUME NEW r \in Runs, FinalPersist(r) PROVE TypeOK'
  <2>1. /\ row' \in [Runs -> RowStatuses] /\ faults' \in Nat
        /\ eng' \in EngineState /\ seen' \in [Runs -> RowStatuses]
    BY <1>15, FinalPersistType
  <2>2. pc' \in [Runs -> RunnerPcs]
    BY <1>15 DEF FinalPersist, Goto
  <2> QED
    BY <1>15, <2>1, <2>2 DEF FinalPersist
<1>16. ASSUME NEW r \in Runs, Release(r) PROVE TypeOK'
  BY <1>16, EngineType DEF Release, WatchReleased, Goto
<1>17. ASSUME NEW r \in Runs, AfterResult(r) PROVE TypeOK'
  <2>1. row' \in [Runs -> RowStatuses]
    BY <1>17, FinishedType, SetRowType DEF AfterResult
  <2> QED
    BY <1>17, <2>1 DEF AfterResult, Goto
<1>18. ASSUME NEW r \in Runs, AfterError(r) PROVE TypeOK'
  <2>1. row' \in [Runs -> RowStatuses] /\ faults' \in Nat
    BY <1>18, FinishRowType, AbortRowType DEF AfterError, ApiAfterError, Fault
  <2>2. eng' \in EngineState
    BY <1>18, EngineType DEF AfterError, ApiAfterError
  <2> QED
    BY <1>18, <2>1, <2>2 DEF AfterError, Goto
<1>19. ASSUME NEW r \in Runs, RunnerExit(r) PROVE TypeOK'
  BY <1>19 DEF RunnerExit, Goto, NoJob
<1>20. ASSUME NEW r \in Runs, StopCancel(r) PROVE TypeOK'
  BY <1>20 DEF StopCancel
<1>21. ASSUME NEW r \in Runs, StopWatchFire(r) PROVE TypeOK'
  <2>1. row' \in [Runs -> RowStatuses] /\ faults' \in Nat
    BY <1>21, AbortRowType DEF StopWatchFire
  <2> QED
    BY <1>21, <2>1 DEF StopWatchFire
<1>22. ASSUME NEW r \in Runs, StopWatchTell(r) PROVE TypeOK'
  BY <1>22, EngineType DEF StopWatchTell
<1>23. ASSUME NEW r \in Runs, StopWatchCancel(r) PROVE TypeOK'
  BY <1>23, EngineType DEF StopWatchCancel
<1>24. ASSUME NEW r \in Runs, TaskWatchFire(r) PROVE TypeOK'
  <2>1. row' \in [Runs -> RowStatuses] /\ faults' \in Nat
    BY <1>24, AbortRowType DEF TaskWatchFire
  <2> QED
    BY <1>24, <2>1 DEF TaskWatchFire
<1>25. ASSUME NEW r \in Runs, TaskWatchTell(r) PROVE TypeOK'
  BY <1>25, EngineType DEF TaskWatchTell
<1>26. ASSUME NEW r \in Runs, TaskWatchClear(r) PROVE TypeOK'
  BY <1>26 DEF TaskWatchClear
<1>27. ASSUME NEW r \in Runs, RequestStop(r) PROVE TypeOK'
  <2>1. PICK graceful \in BOOLEAN : Asked(r, graceful)
    BY <1>27 DEF RequestStop
  <2>2. /\ row' \in [Runs -> RowStatuses] /\ eng' \in EngineState
        /\ stopWatch' \in [Runs -> WatchStates]
    BY <2>1, AskedType
  <2> QED
    BY <1>27, <2>2 DEF RequestStop
<1>28. ASSUME NEW r \in Runs, CtxExpire(r) PROVE TypeOK'
  BY <1>28 DEF CtxExpire
<1>29. ASSUME NEW r \in Runs, ScheduleTimeout(r) PROVE TypeOK'
  <2>1. row' \in [Runs -> RowStatuses]
    BY <1>29, AbortedType, SetRowType DEF ScheduleTimeout
  <2> QED
    BY <1>29, <2>1 DEF ScheduleTimeout
<1>30. ASSUME NEW r \in Runs, NEW f \in Forms, FormStart(r, f) PROVE TypeOK'
  BY <1>30 DEF FormStart, SetForm
<1>31. ASSUME NEW r \in Runs, NEW f \in Forms, FormSkip(r, f) PROVE TypeOK'
  BY <1>31 DEF FormSkip, SetForm
<1>32. ASSUME NEW r \in Runs, NEW f \in Forms, FormSave(r, f) PROVE TypeOK'
  BY <1>32 DEF FormSave
<1>33. ASSUME NEW r \in Runs, NEW f \in Forms, FormSucceed(r, f) PROVE TypeOK'
  <2>1. cpOwner' \in [LargeForms -> Runs \cup {NoRun}] /\ faults' \in Nat
    BY <1>33 DEF FormSucceed, Fault
  <2> QED
    BY <1>33, <2>1 DEF FormSucceed, SetForm
<1>34. ASSUME NEW r \in Runs, NEW f \in Forms, FormFail(r, f) PROVE TypeOK'
  BY <1>34 DEF FormFail, SetForm
<1>35. ASSUME Shutdown PROVE TypeOK'
  <2>1. eng' \in EngineState
    BY <1>35 DEF Shutdown, EngineState
  <2> QED
    BY <1>35, <2>1 DEF Shutdown
<1>36. ASSUME DrainAsk PROVE TypeOK'
  <2>1. CASE Asked(eng.run, TRUE) /\ drain' = [pc |-> "look", run |-> eng.run] /\
     UNCHANGED faults
    <3>1. drain' \in [pc : DrainPcs, run : Runs \cup {NoRun}]
      BY <2>1 DEF EngineState
    <3> QED
      BY <1>36, <2>1, <3>1, AskedType DEF DrainAsk
  <2>2. CASE Fault /\ drain' = [drain EXCEPT !.pc = "exit"] /\ UNCHANGED <<row, eng,
     stopWatch>>
    <3>1. faults' \in Nat
      BY <2>2 DEF Fault
    <3> QED
      BY <1>36, <2>2, <3>1 DEF DrainAsk
  <2>3. CASE drain' = [drain EXCEPT !.pc = "exit"] /\ UNCHANGED <<row, eng, stopWatch,
     faults>>
    BY <1>36, <2>3 DEF DrainAsk
  <2> QED
    BY <1>36, <2>1, <2>2, <2>3 DEF DrainAsk
<1>37. ASSUME DrainLook PROVE TypeOK'
  BY <1>37 DEF DrainLook
<1>38. ASSUME DrainDone PROVE TypeOK'
  BY <1>38 DEF DrainDone
<1>39. ASSUME DrainTimeout PROVE TypeOK'
  <2>1. row' \in [Runs -> RowStatuses] /\ faults' \in Nat
    BY <1>39, AbortRowType DEF DrainTimeout
  <2> QED
    BY <1>39, <2>1 DEF DrainTimeout
<1>40. ASSUME DrainTell PROVE TypeOK'
  BY <1>40, EngineType DEF DrainTell
<1>41. ASSUME DrainCancel PROVE TypeOK'
  BY <1>41, EngineType DEF DrainCancel
<1>42. ASSUME Exit PROVE TypeOK'
  BY <1>42 DEF Exit, Halt, EngineIdle, NoJob, EngineState
<1>43. ASSUME Crash PROVE TypeOK'
  BY <1>43 DEF Crash, Halt, EngineIdle, NoJob, EngineState
<1>44. ASSUME Start PROVE TypeOK'
  BY <1>44 DEF Start
<1>45. ASSUME RecoverRow PROVE TypeOK'
  <2>1. PICK r \in todo :
          \/ /\ \/ row[r] = "running" /\ SetRow(r, "failed")
                \/ SetRow(r, Aborted(row[r]))
                \/ UNCHANGED row
             /\ todo' = todo \ {r} /\ UNCHANGED faults
          \/ Fault /\ todo' = {} /\ UNCHANGED row
    BY <1>45 DEF RecoverRow
  <2>2. row' \in [Runs -> RowStatuses]
    BY <2>1, AbortedType, SetRowType
  <2>3. faults' \in Nat /\ todo' \in SUBSET Runs
    BY <2>1 DEF Fault
  <2> QED
    BY <1>45, <2>2, <2>3 DEF RecoverRow
<1>46. ASSUME RecoverDone PROVE TypeOK'
  BY <1>46 DEF RecoverDone, Fault
<1>47. ASSUME ResumeNext PROVE TypeOK'
  <2>1. PICK p \in todo :
          \/ ResumePass(p)
          \/ \E r \in Runs : ResumeChild(p, r)
          \/ Fault /\ todo' = {} /\ UNCHANGED <<row, parent, eng, pc, job>>
    BY <1>47 DEF ResumeNext
  <2>2. CASE ResumePass(p)
    BY <1>47, <2>2 DEF ResumeNext, ResumePass
  <2>3. ASSUME NEW r \in Runs, ResumeChild(p, r) PROVE TypeOK'
    <3>1. job' \in [Runs -> [kind : CallerKinds \cup {"none"}, forms : SUBSET Forms]]
      BY <2>3 DEF ResumeChild, ResumableForms, LargeForms
    <3>2. /\ row' \in [Runs -> RowStatuses]
          /\ parent' \in [Runs -> Runs \cup {NoRun}]
          /\ pc' \in [Runs -> RunnerPcs]
          /\ todo' \in SUBSET Runs
      BY <2>1, <2>3 DEF ResumeChild, SetRow, Goto
    <3> QED
      BY <1>47, <2>3, <3>1, <3>2 DEF ResumeNext, ResumeChild
  <2>4. CASE Fault /\ todo' = {} /\ UNCHANGED <<row, parent, eng, pc, job>>
    BY <1>47, <2>4 DEF ResumeNext, Fault
  <2> QED
    BY <2>1, <2>2, <2>3, <2>4
<1>48. ASSUME Serve PROVE TypeOK'
  BY <1>48 DEF Serve
<1>49. CASE UNCHANGED vars
  BY <1>49 DEF vars
<1> QED
  BY <1>1, <1>2, <1>3, <1>4, <1>5, <1>6, <1>7, <1>8, <1>9, <1>10, <1>11, <1>12, <1>13,
     <1>14, <1>15, <1>16, <1>17, <1>18, <1>19, <1>20, <1>21, <1>22, <1>23, <1>24, <1>25,
     <1>26, <1>27, <1>28, <1>29, <1>30, <1>31, <1>32, <1>33, <1>34, <1>35, <1>36, <1>37,
     <1>38, <1>39, <1>40, <1>41, <1>42, <1>43, <1>44, <1>45, <1>46, <1>47, <1>48, <1>49 DEF
     Next, RunnerStep, FormStep, WatchStep, Request, ProcessStep, DrainStep

\* Every reachable state has the declared types: the status column only ever
\* holds statuses of the contract, and the engine's fields stay in range.
THEOREM TypeCorrect == Spec => []TypeOK
<1>1. Init => TypeOK
  BY ConstantsAssumption DEF Init, TypeOK, EngineIdle, EngineState, NoJob, RunnerPcs,
     LivePcs, BeforeRunSync, InRunSync,
     AfterRunSync, WatchStates, FormStates, DrainPcs, CallerKinds, RowStatuses
<1> QED
  BY <1>1, TypeStep, PTL DEF Spec

-----------------------------------------------------------------------------
\* The slot.

\* SingleExecution is not inductive by itself: that a run inside runSync owns
\* the slot has to be known from its reservation on, since Reserve only looks
\* at eng.active.
SlotOwned ==
  \A r \in Runs : pc[r] \in BeforeRunSync \cup InRunSync => eng.active /\ eng.run = r

SlotInv == SlotOwned /\ SingleExecution

LEMMA EngineKeeps ==
  ASSUME eng \in EngineState, NEW r
  PROVE  /\ ToldAbnormal(r).active = eng.active /\ ToldAbnormal(r).run = eng.run
         /\ ToldAbnormal(r).executing = eng.executing
         /\ CancelledActive(r).active = eng.active /\ CancelledActive(r).run = eng.run
         /\ CancelledActive(r).executing = eng.executing
BY DEF EngineState, ToldAbnormal, CancelledActive

LEMMA AskedKeeps ==
  ASSUME eng \in EngineState, NEW r, NEW graceful \in BOOLEAN, Asked(r, graceful)
  PROVE  eng'.active = eng.active /\ eng'.run = eng.run /\ eng'.executing = eng.executing
BY DEF EngineState, Asked

LEMMA DecideKeeps ==
  ASSUME eng \in EngineState, NEW r, NEW s, Decide(r, s)
  PROVE  eng'.active = eng.active /\ eng'.run = eng.run /\ eng'.executing = eng.executing
BY DEF EngineState, Decide

LEMMA SlotStep == TypeOK /\ SlotInv /\ [Next]_vars => SlotInv'
<1> SUFFICES ASSUME TypeOK, SlotInv, [Next]_vars PROVE SlotInv'
  OBVIOUS
<1>0. eng \in EngineState /\ pc \in [Runs -> RunnerPcs]
  BY DEF TypeOK
<1> USE <1>0 DEF SlotInv, SlotOwned, SingleExecution, BeforeRunSync, InRunSync,
   storeVars, runnerVars, watchVars, procVars
<1>1. ASSUME NEW r \in Runs, NEW k \in Kinds \ {"recovery"}, NEW fs \in Requests,
   Persist(r, k, fs) PROVE SlotInv'
  BY <1>1 DEF Persist, Goto
<1>2. ASSUME NEW r \in Runs, Reserve(r) PROVE SlotInv'
  BY <1>2 DEF Reserve, Begun, EngineIdle, Goto, EngineState
<1>3. ASSUME NEW r \in Runs, ReserveRejected(r) PROVE SlotInv'
  BY <1>3 DEF ReserveRejected, Goto
<1>4. ASSUME NEW r \in Runs, RunnerStart(r) PROVE SlotInv'
  BY <1>4 DEF RunnerStart, Goto
<1>5. ASSUME NEW r \in Runs, RunnerQueryFails(r) PROVE SlotInv'
  BY <1>5 DEF RunnerQueryFails, Goto
<1>6. ASSUME NEW r \in Runs, RunnerQuery(r) PROVE SlotInv'
  BY <1>6 DEF RunnerQuery, Goto
<1>7. ASSUME NEW r \in Runs, RunnerGate(r) PROVE SlotInv'
  BY <1>7 DEF RunnerGate, Goto
<1>8. ASSUME NEW r \in Runs, RunnerGraceStop(r) PROVE SlotInv'
  BY <1>8, AskedKeeps DEF RunnerGraceStop, Goto
<1>9. ASSUME NEW r \in Runs, RunnerClosePrepared(r) PROVE SlotInv'
  BY <1>9 DEF RunnerClosePrepared, Goto
<1>10. ASSUME NEW r \in Runs, RunnerReleasePrepared(r) PROVE SlotInv'
  BY <1>10 DEF RunnerReleasePrepared, Goto, EngineState
<1>11. ASSUME NEW r \in Runs, RunnerEnter(r) PROVE SlotInv'
  BY <1>11 DEF RunnerEnter, Goto, EngineState
<1>12. ASSUME NEW r \in Runs, RunnerOpenFails(r) PROVE SlotInv'
  BY <1>12 DEF RunnerOpenFails, Released, Goto, EngineState
<1>13. ASSUME NEW r \in Runs, RunnerOpen(r) PROVE SlotInv'
  BY <1>13 DEF RunnerOpen, Goto
<1>14. ASSUME NEW r \in Runs, FinalDecide(r) PROVE SlotInv'
  BY <1>14, DecideKeeps DEF FinalDecide, Goto
<1>15. ASSUME NEW r \in Runs, FinalPersist(r) PROVE SlotInv'
  BY <1>15, DecideKeeps DEF FinalPersist, Goto
<1>16. ASSUME NEW r \in Runs, Release(r) PROVE SlotInv'
  BY <1>16 DEF Release, Released, Goto, EngineState
<1>17. ASSUME NEW r \in Runs, AfterResult(r) PROVE SlotInv'
  BY <1>17 DEF AfterResult, Goto
<1>18. ASSUME NEW r \in Runs, AfterError(r) PROVE SlotInv'
  BY <1>18, EngineKeeps DEF AfterError, ApiAfterError, Goto
<1>19. ASSUME NEW r \in Runs, RunnerExit(r) PROVE SlotInv'
  BY <1>19 DEF RunnerExit, Goto
<1>20. ASSUME NEW r \in Runs, StopCancel(r) PROVE SlotInv'
  BY <1>20 DEF StopCancel
<1>21. ASSUME NEW r \in Runs, StopWatchFire(r) PROVE SlotInv'
  BY <1>21 DEF StopWatchFire
<1>22. ASSUME NEW r \in Runs, StopWatchTell(r) PROVE SlotInv'
  BY <1>22, EngineKeeps DEF StopWatchTell
<1>23. ASSUME NEW r \in Runs, StopWatchCancel(r) PROVE SlotInv'
  BY <1>23, EngineKeeps DEF StopWatchCancel
<1>24. ASSUME NEW r \in Runs, TaskWatchFire(r) PROVE SlotInv'
  BY <1>24 DEF TaskWatchFire
<1>25. ASSUME NEW r \in Runs, TaskWatchTell(r) PROVE SlotInv'
  BY <1>25, EngineKeeps DEF TaskWatchTell
<1>26. ASSUME NEW r \in Runs, TaskWatchClear(r) PROVE SlotInv'
  BY <1>26 DEF TaskWatchClear
<1>27. ASSUME NEW r \in Runs, RequestStop(r) PROVE SlotInv'
  BY <1>27, AskedKeeps DEF RequestStop
<1>28. ASSUME NEW r \in Runs, CtxExpire(r) PROVE SlotInv'
  BY <1>28 DEF CtxExpire
<1>29. ASSUME NEW r \in Runs, ScheduleTimeout(r) PROVE SlotInv'
  BY <1>29 DEF ScheduleTimeout
<1>30. ASSUME NEW r \in Runs, NEW f \in Forms, FormStart(r, f) PROVE SlotInv'
  BY <1>30 DEF FormStart
<1>31. ASSUME NEW r \in Runs, NEW f \in Forms, FormSkip(r, f) PROVE SlotInv'
  BY <1>31 DEF FormSkip
<1>32. ASSUME NEW r \in Runs, NEW f \in Forms, FormSave(r, f) PROVE SlotInv'
  BY <1>32 DEF FormSave
<1>33. ASSUME NEW r \in Runs, NEW f \in Forms, FormSucceed(r, f) PROVE SlotInv'
  BY <1>33 DEF FormSucceed
<1>34. ASSUME NEW r \in Runs, NEW f \in Forms, FormFail(r, f) PROVE SlotInv'
  BY <1>34 DEF FormFail
<1>35. ASSUME Shutdown PROVE SlotInv'
  BY <1>35 DEF Shutdown, EngineState
<1>36. ASSUME DrainAsk PROVE SlotInv'
  BY <1>36, AskedKeeps DEF DrainAsk
<1>37. ASSUME DrainLook PROVE SlotInv'
  BY <1>37 DEF DrainLook
<1>38. ASSUME DrainDone PROVE SlotInv'
  BY <1>38 DEF DrainDone
<1>39. ASSUME DrainTimeout PROVE SlotInv'
  BY <1>39 DEF DrainTimeout
<1>40. ASSUME DrainTell PROVE SlotInv'
  BY <1>40, EngineKeeps DEF DrainTell
<1>41. ASSUME DrainCancel PROVE SlotInv'
  BY <1>41, EngineKeeps DEF DrainCancel
<1>42. ASSUME Exit PROVE SlotInv'
  BY <1>42 DEF Exit, Halt, EngineIdle, EngineState
<1>43. ASSUME Crash PROVE SlotInv'
  BY <1>43 DEF Crash, Halt, EngineIdle, EngineState
<1>44. ASSUME Start PROVE SlotInv'
  BY <1>44 DEF Start
<1>45. ASSUME RecoverRow PROVE SlotInv'
  BY <1>45 DEF RecoverRow
<1>46. ASSUME RecoverDone PROVE SlotInv'
  BY <1>46 DEF RecoverDone
<1>47. ASSUME ResumeNext PROVE SlotInv'
  BY <1>47 DEF ResumeNext, ResumePass, ResumeChild, Goto
<1>48. ASSUME Serve PROVE SlotInv'
  BY <1>48 DEF Serve
<1>49. CASE UNCHANGED vars
  BY <1>49 DEF vars
<1> QED
  BY <1>1, <1>2, <1>3, <1>4, <1>5, <1>6, <1>7, <1>8, <1>9, <1>10, <1>11, <1>12, <1>13,
     <1>14, <1>15, <1>16, <1>17, <1>18, <1>19, <1>20, <1>21, <1>22, <1>23, <1>24, <1>25,
     <1>26, <1>27, <1>28, <1>29, <1>30, <1>31, <1>32, <1>33, <1>34, <1>35, <1>36, <1>37,
     <1>38, <1>39, <1>40, <1>41, <1>42, <1>43, <1>44, <1>45, <1>46, <1>47, <1>48, <1>49 DEF
     Next, RunnerStep, FormStep, WatchStep, Request, ProcessStep, DrainStep

\* At most one run is inside runSync, and the engine's slot is its own.
THEOREM SingleExecutionHolds == Spec => []SingleExecution
<1>1. Init => SlotInv
  BY DEF Init, SlotInv, SlotOwned, SingleExecution, BeforeRunSync, InRunSync
<1>2. SlotInv => SingleExecution
  BY DEF SlotInv
<1> QED
  BY <1>1, <1>2, SlotStep, TypeCorrect, PTL DEF Spec

-----------------------------------------------------------------------------
\* What a call of the state database does to the rows, as steps of RunLifecycle.

RowStep == Lifecycle!Next \/ UNCHANGED <<row, parent>>

USE DEF ActiveStatuses, TerminalStatuses, Statuses, Absent, Abnormal,
        Lifecycle!ActiveStatuses, Lifecycle!TerminalStatuses, Lifecycle!Statuses,
        Lifecycle!Absent, Lifecycle!Abnormal

LEMMA StoreUntouched == UNCHANGED storeVars => RowStep
BY DEF storeVars, RowStep

LEMMA CreateStep ==
  ASSUME NEW r \in Runs, row[r] = Absent, SetRow(r, "running"), UNCHANGED parent
  PROVE  RowStep
BY DEF SetRow, RowStep, Lifecycle!Next, Lifecycle!Create

LEMMA AdvanceStep ==
  ASSUME NEW r \in Runs, NEW s \in Statuses, row[r] \in ActiveStatuses,
         CanTransition(row[r], s), SetRow(r, s), UNCHANGED parent
  PROVE  RowStep
<1>1. Lifecycle!Advance(r, s)
  BY DEF SetRow, Lifecycle!Advance, CanTransition, Lifecycle!CanTransition
<1> QED
  BY <1>1 DEF RowStep, Lifecycle!Next

LEMMA SameStep ==
  ASSUME row \in [Runs -> RowStatuses], NEW r, SetRow(r, row[r]), UNCHANGED parent
  PROVE  RowStep
BY DEF SetRow, RowStep

\* FinishSyncRun either leaves the row or makes a transition of the contract.
LEMMA FinishedMoves ==
  ASSUME NEW from \in RowStatuses, NEW to
  PROVE  \/ Finished(from, to) = from
         \/ /\ from \in ActiveStatuses
            /\ Finished(from, to) \in Statuses
            /\ CanTransition(from, Finished(from, to))
BY DEF Finished, FinishRejected, FinishTarget, RowStatuses

LEMMA FinishStep ==
  ASSUME row \in [Runs -> RowStatuses], NEW r \in Runs, NEW s,
         SetRow(r, Finished(row[r], s)), UNCHANGED parent
  PROVE  RowStep
<1>1. CASE Finished(row[r], s) = row[r]
  BY <1>1, SameStep
<1>2. CASE /\ row[r] \in ActiveStatuses
           /\ Finished(row[r], s) \in Statuses
           /\ CanTransition(row[r], Finished(row[r], s))
  BY <1>2, AdvanceStep
<1> QED
  BY <1>1, <1>2, FinishedMoves

\* MarkSyncRunAbnormalExit gives an active run up and leaves the others.
LEMMA AbortStep ==
  ASSUME row \in [Runs -> RowStatuses], NEW r, SetRow(r, Aborted(row[r])), UNCHANGED
     parent
  PROVE  RowStep
<1>1. CASE r \in Runs /\ row[r] \in ActiveStatuses
  <2>1. Lifecycle!Abort(r)
    BY <1>1 DEF SetRow, Aborted, Lifecycle!Abort
  <2> QED
    BY <1>1, <2>1 DEF RowStep, Lifecycle!Next
<1>2. CASE r \in Runs /\ row[r] \notin ActiveStatuses
  BY <1>2, SameStep DEF Aborted
<1>3. CASE r \notin Runs
  BY <1>3 DEF SetRow, RowStep
<1> QED
  BY <1>1, <1>2, <1>3

LEMMA AskedStep ==
  ASSUME row \in [Runs -> RowStatuses], NEW r, NEW graceful, Asked(r, graceful),
     UNCHANGED parent
  PROVE  RowStep
<1>1. row[r] \in ActiveStatuses /\ SetRow(r, "stopping")
  BY DEF Asked
<1>2. CASE r \in Runs
  BY <1>1, <1>2, AdvanceStep DEF CanTransition
<1>3. CASE r \notin Runs
  BY <1>1, <1>3 DEF SetRow, RowStep
<1> QED
  BY <1>2, <1>3

-----------------------------------------------------------------------------
\* The runs recovery still has to look at are abnormal, and stay so.
ResumeOfAbnormal == phase = "resume" => \A p \in todo : row[p] = Abnormal

LEMMA NextRowStep ==
  ASSUME TypeOK, ResumeOfAbnormal, Next
  PROVE  RowStep
<1>0. row \in [Runs -> RowStatuses] /\ todo \in SUBSET Runs
  BY DEF TypeOK
<1> USE <1>0
<1>1. ASSUME NEW r \in Runs, NEW k \in Kinds \ {"recovery"}, NEW fs \in Requests,
   Persist(r, k, fs) PROVE RowStep
  BY <1>1, CreateStep DEF Persist, Fresh
<1>2. ASSUME NEW r \in Runs, Reserve(r) PROVE RowStep
  BY <1>2 DEF Reserve, RowStep, storeVars
<1>3. ASSUME NEW r \in Runs, ReserveRejected(r) PROVE RowStep
  BY <1>3, FinishStep, StoreUntouched DEF ReserveRejected, FinishRow, storeVars
<1>4. ASSUME NEW r \in Runs, RunnerStart(r) PROVE RowStep
  BY <1>4 DEF RunnerStart, RowStep, storeVars
<1>5. ASSUME NEW r \in Runs, RunnerQueryFails(r) PROVE RowStep
  BY <1>5 DEF RunnerQueryFails, RowStep, storeVars
<1>6. ASSUME NEW r \in Runs, RunnerQuery(r) PROVE RowStep
  BY <1>6 DEF RunnerQuery, RowStep, storeVars
<1>7. ASSUME NEW r \in Runs, RunnerGate(r) PROVE RowStep
  BY <1>7 DEF RunnerGate, RowStep, storeVars
<1>8. ASSUME NEW r \in Runs, RunnerGraceStop(r) PROVE RowStep
  BY <1>8, AskedStep, StoreUntouched DEF RunnerGraceStop, storeVars
<1>9. ASSUME NEW r \in Runs, RunnerClosePrepared(r) PROVE RowStep
  BY <1>9, FinishStep, StoreUntouched DEF RunnerClosePrepared, storeVars
<1>10. ASSUME NEW r \in Runs, RunnerReleasePrepared(r) PROVE RowStep
  BY <1>10 DEF RunnerReleasePrepared, RowStep, storeVars
<1>11. ASSUME NEW r \in Runs, RunnerEnter(r) PROVE RowStep
  BY <1>11 DEF RunnerEnter, RowStep, storeVars
<1>12. ASSUME NEW r \in Runs, RunnerOpenFails(r) PROVE RowStep
  BY <1>12 DEF RunnerOpenFails, RowStep, storeVars
<1>13. ASSUME NEW r \in Runs, RunnerOpen(r) PROVE RowStep
  BY <1>13 DEF RunnerOpen, RowStep, storeVars
<1>14. ASSUME NEW r \in Runs, FinalDecide(r) PROVE RowStep
  <2>1. CASE UNCHANGED row
    BY <1>14, <2>1 DEF FinalDecide, RowStep
  <2>2. CASE SetRow(r, Aborted(row[r]))
    BY <1>14, <2>2, AbortStep DEF FinalDecide
  <2>3. CASE SetRow(r, row[r])
    BY <1>14, <2>3, SameStep DEF FinalDecide
  <2>4. CASE row[r] = "running" /\ SetRow(r, "stopping")
    BY <1>14, <2>4, AdvanceStep DEF FinalDecide, CanTransition
  <2> QED
    BY <1>14, <2>1, <2>2, <2>3, <2>4 DEF FinalDecide
<1>15. ASSUME NEW r \in Runs, FinalPersist(r) PROVE RowStep
  <2>1. CASE SetRow(r, row[r])
    BY <1>15, <2>1, SameStep DEF FinalPersist
  <2>2. CASE SetRow(r, Finished(row[r], seen[r]))
    BY <1>15, <2>2, FinishStep DEF FinalPersist
  <2>3. CASE UNCHANGED row
    BY <1>15, <2>3 DEF FinalPersist, RowStep
  <2> QED
    BY <1>15, <2>1, <2>2, <2>3 DEF FinalPersist
<1>16. ASSUME NEW r \in Runs, Release(r) PROVE RowStep
  BY <1>16 DEF Release, RowStep, storeVars
<1>17. ASSUME NEW r \in Runs, AfterResult(r) PROVE RowStep
  BY <1>17, FinishStep, SameStep DEF AfterResult
<1>18. ASSUME NEW r \in Runs, AfterError(r) PROVE RowStep
  BY <1>18, FinishStep, AbortStep, StoreUntouched DEF AfterError, ApiAfterError,
     FinishRow, AbortRow, storeVars
<1>19. ASSUME NEW r \in Runs, RunnerExit(r) PROVE RowStep
  BY <1>19 DEF RunnerExit, RowStep, storeVars
<1>20. ASSUME NEW r \in Runs, StopCancel(r) PROVE RowStep
  BY <1>20 DEF StopCancel, RowStep, storeVars
<1>21. ASSUME NEW r \in Runs, StopWatchFire(r) PROVE RowStep
  BY <1>21, AbortStep, StoreUntouched DEF StopWatchFire, AbortRow, storeVars
<1>22. ASSUME NEW r \in Runs, StopWatchTell(r) PROVE RowStep
  BY <1>22 DEF StopWatchTell, RowStep, storeVars
<1>23. ASSUME NEW r \in Runs, StopWatchCancel(r) PROVE RowStep
  BY <1>23 DEF StopWatchCancel, RowStep, storeVars
<1>24. ASSUME NEW r \in Runs, TaskWatchFire(r) PROVE RowStep
  BY <1>24, AbortStep, StoreUntouched DEF TaskWatchFire, AbortRow, storeVars
<1>25. ASSUME NEW r \in Runs, TaskWatchTell(r) PROVE RowStep
  BY <1>25 DEF TaskWatchTell, RowStep, storeVars
<1>26. ASSUME NEW r \in Runs, TaskWatchClear(r) PROVE RowStep
  BY <1>26 DEF TaskWatchClear, RowStep, storeVars
<1>27. ASSUME NEW r \in Runs, RequestStop(r) PROVE RowStep
  BY <1>27, AskedStep DEF RequestStop
<1>28. ASSUME NEW r \in Runs, CtxExpire(r) PROVE RowStep
  BY <1>28 DEF CtxExpire, RowStep, storeVars
<1>29. ASSUME NEW r \in Runs, ScheduleTimeout(r) PROVE RowStep
  BY <1>29, AbortStep DEF ScheduleTimeout
<1>30. ASSUME NEW r \in Runs, NEW f \in Forms, FormStart(r, f) PROVE RowStep
  BY <1>30 DEF FormStart, RowStep, storeVars
<1>31. ASSUME NEW r \in Runs, NEW f \in Forms, FormSkip(r, f) PROVE RowStep
  BY <1>31 DEF FormSkip, RowStep, storeVars
<1>32. ASSUME NEW r \in Runs, NEW f \in Forms, FormSave(r, f) PROVE RowStep
  BY <1>32 DEF FormSave, RowStep, storeVars
<1>33. ASSUME NEW r \in Runs, NEW f \in Forms, FormSucceed(r, f) PROVE RowStep
  BY <1>33 DEF FormSucceed, RowStep, storeVars
<1>34. ASSUME NEW r \in Runs, NEW f \in Forms, FormFail(r, f) PROVE RowStep
  BY <1>34 DEF FormFail, RowStep, storeVars
<1>35. ASSUME Shutdown PROVE RowStep
  BY <1>35 DEF Shutdown, RowStep, storeVars
<1>36. ASSUME DrainAsk PROVE RowStep
  BY <1>36, AskedStep, StoreUntouched DEF DrainAsk, storeVars
<1>37. ASSUME DrainLook PROVE RowStep
  BY <1>37 DEF DrainLook, RowStep, storeVars
<1>38. ASSUME DrainDone PROVE RowStep
  BY <1>38 DEF DrainDone, RowStep, storeVars
<1>39. ASSUME DrainTimeout PROVE RowStep
  BY <1>39, AbortStep, StoreUntouched DEF DrainTimeout, AbortRow, storeVars
<1>40. ASSUME DrainTell PROVE RowStep
  BY <1>40 DEF DrainTell, RowStep, storeVars
<1>41. ASSUME DrainCancel PROVE RowStep
  BY <1>41 DEF DrainCancel, RowStep, storeVars
<1>42. ASSUME Exit PROVE RowStep
  BY <1>42 DEF Exit, Halt, RowStep, storeVars
<1>43. ASSUME Crash PROVE RowStep
  BY <1>43 DEF Crash, Halt, RowStep, storeVars
<1>44. ASSUME Start PROVE RowStep
  BY <1>44 DEF Start, RowStep, storeVars
<1>45. ASSUME RecoverRow PROVE RowStep
  <2>1. PICK q \in todo : \/ row[q] = "running" /\ SetRow(q, "failed")
                         \/ SetRow(q, Aborted(row[q]))
                         \/ UNCHANGED row
    BY <1>45 DEF RecoverRow
  <2>2. UNCHANGED parent
    BY <1>45 DEF RecoverRow
  <2>3. CASE row[q] = "running" /\ SetRow(q, "failed")
    BY <2>2, <2>3, AdvanceStep DEF CanTransition
  <2>4. CASE SetRow(q, Aborted(row[q]))
    BY <2>2, <2>4, AbortStep
  <2>5. CASE UNCHANGED row
    BY <2>2, <2>5 DEF RowStep
  <2> QED
    BY <2>1, <2>3, <2>4, <2>5
<1>46. ASSUME RecoverDone PROVE RowStep
  BY <1>46 DEF RecoverDone, RowStep, storeVars
<1>47. ASSUME ResumeNext PROVE RowStep
  <2>1. PICK p \in todo :
          \/ ResumePass(p)
          \/ \E r \in Runs : ResumeChild(p, r)
          \/ Fault /\ todo' = {} /\ UNCHANGED <<row, parent, eng, pc, job>>
    BY <1>47 DEF ResumeNext
  <2>2. CASE UNCHANGED <<row, parent>>
    BY <2>2 DEF RowStep
  <2>3. ASSUME NEW r \in Runs, ResumeChild(p, r) PROVE RowStep
    <3>1. row[p] = Abnormal
      BY <1>47 DEF ResumeNext, ResumeOfAbnormal
    <3>2. Lifecycle!CreateRecovery(r, p)
      BY <2>3, <3>1 DEF ResumeChild, Fresh, SetRow, Lifecycle!CreateRecovery
    <3> QED
      BY <3>2 DEF RowStep, Lifecycle!Next
  <2> QED
    BY <2>1, <2>2, <2>3 DEF ResumePass
<1>48. ASSUME Serve PROVE RowStep
  BY <1>48 DEF Serve, RowStep, storeVars
<1> QED
  BY <1>1, <1>2, <1>3, <1>4, <1>5, <1>6, <1>7, <1>8, <1>9, <1>10, <1>11, <1>12, <1>13,
     <1>14, <1>15, <1>16, <1>17, <1>18, <1>19, <1>20, <1>21, <1>22, <1>23, <1>24, <1>25,
     <1>26, <1>27, <1>28, <1>29, <1>30, <1>31, <1>32, <1>33, <1>34, <1>35, <1>36, <1>37,
     <1>38, <1>39, <1>40, <1>41, <1>42, <1>43, <1>44, <1>45, <1>46, <1>47, <1>48 DEF Next,
     RunnerStep, FormStep, WatchStep, Request, ProcessStep, DrainStep

\* A row that ended is final, a stopping one can only end stopped or abnormal.
LEMMA RowEnds ==
  ASSUME row \in [Runs -> RowStatuses], RowStep, NEW q \in Runs
  PROVE  /\ row[q] \in TerminalStatuses => row'[q] = row[q]
         /\ row[q] = "stopping" => row'[q] \in {"stopping", "stopped", Abnormal}
         /\ row[q] # Absent => row'[q] # Absent
<1>1. ASSUME NEW r \in Runs, Lifecycle!Create(r) PROVE row[q] # Absent => row'[q] = row[q]
  BY <1>1 DEF Lifecycle!Create
<1>2. ASSUME NEW r \in Runs, NEW p \in Runs, Lifecycle!CreateRecovery(r, p)
      PROVE  row[q] # Absent => row'[q] = row[q]
  BY <1>2 DEF Lifecycle!CreateRecovery
<1>3. ASSUME NEW r \in Runs, NEW s \in Statuses, Lifecycle!Advance(r, s)
      PROVE  \/ row'[q] = row[q]
             \/ row[q] = "running" /\ row'[q] \in Statuses
             \/ row[q] = "stopping" /\ row'[q] \in {"stopping", "stopped"}
  BY <1>3 DEF Lifecycle!Advance, Lifecycle!CanTransition
<1>4. ASSUME NEW r \in Runs, Lifecycle!Abort(r)
      PROVE  row'[q] = row[q] \/ (row[q] \in ActiveStatuses /\ row'[q] = Abnormal)
  BY <1>4 DEF Lifecycle!Abort
<1> QED
  BY <1>1, <1>2, <1>3, <1>4 DEF RowStep, Lifecycle!Next

\* What a step leaves for the recovery loop.
TodoStep ==
  phase' = "resume" =>
    \/ phase = "resume" /\ todo' \subseteq todo
    \/ UNCHANGED row /\ \A p \in todo' : row[p] = Abnormal

LEMMA NextTodoStep == ASSUME Next PROVE TodoStep
<1> USE DEF TodoStep
<1>1. ASSUME NEW r \in Runs, NEW k \in Kinds \ {"recovery"}, NEW fs \in Requests,
   Persist(r, k, fs) PROVE TodoStep
  BY <1>1 DEF Persist, procVars
<1>2. ASSUME NEW r \in Runs, Reserve(r) PROVE TodoStep
  BY <1>2 DEF Reserve, procVars
<1>3. ASSUME NEW r \in Runs, ReserveRejected(r) PROVE TodoStep
  BY <1>3 DEF ReserveRejected, procVars
<1>4. ASSUME NEW r \in Runs, RunnerStart(r) PROVE TodoStep
  BY <1>4 DEF RunnerStart, procVars
<1>5. ASSUME NEW r \in Runs, RunnerQueryFails(r) PROVE TodoStep
  BY <1>5 DEF RunnerQueryFails, procVars
<1>6. ASSUME NEW r \in Runs, RunnerQuery(r) PROVE TodoStep
  BY <1>6 DEF RunnerQuery, procVars
<1>7. ASSUME NEW r \in Runs, RunnerGate(r) PROVE TodoStep
  BY <1>7 DEF RunnerGate, procVars
<1>8. ASSUME NEW r \in Runs, RunnerGraceStop(r) PROVE TodoStep
  BY <1>8 DEF RunnerGraceStop, procVars
<1>9. ASSUME NEW r \in Runs, RunnerClosePrepared(r) PROVE TodoStep
  BY <1>9 DEF RunnerClosePrepared, procVars
<1>10. ASSUME NEW r \in Runs, RunnerReleasePrepared(r) PROVE TodoStep
  BY <1>10 DEF RunnerReleasePrepared, procVars
<1>11. ASSUME NEW r \in Runs, RunnerEnter(r) PROVE TodoStep
  BY <1>11 DEF RunnerEnter, procVars
<1>12. ASSUME NEW r \in Runs, RunnerOpenFails(r) PROVE TodoStep
  BY <1>12 DEF RunnerOpenFails, procVars
<1>13. ASSUME NEW r \in Runs, RunnerOpen(r) PROVE TodoStep
  BY <1>13 DEF RunnerOpen, procVars
<1>14. ASSUME NEW r \in Runs, FinalDecide(r) PROVE TodoStep
  BY <1>14 DEF FinalDecide, procVars
<1>15. ASSUME NEW r \in Runs, FinalPersist(r) PROVE TodoStep
  BY <1>15 DEF FinalPersist, procVars
<1>16. ASSUME NEW r \in Runs, Release(r) PROVE TodoStep
  BY <1>16 DEF Release, procVars
<1>17. ASSUME NEW r \in Runs, AfterResult(r) PROVE TodoStep
  BY <1>17 DEF AfterResult, procVars
<1>18. ASSUME NEW r \in Runs, AfterError(r) PROVE TodoStep
  BY <1>18 DEF AfterError, procVars
<1>19. ASSUME NEW r \in Runs, RunnerExit(r) PROVE TodoStep
  BY <1>19 DEF RunnerExit, procVars
<1>20. ASSUME NEW r \in Runs, StopCancel(r) PROVE TodoStep
  BY <1>20 DEF StopCancel, procVars
<1>21. ASSUME NEW r \in Runs, StopWatchFire(r) PROVE TodoStep
  BY <1>21 DEF StopWatchFire, procVars
<1>22. ASSUME NEW r \in Runs, StopWatchTell(r) PROVE TodoStep
  BY <1>22 DEF StopWatchTell, procVars
<1>23. ASSUME NEW r \in Runs, StopWatchCancel(r) PROVE TodoStep
  BY <1>23 DEF StopWatchCancel, procVars
<1>24. ASSUME NEW r \in Runs, TaskWatchFire(r) PROVE TodoStep
  BY <1>24 DEF TaskWatchFire, procVars
<1>25. ASSUME NEW r \in Runs, TaskWatchTell(r) PROVE TodoStep
  BY <1>25 DEF TaskWatchTell, procVars
<1>26. ASSUME NEW r \in Runs, TaskWatchClear(r) PROVE TodoStep
  BY <1>26 DEF TaskWatchClear, procVars
<1>27. ASSUME NEW r \in Runs, RequestStop(r) PROVE TodoStep
  BY <1>27 DEF RequestStop, procVars
<1>28. ASSUME NEW r \in Runs, CtxExpire(r) PROVE TodoStep
  BY <1>28 DEF CtxExpire, procVars
<1>29. ASSUME NEW r \in Runs, ScheduleTimeout(r) PROVE TodoStep
  BY <1>29 DEF ScheduleTimeout, procVars
<1>30. ASSUME NEW r \in Runs, NEW f \in Forms, FormStart(r, f) PROVE TodoStep
  BY <1>30 DEF FormStart, procVars
<1>31. ASSUME NEW r \in Runs, NEW f \in Forms, FormSkip(r, f) PROVE TodoStep
  BY <1>31 DEF FormSkip, procVars
<1>32. ASSUME NEW r \in Runs, NEW f \in Forms, FormSave(r, f) PROVE TodoStep
  BY <1>32 DEF FormSave, procVars
<1>33. ASSUME NEW r \in Runs, NEW f \in Forms, FormSucceed(r, f) PROVE TodoStep
  BY <1>33 DEF FormSucceed, procVars
<1>34. ASSUME NEW r \in Runs, NEW f \in Forms, FormFail(r, f) PROVE TodoStep
  BY <1>34 DEF FormFail, procVars
<1>35. ASSUME Shutdown PROVE TodoStep
  BY <1>35 DEF Shutdown, procVars
<1>36. ASSUME DrainAsk PROVE TodoStep
  BY <1>36 DEF DrainAsk, procVars
<1>37. ASSUME DrainLook PROVE TodoStep
  BY <1>37 DEF DrainLook, procVars
<1>38. ASSUME DrainDone PROVE TodoStep
  BY <1>38 DEF DrainDone, procVars
<1>39. ASSUME DrainTimeout PROVE TodoStep
  BY <1>39 DEF DrainTimeout, procVars
<1>40. ASSUME DrainTell PROVE TodoStep
  BY <1>40 DEF DrainTell, procVars
<1>41. ASSUME DrainCancel PROVE TodoStep
  BY <1>41 DEF DrainCancel, procVars
<1>42. ASSUME Exit PROVE TodoStep
  BY <1>42 DEF Exit, Halt, procVars
<1>43. ASSUME Crash PROVE TodoStep
  BY <1>43 DEF Crash, Halt, procVars
<1>44. ASSUME Start PROVE TodoStep
  BY <1>44 DEF Start, procVars
<1>45. ASSUME RecoverRow PROVE TodoStep
  BY <1>45 DEF RecoverRow, procVars
<1>46. ASSUME RecoverDone PROVE TodoStep
  BY <1>46 DEF RecoverDone, storeVars, procVars
<1>47. ASSUME ResumeNext PROVE TodoStep
  BY <1>47 DEF ResumeNext, ResumePass, ResumeChild, procVars
<1>48. ASSUME Serve PROVE TodoStep
  BY <1>48 DEF Serve, procVars
<1> QED
  BY <1>1, <1>2, <1>3, <1>4, <1>5, <1>6, <1>7, <1>8, <1>9, <1>10, <1>11, <1>12, <1>13,
     <1>14, <1>15, <1>16, <1>17, <1>18, <1>19, <1>20, <1>21, <1>22, <1>23, <1>24, <1>25,
     <1>26, <1>27, <1>28, <1>29, <1>30, <1>31, <1>32, <1>33, <1>34, <1>35, <1>36, <1>37,
     <1>38, <1>39, <1>40, <1>41, <1>42, <1>43, <1>44, <1>45, <1>46, <1>47, <1>48 DEF Next,
     RunnerStep, FormStep, WatchStep, Request, ProcessStep, DrainStep

\* What a step does to the slot's stop request: it is new only together with
\* its row, and otherwise it was there before, for the same run.
StopStep ==
  /\ eng'.active => eng'.run \in Runs
  /\ eng'.active /\ eng'.stopRequested =>
       \/ eng.active /\ eng.stopRequested /\ eng'.run = eng.run
       \/ row'[eng'.run] = "stopping"

ActiveHasRun == eng.active => eng.run \in Runs

LEMMA ToldStops ==
  ASSUME eng \in EngineState, NEW r
  PROVE  /\ ToldAbnormal(r).active = eng.active /\ ToldAbnormal(r).run = eng.run
         /\ ToldAbnormal(r).stopRequested = eng.stopRequested
         /\ CancelledActive(r).active = eng.active /\ CancelledActive(r).run = eng.run
         /\ CancelledActive(r).stopRequested = eng.stopRequested
BY DEF EngineState, ToldAbnormal, CancelledActive

LEMMA AskedStops ==
  ASSUME eng \in EngineState, row \in [Runs -> RowStatuses], ActiveHasRun,
         NEW r, NEW graceful \in BOOLEAN, Asked(r, graceful)
  PROVE  StopStep
<1>1. r \in Runs /\ eng.run = r /\ row'[r] = "stopping"
  BY DEF Asked, ActiveHasRun, SetRow
<1>2. eng'.run = eng.run
  BY DEF Asked, EngineState
<1> QED
  BY <1>1, <1>2 DEF StopStep

LEMMA DecideStops ==
  ASSUME eng \in EngineState, ActiveHasRun, NEW r, NEW s, Decide(r, s)
  PROVE  StopStep
BY DEF EngineState, Decide, StopStep, ActiveHasRun

LEMMA NextStopStep == ASSUME TypeOK, ActiveHasRun, Next PROVE StopStep
<1>0. eng \in EngineState /\ row \in [Runs -> RowStatuses]
  BY DEF TypeOK
<1>u. ASSUME UNCHANGED eng PROVE StopStep
  BY <1>u DEF StopStep, ActiveHasRun
<1>1. ASSUME NEW r \in Runs, NEW k \in Kinds \ {"recovery"}, NEW fs \in Requests,
   Persist(r, k, fs) PROVE StopStep
  BY <1>1, <1>u DEF Persist
<1>2. ASSUME NEW r \in Runs, Reserve(r) PROVE StopStep
  BY <1>2, <1>0 DEF Reserve, Begun, EngineIdle, StopStep
<1>3. ASSUME NEW r \in Runs, ReserveRejected(r) PROVE StopStep
  BY <1>3, <1>u DEF ReserveRejected
<1>4. ASSUME NEW r \in Runs, RunnerStart(r) PROVE StopStep
  BY <1>4, <1>u DEF RunnerStart
<1>5. ASSUME NEW r \in Runs, RunnerQueryFails(r) PROVE StopStep
  BY <1>5, <1>u DEF RunnerQueryFails
<1>6. ASSUME NEW r \in Runs, RunnerQuery(r) PROVE StopStep
  BY <1>6, <1>u DEF RunnerQuery
<1>7. ASSUME NEW r \in Runs, RunnerGate(r) PROVE StopStep
  BY <1>7, <1>u DEF RunnerGate
<1>8. ASSUME NEW r \in Runs, RunnerGraceStop(r) PROVE StopStep
  BY <1>8, <1>0, <1>u, AskedStops DEF RunnerGraceStop
<1>9. ASSUME NEW r \in Runs, RunnerClosePrepared(r) PROVE StopStep
  BY <1>9, <1>u DEF RunnerClosePrepared
<1>10. ASSUME NEW r \in Runs, RunnerReleasePrepared(r) PROVE StopStep
  BY <1>10, <1>0, <1>u DEF RunnerReleasePrepared, EngineState, StopStep, ActiveHasRun
<1>11. ASSUME NEW r \in Runs, RunnerEnter(r) PROVE StopStep
  BY <1>11, <1>0 DEF RunnerEnter, EngineState, StopStep, ActiveHasRun
<1>12. ASSUME NEW r \in Runs, RunnerOpenFails(r) PROVE StopStep
  BY <1>12, <1>0 DEF RunnerOpenFails, Released, EngineState, StopStep, ActiveHasRun
<1>13. ASSUME NEW r \in Runs, RunnerOpen(r) PROVE StopStep
  BY <1>13, <1>u DEF RunnerOpen
<1>14. ASSUME NEW r \in Runs, FinalDecide(r) PROVE StopStep
  BY <1>14, <1>0, DecideStops DEF FinalDecide
<1>15. ASSUME NEW r \in Runs, FinalPersist(r) PROVE StopStep
  BY <1>15, <1>0, <1>u, DecideStops DEF FinalPersist
<1>16. ASSUME NEW r \in Runs, Release(r) PROVE StopStep
  BY <1>16, <1>0 DEF Release, Released, EngineState, StopStep, ActiveHasRun
<1>17. ASSUME NEW r \in Runs, AfterResult(r) PROVE StopStep
  BY <1>17, <1>u DEF AfterResult
<1>18. ASSUME NEW r \in Runs, AfterError(r) PROVE StopStep
  BY <1>18, <1>0, <1>u, ToldStops DEF AfterError, ApiAfterError, StopStep, ActiveHasRun
<1>19. ASSUME NEW r \in Runs, RunnerExit(r) PROVE StopStep
  BY <1>19, <1>u DEF RunnerExit
<1>20. ASSUME NEW r \in Runs, StopCancel(r) PROVE StopStep
  BY <1>20, <1>u DEF StopCancel
<1>21. ASSUME NEW r \in Runs, StopWatchFire(r) PROVE StopStep
  BY <1>21, <1>u DEF StopWatchFire
<1>22. ASSUME NEW r \in Runs, StopWatchTell(r) PROVE StopStep
  BY <1>22, <1>0, ToldStops DEF StopWatchTell, StopStep, ActiveHasRun
<1>23. ASSUME NEW r \in Runs, StopWatchCancel(r) PROVE StopStep
  BY <1>23, <1>0, ToldStops DEF StopWatchCancel, StopStep, ActiveHasRun
<1>24. ASSUME NEW r \in Runs, TaskWatchFire(r) PROVE StopStep
  BY <1>24, <1>u DEF TaskWatchFire
<1>25. ASSUME NEW r \in Runs, TaskWatchTell(r) PROVE StopStep
  BY <1>25, <1>0, ToldStops DEF TaskWatchTell, StopStep, ActiveHasRun
<1>26. ASSUME NEW r \in Runs, TaskWatchClear(r) PROVE StopStep
  BY <1>26, <1>u DEF TaskWatchClear
<1>27. ASSUME NEW r \in Runs, RequestStop(r) PROVE StopStep
  BY <1>27, <1>0, AskedStops DEF RequestStop
<1>28. ASSUME NEW r \in Runs, CtxExpire(r) PROVE StopStep
  BY <1>28, <1>u DEF CtxExpire
<1>29. ASSUME NEW r \in Runs, ScheduleTimeout(r) PROVE StopStep
  BY <1>29, <1>u DEF ScheduleTimeout
<1>30. ASSUME NEW r \in Runs, NEW f \in Forms, FormStart(r, f) PROVE StopStep
  BY <1>30, <1>u DEF FormStart
<1>31. ASSUME NEW r \in Runs, NEW f \in Forms, FormSkip(r, f) PROVE StopStep
  BY <1>31, <1>u DEF FormSkip
<1>32. ASSUME NEW r \in Runs, NEW f \in Forms, FormSave(r, f) PROVE StopStep
  BY <1>32, <1>u DEF FormSave
<1>33. ASSUME NEW r \in Runs, NEW f \in Forms, FormSucceed(r, f) PROVE StopStep
  BY <1>33, <1>u DEF FormSucceed
<1>34. ASSUME NEW r \in Runs, NEW f \in Forms, FormFail(r, f) PROVE StopStep
  BY <1>34, <1>u DEF FormFail
<1>35. ASSUME Shutdown PROVE StopStep
  BY <1>35, <1>0 DEF Shutdown, EngineState, StopStep, ActiveHasRun
<1>36. ASSUME DrainAsk PROVE StopStep
  BY <1>36, <1>0, <1>u, AskedStops DEF DrainAsk
<1>37. ASSUME DrainLook PROVE StopStep
  BY <1>37, <1>u DEF DrainLook
<1>38. ASSUME DrainDone PROVE StopStep
  BY <1>38, <1>u DEF DrainDone
<1>39. ASSUME DrainTimeout PROVE StopStep
  BY <1>39, <1>u DEF DrainTimeout
<1>40. ASSUME DrainTell PROVE StopStep
  BY <1>40, <1>0, ToldStops DEF DrainTell, StopStep, ActiveHasRun
<1>41. ASSUME DrainCancel PROVE StopStep
  BY <1>41, <1>0, ToldStops DEF DrainCancel, StopStep, ActiveHasRun
<1>42. ASSUME Exit PROVE StopStep
  BY <1>42 DEF Exit, Halt, EngineIdle, StopStep
<1>43. ASSUME Crash PROVE StopStep
  BY <1>43 DEF Crash, Halt, EngineIdle, StopStep
<1>44. ASSUME Start PROVE StopStep
  BY <1>44, <1>u DEF Start
<1>45. ASSUME RecoverRow PROVE StopStep
  BY <1>45, <1>u DEF RecoverRow
<1>46. ASSUME RecoverDone PROVE StopStep
  BY <1>46, <1>u DEF RecoverDone
<1>47. ASSUME ResumeNext PROVE StopStep
  BY <1>47, <1>u DEF ResumeNext, ResumePass, ResumeChild
<1>48. ASSUME Serve PROVE StopStep
  BY <1>48, <1>u DEF Serve
<1> QED
  BY <1>1, <1>2, <1>3, <1>4, <1>5, <1>6, <1>7, <1>8, <1>9, <1>10, <1>11, <1>12, <1>13,
     <1>14, <1>15, <1>16, <1>17, <1>18, <1>19, <1>20, <1>21, <1>22, <1>23, <1>24, <1>25,
     <1>26, <1>27, <1>28, <1>29, <1>30, <1>31, <1>32, <1>33, <1>34, <1>35, <1>36, <1>37,
     <1>38, <1>39, <1>40, <1>41, <1>42, <1>43, <1>44, <1>45, <1>46, <1>47, <1>48 DEF Next,
     RunnerStep, FormStep, WatchStep, Request, ProcessStep, DrainStep

-----------------------------------------------------------------------------
\* The inductive invariant, and what follows from it.
LifecycleInv == TypeOK /\ ResumeOfAbnormal /\ ActiveHasRun /\ StopIsDurable

LEMMA InitLifecycleInv == Init /\ TypeOK => LifecycleInv
BY DEF Init, LifecycleInv, ResumeOfAbnormal, ActiveHasRun, StopIsDurable, EngineIdle

LEMMA StepLifecycleInv == LifecycleInv /\ [Next]_vars => LifecycleInv'
<1>1. CASE UNCHANGED vars
  <2>1. LifecycleInv => TypeOK'
    BY <1>1, TypeStep DEF LifecycleInv
  <2> QED
    BY <1>1, <2>1 DEF vars, storeVars, procVars, LifecycleInv, ResumeOfAbnormal,
       ActiveHasRun, StopIsDurable
<1>2. ASSUME LifecycleInv, Next PROVE LifecycleInv'
  <2>1. TypeOK'
    BY <1>2, TypeStep DEF LifecycleInv
  <2>2. RowStep /\ TodoStep /\ StopStep
    BY <1>2, NextRowStep, NextTodoStep, NextStopStep DEF LifecycleInv
  <2>3. /\ row \in [Runs -> RowStatuses]
        /\ todo \in SUBSET Runs
    BY <1>2 DEF LifecycleInv, TypeOK
  <2>4. ResumeOfAbnormal'
    BY <1>2, <2>2, <2>3, RowEnds DEF LifecycleInv, ResumeOfAbnormal, TodoStep
  <2>5. ActiveHasRun'
    BY <2>2 DEF ActiveHasRun, StopStep
  <2>6. StopIsDurable'
    <3>1. CASE eng.active /\ eng.stopRequested /\ eng'.run = eng.run
      <4>1. eng.run \in Runs /\ row[eng.run] \in {"stopping", "stopped", Abnormal}
        BY <1>2, <3>1 DEF LifecycleInv, ActiveHasRun, StopIsDurable
      <4>2. row'[eng.run] \in {"stopping", "stopped", Abnormal}
        BY <4>1, <2>2, <2>3, RowEnds
      <4> QED
        BY <3>1, <4>2 DEF StopIsDurable
    <3>2. CASE row'[eng'.run] = "stopping"
      BY <3>2 DEF StopIsDurable
    <3>3. CASE ~(eng'.active /\ eng'.stopRequested)
      BY <3>3 DEF StopIsDurable
    <3> QED
      BY <2>2, <3>1, <3>2, <3>3 DEF StopStep
  <2> QED
    BY <2>1, <2>4, <2>5, <2>6 DEF LifecycleInv
<1> QED
  BY <1>1, <1>2

\* An accepted stop is in the database while the run holds the slot, and the
\* run can then only end stopped or abnormal.
THEOREM StopIsDurableHolds == Spec => []StopIsDurable
<1>1. LifecycleInv => StopIsDurable
  BY DEF LifecycleInv
<1>2. Init /\ TypeOK => LifecycleInv
  BY InitLifecycleInv
<1> QED
  BY <1>1, <1>2, StepLifecycleInv, TypeCorrect, PTL DEF Spec

\* The rows of the engine, its callers, its watchdogs and its recovery move as
\* RunLifecycle allows.
THEOREM ImplementsLifecycle == Spec => LifecycleSpec
<1>1. Init => Lifecycle!Init
  BY DEF Init, Lifecycle!Init
<1>2. LifecycleInv /\ [Next]_vars => [Lifecycle!Next]_(Lifecycle!vars)
  <2>1. CASE UNCHANGED vars
    BY <2>1 DEF vars, storeVars, Lifecycle!vars
  <2>2. ASSUME LifecycleInv, Next PROVE [Lifecycle!Next]_(Lifecycle!vars)
    BY <2>2, NextRowStep DEF LifecycleInv, RowStep, Lifecycle!vars
  <2> QED
    BY <2>1, <2>2
<1> QED
  BY <1>1, <1>2, InitLifecycleInv, StepLifecycleInv, TypeCorrect, PTL
     DEF Spec, LifecycleSpec, Lifecycle!Spec
=============================================================================
