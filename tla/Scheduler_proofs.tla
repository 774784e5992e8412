-------------------------- MODULE Scheduler_proofs --------------------------
(***************************************************************************)
(* Proofs about Scheduler, for any jobs, any number of dispatches, cron    *)
(* entries, reloading handlers, requests and failing calls.                *)
(***************************************************************************)
EXTENDS Scheduler, FiniteSetTheorems, TLAPS

-----------------------------------------------------------------------------
\* The inductive invariant.

\* Dispatches and registrations point at entries that are taken.
EntryInv ==
  /\ \A r \in Runs : Dispatched(r) <=> fire[r].pc # "none"
  /\ \A r \in Runs : Dispatched(r) => entry[fire[r].entry].state # "free"
  /\ \A h \in Reloaders : reload[h].pc = "save" => reload[h].entry \in EntryIds

\* How far the two rows of a dispatch are, whatever has failed.
RowsAt(r) ==
  /\ fire[r].pc \in {"none", "fired", "allowed"} => sched[r] = Absent
  /\ fire[r].pc \in {"none", "fired", "allowed", "recorded"} => row[r] = Absent
  /\ fire[r].pc = "recorded" => sched[r] # Absent
  /\ fire[r].pc \in HoldsSlot \cup {"inserted", "fail"} \cup (Executing \ {"failSched"})
       => row[r] # Absent /\ sched[r] # Absent
  /\ fire[r].pc = "result" => result[r] # Absent
  /\ timer[r] # "off" \/ mark[r] # "off" => row[r] # Absent
  /\ fire[r].started => fire[r].pc \in Executing \cup {"hook", "done"}

\* What has ended when no call has failed.
EndedAt(r) ==
  /\ fire[r].pc \in {"result", "summary", "summarize", "copy", "failSched", "hook"}
       => row[r] \in TerminalStatuses
  /\ mark[r] \in {"sched", "done"} => row[r] \in TerminalStatuses
  /\ fire[r].pc = "done" /\ fire[r].started =>
       /\ row[r] \in TerminalStatuses
       /\ row[r] # "success" => told[r].dingtalk = row[r]
  /\ fire[r].pc = "result" => result[r] = row[r]
  /\ sched[r] # "stopping"
  /\ fire[r].pc \in {"summary", "summarize", "copy"} => sched[r] \in TerminalStatuses
  /\ fire[r].pc \in {"summarize", "copy"} => result[r] = sched[r]

\* ScheduleFollowsRun, of one dispatch.
FollowsAt(r) ==
  sched[r] \in TerminalStatuses =>
    /\ row[r] \in TerminalStatuses
    /\ sched[r] \in {"success", "partial", "stopped"} => row[r] = sched[r]

RunOk(r) == RowsAt(r) /\ (faults = 0 => EndedAt(r) /\ FollowsAt(r))

\* A status shown for a job is the recorded end of one of its runs.
Recorded(j, s) ==
  s # Absent =>
    \E r \in Runs : /\ Dispatched(r) /\ JobOf(r) = j
                    /\ sched[r] = s /\ sched[r] \in TerminalStatuses

\* The same of every copy of the job's row, which may be saved whole.
CopiesInv ==
  faults = 0 =>
    /\ \A j \in Jobs : Recorded(j, jobRow[j].lastStatus)
    /\ \A e \in EntryIds : Recorded(entry[e].job, entry[e].copy.lastStatus)
    /\ \A h \in Reloaders, j \in Jobs : Recorded(j, reload[h].copies[j].lastStatus)

IInv == TypeOK /\ EntryInv /\ (\A r \in Runs : RunOk(r)) /\ CopiesInv

-----------------------------------------------------------------------------
\* Types.

EntryType == [state : EntryStates, job : Jobs, copy : JobRows]
ReloadType == [pc : ReloadPcs, op : AllOperations \cup {"none", "boot"},
               entries : SUBSET EntryIds, todo : SUBSET Jobs, copies : [Jobs -> JobRows],
               entry : EntryIds \cup {NoEntry}]
FireType == [pc : FirePcs, entry : EntryIds \cup {NoEntry}, started : BOOLEAN]
ToldType == [dingtalk : RowStatuses \cup {"skipped"}, webhook : {"none", "completed", "failed"}]

\* TypeOK with its records named.
LEMMA Types ==
  TypeOK <=>
    /\ jobRow \in [Jobs -> JobRows] /\ entry \in [EntryIds -> EntryType]
    /\ sched \in [Runs -> RowStatuses] /\ row \in [Runs -> RowStatuses]
    /\ cronOn \in BOOLEAN /\ paused \in BOOLEAN
    /\ reload \in [Reloaders -> ReloadType]
    /\ fire \in [Runs -> FireType] /\ result \in [Runs -> RowStatuses]
    /\ expired \in [Runs -> BOOLEAN]
    /\ timer \in [Runs -> {"off", "armed", "gone"}]
    /\ mark \in [Runs -> {"off", "sync", "sched", "done"}]
    /\ told \in [Runs -> ToldType]
    /\ requests \in Nat /\ faults \in Nat
  BY DEF TypeOK, EntryType, ReloadType, FireType, ToldType

LEMMA Zero ==
  /\ NoRun \notin Runs /\ NoEntry \notin EntryIds
  /\ Runs \subseteq Nat /\ EntryIds \subseteq Nat
  BY ConstantsAssumption DEF NoRun, Runs, NoEntry, EntryIds

LEMMA BlankRow ==
  /\ NoJobRow \in JobRows /\ NoJobRow.lastStatus = Absent
  /\ \A b \in BOOLEAN : /\ [NoJobRow EXCEPT !.exists = TRUE, !.enabled = b] \in JobRows
                        /\ [NoJobRow EXCEPT !.exists = TRUE, !.enabled = b].lastStatus = Absent
  BY DEF NoJobRow, JobRows, RowStatuses

LEMMA RowCopies ==
  ASSUME NEW c \in JobRows
  PROVE  /\ [c EXCEPT !.exists = TRUE] \in JobRows
         /\ [c EXCEPT !.exists = TRUE].lastStatus = c.lastStatus
         /\ \A b \in BOOLEAN : /\ [c EXCEPT !.enabled = b] \in JobRows
                               /\ [c EXCEPT !.enabled = b].lastStatus = c.lastStatus
         /\ \A r \in Runs : /\ [c EXCEPT !.lastRun = r] \in JobRows
                            /\ [c EXCEPT !.lastRun = r].lastStatus = c.lastStatus
         /\ \A s \in RowStatuses : /\ [c EXCEPT !.lastStatus = s] \in JobRows
                                   /\ [c EXCEPT !.lastStatus = s].lastStatus = s
  BY DEF JobRows

\* A save of a whole copy.
LEMMA SaveEffect ==
  ASSUME jobRow \in [Jobs -> JobRows], NEW j \in Jobs, NEW c \in JobRows, SaveCopy(j, c)
  PROVE  /\ jobRow' \in [Jobs -> JobRows]
         /\ jobRow'[j].lastStatus = c.lastStatus
         /\ \A k \in Jobs : k # j => jobRow'[k] = jobRow[k]
  BY RowCopies DEF SaveCopy

\* A dispatch moves on.
LEMMA AtEffect ==
  ASSUME fire \in [Runs -> FireType], NEW r \in Runs, NEW p \in FirePcs, At(r, p)
  PROVE  /\ fire' \in [Runs -> FireType] /\ fire'[r].pc = p
         /\ \A q \in Runs : fire'[q].entry = fire[q].entry /\ fire'[q].started = fire[q].started
         /\ \A q \in Runs : q # r => fire'[q] = fire[q]
<1>1. fire' = [fire EXCEPT ![r] = [fire[r] EXCEPT !.pc = p]]
  BY DEF At
<1>2. /\ [fire[r] EXCEPT !.pc = p] \in FireType
      /\ [fire[r] EXCEPT !.pc = p].pc = p
      /\ [fire[r] EXCEPT !.pc = p].entry = fire[r].entry
      /\ [fire[r] EXCEPT !.pc = p].started = fire[r].started
  BY DEF FireType
<1> QED
  BY <1>1, <1>2

\* A handler moves on, or is done.
LEMMA ReloadingEffect ==
  ASSUME reload \in [Reloaders -> ReloadType], NEW h \in Reloaders, NEW p \in ReloadPcs,
         Reloading(h, p)
  PROVE  /\ reload' \in [Reloaders -> ReloadType] /\ reload'[h].pc = p
         /\ reload'[h].copies = reload[h].copies /\ reload'[h].entry = reload[h].entry
         /\ \A g \in Reloaders : g # h => reload'[g] = reload[g]
<1>1. reload' = [reload EXCEPT ![h] = [reload[h] EXCEPT !.pc = p]]
  BY DEF Reloading
<1>2. /\ [reload[h] EXCEPT !.pc = p] \in ReloadType
      /\ [reload[h] EXCEPT !.pc = p].pc = p
      /\ [reload[h] EXCEPT !.pc = p].copies = reload[h].copies
      /\ [reload[h] EXCEPT !.pc = p].entry = reload[h].entry
  BY DEF ReloadType
<1> QED
  BY <1>1, <1>2

LEMMA IdleType ==
  /\ IdleReload \in ReloadType /\ IdleReload.pc = "idle"
  /\ \A j \in Jobs : IdleReload.copies[j] = NoJobRow
<1>1. [j \in Jobs |-> NoJobRow] \in [Jobs -> JobRows]
  BY BlankRow
<1> QED
  BY <1>1 DEF IdleReload, ReloadType, ReloadPcs

LEMMA DoneEffect ==
  ASSUME reload \in [Reloaders -> ReloadType], NEW h \in Reloaders, Done(h)
  PROVE  /\ reload' \in [Reloaders -> ReloadType] /\ reload'[h] = IdleReload
         /\ \A g \in Reloaders : g # h => reload'[g] = reload[g]
  BY IdleType DEF Done

LEMMA FaultEffect ==
  ASSUME faults \in Nat
  PROVE  /\ Fault => faults' \in Nat /\ faults' # 0
         /\ UNCHANGED faults => faults' \in Nat
  BY DEF Fault

-----------------------------------------------------------------------------
\* The state-database calls on the two rows of a run.

LEMMA ContractEffect ==
  ASSUME NEW from \in RowStatuses
  PROVE  /\ \A to \in TerminalStatuses :
              /\ Finished(from, to) \in RowStatuses
              /\ from \in TerminalStatuses => Finished(from, to) = from
              /\ from # Absent /\ ~FinishRejected(from, to)
                   => Finished(from, to) \in TerminalStatuses
              /\ from = Absent => Finished(from, to) = Absent
         /\ from # Absent => Finished(from, "failed") \in TerminalStatuses
         /\ Aborted(from) \in RowStatuses
         /\ from \in TerminalStatuses => Aborted(from) = from
         /\ from # Absent => Aborted(from) \in TerminalStatuses
  BY DEF Finished, FinishRejected, FinishTarget, CanTransition, Aborted, RowStatuses,
         Statuses, ActiveStatuses, TerminalStatuses, Absent, Abnormal

LEMMA FinishSchedEffect ==
  ASSUME sched \in [Runs -> RowStatuses], faults \in Nat, NEW r \in Runs,
         NEW s \in RowStatuses, FinishSched(r, s)
  PROVE  /\ sched' \in [Runs -> RowStatuses] /\ faults' \in Nat
         /\ \A q \in Runs : q # r => sched'[q] = sched[q]
         /\ sched[r] # "running" => sched'[r] = sched[r]
         /\ sched'[r] \in {sched[r], s}
         /\ faults' = 0 => faults = 0 /\ (sched[r] = "running" => sched'[r] = s)
<1>1. CASE ScheduleFinished(r, s) /\ UNCHANGED faults
  BY <1>1 DEF ScheduleFinished
<1>2. CASE Fault /\ UNCHANGED sched
  BY <1>2, FaultEffect
<1> QED
  BY <1>1, <1>2 DEF FinishSched

LEMMA FinishSyncEffect ==
  ASSUME row \in [Runs -> RowStatuses], faults \in Nat, NEW r \in Runs, FinishSync(r, "failed")
  PROVE  /\ row' \in [Runs -> RowStatuses] /\ faults' \in Nat
         /\ \A q \in Runs : q # r => row'[q] = row[q]
         /\ row[r] \in TerminalStatuses \cup {Absent} => row'[r] = row[r]
         /\ row'[r] \in {row[r], Finished(row[r], "failed")}
         /\ row[r] # Absent => row'[r] # Absent
         /\ faults' = 0 => faults = 0 /\ (row[r] # Absent => row'[r] \in TerminalStatuses)
<1>1. "failed" \in TerminalStatuses /\ Absent \notin TerminalStatuses
  BY DEF TerminalStatuses, Absent, Abnormal
<1>2. CASE row' = [row EXCEPT ![r] = Finished(@, "failed")] /\ UNCHANGED faults
  BY <1>1, <1>2, ContractEffect
<1>3. CASE Fault /\ UNCHANGED row
  BY <1>3, FaultEffect
<1> QED
  BY <1>2, <1>3 DEF FinishSync

-----------------------------------------------------------------------------
\* What a handler's step makes of its own record.

LEMMA HandlerEffect ==
  ASSUME reload \in [Reloaders -> ReloadType], NEW h \in Reloaders, NEW v \in ReloadType,
         reload' = [reload EXCEPT ![h] = v]
  PROVE  /\ reload' \in [Reloaders -> ReloadType] /\ reload'[h] = v
         /\ \A g \in Reloaders : g # h => reload'[g] = reload[g]
  OBVIOUS

\* The copies and the entry that a handler holds after a step.
Holding(h, p, copies, e) ==
  /\ reload' \in [Reloaders -> ReloadType]
  /\ reload'[h].pc = p /\ reload'[h].copies = copies /\ reload'[h].entry = e
  /\ \A g \in Reloaders : g # h => reload'[g] = reload[g]

LEMMA HandlerSteps ==
  ASSUME reload \in [Reloaders -> ReloadType], NEW h \in Reloaders
  PROVE  /\ \A p \in {"list", "cronStop", "cronStart"}, op \in AllOperations :
              reload' = [reload EXCEPT ![h].pc = p, ![h].op = op]
                => Holding(h, p, reload[h].copies, reload[h].entry)
         /\ reload' = [reload EXCEPT ![h].pc = "list", ![h].todo = {}]
              => Holding(h, "list", reload[h].copies, reload[h].entry)
         /\ \A E \in SUBSET EntryIds, p \in {"remove", "query"} :
              reload' = [reload EXCEPT ![h].pc = p, ![h].entries = E]
                => Holding(h, p, reload[h].copies, reload[h].entry)
         /\ \A c \in [Jobs -> JobRows], T \in SUBSET Jobs :
              reload' = [reload EXCEPT ![h].pc = "add", ![h].copies = c, ![h].todo = T]
                => Holding(h, "add", c, reload[h].entry)
         /\ \A e \in EntryIds, j \in Jobs :
              reload' = [reload EXCEPT ![h].pc = "save", ![h].entry = e, ![h].todo = @ \ {j}]
                => Holding(h, "save", reload[h].copies, e)
         /\ \A j \in Jobs :
              reload' = [reload EXCEPT ![h].todo = @ \ {j}]
                => Holding(h, reload[h].pc, reload[h].copies, reload[h].entry)
         /\ reload' = [reload EXCEPT ![h].pc = "add", ![h].entry = NoEntry]
              => Holding(h, "add", reload[h].copies, NoEntry)
<1>0. reload[h] \in ReloadType
  OBVIOUS
<1>1. ASSUME NEW p \in {"list", "cronStop", "cronStart"}, NEW op \in AllOperations,
             reload' = [reload EXCEPT ![h].pc = p, ![h].op = op]
      PROVE  Holding(h, p, reload[h].copies, reload[h].entry)
  <2> DEFINE v == [reload[h] EXCEPT !.pc = p, !.op = op]
  <2>1. reload' = [reload EXCEPT ![h] = v]
    BY <1>1
  <2>2. v \in ReloadType
    BY <1>0 DEF ReloadType, ReloadPcs
  <2>3. v.pc = p /\ v.copies = reload[h].copies /\ v.entry = reload[h].entry
    BY <1>0 DEF ReloadType
  <2> HIDE DEF v
  <2> QED
    BY <2>1, <2>2, <2>3, HandlerEffect DEF Holding
<1>2. ASSUME reload' = [reload EXCEPT ![h].pc = "list", ![h].todo = {}]
      PROVE  Holding(h, "list", reload[h].copies, reload[h].entry)
  <2> DEFINE v == [reload[h] EXCEPT !.pc = "list", !.todo = {}]
  <2>1. reload' = [reload EXCEPT ![h] = v]
    BY <1>2
  <2>2. v \in ReloadType
    BY <1>0 DEF ReloadType, ReloadPcs
  <2>3. v.pc = "list" /\ v.copies = reload[h].copies /\ v.entry = reload[h].entry
    BY <1>0 DEF ReloadType
  <2> HIDE DEF v
  <2> QED
    BY <2>1, <2>2, <2>3, HandlerEffect DEF Holding
<1>3. ASSUME NEW E \in SUBSET EntryIds, NEW p \in {"remove", "query"},
             reload' = [reload EXCEPT ![h].pc = p, ![h].entries = E]
      PROVE  Holding(h, p, reload[h].copies, reload[h].entry)
  <2> DEFINE v == [reload[h] EXCEPT !.pc = p, !.entries = E]
  <2>1. reload' = [reload EXCEPT ![h] = v]
    BY <1>3
  <2>2. v \in ReloadType
    BY <1>0 DEF ReloadType, ReloadPcs
  <2>3. v.pc = p /\ v.copies = reload[h].copies /\ v.entry = reload[h].entry
    BY <1>0 DEF ReloadType
  <2> HIDE DEF v
  <2> QED
    BY <2>1, <2>2, <2>3, HandlerEffect DEF Holding
<1>4. ASSUME NEW c \in [Jobs -> JobRows], NEW T \in SUBSET Jobs,
             reload' = [reload EXCEPT ![h].pc = "add", ![h].copies = c, ![h].todo = T]
      PROVE  Holding(h, "add", c, reload[h].entry)
  <2> DEFINE v == [reload[h] EXCEPT !.pc = "add", !.copies = c, !.todo = T]
  <2>1. reload' = [reload EXCEPT ![h] = v]
    BY <1>4
  <2>2. v \in ReloadType
    BY <1>0 DEF ReloadType, ReloadPcs
  <2>3. v.pc = "add" /\ v.copies = c /\ v.entry = reload[h].entry
    BY <1>0 DEF ReloadType
  <2> HIDE DEF v
  <2> QED
    BY <2>1, <2>2, <2>3, HandlerEffect DEF Holding
<1>5. ASSUME NEW e \in EntryIds, NEW j \in Jobs,
             reload' = [reload EXCEPT ![h].pc = "save", ![h].entry = e, ![h].todo = @ \ {j}]
      PROVE  Holding(h, "save", reload[h].copies, e)
  <2> DEFINE v == [reload[h] EXCEPT !.pc = "save", !.entry = e, !.todo = @ \ {j}]
  <2>1. reload' = [reload EXCEPT ![h] = v]
    BY <1>5
  <2>2. v \in ReloadType
    BY <1>0 DEF ReloadType, ReloadPcs
  <2>3. v.pc = "save" /\ v.copies = reload[h].copies /\ v.entry = e
    BY <1>0 DEF ReloadType
  <2> HIDE DEF v
  <2> QED
    BY <2>1, <2>2, <2>3, HandlerEffect DEF Holding
<1>6. ASSUME NEW j \in Jobs,
             reload' = [reload EXCEPT ![h].todo = @ \ {j}]
      PROVE  Holding(h, reload[h].pc, reload[h].copies, reload[h].entry)
  <2> DEFINE v == [reload[h] EXCEPT !.todo = @ \ {j}]
  <2>1. reload' = [reload EXCEPT ![h] = v]
    BY <1>6
  <2>2. v \in ReloadType
    BY <1>0 DEF ReloadType, ReloadPcs
  <2>3. v.pc = reload[h].pc /\ v.copies = reload[h].copies /\ v.entry = reload[h].entry
    BY <1>0 DEF ReloadType
  <2> HIDE DEF v
  <2> QED
    BY <2>1, <2>2, <2>3, HandlerEffect DEF Holding
<1>7. ASSUME reload' = [reload EXCEPT ![h].pc = "add", ![h].entry = NoEntry]
      PROVE  Holding(h, "add", reload[h].copies, NoEntry)
  <2> DEFINE v == [reload[h] EXCEPT !.pc = "add", !.entry = NoEntry]
  <2>1. reload' = [reload EXCEPT ![h] = v]
    BY <1>7
  <2>2. v \in ReloadType
    BY <1>0 DEF ReloadType, ReloadPcs
  <2>3. v.pc = "add" /\ v.copies = reload[h].copies /\ v.entry = NoEntry
    BY <1>0 DEF ReloadType
  <2> HIDE DEF v
  <2> QED
    BY <2>1, <2>2, <2>3, HandlerEffect DEF Holding
<1> QED
  BY <1>1, <1>2, <1>3, <1>4, <1>5, <1>6, <1>7

LEMMA LoadEffect ==
  ASSUME TypeOK, NEW h \in Reloaders, NEW j \in Jobs, LoadJob(h, j)
  PROVE  Holding(h, "loaded", [IdleReload.copies EXCEPT ![j] = jobRow[j]], NoEntry)
<1> DEFINE v == [IdleReload EXCEPT !.pc = "loaded", !.op = "edit", !.todo = {j},
                                   !.copies[j] = jobRow[j]]
<1>1. reload' = [reload EXCEPT ![h] = v]
  BY DEF LoadJob
<1>2. /\ v.pc = "loaded" /\ v.op = "edit" /\ v.entries = {} /\ v.todo = {j}
      /\ v.copies = [IdleReload.copies EXCEPT ![j] = jobRow[j]] /\ v.entry = NoEntry
  BY DEF IdleReload
<1>3. [IdleReload.copies EXCEPT ![j] = jobRow[j]] \in [Jobs -> JobRows]
  BY IdleType, Types DEF ReloadType
<1>4. v \in ReloadType
  <2> DEFINE c == [IdleReload.copies EXCEPT ![j] = jobRow[j]]
  <2>1. v = [IdleReload EXCEPT !.pc = "loaded", !.op = "edit", !.todo = {j}, !.copies = c]
    OBVIOUS
  <2> HIDE DEF c, v
  <2>2. c \in [Jobs -> JobRows] /\ {j} \in SUBSET Jobs
    BY <1>3 DEF c
  <2> QED
    BY <2>1, <2>2, IdleType DEF ReloadType, ReloadPcs, AllOperations
<1> HIDE DEF v
<1> QED
  BY <1>1, <1>2, <1>4, HandlerEffect, Types DEF Holding

\* What a request makes of the job's row.
LEMMA WriteEffect ==
  ASSUME NEW h, NEW op, NEW j, WriteJob(h, op, j)
  PROVE  \/ UNCHANGED jobRow
         \/ jobRow' = [jobRow EXCEPT ![j] = [NoJobRow EXCEPT !.exists = TRUE, !.enabled = TRUE]]
         \/ jobRow' = [jobRow EXCEPT ![j] = NoJobRow]
         \/ jobRow' = [jobRow EXCEPT ![j] = [@ EXCEPT !.enabled = (op = "enable")]]
<1>1. CASE op = "create"
  BY <1>1 DEF WriteJob
<1>2. CASE op = "delete"
  BY <1>2 DEF WriteJob
<1>3. CASE op \in {"enable", "disable"}
  BY <1>3 DEF WriteJob
<1> QED
  BY <1>1, <1>2, <1>3 DEF WriteJob

\* Entries that are removed keep their job and its copy.
LEMMA RemovedEffect ==
  ASSUME entry \in [EntryIds -> EntryType], NEW h, ReloadRemove(h)
  PROVE  /\ entry' \in [EntryIds -> EntryType]
         /\ \A e \in EntryIds : /\ entry'[e].job = entry[e].job /\ entry'[e].copy = entry[e].copy
                                /\ entry[e].state # "free" => entry'[e].state # "free"
<1>1. ASSUME NEW e \in EntryIds
      PROVE  /\ [entry[e] EXCEPT !.state = "removed"] \in EntryType
             /\ [entry[e] EXCEPT !.state = "removed"].job = entry[e].job
             /\ [entry[e] EXCEPT !.state = "removed"].copy = entry[e].copy
             /\ [entry[e] EXCEPT !.state = "removed"].state = "removed"
  BY DEF EntryType, EntryStates
<1> QED
  BY <1>1 DEF ReloadRemove

-----------------------------------------------------------------------------
\* Every step keeps the types.

LEMMA TypesNext ==
  TypeOK' <=>
    /\ jobRow' \in [Jobs -> JobRows] /\ entry' \in [EntryIds -> EntryType]
    /\ sched' \in [Runs -> RowStatuses] /\ row' \in [Runs -> RowStatuses]
    /\ cronOn' \in BOOLEAN /\ paused' \in BOOLEAN
    /\ reload' \in [Reloaders -> ReloadType]
    /\ fire' \in [Runs -> FireType] /\ result' \in [Runs -> RowStatuses]
    /\ expired' \in [Runs -> BOOLEAN]
    /\ timer' \in [Runs -> {"off", "armed", "gone"}]
    /\ mark' \in [Runs -> {"off", "sync", "sched", "done"}]
    /\ told' \in [Runs -> ToldType]
    /\ requests' \in Nat /\ faults' \in Nat
  BY DEF TypeOK, EntryType, ReloadType, FireType, ToldType

LEMMA InitType == Init => TypeOK
<1> SUFFICES ASSUME Init PROVE TypeOK
  OBVIOUS
<1>1. jobRow \in [Jobs -> JobRows]
  <2>1. PICK on \in SUBSET DefaultJobs, known \in SUBSET DefaultJobs :
          jobRow = [j \in Jobs |-> IF j \in known
                                   THEN [NoJobRow EXCEPT !.exists = TRUE, !.enabled = (j \in on)]
                                   ELSE NoJobRow]
    BY DEF Init
  <2>2. ASSUME NEW j \in Jobs
        PROVE  [NoJobRow EXCEPT !.exists = TRUE, !.enabled = (j \in on)] \in JobRows
    <3>1. (j \in on) \in BOOLEAN
      OBVIOUS
    <3> QED
      BY <3>1, BlankRow
  <2> QED
    BY <2>1, <2>2, BlankRow
<1>2. entry \in [EntryIds -> EntryType]
  <2>1. (CHOOSE j \in Jobs : TRUE) \in Jobs
    BY ConstantsAssumption
  <2> QED
    BY <2>1, BlankRow DEF Init, EntryType, EntryStates
<1>3. reload \in [Reloaders -> ReloadType]
  <2>1. [IdleReload EXCEPT !.pc = "ensure", !.op = "boot"] \in ReloadType
    BY IdleType DEF ReloadType, ReloadPcs
  <2> QED
    BY <2>1, IdleType DEF Init
<1>4. fire \in [Runs -> FireType] /\ told \in [Runs -> ToldType]
  BY DEF Init, FireType, FirePcs, ToldType, RowStatuses
<1>5. Absent \in RowStatuses
  BY DEF RowStatuses
<1> QED
  BY <1>1, <1>2, <1>3, <1>4, <1>5, Types DEF Init

LEMMA TypeStepHandlers ==
  ASSUME TypeOK, EntryInv, NEW h \in Reloaders, ReloadStep(h) \/ UserStep(h) \/ Ensure
  PROVE  TypeOK'
<1> USE DEF runVars
<1>0. /\ jobRow \in [Jobs -> JobRows] /\ entry \in [EntryIds -> EntryType]
      /\ reload \in [Reloaders -> ReloadType] /\ faults \in Nat /\ requests \in Nat
      /\ "main" \in Reloaders
  BY Types DEF Reloaders
<1>1. ASSUME jobRow' \in [Jobs -> JobRows], entry' \in [EntryIds -> EntryType],
             cronOn' \in BOOLEAN, paused' \in BOOLEAN, reload' \in [Reloaders -> ReloadType],
             requests' \in {requests, requests + 1}, UNCHANGED faults \/ Fault,
             UNCHANGED runVars
      PROVE  TypeOK'
  BY <1>0, <1>1, FaultEffect, Types, TypesNext
<1>2. \A p \in ReloadPcs : Reloading(h, p) => reload' \in [Reloaders -> ReloadType]
  BY <1>0, ReloadingEffect
<1>3. Done(h) => reload' \in [Reloaders -> ReloadType]
  BY <1>0, DoneEffect
<1>4. cronOn \in BOOLEAN /\ paused \in BOOLEAN
  BY Types
<1>5. \A p, c, e : Holding(h, p, c, e) => reload' \in [Reloaders -> ReloadType]
  BY DEF Holding
<1>6. CASE Ensure
  <2>1. jobRow' \in [Jobs -> JobRows]
    BY <1>0, <1>6, BlankRow DEF Ensure
  <2>2. reload' \in [Reloaders -> ReloadType]
    BY <1>0, <1>6, ReloadingEffect, DoneEffect DEF Ensure, ReloadPcs
  <2> QED
    BY <1>0, <1>1, <1>4, <1>6, <2>1, <2>2 DEF Ensure
<1>7. ASSUME NEW op \in Operations, NEW j \in Jobs, WriteJob(h, op, j) PROVE TypeOK'
  <2>1. op \in AllOperations
    BY ConstantsAssumption
  <2>2. jobRow' \in [Jobs -> JobRows]
    <3>1. CASE UNCHANGED jobRow
      BY <1>0, <3>1
    <3>2. CASE jobRow' = [jobRow EXCEPT ![j] = [NoJobRow EXCEPT !.exists = TRUE, !.enabled = TRUE]]
      BY <1>0, <3>2, BlankRow
    <3>3. CASE jobRow' = [jobRow EXCEPT ![j] = NoJobRow]
      BY <1>0, <3>3, BlankRow
    <3>4. CASE jobRow' = [jobRow EXCEPT ![j] = [@ EXCEPT !.enabled = (op = "enable")]]
      BY <1>0, <3>4, RowCopies
    <3> QED
      BY <1>7, <3>1, <3>2, <3>3, <3>4, WriteEffect
  <2>3. reload' \in [Reloaders -> ReloadType]
    BY <1>0, <1>5, <1>7, <2>1, HandlerSteps DEF WriteJob
  <2> QED
    BY <1>0, <1>1, <1>4, <1>7, <2>2, <2>3 DEF WriteJob, Ask
<1>8. ASSUME NEW j \in Jobs, LoadJob(h, j) PROVE TypeOK'
  BY <1>0, <1>1, <1>4, <1>5, <1>8, LoadEffect DEF LoadJob, Ask
<1>9. CASE PauseFlag(h) \/ ResumeFlag(h)
  <2>1. reload' \in [Reloaders -> ReloadType]
    BY <1>0, <1>5, <1>9, HandlerSteps DEF PauseFlag, ResumeFlag, AllOperations
  <2> QED
    BY <1>0, <1>1, <1>4, <1>9, <2>1 DEF PauseFlag, ResumeFlag, Ask
<1>10. CASE SaveJob(h)
  <2>1. PICK j \in reload[h].todo, on \in BOOLEAN :
          \/ /\ SaveCopy(j, [reload[h].copies[j] EXCEPT !.enabled = on])
             /\ reload' = [reload EXCEPT ![h].pc = "list", ![h].todo = {}]
             /\ UNCHANGED faults
          \/ Fault /\ Done(h) /\ UNCHANGED jobRow
    BY <1>10 DEF SaveJob
  <2>2. j \in Jobs /\ reload[h].copies[j] \in JobRows
    <3>1. reload[h].todo \in SUBSET Jobs /\ reload[h].copies \in [Jobs -> JobRows]
      BY <1>0 DEF ReloadType
    <3> QED
      BY <2>1, <3>1
  <2>3. jobRow' \in [Jobs -> JobRows] /\ reload' \in [Reloaders -> ReloadType]
    BY <1>0, <1>3, <1>5, <2>1, <2>2, RowCopies, SaveEffect, HandlerSteps
  <2> QED
    BY <1>0, <1>1, <1>4, <1>10, <2>1, <2>3 DEF SaveJob
<1>11. CASE CronStart(h) \/ PauseCron(h) \/ ReloadDone(h)
  BY <1>0, <1>1, <1>2, <1>3, <1>4, <1>11 DEF CronStart, PauseCron, ReloadDone, ReloadPcs
<1>12. CASE ReloadList(h)
  <2>1. Live \in SUBSET EntryIds
    BY DEF Live
  <2>2. reload' \in [Reloaders -> ReloadType]
    BY <1>0, <1>5, <1>12, <2>1, HandlerSteps DEF ReloadList
  <2> QED
    BY <1>0, <1>1, <1>4, <1>12, <2>2 DEF ReloadList
<1>13. CASE ReloadRemove(h)
  <2>1. reload' \in [Reloaders -> ReloadType]
    BY <1>0, <1>5, <1>13, HandlerSteps DEF ReloadRemove
  <2>2. entry' \in [EntryIds -> EntryType]
    BY <1>0, <1>13, RemovedEffect
  <2> QED
    BY <1>0, <1>1, <1>4, <1>13, <2>1, <2>2 DEF ReloadRemove
<1>14. CASE ReloadQuery(h)
  <2>1. reload' \in [Reloaders -> ReloadType]
    <3>1. {j \in Jobs : jobRow[j].exists /\ jobRow[j].enabled} \in SUBSET Jobs
      OBVIOUS
    <3> QED
      BY <1>0, <1>3, <1>5, <1>14, <3>1, HandlerSteps DEF ReloadQuery
  <2> QED
    BY <1>0, <1>1, <1>4, <1>14, <2>1 DEF ReloadQuery
<1>15. CASE ReloadAdd(h)
  <2>1. PICK j \in reload[h].todo :
          \/ \E e \in EntryIds :
               /\ entry' = [entry EXCEPT ![e] = [state |-> "live", job |-> j,
                                                 copy |-> reload[h].copies[j]]]
               /\ reload' = [reload EXCEPT ![h].pc = "save", ![h].entry = e, ![h].todo = @ \ {j}]
          \/ reload' = [reload EXCEPT ![h].todo = @ \ {j}] /\ UNCHANGED entry
    BY <1>15 DEF ReloadAdd
  <2>2. j \in Jobs /\ reload[h].copies[j] \in JobRows
    <3>1. reload[h].todo \in SUBSET Jobs /\ reload[h].copies \in [Jobs -> JobRows]
      BY <1>0 DEF ReloadType
    <3> QED
      BY <2>1, <3>1
  <2>3. [state |-> "live", job |-> j, copy |-> reload[h].copies[j]] \in EntryType
    BY <2>2 DEF EntryType, EntryStates
  <2>4. entry' \in [EntryIds -> EntryType]
    BY <1>0, <2>1, <2>3
  <2>5. reload' \in [Reloaders -> ReloadType]
    <3>1. ASSUME NEW e \in EntryIds,
                 reload' = [reload EXCEPT ![h].pc = "save", ![h].entry = e, ![h].todo = @ \ {j}]
          PROVE  Holding(h, "save", reload[h].copies, e)
      BY <1>0, <2>2, <3>1, HandlerSteps
    <3>2. ASSUME reload' = [reload EXCEPT ![h].todo = @ \ {j}]
          PROVE  Holding(h, reload[h].pc, reload[h].copies, reload[h].entry)
      BY <1>0, <2>2, <3>2, HandlerSteps
    <3> QED
      BY <1>5, <2>1, <3>1, <3>2
  <2> QED
    BY <1>0, <1>1, <1>4, <1>15, <2>4, <2>5 DEF ReloadAdd
<1>16. CASE ReloadSave(h)
  <2>1. reload' \in [Reloaders -> ReloadType]
    BY <1>0, <1>5, <1>16, HandlerSteps DEF ReloadSave
  <2>2. reload[h].entry \in EntryIds
    BY <1>16 DEF ReloadSave, EntryInv
  <2>3. entry[reload[h].entry].job \in Jobs /\ entry[reload[h].entry].copy \in JobRows
    BY <1>0, <2>2 DEF EntryType
  <2>4. jobRow' \in [Jobs -> JobRows]
    BY <1>0, <1>16, <2>3, SaveEffect DEF ReloadSave
  <2> QED
    BY <1>0, <1>1, <1>4, <1>16, <2>1, <2>4 DEF ReloadSave
<1> QED
  BY <1>6, <1>7, <1>8, <1>9, <1>10, <1>11, <1>12, <1>13, <1>14, <1>15, <1>16
     DEF ReloadStep, UserStep

-----------------------------------------------------------------------------
\* The steps of one dispatch.

\* What such a step leaves: the other dispatches, the entry each came from, and
\* every schedule record that has ended.
Frame(r) ==
  /\ \A q \in Runs : q # r =>
       /\ fire'[q] = fire[q] /\ row'[q] = row[q] /\ sched'[q] = sched[q]
       /\ result'[q] = result[q] /\ timer'[q] = timer[q] /\ mark'[q] = mark[q]
       /\ told'[q] = told[q]
  /\ \A q \in Runs : /\ fire'[q].entry = fire[q].entry
                     /\ fire'[q].pc = "none" <=> fire[q].pc = "none"
                     /\ sched[q] \in TerminalStatuses => sched'[q] = sched[q]
  /\ faults' = 0 => faults = 0

StepOk(r) == TypeOK' /\ Frame(r) /\ RunOk(r)'

LEMMA StatusSets ==
  /\ Absent \in RowStatuses /\ Abnormal \in TerminalStatuses
  /\ TerminalStatuses \subseteq RowStatuses /\ Absent \notin TerminalStatuses
  /\ \A s \in RowStatuses : s \in TerminalStatuses \/ s \in {"running", "stopping", Absent}
  /\ {"running", "stopping", "failed", Abnormal} \subseteq RowStatuses
  /\ "running" \notin TerminalStatuses /\ "stopping" \notin TerminalStatuses
  /\ "failed" \in TerminalStatuses /\ Abnormal \notin {"success", "partial", "stopped"}
  /\ Absent # "running" /\ Absent # "stopping"
  BY DEF RowStatuses, Statuses, ActiveStatuses, TerminalStatuses, Absent, Abnormal

\* The copy of the entry is given the run and saved: no status changes.
LEMMA StartEffect ==
  ASSUME TypeOK, EntryInv, NEW r \in Runs, StartRun(r)
  PROVE  /\ jobRow' \in [Jobs -> JobRows] /\ entry' \in [EntryIds -> EntryType]
         /\ faults' \in Nat /\ (faults' = 0 => faults = 0)
         /\ \A e \in EntryIds : /\ entry'[e].job = entry[e].job /\ entry'[e].state = entry[e].state
                                /\ entry'[e].copy.lastStatus = entry[e].copy.lastStatus
         /\ \A j \in Jobs : \/ jobRow'[j].lastStatus = jobRow[j].lastStatus
                            \/ \E e \in EntryIds : /\ entry[e].job = j
                                                   /\ jobRow'[j].lastStatus = entry[e].copy.lastStatus
<1> DEFINE e == fire[r].entry
           c == [entry[e].copy EXCEPT !.lastRun = r]
           v == [entry[e] EXCEPT !.copy = c]
<1>1. e \in EntryIds
  BY Types, Zero DEF StartRun, EntryInv, Dispatched, FireType
<1>2. entry[e].copy \in JobRows /\ entry[e].job \in Jobs /\ entry[e] \in EntryType
  BY <1>1, Types DEF EntryType
<1>3. c \in JobRows /\ c.lastStatus = entry[e].copy.lastStatus
  BY <1>2, RowCopies
<1>4. entry' = [entry EXCEPT ![e] = v]
  BY DEF StartRun
<1>5. /\ v \in EntryType /\ v.job = entry[e].job /\ v.state = entry[e].state
      /\ v.copy = c
  <2> HIDE DEF c
  <2> QED
    BY <1>2, <1>3 DEF EntryType
<1>6. \/ SaveCopy(entry[e].job, c) /\ UNCHANGED faults
      \/ Fault /\ UNCHANGED jobRow
  BY DEF StartRun
<1> HIDE DEF c, v, e
<1>7. /\ jobRow' \in [Jobs -> JobRows] /\ faults' \in Nat /\ (faults' = 0 => faults = 0)
      /\ \A j \in Jobs : \/ jobRow'[j].lastStatus = jobRow[j].lastStatus
                         \/ j = entry[e].job /\ jobRow'[j].lastStatus = c.lastStatus
  BY <1>2, <1>3, <1>6, SaveEffect, FaultEffect, Types
<1>8. entry \in [EntryIds -> EntryType]
  BY Types
<1> QED
  BY <1>1, <1>3, <1>4, <1>5, <1>7, <1>8

LEMMA DispatchSteps ==
  ASSUME TypeOK, EntryInv, NEW r \in Runs, RunOk(r), DispatchStep(r)
  PROVE  StepOk(r)
<1>0. /\ jobRow \in [Jobs -> JobRows] /\ entry \in [EntryIds -> EntryType]
      /\ sched \in [Runs -> RowStatuses] /\ row \in [Runs -> RowStatuses]
      /\ fire \in [Runs -> FireType] /\ faults \in Nat /\ told \in [Runs -> ToldType]
      /\ timer \in [Runs -> {"off", "armed", "gone"}]
  BY Types
<1>1. CASE FirePaused(r)
  <2> DEFINE p == IF paused THEN "done" ELSE "allowed"
  <2>1. At(r, p) /\ p \in FirePcs /\ p \in {"done", "allowed"} /\ fire[r].pc = "fired"
    BY <1>1 DEF FirePaused, FirePcs
  <2> HIDE DEF p
  <2>2. /\ fire' \in [Runs -> FireType] /\ fire'[r].pc = p
        /\ \A q \in Runs : fire'[q].entry = fire[q].entry /\ fire'[q].started = fire[q].started
        /\ \A q \in Runs : q # r => fire'[q] = fire[q]
    BY <1>0, <2>1, AtEffect
  <2>3. TypeOK' /\ Frame(r)
    BY <1>1, <2>1, <2>2, Types, TypesNext DEF FirePaused, Frame
  <2>4. RunOk(r)'
    BY <1>1, <2>1, <2>2
       DEF FirePaused, RunOk, RowsAt, EndedAt, FollowsAt, HoldsSlot, Executing
  <2> QED
    BY <2>3, <2>4 DEF StepOk
<1>2. CASE FireSkipped(r)
  <2>1. At(r, "done") /\ "done" \in FirePcs /\ fire[r].pc = "allowed"
    BY <1>2 DEF FireSkipped, FirePcs
  <2>2. /\ fire' \in [Runs -> FireType] /\ fire'[r].pc = "done"
        /\ \A q \in Runs : fire'[q].entry = fire[q].entry /\ fire'[q].started = fire[q].started
        /\ \A q \in Runs : q # r => fire'[q] = fire[q]
    BY <1>0, <2>1, AtEffect
  <2>3. told' \in [Runs -> ToldType] /\ \A q \in Runs : q # r => told'[q] = told[q]
    <3>1. CASE UNCHANGED told
      BY <1>0, <3>1
    <3>2. CASE told' = [told EXCEPT ![r].dingtalk = "skipped"]
      <4>1. told' = [told EXCEPT ![r] = [told[r] EXCEPT !.dingtalk = "skipped"]]
        BY <3>2
      <4>2. [told[r] EXCEPT !.dingtalk = "skipped"] \in ToldType
        BY <1>0 DEF ToldType
      <4> QED
        BY <1>0, <4>1, <4>2
    <3> QED
      BY <1>2, <3>1, <3>2 DEF FireSkipped
  <2>4. TypeOK' /\ Frame(r)
    BY <1>2, <2>1, <2>2, <2>3, Types, TypesNext DEF FireSkipped, Frame
  <2>5. RunOk(r)'
    BY <1>2, <2>1, <2>2
       DEF FireSkipped, RunOk, RowsAt, EndedAt, FollowsAt, HoldsSlot, Executing
  <2> QED
    BY <2>4, <2>5 DEF StepOk
<1>3. CASE CreateScheduleRun(r)
  <2>1. PICK p \in {"recorded", "done"} :
          /\ At(r, p)
          /\ \/ p = "recorded" /\ sched' = [sched EXCEPT ![r] = "running"] /\ UNCHANGED faults
             \/ p = "done" /\ Fault /\ UNCHANGED sched
    BY <1>3 DEF CreateScheduleRun
  <2>2. p \in FirePcs /\ fire[r].pc = "allowed"
    BY <1>3 DEF CreateScheduleRun, FirePcs
  <2>3. /\ fire' \in [Runs -> FireType] /\ fire'[r].pc = p
        /\ \A q \in Runs : fire'[q].entry = fire[q].entry /\ fire'[q].started = fire[q].started
        /\ \A q \in Runs : q # r => fire'[q] = fire[q]
    BY <1>0, <2>1, <2>2, AtEffect
  <2>4. sched[r] = Absent
    BY <2>2 DEF RunOk, RowsAt
  <2>5. /\ sched' \in [Runs -> RowStatuses] /\ faults' \in Nat /\ (faults' = 0 => faults = 0)
        /\ \A q \in Runs : q # r => sched'[q] = sched[q]
        /\ sched'[r] \in {Absent, "running"} /\ (p = "recorded" => sched'[r] = "running")
    BY <1>0, <2>1, <2>4, StatusSets, FaultEffect
  <2>6. TypeOK' /\ Frame(r)
    BY <1>3, <2>2, <2>3, <2>4, <2>5, StatusSets, Types, TypesNext DEF CreateScheduleRun, Frame
  <2>7. RunOk(r)'
    BY <1>3, <2>1, <2>2, <2>3, <2>5, StatusSets
       DEF CreateScheduleRun, RunOk, RowsAt, EndedAt, FollowsAt, HoldsSlot, Executing
  <2> QED
    BY <2>6, <2>7 DEF StepOk
<1>4. CASE CreateSyncRun(r)
  <2>1. PICK p \in {"inserted", "failSched"} :
          /\ At(r, p)
          /\ \/ p = "inserted" /\ row' = [row EXCEPT ![r] = "running"] /\ UNCHANGED faults
             \/ p = "failSched" /\ Fault /\ UNCHANGED row
    BY <1>4 DEF CreateSyncRun
  <2>2. p \in FirePcs /\ fire[r].pc = "recorded"
    BY <1>4 DEF CreateSyncRun, FirePcs, Executing
  <2>3. /\ fire' \in [Runs -> FireType] /\ fire'[r].pc = p
        /\ \A q \in Runs : fire'[q].entry = fire[q].entry /\ fire'[q].started = fire[q].started
        /\ \A q \in Runs : q # r => fire'[q] = fire[q]
    BY <1>0, <2>1, <2>2, AtEffect
  <2>4. /\ row' \in [Runs -> RowStatuses] /\ faults' \in Nat
        /\ faults' = 0 => faults = 0 /\ p = "inserted"
        /\ \A q \in Runs : q # r => row'[q] = row[q]
        /\ p = "inserted" => row'[r] = "running"
        /\ p = "failSched" => row'[r] = row[r]
    BY <1>0, <2>1, StatusSets, FaultEffect
  <2>5. TypeOK' /\ Frame(r)
    BY <1>4, <2>2, <2>3, <2>4, Types, TypesNext DEF CreateSyncRun, Frame
  <2>6. RunOk(r)'
    BY <1>4, <2>1, <2>2, <2>3, <2>4, StatusSets
       DEF CreateSyncRun, RunOk, RowsAt, EndedAt, FollowsAt, HoldsSlot, Executing
  <2> QED
    BY <2>5, <2>6 DEF StepOk
<1>5. CASE PrepareRun(r)
  <2>1. PICK p \in {"reserved", "fail"} : At(r, p)
    BY <1>5 DEF PrepareRun
  <2>2. p \in FirePcs /\ fire[r].pc = "inserted"
    BY <1>5 DEF PrepareRun, FirePcs, Executing
  <2>3. /\ fire' \in [Runs -> FireType] /\ fire'[r].pc = p
        /\ \A q \in Runs : fire'[q].entry = fire[q].entry /\ fire'[q].started = fire[q].started
        /\ \A q \in Runs : q # r => fire'[q] = fire[q]
    BY <1>0, <2>1, <2>2, AtEffect
  <2>4. TypeOK' /\ Frame(r)
    BY <1>5, <2>2, <2>3, Types, TypesNext DEF PrepareRun, Frame
  <2>5. RunOk(r)'
    BY <1>5, <2>2, <2>3
       DEF PrepareRun, RunOk, RowsAt, EndedAt, FollowsAt, HoldsSlot, Executing
  <2> QED
    BY <2>4, <2>5 DEF StepOk
<1>6. CASE StartRun(r)
  <2>0. fire[r].pc = "reserved"
    BY <1>6 DEF StartRun
  <2>1. /\ jobRow' \in [Jobs -> JobRows] /\ entry' \in [EntryIds -> EntryType]
        /\ faults' \in Nat /\ (faults' = 0 => faults = 0)
    BY <1>0, <1>6, StartEffect
  <2> DEFINE v == [fire[r] EXCEPT !.pc = "running", !.started = TRUE]
  <2>2. fire' = [fire EXCEPT ![r] = v]
    BY <1>6 DEF StartRun
  <2>3. v \in FireType /\ v.pc = "running" /\ v.started /\ v.entry = fire[r].entry
    BY <1>0 DEF FireType, FirePcs, Executing
  <2> HIDE DEF v
  <2>4. timer' \in [Runs -> {"off", "armed", "gone"}] /\ \A q \in Runs : q # r => timer'[q] = timer[q]
    BY <1>0, <1>6 DEF StartRun
  <2>5. /\ fire' \in [Runs -> FireType] /\ fire'[r] = v
        /\ \A q \in Runs : q # r => fire'[q] = fire[q]
    BY <1>0, <2>2, <2>3
  <2>6. TypeOK'
    BY <1>6, <2>1, <2>4, <2>5, Types, TypesNext DEF StartRun
  <2>7. Frame(r)
    BY <1>6, <2>0, <2>1, <2>3, <2>4, <2>5 DEF StartRun, Frame
  <2>8. fire'[r].pc = "running" /\ fire'[r].started /\ row' = row /\ sched' = sched /\ mark' = mark
    BY <1>0, <1>6, <2>2, <2>3 DEF StartRun
  <2>9. RunOk(r)'
    BY <1>6, <2>0, <2>1, <2>8
       DEF RunOk, RowsAt, EndedAt, FollowsAt, HoldsSlot, Executing
  <2> QED
    BY <2>6, <2>7, <2>9 DEF StepOk
<1> QED
  BY <1>1, <1>2, <1>3, <1>4, <1>5, <1>6 DEF DispatchStep

LEMMA EngineSteps ==
  ASSUME TypeOK, NEW r \in Runs, RunOk(r), EngineStep(r)
  PROVE  StepOk(r)
<1>0. /\ sched \in [Runs -> RowStatuses] /\ row \in [Runs -> RowStatuses]
      /\ fire \in [Runs -> FireType] /\ faults \in Nat
      /\ result \in [Runs -> RowStatuses] /\ expired \in [Runs -> BOOLEAN]
  BY Types
<1>1. CASE StopRun(r)
  <2>1. /\ row' \in [Runs -> RowStatuses] /\ \A q \in Runs : q # r => row'[q] = row[q]
        /\ row[r] \in {"running", "stopping"} /\ row'[r] # Absent
    BY <1>0, <1>1, StatusSets DEF StopRun
  <2>2. TypeOK' /\ Frame(r)
    BY <1>1, <2>1, Types, TypesNext DEF StopRun, Frame
  <2>3. RunOk(r)'
    BY <1>1, <2>1, StatusSets
       DEF StopRun, RunOk, RowsAt, EndedAt, FollowsAt, HoldsSlot, Executing
  <2> QED
    BY <2>2, <2>3 DEF StepOk
<1>2. CASE CtxExpire(r)
  <2>1. TypeOK' /\ Frame(r)
    BY <1>0, <1>2, Types, TypesNext DEF CtxExpire, Frame
  <2>2. RunOk(r)'
    BY <1>2 DEF CtxExpire, RunOk, RowsAt, EndedAt, FollowsAt
  <2> QED
    BY <2>1, <2>2 DEF StepOk
<1>3. CASE RunnerReturns(r)
  <2>1. fire[r].pc = "running" /\ At(r, "result") /\ "result" \in FirePcs
    BY <1>3 DEF RunnerReturns, FirePcs, Executing
  <2>2. row[r] # Absent /\ sched[r] # Absent /\ row[r] \in RowStatuses
    BY <1>0, <2>1 DEF RunOk, RowsAt, HoldsSlot
  <2>3. PICK s \in {t \in TerminalStatuses : t = Abnormal \/ ~FinishRejected(row[r], t)} :
          LET now == IF s = Abnormal THEN Aborted(row[r]) ELSE Finished(row[r], s)
          IN \/ /\ row' = [row EXCEPT ![r] = now]
                /\ result' = [result EXCEPT ![r] = now]
                /\ UNCHANGED faults
             \/ /\ Fault /\ row' = [row EXCEPT ![r] = now]
                /\ result' = [result EXCEPT ![r] = s]
             \/ /\ Fault /\ UNCHANGED row
                /\ result' = [result EXCEPT ![r] = Abnormal]
    BY <1>3 DEF RunnerReturns
  <2> DEFINE now == IF s = Abnormal THEN Aborted(row[r]) ELSE Finished(row[r], s)
  <2>4. /\ now \in TerminalStatuses /\ now # Absent /\ now \in RowStatuses
        /\ row[r] \in TerminalStatuses => now = row[r]
    BY <2>2, <2>3, ContractEffect, StatusSets
  <2>5. \/ /\ row' = [row EXCEPT ![r] = now]
           /\ result' = [result EXCEPT ![r] = now]
           /\ UNCHANGED faults
        \/ /\ Fault /\ row' = [row EXCEPT ![r] = now]
           /\ result' = [result EXCEPT ![r] = s]
        \/ /\ Fault /\ UNCHANGED row
           /\ result' = [result EXCEPT ![r] = Abnormal]
    BY <2>3
  <2> HIDE DEF now
  <2>6. /\ row' \in [Runs -> RowStatuses] /\ result' \in [Runs -> RowStatuses] /\ faults' \in Nat
        /\ \A q \in Runs : q # r => row'[q] = row[q] /\ result'[q] = result[q]
        /\ row'[r] # Absent /\ result'[r] # Absent
        /\ faults' = 0 => /\ faults = 0 /\ row'[r] \in TerminalStatuses /\ result'[r] = row'[r]
                          /\ row[r] \in TerminalStatuses => row'[r] = row[r]
    BY <1>0, <2>2, <2>3, <2>4, <2>5, StatusSets, FaultEffect
  <2>7. /\ fire' \in [Runs -> FireType] /\ fire'[r].pc = "result"
        /\ \A q \in Runs : fire'[q].entry = fire[q].entry /\ fire'[q].started = fire[q].started
        /\ \A q \in Runs : q # r => fire'[q] = fire[q]
    BY <1>0, <2>1, AtEffect
  <2>8. expired' \in [Runs -> BOOLEAN]
    BY <1>0, <1>3 DEF RunnerReturns
  <2>9. TypeOK'
    BY <1>3, <2>6, <2>7, <2>8, Types, TypesNext DEF RunnerReturns
  <2>10. Frame(r)
    BY <1>3, <2>1, <2>6, <2>7 DEF RunnerReturns, Frame
  <2>11. RunOk(r)'
    BY <1>3, <2>1, <2>2, <2>6, <2>7
       DEF RunnerReturns, RunOk, RowsAt, EndedAt, FollowsAt, HoldsSlot, Executing
  <2> QED
    BY <2>9, <2>10, <2>11 DEF StepOk
<1>4. CASE RunnerFails(r)
  <2>1. PICK p \in {"timeout", "fail"} : At(r, p)
    BY <1>4 DEF RunnerFails
  <2>2. p \in FirePcs /\ fire[r].pc = "running"
    BY <1>4 DEF RunnerFails, FirePcs, Executing
  <2>3. /\ fire' \in [Runs -> FireType] /\ fire'[r].pc = p
        /\ \A q \in Runs : fire'[q].entry = fire[q].entry /\ fire'[q].started = fire[q].started
        /\ \A q \in Runs : q # r => fire'[q] = fire[q]
    BY <1>0, <2>1, <2>2, AtEffect
  <2>4. expired' \in [Runs -> BOOLEAN]
    BY <1>0, <1>4 DEF RunnerFails
  <2>5. TypeOK' /\ Frame(r)
    BY <1>4, <2>2, <2>3, <2>4, Types, TypesNext DEF RunnerFails, Frame
  <2>6. RunOk(r)'
    BY <1>4, <2>2, <2>3
       DEF RunnerFails, RunOk, RowsAt, EndedAt, FollowsAt, HoldsSlot, Executing
  <2> QED
    BY <2>5, <2>6 DEF StepOk
<1> QED
  BY <1>1, <1>2, <1>3, <1>4 DEF EngineStep

LEMMA TimeoutSteps ==
  ASSUME TypeOK, NEW r \in Runs, RunOk(r), TimeoutStep(r)
  PROVE  StepOk(r)
<1>0. /\ sched \in [Runs -> RowStatuses] /\ row \in [Runs -> RowStatuses] /\ faults \in Nat
      /\ timer \in [Runs -> {"off", "armed", "gone"}]
      /\ mark \in [Runs -> {"off", "sync", "sched", "done"}]
  BY Types
<1>1. CASE TimerFires(r) \/ TimerStops(r)
  <2>1. /\ timer[r] = "armed" /\ timer' \in [Runs -> {"off", "armed", "gone"}]
        /\ mark' \in [Runs -> {"off", "sync", "sched", "done"}]
        /\ \A q \in Runs : q # r => timer'[q] = timer[q] /\ mark'[q] = mark[q]
        /\ mark'[r] \in {mark[r], "sync"}
    BY <1>0, <1>1 DEF TimerFires, TimerStops
  <2>2. TypeOK' /\ Frame(r)
    BY <1>1, <2>1, Types, TypesNext DEF TimerFires, TimerStops, Frame
  <2>3. UNCHANGED <<fire, row, sched, result, told, faults>>
    BY <1>1 DEF TimerFires, TimerStops
  <2>4. RunOk(r)'
    BY <2>1, <2>3 DEF RunOk, RowsAt, EndedAt, FollowsAt
  <2> QED
    BY <2>2, <2>4 DEF StepOk
<1>2. CASE MarkSync(r)
  <2>1. mark[r] = "sync" /\ row[r] # Absent /\ row[r] \in RowStatuses
    BY <1>0, <1>2 DEF MarkSync, RunOk, RowsAt
  <2>2. /\ row' \in [Runs -> RowStatuses] /\ faults' \in Nat
        /\ \A q \in Runs : q # r => row'[q] = row[q]
        /\ row'[r] # Absent
        /\ faults' = 0 => /\ faults = 0 /\ row'[r] \in TerminalStatuses
                          /\ row[r] \in TerminalStatuses => row'[r] = row[r]
    <3>1. CASE row' = [row EXCEPT ![r] = Aborted(row[r])] /\ UNCHANGED faults
      BY <1>0, <2>1, <3>1, ContractEffect, StatusSets
    <3>2. CASE Fault /\ UNCHANGED row
      BY <1>0, <2>1, <3>2, FaultEffect
    <3> QED
      BY <1>2, <3>1, <3>2 DEF MarkSync
  <2>3. mark' \in [Runs -> {"off", "sync", "sched", "done"}] /\ mark'[r] = "sched"
        /\ \A q \in Runs : q # r => mark'[q] = mark[q]
    BY <1>0, <1>2 DEF MarkSync
  <2>4. UNCHANGED <<fire, sched, result, told, timer>>
    BY <1>2 DEF MarkSync
  <2>5. TypeOK' /\ Frame(r)
    BY <1>2, <2>2, <2>3, Types, TypesNext DEF MarkSync, Frame
  <2>6. RowsAt(r)'
    BY <2>1, <2>2, <2>3, <2>4 DEF RunOk, RowsAt
  <2>7. ASSUME faults' = 0 PROVE EndedAt(r)' /\ FollowsAt(r)'
    BY <2>1, <2>2, <2>3, <2>4, <2>7, StatusSets DEF RunOk, EndedAt, FollowsAt
  <2> QED
    BY <2>5, <2>6, <2>7 DEF StepOk, RunOk
<1>3. CASE MarkSched(r)
  <2>1. mark[r] = "sched" /\ FinishSched(r, Abnormal) /\ row[r] # Absent
    BY <1>3 DEF MarkSched, RunOk, RowsAt
  <2>2. /\ sched' \in [Runs -> RowStatuses] /\ faults' \in Nat
        /\ \A q \in Runs : q # r => sched'[q] = sched[q]
        /\ sched[r] # "running" => sched'[r] = sched[r]
        /\ sched'[r] \in {sched[r], Abnormal}
        /\ faults' = 0 => faults = 0
    BY <1>0, <2>1, StatusSets, FinishSchedEffect
  <2>3. mark' \in [Runs -> {"off", "sync", "sched", "done"}] /\ mark'[r] = "done"
        /\ \A q \in Runs : q # r => mark'[q] = mark[q]
    BY <1>0, <1>3 DEF MarkSched
  <2>4. UNCHANGED <<fire, row, result, told, timer>>
    BY <1>3 DEF MarkSched
  <2>5. TypeOK' /\ Frame(r)
    BY <1>3, <2>2, <2>3, StatusSets, Types, TypesNext DEF MarkSched, Frame
  <2>6. RowsAt(r)'
    BY <2>1, <2>2, <2>3, <2>4, StatusSets DEF RunOk, RowsAt
  <2>7. ASSUME faults' = 0 PROVE EndedAt(r)' /\ FollowsAt(r)'
    BY <2>1, <2>2, <2>3, <2>4, <2>7, StatusSets DEF RunOk, EndedAt, FollowsAt
  <2> QED
    BY <2>5, <2>6, <2>7 DEF StepOk, RunOk
<1> QED
  BY <1>1, <1>2, <1>3 DEF TimeoutStep

\* A summary moves a recorded end, and only that, to the job and the copy.
LEMMA SummaryEffect ==
  ASSUME TypeOK, EntryInv, NEW r \in Runs, SummaryWrite(r) \/ SummaryCopy(r)
  PROVE  /\ jobRow' \in [Jobs -> JobRows] /\ entry' \in [EntryIds -> EntryType]
         /\ \A e \in EntryIds :
              /\ entry'[e].job = entry[e].job /\ entry'[e].state = entry[e].state
              /\ \/ entry'[e].copy.lastStatus = entry[e].copy.lastStatus
                 \/ e = fire[r].entry /\ entry'[e].copy.lastStatus = result[r]
         /\ \A j \in Jobs : \/ jobRow'[j].lastStatus = jobRow[j].lastStatus
                            \/ j = JobOf(r) /\ jobRow'[j].lastStatus = result[r]
<1> DEFINE e == fire[r].entry
<1>0. /\ jobRow \in [Jobs -> JobRows] /\ entry \in [EntryIds -> EntryType]
      /\ result[r] \in RowStatuses
  BY Types
<1>1. e \in EntryIds
  BY Types, Zero DEF SummaryWrite, SummaryCopy, EntryInv, Dispatched, FireType
<1>2. entry[e].copy \in JobRows /\ entry[e].job \in Jobs /\ entry[e] \in EntryType
  BY <1>0, <1>1 DEF EntryType
<1>3. CASE SummaryWrite(r)
  <2> DEFINE j == entry[e].job
             v == [jobRow[j] EXCEPT !.lastStatus = result[r]]
  <2>1. jobRow' = [jobRow EXCEPT ![j] = v] \/ UNCHANGED jobRow
    BY <1>3 DEF SummaryWrite, JobOf
  <2>2. v \in JobRows /\ v.lastStatus = result[r] /\ j \in Jobs
    BY <1>0, <1>2, RowCopies
  <2>3. j = JobOf(r)
    BY DEF JobOf
  <2> HIDE DEF v, j
  <2>4. /\ jobRow' \in [Jobs -> JobRows]
        /\ \A k \in Jobs : jobRow'[k] = jobRow[k] \/ (k = j /\ jobRow'[k] = v)
    <3>1. CASE jobRow' = [jobRow EXCEPT ![j] = v]
      BY <1>0, <2>2, <3>1
    <3>2. CASE UNCHANGED jobRow
      BY <1>0, <3>2
    <3> QED
      BY <2>1, <3>1, <3>2
  <2>5. UNCHANGED entry
    BY <1>3 DEF SummaryWrite
  <2> QED
    BY <1>0, <2>2, <2>3, <2>4, <2>5
<1>4. CASE SummaryCopy(r)
  <2> DEFINE c == [entry[e].copy EXCEPT !.lastStatus = result[r]]
             v == [entry[e] EXCEPT !.copy = c]
  <2>1. entry' = [entry EXCEPT ![e] = v] \/ UNCHANGED entry
    BY <1>4 DEF SummaryCopy
  <2>2. c \in JobRows /\ c.lastStatus = result[r]
    BY <1>0, <1>2, RowCopies
  <2>3. v \in EntryType /\ v.job = entry[e].job /\ v.state = entry[e].state /\ v.copy = c
    <3> HIDE DEF c
    <3> QED
      BY <1>2, <2>2 DEF EntryType
  <2> HIDE DEF c, v
  <2>4. /\ entry' \in [EntryIds -> EntryType]
        /\ \A d \in EntryIds : entry'[d] = entry[d] \/ (d = e /\ entry'[d] = v)
    <3>1. CASE entry' = [entry EXCEPT ![e] = v]
      BY <1>0, <1>1, <2>3, <3>1
    <3>2. CASE UNCHANGED entry
      BY <1>0, <3>2
    <3> QED
      BY <2>1, <3>1, <3>2
  <2>5. UNCHANGED jobRow
    BY <1>4 DEF SummaryCopy
  <2> QED
    BY <1>0, <2>2, <2>3, <2>4, <2>5
<1> QED
  BY <1>3, <1>4

\* What a hook says is what the row says.
LEMMA HookEffect ==
  ASSUME TypeOK, NEW r \in Runs, Hook(r)
  PROVE  /\ told' \in [Runs -> ToldType] /\ faults' \in Nat
         /\ \A q \in Runs : q # r => told'[q] = told[q]
         /\ faults' = 0 => /\ faults = 0
                           /\ row[r] \in TerminalStatuses /\ row[r] # "success"
                                => told'[r].dingtalk = row[r]
<1> DEFINE d == IF row[r] \in {"failed", "partial", "stopped", Abnormal} THEN row[r] ELSE Absent
           w == CASE row[r] = "success" -> "completed"
                  [] row[r] \in {"failed", "stopped"} -> "failed"
                  [] OTHER -> "none"
<1>0. row[r] \in RowStatuses /\ told \in [Runs -> ToldType] /\ faults \in Nat
  BY Types
<1>1. d \in RowStatuses /\ (row[r] \in TerminalStatuses /\ row[r] # "success" => d = row[r])
  BY <1>0, StatusSets DEF TerminalStatuses
<1>2. w \in {"none", "completed", "failed"}
  OBVIOUS
<1>3. \/ told' = [told EXCEPT ![r] = [dingtalk |-> d, webhook |-> w]] /\ UNCHANGED faults
      \/ Fault /\ UNCHANGED told
  BY DEF Hook
<1> HIDE DEF d, w
<1>4. [dingtalk |-> d, webhook |-> w] \in ToldType
  BY <1>1, <1>2 DEF ToldType
<1> QED
  BY <1>0, <1>1, <1>3, <1>4, FaultEffect

LEMMA EndSteps ==
  ASSUME TypeOK, EntryInv, NEW r \in Runs, RunOk(r), EndStep(r)
  PROVE  StepOk(r)
<1>0. /\ sched \in [Runs -> RowStatuses] /\ row \in [Runs -> RowStatuses]
      /\ fire \in [Runs -> FireType] /\ faults \in Nat /\ result \in [Runs -> RowStatuses]
      /\ mark \in [Runs -> {"off", "sync", "sched", "done"}]
  BY Types
<1>a. ASSUME NEW p \in FirePcs, At(r, p)
      PROVE  /\ fire' \in [Runs -> FireType] /\ fire'[r].pc = p
             /\ \A q \in Runs : /\ fire'[q].entry = fire[q].entry
                                /\ fire'[q].started = fire[q].started
                                /\ q # r => fire'[q] = fire[q]
  BY <1>0, <1>a, AtEffect
<1>1. CASE RunnerTimeout(r)
  <2>0. fire[r].pc = "timeout" /\ "hook" \in FirePcs
    BY <1>1 DEF RunnerTimeout, FirePcs
  <2>1. CASE mark[r] = "off" /\ mark' = [mark EXCEPT ![r] = "sync"] /\ UNCHANGED fire
    <3>1. TypeOK' /\ Frame(r)
      BY <1>0, <1>1, <2>1, Types, TypesNext DEF RunnerTimeout, Frame
    <3>2. RunOk(r)'
      BY <1>0, <1>1, <2>0, <2>1
         DEF RunnerTimeout, RunOk, RowsAt, EndedAt, FollowsAt, HoldsSlot, Executing
    <3> QED
      BY <3>1, <3>2 DEF StepOk
  <2>2. CASE mark[r] = "done" /\ At(r, "hook") /\ UNCHANGED mark
    <3>1. TypeOK' /\ Frame(r)
      BY <1>1, <1>a, <2>0, <2>2, Types, TypesNext DEF RunnerTimeout, Frame
    <3>2. RunOk(r)'
      BY <1>1, <1>a, <2>0, <2>2
         DEF RunnerTimeout, RunOk, RowsAt, EndedAt, FollowsAt, HoldsSlot, Executing
    <3> QED
      BY <3>1, <3>2 DEF StepOk
  <2> QED
    BY <1>1, <2>1, <2>2 DEF RunnerTimeout
<1>2. CASE FailSync(r)
  <2>0. fire[r].pc = "fail" /\ At(r, "failSched") /\ "failSched" \in FirePcs
    BY <1>2 DEF FailSync, FirePcs, Executing
  <2>1. /\ row' \in [Runs -> RowStatuses] /\ faults' \in Nat
        /\ \A q \in Runs : q # r => row'[q] = row[q]
        /\ row[r] \in TerminalStatuses => row'[r] = row[r]
        /\ row[r] # Absent => row'[r] # Absent
        /\ faults' = 0 => faults = 0 /\ (row[r] # Absent => row'[r] \in TerminalStatuses)
    BY <1>0, <1>2, FinishSyncEffect DEF FailSync
  <2>2. TypeOK' /\ Frame(r)
    BY <1>2, <1>a, <2>0, <2>1, Types, TypesNext DEF FailSync, Frame
  <2>3. RunOk(r)'
    BY <1>2, <1>a, <2>0, <2>1
       DEF FailSync, RunOk, RowsAt, EndedAt, FollowsAt, HoldsSlot, Executing
  <2> QED
    BY <2>2, <2>3 DEF StepOk
<1>3. CASE FailSched(r)
  <2> DEFINE p == IF fire[r].started THEN "hook" ELSE "done"
  <2>0. fire[r].pc = "failSched" /\ At(r, p) /\ p \in FirePcs
    BY <1>3 DEF FailSched, FirePcs
  <2>1. /\ p \in {"hook", "done"} /\ (p = "done" => ~fire[r].started)
    OBVIOUS
  <2> HIDE DEF p
  <2>2. /\ sched' \in [Runs -> RowStatuses] /\ faults' \in Nat
        /\ \A q \in Runs : q # r => sched'[q] = sched[q]
        /\ sched[r] # "running" => sched'[r] = sched[r]
        /\ sched'[r] \in {sched[r], "failed"}
        /\ faults' = 0 => faults = 0
    BY <1>0, <1>3, StatusSets, FinishSchedEffect DEF FailSched
  <2>3. TypeOK' /\ Frame(r)
    BY <1>3, <1>a, <2>0, <2>1, <2>2, StatusSets, Types, TypesNext DEF FailSched, Frame
  <2>4. RunOk(r)'
    BY <1>3, <1>a, <2>0, <2>1, <2>2, StatusSets
       DEF FailSched, RunOk, RowsAt, EndedAt, FollowsAt, HoldsSlot, Executing
  <2> QED
    BY <2>3, <2>4 DEF StepOk
<1>4. CASE FinishResult(r)
  <2>0. fire[r].pc = "result" /\ At(r, "summary") /\ "summary" \in FirePcs
    BY <1>4 DEF FinishResult, FirePcs, Executing
  <2>1. /\ sched' \in [Runs -> RowStatuses] /\ faults' \in Nat
        /\ \A q \in Runs : q # r => sched'[q] = sched[q]
        /\ sched[r] # "running" => sched'[r] = sched[r]
        /\ sched'[r] \in {sched[r], result[r]}
        /\ faults' = 0 => faults = 0 /\ (sched[r] = "running" => sched'[r] = result[r])
    BY <1>0, <1>4, FinishSchedEffect DEF FinishResult
  <2>2. TypeOK' /\ Frame(r)
    BY <1>4, <1>a, <2>0, <2>1, StatusSets, Types, TypesNext DEF FinishResult, Frame
  <2>3. row[r] # Absent /\ sched[r] # Absent /\ sched[r] \in RowStatuses
    BY <1>0, <2>0 DEF RunOk, RowsAt, Executing
  <2>4. UNCHANGED <<row, result, timer, mark, told>>
    BY <1>4 DEF FinishResult
  <2>5. ASSUME faults' = 0 PROVE EndedAt(r)' /\ FollowsAt(r)'
    BY <1>a, <2>0, <2>1, <2>3, <2>4, <2>5, StatusSets DEF RunOk, EndedAt, FollowsAt
  <2>6. RowsAt(r)'
    <3>1. sched'[r] # Absent
      BY <2>0, <2>1, <2>3 DEF RunOk, RowsAt
    <3> QED
      BY <1>a, <2>0, <2>3, <2>4, <3>1 DEF RunOk, RowsAt, HoldsSlot, Executing
  <2> QED
    BY <2>2, <2>5, <2>6 DEF StepOk, RunOk
<1>5. CASE SummaryRead(r)
  <2>0. PICK p \in {"summarize", "hook"} :
          /\ At(r, p)
          /\ \/ p = "summarize" /\ result' = [result EXCEPT ![r] = sched[r]] /\ UNCHANGED faults
             \/ p = "hook" /\ Fault /\ UNCHANGED result
    BY <1>5 DEF SummaryRead
  <2>1. fire[r].pc = "summary" /\ p \in FirePcs
    BY <1>5 DEF SummaryRead, FirePcs, Executing
  <2>2. /\ result' \in [Runs -> RowStatuses] /\ faults' \in Nat /\ (faults' = 0 => faults = 0)
        /\ \A q \in Runs : q # r => result'[q] = result[q]
        /\ p = "summarize" => result'[r] = sched[r]
    BY <1>0, <2>0, FaultEffect
  <2>3. TypeOK' /\ Frame(r)
    BY <1>5, <1>a, <2>0, <2>1, <2>2, Types, TypesNext DEF SummaryRead, Frame
  <2>4. RunOk(r)'
    BY <1>5, <1>a, <2>0, <2>1, <2>2
       DEF SummaryRead, RunOk, RowsAt, EndedAt, FollowsAt, HoldsSlot, Executing
  <2> QED
    BY <2>3, <2>4 DEF StepOk
<1>6. CASE SummaryWrite(r)
  <2>0. PICK p \in {"copy", "hook"} : At(r, p) /\ (UNCHANGED faults \/ Fault)
    BY <1>6 DEF SummaryWrite
  <2>1. fire[r].pc = "summarize" /\ p \in FirePcs
    BY <1>6 DEF SummaryWrite, FirePcs, Executing
  <2>2. faults' \in Nat /\ (faults' = 0 => faults = 0)
    BY <1>0, <2>0, FaultEffect
  <2>3. TypeOK' /\ Frame(r)
    BY <1>6, <1>a, <2>0, <2>1, <2>2, SummaryEffect, Types, TypesNext DEF SummaryWrite, Frame
  <2>4. RunOk(r)'
    BY <1>6, <1>a, <2>0, <2>1, <2>2
       DEF SummaryWrite, RunOk, RowsAt, EndedAt, FollowsAt, HoldsSlot, Executing
  <2> QED
    BY <2>3, <2>4 DEF StepOk
<1>7. CASE SummaryCopy(r)
  <2>1. fire[r].pc = "copy" /\ At(r, "hook") /\ "hook" \in FirePcs
    BY <1>7 DEF SummaryCopy, FirePcs
  <2>2. jobRow' \in [Jobs -> JobRows] /\ entry' \in [EntryIds -> EntryType]
    BY <1>7, SummaryEffect
  <2>3. TypeOK' /\ Frame(r)
    BY <1>7, <1>a, <2>1, <2>2, Types, TypesNext DEF SummaryCopy, Frame
  <2>4. RunOk(r)'
    BY <1>7, <1>a, <2>1
       DEF SummaryCopy, RunOk, RowsAt, EndedAt, FollowsAt, HoldsSlot, Executing
  <2> QED
    BY <2>3, <2>4 DEF StepOk
<1>8. CASE Hook(r)
  <2>1. fire[r].pc = "hook" /\ At(r, "done") /\ "done" \in FirePcs
    BY <1>8 DEF Hook, FirePcs
  <2>2. result' \in [Runs -> RowStatuses] /\ \A q \in Runs : q # r => result'[q] = result[q]
    BY <1>0, <1>8, StatusSets DEF Hook
  <2>3. TypeOK' /\ Frame(r)
    BY <1>8, <1>a, <2>1, <2>2, HookEffect, Types, TypesNext DEF Hook, Frame
  <2>4. UNCHANGED <<row, sched, timer, mark>>
    BY <1>8 DEF Hook
  <2>5. RunOk(r)'
    BY <1>8, <1>a, <2>1, <2>4, HookEffect
       DEF RunOk, RowsAt, EndedAt, FollowsAt, HoldsSlot, Executing
  <2> QED
    BY <2>3, <2>5 DEF StepOk
<1> QED
  BY <1>1, <1>2, <1>3, <1>4, <1>5, <1>6, <1>7, <1>8 DEF EndStep

-----------------------------------------------------------------------------
\* Where the statuses on the copies come from.

\* A status that some copy of the job's row shows, or that one of its runs ended with.
Source(j, s) ==
  \/ s = Absent
  \/ s = jobRow[j].lastStatus
  \/ \E e \in EntryIds : entry[e].job = j /\ s = entry[e].copy.lastStatus
  \/ \E h \in Reloaders : s = reload[h].copies[j].lastStatus
  \/ \E r \in Runs : Dispatched(r) /\ JobOf(r) = j /\ sched[r] \in TerminalStatuses /\ s = sched[r]

\* An entry that is taken stays with its job, and a registration that is to be
\* saved has an entry.
Kept ==
  /\ \A e \in EntryIds : entry[e].state # "free" =>
       entry'[e].state # "free" /\ entry'[e].job = entry[e].job
  /\ \A h \in Reloaders : reload'[h].pc = "save" => reload'[h].entry \in EntryIds

\* Every copy has a source.
Sourced ==
  /\ \A j \in Jobs : Source(j, jobRow'[j].lastStatus)
  /\ \A e \in EntryIds : Source(entry'[e].job, entry'[e].copy.lastStatus)
  /\ \A h \in Reloaders, j \in Jobs : Source(j, reload'[h].copies[j].lastStatus)

LEMMA SourceSelf ==
  /\ \A j \in Jobs : Source(j, Absent) /\ Source(j, jobRow[j].lastStatus)
  /\ \A e \in EntryIds : Source(entry[e].job, entry[e].copy.lastStatus)
  /\ \A h \in Reloaders, j \in Jobs : Source(j, reload[h].copies[j].lastStatus)
  BY DEF Source

\* What is left alone is sourced.
LEMMA SourcedParts ==
  ASSUME EntryInv
  PROVE  /\ UNCHANGED jobRow => \A j \in Jobs : Source(j, jobRow'[j].lastStatus)
         /\ UNCHANGED entry =>
              /\ \A e \in EntryIds : Source(entry'[e].job, entry'[e].copy.lastStatus)
              /\ \A e \in EntryIds : entry[e].state # "free" =>
                   entry'[e].state # "free" /\ entry'[e].job = entry[e].job
         /\ UNCHANGED reload =>
              /\ \A h \in Reloaders, j \in Jobs : Source(j, reload'[h].copies[j].lastStatus)
              /\ \A h \in Reloaders : reload'[h].pc = "save" => reload'[h].entry \in EntryIds
  BY SourceSelf DEF EntryInv

\* A handler's record after its step.
LEMMA SourcedHandler ==
  ASSUME EntryInv, NEW h \in Reloaders,
         \A g \in Reloaders : g # h => reload'[g] = reload[g],
         \A j \in Jobs : Source(j, reload'[h].copies[j].lastStatus),
         reload'[h].pc = "save" => reload'[h].entry \in EntryIds
  PROVE  /\ \A g \in Reloaders, j \in Jobs : Source(j, reload'[g].copies[j].lastStatus)
         /\ \A g \in Reloaders : reload'[g].pc = "save" => reload'[g].entry \in EntryIds
  BY SourceSelf DEF EntryInv

LEMMA HandlersSourced ==
  ASSUME TypeOK, EntryInv, NEW h \in Reloaders, ReloadStep(h) \/ UserStep(h) \/ Ensure
  PROVE  Sourced /\ Kept
<1>0. /\ jobRow \in [Jobs -> JobRows] /\ entry \in [EntryIds -> EntryType]
      /\ reload \in [Reloaders -> ReloadType] /\ "main" \in Reloaders
  BY Types DEF Reloaders
<1> DEFINE RowSourced == \A j \in Jobs : Source(j, jobRow'[j].lastStatus)
           EntrySourced ==
             /\ \A e \in EntryIds : Source(entry'[e].job, entry'[e].copy.lastStatus)
             /\ \A e \in EntryIds : entry[e].state # "free" =>
                  entry'[e].state # "free" /\ entry'[e].job = entry[e].job
           ReloadSourced ==
             /\ \A g \in Reloaders, j \in Jobs : Source(j, reload'[g].copies[j].lastStatus)
             /\ \A g \in Reloaders : reload'[g].pc = "save" => reload'[g].entry \in EntryIds
<1>1. RowSourced /\ EntrySourced /\ ReloadSourced => Sourced /\ Kept
  BY DEF Sourced, Kept
<1>2. /\ UNCHANGED jobRow => RowSourced
      /\ UNCHANGED entry => EntrySourced
      /\ UNCHANGED reload => ReloadSourced
  BY SourcedParts
<1>3. ASSUME NEW g \in Reloaders, NEW p \in ReloadPcs \ {"save"}, Reloading(g, p)
      PROVE  ReloadSourced
  BY <1>0, <1>3, ReloadingEffect, SourceSelf, SourcedHandler
<1>4. ASSUME NEW g \in Reloaders, Done(g) PROVE ReloadSourced
  <2>1. \A k \in Reloaders : k # g => reload'[k] = reload[k]
    BY <1>0, <1>4, DoneEffect
  <2>2. reload'[g].pc = "idle" /\ \A j \in Jobs : reload'[g].copies[j].lastStatus = Absent
    BY <1>0, <1>4, DoneEffect, IdleType, BlankRow
  <2>3. \A j \in Jobs : Source(j, reload'[g].copies[j].lastStatus)
    BY <2>2, SourceSelf
  <2> QED
    BY <2>1, <2>2, <2>3, SourcedHandler
<1>5. ASSUME NEW g \in Reloaders, NEW p, NEW e, NEW c, Holding(g, p, c, e),
             \A j \in Jobs : Source(j, c[j].lastStatus), p = "save" => e \in EntryIds
      PROVE  ReloadSourced
  BY <1>5, SourcedHandler DEF Holding
<1>6. \A j \in Jobs : Source(j, reload[h].copies[j].lastStatus)
  BY SourceSelf
<1>7. ASSUME NEW j \in Jobs, NEW c \in JobRows, Source(j, c.lastStatus), SaveCopy(j, c)
      PROVE  RowSourced
  BY <1>0, <1>7, SaveEffect, SourceSelf
<1> HIDE DEF RowSourced, EntrySourced, ReloadSourced
<1>8. CASE Ensure
  <2>1. RowSourced
    BY <1>0, <1>2, <1>8, BlankRow, SourceSelf DEF Ensure, RowSourced
  <2>2. ReloadSourced /\ EntrySourced
    BY <1>0, <1>2, <1>3, <1>4, <1>8 DEF Ensure, ReloadPcs
  <2> QED
    BY <1>1, <2>1, <2>2
<1>9. ASSUME NEW op \in Operations, NEW j \in Jobs, WriteJob(h, op, j) PROVE Sourced /\ Kept
  <2>1. op \in AllOperations
    BY ConstantsAssumption
  <2>2. RowSourced
    <3>1. CASE UNCHANGED jobRow
      BY <1>2, <3>1
    <3>2. CASE jobRow' = [jobRow EXCEPT ![j] = [NoJobRow EXCEPT !.exists = TRUE, !.enabled = TRUE]]
      BY <1>0, <3>2, BlankRow, SourceSelf DEF RowSourced
    <3>3. CASE jobRow' = [jobRow EXCEPT ![j] = NoJobRow]
      BY <1>0, <3>3, BlankRow, SourceSelf DEF RowSourced
    <3>4. CASE jobRow' = [jobRow EXCEPT ![j] = [@ EXCEPT !.enabled = (op = "enable")]]
      BY <1>0, <3>4, RowCopies, SourceSelf DEF RowSourced
    <3> QED
      BY <1>9, <3>1, <3>2, <3>3, <3>4, WriteEffect
  <2>3. ReloadSourced
    <3>1. CASE UNCHANGED reload
      BY <1>2, <3>1
    <3>2. CASE reload' = [reload EXCEPT ![h].pc = "list", ![h].op = op]
      <4>1. Holding(h, "list", reload[h].copies, reload[h].entry)
        BY <1>0, <2>1, <3>2, HandlerSteps
      <4> QED
        BY <1>5, <1>6, <4>1
    <3> QED
      BY <1>9, <3>1, <3>2 DEF WriteJob
  <2> QED
    BY <1>1, <1>2, <1>9, <2>2, <2>3 DEF WriteJob
<1>10. ASSUME NEW j \in Jobs, LoadJob(h, j) PROVE Sourced /\ Kept
  <2> DEFINE c == [IdleReload.copies EXCEPT ![j] = jobRow[j]]
  <2>1. Holding(h, "loaded", c, NoEntry)
    BY <1>10, LoadEffect
  <2>2. \A k \in Jobs : Source(k, c[k].lastStatus)
    <3>1. IdleReload.copies \in [Jobs -> JobRows]
      BY IdleType DEF ReloadType
    <3> QED
      BY <1>0, <3>1, IdleType, BlankRow, SourceSelf
  <2> HIDE DEF c
  <2>3. ReloadSourced
    BY <1>5, <2>1, <2>2
  <2> QED
    BY <1>1, <1>2, <1>10, <2>3 DEF LoadJob
<1>11. CASE PauseFlag(h) \/ ResumeFlag(h)
  <2>1. PICK p \in {"cronStop", "cronStart"} : Holding(h, p, reload[h].copies, reload[h].entry)
    BY <1>0, <1>11, HandlerSteps DEF PauseFlag, ResumeFlag, AllOperations
  <2>2. ReloadSourced
    BY <1>5, <1>6, <2>1
  <2> QED
    BY <1>1, <1>2, <1>11, <2>2 DEF PauseFlag, ResumeFlag
<1>12. CASE SaveJob(h)
  <2>1. PICK j \in reload[h].todo, on \in BOOLEAN :
          \/ /\ SaveCopy(j, [reload[h].copies[j] EXCEPT !.enabled = on])
             /\ reload' = [reload EXCEPT ![h].pc = "list", ![h].todo = {}]
          \/ Done(h) /\ UNCHANGED jobRow
    BY <1>12 DEF SaveJob
  <2>2. j \in Jobs /\ reload[h].copies[j] \in JobRows
    <3>1. reload[h].todo \in SUBSET Jobs /\ reload[h].copies \in [Jobs -> JobRows]
      BY <1>0 DEF ReloadType
    <3> QED
      BY <2>1, <3>1
  <2>3. CASE /\ SaveCopy(j, [reload[h].copies[j] EXCEPT !.enabled = on])
             /\ reload' = [reload EXCEPT ![h].pc = "list", ![h].todo = {}]
    <3>1. Holding(h, "list", reload[h].copies, reload[h].entry)
      BY <1>0, <2>3, HandlerSteps
    <3>2. ReloadSourced
      BY <1>5, <1>6, <3>1
    <3>3. /\ [reload[h].copies[j] EXCEPT !.enabled = on] \in JobRows
          /\ Source(j, [reload[h].copies[j] EXCEPT !.enabled = on].lastStatus)
      BY <1>6, <2>2, RowCopies
    <3>4. RowSourced
      BY <1>7, <2>2, <2>3, <3>3
    <3> QED
      BY <1>1, <1>2, <1>12, <3>2, <3>4 DEF SaveJob
  <2>4. CASE Done(h) /\ UNCHANGED jobRow
    BY <1>1, <1>2, <1>4, <1>12, <2>4 DEF SaveJob
  <2> QED
    BY <2>1, <2>3, <2>4
<1>13. CASE CronStart(h) \/ PauseCron(h) \/ ReloadDone(h)
  <2>1. ReloadSourced
    BY <1>3, <1>4, <1>13 DEF CronStart, PauseCron, ReloadDone, ReloadPcs
  <2> QED
    BY <1>1, <1>2, <1>13, <2>1 DEF CronStart, PauseCron, ReloadDone
<1>14. CASE ReloadList(h) \/ ReloadRemove(h)
  <2>1. Live \in SUBSET EntryIds /\ {} \in SUBSET EntryIds
    BY DEF Live
  <2>2. PICK p \in {"remove", "query"} : Holding(h, p, reload[h].copies, reload[h].entry)
    BY <1>0, <1>14, <2>1, HandlerSteps DEF ReloadList, ReloadRemove
  <2>3. ReloadSourced
    BY <1>5, <1>6, <2>2
  <2>4. EntrySourced
    <3>1. CASE ReloadList(h)
      BY <1>2, <3>1 DEF ReloadList
    <3>2. CASE ReloadRemove(h)
      BY <1>0, <3>2, RemovedEffect, SourceSelf DEF EntrySourced
    <3> QED
      BY <1>14, <3>1, <3>2
  <2> QED
    BY <1>1, <1>2, <1>14, <2>3, <2>4 DEF ReloadList, ReloadRemove
<1>15. CASE ReloadQuery(h)
  <2> DEFINE T == {j \in Jobs : jobRow[j].exists /\ jobRow[j].enabled}
  <2>1. ASSUME reload' = [reload EXCEPT ![h].pc = "add", ![h].copies = jobRow, ![h].todo = T]
        PROVE  ReloadSourced
    <3>1. T \in SUBSET Jobs
      OBVIOUS
    <3> HIDE DEF T
    <3>2. Holding(h, "add", jobRow, reload[h].entry)
      BY <1>0, <2>1, <3>1, HandlerSteps
    <3> QED
      BY <1>5, <3>2, SourceSelf
  <2>3. ReloadSourced
    BY <1>4, <1>15, <2>1 DEF ReloadQuery
  <2> QED
    BY <1>1, <1>2, <1>15, <2>3 DEF ReloadQuery
<1>16. CASE ReloadAdd(h)
  <2>1. PICK j \in reload[h].todo :
          \/ \E e \in EntryIds :
               /\ entry[e].state = "free"
               /\ entry' = [entry EXCEPT ![e] = [state |-> "live", job |-> j,
                                                 copy |-> reload[h].copies[j]]]
               /\ reload' = [reload EXCEPT ![h].pc = "save", ![h].entry = e, ![h].todo = @ \ {j}]
          \/ reload' = [reload EXCEPT ![h].todo = @ \ {j}] /\ UNCHANGED entry
    BY <1>16 DEF ReloadAdd
  <2>2. j \in Jobs
    <3>1. reload[h].todo \in SUBSET Jobs
      BY <1>0 DEF ReloadType
    <3> QED
      BY <2>1, <3>1
  <2>3. ASSUME NEW e \in EntryIds, entry[e].state = "free",
               entry' = [entry EXCEPT ![e] = [state |-> "live", job |-> j,
                                              copy |-> reload[h].copies[j]]],
               reload' = [reload EXCEPT ![h].pc = "save", ![h].entry = e, ![h].todo = @ \ {j}]
        PROVE  ReloadSourced /\ EntrySourced
    <3>1. Holding(h, "save", reload[h].copies, e)
      BY <1>0, <2>2, <2>3, HandlerSteps
    <3>2. ReloadSourced
      BY <1>5, <1>6, <3>1
    <3> DEFINE v == [state |-> "live", job |-> j, copy |-> reload[h].copies[j]]
    <3>3. v.job = j /\ v.copy = reload[h].copies[j]
      OBVIOUS
    <3> HIDE DEF v
    <3>4. entry'[e] = v /\ \A d \in EntryIds : d # e => entry'[d] = entry[d]
      BY <1>0, <2>3 DEF v
    <3>5. EntrySourced
      BY <1>6, <2>2, <2>3, <3>3, <3>4, SourceSelf DEF EntrySourced
    <3> QED
      BY <3>2, <3>5
  <2>4. CASE reload' = [reload EXCEPT ![h].todo = @ \ {j}] /\ UNCHANGED entry
    <3>1. Holding(h, "add", reload[h].copies, reload[h].entry)
      BY <1>0, <1>16, <2>2, <2>4, HandlerSteps DEF ReloadAdd
    <3>2. ReloadSourced
      BY <1>5, <1>6, <3>1
    <3> QED
      BY <1>1, <1>2, <1>16, <2>4, <3>2 DEF ReloadAdd
  <2> QED
    BY <1>1, <1>2, <1>16, <2>1, <2>3, <2>4 DEF ReloadAdd
<1>17. CASE ReloadSave(h)
  <2>1. reload[h].entry \in EntryIds
    BY <1>17 DEF ReloadSave, EntryInv
  <2>2. entry[reload[h].entry].job \in Jobs /\ entry[reload[h].entry].copy \in JobRows
    BY <1>0, <2>1 DEF EntryType
  <2>3. Holding(h, "add", reload[h].copies, NoEntry)
    BY <1>0, <1>17, HandlerSteps DEF ReloadSave
  <2>4. ReloadSourced
    BY <1>5, <1>6, <2>3
  <2>5. RowSourced
    BY <1>2, <1>7, <1>17, <2>1, <2>2, SourceSelf DEF ReloadSave
  <2> QED
    BY <1>1, <1>2, <1>17, <2>4, <2>5 DEF ReloadSave
<1> QED
  BY <1>8, <1>9, <1>10, <1>11, <1>12, <1>13, <1>14, <1>15, <1>16, <1>17
     DEF ReloadStep, UserStep

LEMMA RunsSourced ==
  ASSUME TypeOK, EntryInv, NEW r \in Runs, RunOk(r),
         DispatchStep(r) \/ EngineStep(r) \/ EndStep(r) \/ TimeoutStep(r)
  PROVE  Kept /\ (faults = 0 => Sourced)
<1>0. UNCHANGED reload
  BY DEF DispatchStep, FirePaused, FireSkipped, CreateScheduleRun, CreateSyncRun, PrepareRun,
         StartRun, EngineStep, StopRun, CtxExpire, RunnerReturns, RunnerFails, EndStep,
         RunnerTimeout, FailSync, FailSched, FinishResult, SummaryRead, SummaryWrite,
         SummaryCopy, Hook, TimeoutStep, TimerFires, TimerStops, MarkSync, MarkSched
<1>1. CASE StartRun(r)
  <2>1. /\ \A e \in EntryIds : Source(entry'[e].job, entry'[e].copy.lastStatus)
        /\ \A j \in Jobs : Source(j, jobRow'[j].lastStatus)
    BY <1>1, StartEffect, SourceSelf
  <2>2. Kept
    BY <1>0, <1>1, StartEffect DEF Kept, EntryInv
  <2> QED
    BY <1>0, <2>1, <2>2, SourceSelf DEF Sourced
<1>2. CASE SummaryWrite(r) \/ SummaryCopy(r)
  <2>1. Kept
    BY <1>0, <1>2, SummaryEffect DEF Kept, EntryInv
  <2>2. ASSUME faults = 0 PROVE Sourced
    <3>1. Dispatched(r)
      BY <1>2 DEF EntryInv, SummaryWrite, SummaryCopy
    <3>2. result[r] = sched[r] /\ sched[r] \in TerminalStatuses
      BY <1>2, <2>2 DEF RunOk, EndedAt, SummaryWrite, SummaryCopy
    <3>3. Source(JobOf(r), result[r]) /\ JobOf(r) = entry[fire[r].entry].job
      BY <3>1, <3>2 DEF Source, JobOf
    <3>4. \A e \in EntryIds : Source(entry'[e].job, entry'[e].copy.lastStatus)
      BY <1>2, <3>3, SummaryEffect, SourceSelf
    <3>5. \A j \in Jobs : Source(j, jobRow'[j].lastStatus)
      BY <1>2, <3>3, SummaryEffect, SourceSelf
    <3> QED
      BY <1>0, <3>4, <3>5, SourceSelf DEF Sourced
  <2> QED
    BY <2>1, <2>2
<1>3. CASE ~StartRun(r) /\ ~SummaryWrite(r) /\ ~SummaryCopy(r)
  <2>1. UNCHANGED jobRow /\ UNCHANGED entry
    BY <1>3
       DEF DispatchStep, FirePaused, FireSkipped, CreateScheduleRun, CreateSyncRun, PrepareRun,
           EngineStep, StopRun, CtxExpire, RunnerReturns, RunnerFails, EndStep,
           RunnerTimeout, FailSync, FailSched, FinishResult, SummaryRead, Hook,
           TimeoutStep, TimerFires, TimerStops, MarkSync, MarkSched
  <2> QED
    BY <1>0, <2>1, SourcedParts DEF Sourced, Kept
<1> QED
  BY <1>1, <1>2, <1>3

\* The cron calls runJob of a live entry.
LEMMA CronFireEffect ==
  ASSUME TypeOK, NEW r \in Runs, RunOk(r), NEW e \in EntryIds, CronFire(r, e)
  PROVE  /\ TypeOK' /\ RunOk(r)' /\ fire[r].pc = "none"
         /\ \A q \in Runs : q # r => fire'[q] = fire[q]
         /\ fire'[r].entry = e /\ entry[e].state # "free" /\ fire'[r].pc # "none"
<1>1. fire[r].pc = "none" /\ entry[e].state = "live"
  BY DEF CronFire, Live
<1> DEFINE v == [fire[r] EXCEPT !.pc = "fired", !.entry = e]
<1>2. fire' = [fire EXCEPT ![r] = v]
  BY DEF CronFire
<1>3. fire \in [Runs -> FireType]
  BY Types
<1>4. v \in FireType /\ v.pc = "fired" /\ v.entry = e /\ v.started = fire[r].started
  BY <1>3 DEF FireType, FirePcs
<1> HIDE DEF v
<1>5. /\ fire' \in [Runs -> FireType] /\ fire'[r] = v
      /\ \A q \in Runs : q # r => fire'[q] = fire[q]
  BY <1>2, <1>3, <1>4
<1>6. TypeOK'
  BY <1>5, Types, TypesNext DEF CronFire
<1>7. UNCHANGED <<row, sched, result, timer, mark, told, faults>>
  BY DEF CronFire
<1>8. RunOk(r)'
  BY <1>1, <1>4, <1>5, <1>7 DEF RunOk, RowsAt, EndedAt, FollowsAt, HoldsSlot, Executing
<1> QED
  BY <1>1, <1>4, <1>5, <1>6, <1>8

-----------------------------------------------------------------------------
\* The invariant is inductive.

\* A dispatch keeps its entry or is made of one that is taken; an ended record stays.
Moved ==
  \A q \in Runs :
    /\ \/ /\ fire'[q].entry = fire[q].entry
          /\ fire'[q].pc = "none" <=> fire[q].pc = "none"
       \/ /\ fire[q].pc = "none" /\ fire'[q].pc # "none"
          /\ fire'[q].entry \in EntryIds /\ entry[fire'[q].entry].state # "free"
    /\ sched[q] \in TerminalStatuses => sched'[q] = sched[q]

LEMMA EntryStep ==
  ASSUME TypeOK, EntryInv, Kept, Moved
  PROVE  EntryInv'
<1>1. \A q \in Runs : fire[q].entry \in EntryIds \cup {NoEntry}
  BY Types DEF FireType
<1>2. \A q \in Runs : Dispatched(q)' <=> fire'[q].entry # NoEntry
  BY DEF Dispatched
<1>3. \A q \in Runs : Dispatched(q)' <=> fire'[q].pc # "none"
  BY <1>2, Zero DEF Moved, EntryInv, Dispatched
<1>4. \A q \in Runs : Dispatched(q)' => entry'[fire'[q].entry].state # "free"
  BY <1>1, <1>2, <1>3 DEF Moved, EntryInv, Dispatched, Kept
<1> QED
  BY <1>3, <1>4 DEF EntryInv, Kept

LEMMA CopiesStep ==
  ASSUME TypeOK, EntryInv, CopiesInv, Moved, Kept, TypeOK',
         faults' = 0 => faults = 0 /\ Sourced
  PROVE  CopiesInv'
<1> SUFFICES ASSUME faults' = 0 PROVE CopiesInv'
  BY DEF CopiesInv
<1> DEFINE After(j, s) ==
             s # Absent => \E q \in Runs : /\ fire'[q].entry # NoEntry
                                           /\ entry'[fire'[q].entry].job = j
                                           /\ sched'[q] = s /\ sched'[q] \in TerminalStatuses
<1>1. ASSUME NEW q \in Runs, Dispatched(q), sched[q] \in TerminalStatuses
      PROVE  /\ fire'[q].entry # NoEntry /\ entry'[fire'[q].entry].job = JobOf(q)
             /\ sched'[q] = sched[q]
  <2>1. fire[q].entry \in EntryIds /\ entry[fire[q].entry].state # "free" /\ fire[q].pc # "none"
    BY <1>1, Types DEF FireType, EntryInv, Dispatched
  <2>2. fire'[q].entry = fire[q].entry /\ sched'[q] = sched[q]
    BY <1>1, <2>1 DEF Moved
  <2> QED
    BY <2>1, <2>2, Zero DEF Kept, JobOf
<1>2. ASSUME NEW j \in Jobs, NEW s, Recorded(j, s) PROVE After(j, s)
  BY <1>1, <1>2 DEF Recorded
<1>3. ASSUME NEW j \in Jobs, NEW s, Source(j, s) PROVE After(j, s)
  <2>1. CASE s = Absent
    BY <2>1
  <2>2. CASE \E r \in Runs : Dispatched(r) /\ JobOf(r) = j /\ sched[r] \in TerminalStatuses /\ s = sched[r]
    BY <1>1, <2>2
  <2>3. CASE \/ s = jobRow[j].lastStatus
             \/ \E e \in EntryIds : entry[e].job = j /\ s = entry[e].copy.lastStatus
             \/ \E h \in Reloaders : s = reload[h].copies[j].lastStatus
    <3>1. Recorded(j, s)
      BY <2>3 DEF CopiesInv
    <3> QED
      BY <1>2, <3>1
  <2> QED
    BY <1>3, <2>1, <2>2, <2>3 DEF Source
<1>4. \A e \in EntryIds : entry'[e].job \in Jobs
  BY TypesNext DEF EntryType
<1>5. /\ \A j \in Jobs : After(j, jobRow'[j].lastStatus)
      /\ \A e \in EntryIds : After(entry'[e].job, entry'[e].copy.lastStatus)
      /\ \A h \in Reloaders, j \in Jobs : After(j, reload'[h].copies[j].lastStatus)
  <2> HIDE DEF After
  <2> QED
    BY <1>3, <1>4 DEF Sourced
<1> QED
  BY <1>5 DEF CopiesInv, Recorded, Dispatched, JobOf

LEMMA InitIInv == Init => IInv
<1> SUFFICES ASSUME Init PROVE IInv
  OBVIOUS
<1>1. TypeOK
  BY InitType
<1>2. /\ \A r \in Runs : /\ fire[r].pc = "none" /\ fire[r].entry = NoEntry /\ ~fire[r].started
                         /\ sched[r] = Absent /\ row[r] = Absent /\ timer[r] = "off"
                         /\ mark[r] = "off"
      /\ \A j \in Jobs : jobRow[j].lastStatus = Absent
      /\ \A e \in EntryIds : entry[e].copy.lastStatus = Absent
      /\ \A h \in Reloaders : /\ reload[h].pc # "save"
                              /\ \A j \in Jobs : reload[h].copies[j].lastStatus = Absent
  <2>1. \A r \in Runs : /\ fire[r].pc = "none" /\ fire[r].entry = NoEntry /\ ~fire[r].started
                        /\ sched[r] = Absent /\ row[r] = Absent /\ timer[r] = "off"
                        /\ mark[r] = "off"
    BY DEF Init
  <2>2. \A j \in Jobs : jobRow[j].lastStatus = Absent
    <3>1. PICK on \in SUBSET DefaultJobs, known \in SUBSET DefaultJobs :
            jobRow = [j \in Jobs |-> IF j \in known
                                     THEN [NoJobRow EXCEPT !.exists = TRUE, !.enabled = (j \in on)]
                                     ELSE NoJobRow]
      BY DEF Init
    <3>2. ASSUME NEW j \in Jobs
          PROVE  [NoJobRow EXCEPT !.exists = TRUE, !.enabled = (j \in on)].lastStatus = Absent
      BY DEF NoJobRow
    <3> QED
      BY <3>1, <3>2, BlankRow
  <2>3. \A e \in EntryIds : entry[e].copy.lastStatus = Absent
    BY BlankRow DEF Init
  <2>4. ASSUME NEW h \in Reloaders
        PROVE  /\ reload[h].pc # "save"
               /\ \A j \in Jobs : reload[h].copies[j].lastStatus = Absent
    <3>1. /\ [IdleReload EXCEPT !.pc = "ensure", !.op = "boot"].pc = "ensure"
          /\ [IdleReload EXCEPT !.pc = "ensure", !.op = "boot"].copies = IdleReload.copies
      BY DEF IdleReload
    <3> QED
      BY <3>1, IdleType, BlankRow DEF Init
  <2> QED
    BY <2>1, <2>2, <2>3, <2>4
<1>3. EntryInv /\ CopiesInv
  BY <1>2 DEF EntryInv, Dispatched, CopiesInv, Recorded
<1>4. \A r \in Runs : RunOk(r)
  BY <1>2, StatusSets DEF RunOk, RowsAt, EndedAt, FollowsAt, HoldsSlot, Executing
<1> QED
  BY <1>1, <1>3, <1>4 DEF IInv

\* The runs a step does not touch keep their part of the invariant.
LEMMA RunOkStays ==
  ASSUME NEW q \in Runs, RunOk(q), faults' = 0 => faults = 0,
         fire'[q] = fire[q], row'[q] = row[q], sched'[q] = sched[q], result'[q] = result[q],
         timer'[q] = timer[q], mark'[q] = mark[q], told'[q] = told[q]
  PROVE  RunOk(q)'
  BY DEF RunOk, RowsAt, EndedAt, FollowsAt

LEMMA NextIInv == IInv /\ [Next]_vars => IInv'
<1> SUFFICES ASSUME IInv, [Next]_vars PROVE IInv'
  OBVIOUS
<1>0. TypeOK /\ EntryInv /\ (\A r \in Runs : RunOk(r)) /\ CopiesInv
  BY DEF IInv
<1>1. ASSUME NEW h \in Reloaders, ReloadStep(h) \/ UserStep(h) \/ Ensure PROVE IInv'
  <2>1. TypeOK' /\ Sourced /\ Kept
    BY <1>0, <1>1, TypeStepHandlers, HandlersSourced
  <2>2. UNCHANGED runVars /\ (faults' = 0 => faults = 0)
    <3>1. UNCHANGED runVars /\ (UNCHANGED faults \/ Fault)
      BY <1>1
         DEF ReloadStep, UserStep, Ensure, ReloadList, ReloadRemove, ReloadQuery, ReloadAdd,
             ReloadSave, ReloadDone, CronStart, PauseCron, SaveJob, WriteJob, LoadJob,
             PauseFlag, ResumeFlag
    <3> QED
      BY <1>0, <3>1, FaultEffect, Types
  <2>3. Moved
    BY <2>2 DEF Moved, runVars
  <2>4. \A q \in Runs : RunOk(q)'
    BY <1>0, <2>2, RunOkStays DEF runVars
  <2>5. EntryInv' /\ CopiesInv'
    BY <1>0, <2>1, <2>2, <2>3, EntryStep, CopiesStep
  <2> QED
    BY <2>1, <2>4, <2>5 DEF IInv
<1>2. ASSUME NEW r \in Runs, NEW e \in EntryIds, CronFire(r, e) PROVE IInv'
  <2>1. /\ TypeOK' /\ RunOk(r)' /\ fire[r].pc = "none"
        /\ \A q \in Runs : q # r => fire'[q] = fire[q]
        /\ fire'[r].entry = e /\ entry[e].state # "free" /\ fire'[r].pc # "none"
    BY <1>0, <1>2, CronFireEffect
  <2>2. UNCHANGED <<jobRow, entry, reload, row, sched, result, timer, mark, told, faults>>
    BY <1>2 DEF CronFire
  <2>3. Moved
    BY <2>1, <2>2 DEF Moved
  <2>4. \A q \in Runs : RunOk(q)'
    BY <1>0, <2>1, <2>2, RunOkStays
  <2>5. Sourced /\ Kept
    BY <1>0, <2>2, SourcedParts DEF Sourced, Kept
  <2>6. EntryInv' /\ CopiesInv'
    BY <1>0, <2>1, <2>2, <2>3, <2>5, EntryStep, CopiesStep
  <2> QED
    BY <2>1, <2>4, <2>6 DEF IInv
<1>3. ASSUME NEW r \in Runs,
             DispatchStep(r) \/ EngineStep(r) \/ EndStep(r) \/ TimeoutStep(r)
      PROVE  IInv'
  <2>1. StepOk(r)
    BY <1>0, <1>3, DispatchSteps, EngineSteps, EndSteps, TimeoutSteps
  <2>2. Kept /\ (faults = 0 => Sourced)
    BY <1>0, <1>3, RunsSourced
  <2>3. Moved
    BY <2>1 DEF StepOk, Frame, Moved
  <2>4. \A q \in Runs : RunOk(q)'
    BY <1>0, <2>1, RunOkStays DEF StepOk, Frame
  <2>5. EntryInv' /\ CopiesInv'
    BY <1>0, <2>1, <2>2, <2>3, EntryStep, CopiesStep DEF StepOk, Frame
  <2> QED
    BY <2>1, <2>4, <2>5 DEF IInv, StepOk
<1>4. CASE UNCHANGED vars
  BY <1>0, <1>4
     DEF vars, runVars, IInv, TypeOK, EntryInv, Dispatched, CopiesInv, Recorded, JobOf,
         RunOk, RowsAt, EndedAt, FollowsAt
<1>5. Handlers \subseteq Reloaders /\ Reloaders # {}
  BY DEF Reloaders
<1> QED
  BY <1>1, <1>2, <1>3, <1>4, <1>5 DEF Next

THEOREM Invariant == Spec => []IInv
<1>1. Init => IInv
  BY InitIInv
<1>2. IInv /\ [Next]_vars => IInv'
  BY NextIInv
<1> QED
  BY <1>1, <1>2, PTL DEF Spec

-----------------------------------------------------------------------------
\* What it implies.

\* TypeOK: every step keeps the jobs, the cron entries with their copies, the
\* dispatches and their records in their types.
THEOREM TypeCorrect == Spec => []TypeOK
<1>1. IInv => TypeOK
  BY DEF IInv
<1> QED
  BY <1>1, Invariant, PTL

\* ScheduleFollowsRun: when no state-database call fails, a schedule_runs record
\* ends after its run and never claims an end the run did not have, however the
\* runner, the timer's goroutine and the failure paths of runJob interleave.
THEOREM ScheduleFollowsRunHolds == Spec => []ScheduleFollowsRun
<1>1. IInv => ScheduleFollowsRun
  BY DEF IInv, RunOk, FollowsAt, ScheduleFollowsRun
<1> QED
  BY <1>1, Invariant, PTL

\* SummaryIsRecorded: the status a job shows is the recorded end of one of its own
\* runs, whichever of the stale copies of its row was saved last.
THEOREM SummaryIsRecordedHolds == Spec => []SummaryIsRecorded
<1>1. IInv => SummaryIsRecorded
  BY DEF IInv, CopiesInv, Recorded, SummaryIsRecorded
<1> QED
  BY <1>1, Invariant, PTL

\* FailureIsTold: the hook of a scheduled run that did not succeed sends the status
\* the history shows, because it runs after the row has ended.
THEOREM FailureIsToldHolds == Spec => []FailureIsTold
<1>1. IInv => FailureIsTold
  BY DEF IInv, RunOk, EndedAt, FailureIsTold
<1> QED
  BY <1>1, Invariant, PTL

-----------------------------------------------------------------------------
\* The rows of scheduled runs move along the run contract.

RowStep == Lifecycle!Next \/ UNCHANGED row

USE DEF ActiveStatuses, TerminalStatuses, Statuses, Absent, Abnormal,
        Lifecycle!ActiveStatuses, Lifecycle!TerminalStatuses, Lifecycle!Statuses,
        Lifecycle!Absent, Lifecycle!Abnormal

LEMMA CreateStep ==
  ASSUME NEW r \in Runs, row[r] = Absent, row' = [row EXCEPT ![r] = "running"]
  PROVE  RowStep
  BY DEF RowStep, Lifecycle!Next, Lifecycle!Create

LEMMA AdvanceStep ==
  ASSUME NEW r \in Runs, NEW s \in Statuses, row[r] \in ActiveStatuses,
         CanTransition(row[r], s), row' = [row EXCEPT ![r] = s]
  PROVE  RowStep
<1>1. Lifecycle!Advance(r, s)
  BY DEF Lifecycle!Advance, CanTransition, Lifecycle!CanTransition
<1> QED
  BY <1>1 DEF RowStep, Lifecycle!Next

LEMMA AbortStep ==
  ASSUME row \in [Runs -> RowStatuses], NEW r \in Runs,
         row' = [row EXCEPT ![r] = Aborted(row[r])]
  PROVE  RowStep
<1>1. CASE row[r] \in ActiveStatuses
  <2>1. Lifecycle!Abort(r)
    BY <1>1 DEF Aborted, Lifecycle!Abort
  <2> QED
    BY <2>1 DEF RowStep, Lifecycle!Next
<1>2. CASE row[r] \notin ActiveStatuses
  BY <1>2 DEF Aborted, RowStep
<1> QED
  BY <1>1, <1>2

LEMMA FinishStep ==
  ASSUME row \in [Runs -> RowStatuses], NEW r \in Runs, NEW s,
         row' = [row EXCEPT ![r] = Finished(row[r], s)]
  PROVE  RowStep
<1>1. \/ Finished(row[r], s) = row[r]
      \/ /\ row[r] \in ActiveStatuses /\ Finished(row[r], s) \in Statuses
         /\ CanTransition(row[r], Finished(row[r], s))
  BY DEF Finished, FinishRejected, FinishTarget, RowStatuses
<1>2. CASE Finished(row[r], s) = row[r]
  BY <1>2 DEF RowStep
<1>3. CASE /\ row[r] \in ActiveStatuses /\ Finished(row[r], s) \in Statuses
           /\ CanTransition(row[r], Finished(row[r], s))
  BY <1>3, AdvanceStep
<1> QED
  BY <1>1, <1>2, <1>3

LEMMA NextRowStep == IInv /\ [Next]_vars => RowStep
<1> SUFFICES ASSUME IInv, [Next]_vars PROVE RowStep
  OBVIOUS
<1>0. row \in [Runs -> RowStatuses]
  BY Types DEF IInv
<1>1. ASSUME NEW r \in Runs, CreateSyncRun(r) PROVE RowStep
  <2>1. row[r] = Absent
    BY <1>1 DEF CreateSyncRun, IInv, RunOk, RowsAt
  <2> QED
    BY <1>1, <2>1, CreateStep DEF CreateSyncRun, RowStep
<1>2. ASSUME NEW r \in Runs, StopRun(r) PROVE RowStep
  <2>1. CASE row[r] = "running" /\ row' = [row EXCEPT ![r] = "stopping"]
    BY <2>1, AdvanceStep DEF CanTransition
  <2>2. CASE row[r] = "stopping" /\ row' = [row EXCEPT ![r] = Abnormal]
    BY <1>0, <2>2, AbortStep DEF Aborted
  <2> QED
    BY <1>2, <2>1, <2>2 DEF StopRun
<1>3. ASSUME NEW r \in Runs, RunnerReturns(r) PROVE RowStep
  <2>1. \/ row' = [row EXCEPT ![r] = Aborted(row[r])]
        \/ \E s \in TerminalStatuses : row' = [row EXCEPT ![r] = Finished(row[r], s)]
        \/ UNCHANGED row
    BY <1>3 DEF RunnerReturns
  <2> QED
    BY <1>0, <2>1, AbortStep, FinishStep DEF RowStep
<1>4. ASSUME NEW r \in Runs, FailSync(r) PROVE RowStep
  BY <1>0, <1>4, FinishStep DEF FailSync, FinishSync, RowStep
<1>5. ASSUME NEW r \in Runs, MarkSync(r) PROVE RowStep
  BY <1>0, <1>5, AbortStep DEF MarkSync, RowStep
<1>6. CASE \A r \in Runs : /\ ~CreateSyncRun(r) /\ ~StopRun(r) /\ ~RunnerReturns(r)
                           /\ ~FailSync(r) /\ ~MarkSync(r)
  <2>1. ASSUME NEW h \in Reloaders, ReloadStep(h) \/ UserStep(h) \/ Ensure PROVE UNCHANGED row
    BY <2>1
       DEF runVars, ReloadStep, UserStep, Ensure, ReloadList, ReloadRemove, ReloadQuery,
           ReloadAdd, ReloadSave, ReloadDone, CronStart, PauseCron, SaveJob, WriteJob,
           LoadJob, PauseFlag, ResumeFlag
  <2>2. ASSUME NEW r \in Runs, DispatchStep(r) \/ \E e \in EntryIds : CronFire(r, e)
        PROVE  UNCHANGED row
    BY <1>6, <2>2
       DEF CronFire, DispatchStep, FirePaused, FireSkipped, CreateScheduleRun, PrepareRun, StartRun
  <2>3. ASSUME NEW r \in Runs, EngineStep(r) \/ TimeoutStep(r) PROVE UNCHANGED row
    BY <1>6, <2>3
       DEF EngineStep, CtxExpire, RunnerFails, TimeoutStep, TimerFires, TimerStops, MarkSched
  <2>4. ASSUME NEW r \in Runs, EndStep(r) PROVE UNCHANGED row
    BY <1>6, <2>4
       DEF EndStep, RunnerTimeout, FailSched, FinishResult, SummaryRead, SummaryWrite,
           SummaryCopy, Hook
  <2>5. UNCHANGED vars => UNCHANGED row
    BY DEF vars, runVars
  <2>6. Handlers \subseteq Reloaders /\ "main" \in Reloaders
    BY DEF Reloaders
  <2>7. UNCHANGED row
    BY <2>1, <2>2, <2>3, <2>4, <2>5, <2>6 DEF Next
  <2> QED
    BY <2>7 DEF RowStep
<1> QED
  BY <1>1, <1>2, <1>3, <1>4, <1>5, <1>6

\* ScheduledRunsKeepContract: the rows of scheduled runs implement RunLifecycle,
\* whatever the runner, the stop of a user, the timer and failing calls do.
THEOREM KeepsContract == Spec => ScheduledRunsKeepContract
<1>1. Init => Lifecycle!Init
  BY DEF Init, Lifecycle!Init
<1>2. IInv /\ [Next]_vars => [Lifecycle!Next]_(Lifecycle!vars)
  BY NextRowStep DEF RowStep, Lifecycle!vars
<1> QED
  BY <1>1, <1>2, Invariant, PTL DEF Spec, ScheduledRunsKeepContract, Lifecycle!Spec
=============================================================================
