---------------------------- MODULE RunLifecycle ----------------------------
(***************************************************************************)
(* What the synchronisation runs promise their readers (the history page,  *)
(* the alerts, the recovery at the next start), whatever engine produces   *)
(* them: every run moves along the public state machine, a terminal run    *)
(* never moves again, a run once stopping ends stopped or abnormal, and a  *)
(* recovery run exists only for a parent that ended abnormally.            *)
(* SyncEngine is shown to implement this specification.                    *)
(***************************************************************************)
EXTENDS RunContract

CONSTANTS Runs,   \* the identifiers a run may be given
          NoRun   \* stands for "no parent", no run

VARIABLES status,  \* the persisted status of each run
          parent   \* the abnormal run a recovery run stands in for

vars == <<status, parent>>

TypeOK ==
  /\ status \in [Runs -> RowStatuses]
  /\ parent \in [Runs -> Runs \cup {NoRun}]

Init ==
  /\ status = [r \in Runs |-> Absent]
  /\ parent = [r \in Runs |-> NoRun]

\* A caller persists a new run.
Create(r) ==
  /\ status[r] = Absent
  /\ status' = [status EXCEPT ![r] = "running"]
  /\ UNCHANGED parent

\* Recovery persists a child of an abnormal run; the parent stays terminal.
CreateRecovery(r, p) ==
  /\ status[r] = Absent
  /\ status[p] = Abnormal
  /\ status' = [status EXCEPT ![r] = "running"]
  /\ parent' = [parent EXCEPT ![r] = p]

\* A run moves as normal execution allows.
Advance(r, s) ==
  /\ status[r] \in ActiveStatuses
  /\ s \in Statuses
  /\ CanTransition(status[r], s)
  /\ status' = [status EXCEPT ![r] = s]
  /\ UNCHANGED parent

\* A watchdog or a later start of the process gives the run up.
Abort(r) ==
  /\ status[r] \in ActiveStatuses
  /\ status' = [status EXCEPT ![r] = Abnormal]
  /\ UNCHANGED parent

Next ==
  \E r \in Runs :
    \/ Create(r)
    \/ \E p \in Runs : CreateRecovery(r, p)
    \/ \E s \in Statuses : Advance(r, s)
    \/ Abort(r)

Spec == Init /\ [][Next]_vars

-----------------------------------------------------------------------------
\* A recovery run is only ever attached to a run that ended abnormally, and
\* that run is still abnormal for as long as the child exists (gormdb
\* CreateRecoverySyncRun: "The parent remains terminal").
RecoveryOfAbnormal ==
  \A r \in Runs : parent[r] # NoRun =>
    status[r] # Absent /\ status[parent[r]] = Abnormal

\* A run that ended keeps its status, and a run that was stopping never turns
\* out to have succeeded or failed (contract.CanTransition, FinishSyncRun).
EndIsFinal ==
  [][\A r \in Runs :
       /\ status[r] \in TerminalStatuses => status'[r] = status[r]
       /\ status[r] = "stopping" => status'[r] \in {"stopping", "stopped", Abnormal}]_vars
=============================================================================
