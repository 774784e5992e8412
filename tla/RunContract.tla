---------------------------- MODULE RunContract ----------------------------
(***************************************************************************)
(* The contract of a synchronisation run: its statuses, which of them are  *)
(* terminal, and what each state-database call does to the status column   *)
(* of one row of sync_runs (api/contract/types.go, gormdb/gormdb.go).      *)
(* Everything here is a constant operator on statuses.                     *)
(***************************************************************************)

\* A row that has not been inserted yet.
Absent == "none"

Abnormal == "failed_abnormal_exit"

ActiveStatuses == {"running", "stopping"}

TerminalStatuses == {"success", "partial", "failed", "stopped", Abnormal}

Statuses == ActiveStatuses \cup TerminalStatuses

RowStatuses == Statuses \cup {Absent}

\* Transitions a normal run may cause; the abnormal exit is not among them.
CanTransition(from, to) ==
  \/ from = to /\ from \in ActiveStatuses
  \/ from = "running" /\ to \in {"stopping", "success", "partial", "failed"}
  \/ from = "stopping" /\ to = "stopped"

(***************************************************************************)
(* FinishSyncRun(to): a terminal row is left alone without an error, a     *)
(* stopping row becomes stopped whatever was asked, and a transition the   *)
(* contract forbids is an error that leaves the row as it is.              *)
(***************************************************************************)
FinishTarget(from, to) ==
  IF from = "stopping" /\ to # "stopped" THEN "stopped" ELSE to

FinishRejected(from, to) ==
  \/ to \notin Statuses \ {Abnormal, "stopping"}
  \/ from \in ActiveStatuses /\ ~CanTransition(from, FinishTarget(from, to))

\* Mutant: a terminal row is written again.
FinishedAnyway(from, to) ==
  IF FinishRejected(from, to) THEN from ELSE FinishTarget(from, to)

Finished(from, to) ==
  IF from \notin ActiveStatuses \/ FinishRejected(from, to)
  THEN from
  ELSE FinishTarget(from, to)

\* Mutant: another spelling of the status.
AbortedAs(from) == IF from \in ActiveStatuses THEN "abnormal_exit" ELSE from

\* MarkSyncRunAbnormalExit: only an active row becomes abnormal; no error
\* when the row is already terminal.
Aborted(from) == IF from \in ActiveStatuses THEN Abnormal ELSE from
=============================================================================
