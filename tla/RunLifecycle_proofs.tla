------------------------ MODULE RunLifecycle_proofs ------------------------
(***************************************************************************)
(* Proofs of what RunLifecycle promises, for every set of runs.            *)
(***************************************************************************)
EXTENDS RunLifecycle, TLAPS

Inv == TypeOK /\ RecoveryOfAbnormal

USE DEF Absent, Abnormal, ActiveStatuses, TerminalStatuses, Statuses, RowStatuses

LEMMA InitInv == Init => Inv
  BY DEF Init, Inv, TypeOK, RecoveryOfAbnormal

\* Every step keeps the invariant: only a run that is Absent gets a parent,
\* and a run that is Abnormal, so a parent, has no further step.
LEMMA StepInv == Inv /\ [Next]_vars => Inv'
<1> SUFFICES ASSUME Inv, [Next]_vars PROVE Inv'
  OBVIOUS
<1> USE DEF Inv, TypeOK, RecoveryOfAbnormal
<1>1. ASSUME NEW r \in Runs, Create(r) PROVE Inv'
  BY <1>1 DEF Create
<1>2. ASSUME NEW r \in Runs, NEW p \in Runs, CreateRecovery(r, p) PROVE Inv'
  BY <1>2 DEF CreateRecovery
<1>3. ASSUME NEW r \in Runs, NEW s \in Statuses, Advance(r, s) PROVE Inv'
  BY <1>3 DEF Advance, CanTransition
<1>4. ASSUME NEW r \in Runs, Abort(r) PROVE Inv'
  BY <1>4 DEF Abort
<1>5. CASE UNCHANGED vars
  BY <1>5 DEF vars
<1> QED
  BY <1>1, <1>2, <1>3, <1>4, <1>5 DEF Next

\* The rows always hold statuses of the contract, and parents are runs.
THEOREM TypeCorrect == Spec => []TypeOK
<1>1. Inv => TypeOK
  BY DEF Inv
<1> QED
  BY <1>1, InitInv, StepInv, PTL DEF Spec

\* Recovery runs are only ever attached to runs that ended abnormally and stay
\* so (gormdb CreateRecoverySyncRun).
THEOREM RecoveryIsOfAbnormal == Spec => []RecoveryOfAbnormal
<1>1. Inv => RecoveryOfAbnormal
  BY DEF Inv
<1> QED
  BY <1>1, InitInv, StepInv, PTL DEF Spec

\* One step never moves a terminal run, nor a stopping run elsewhere than to
\* stopped or abnormal.
RunEnds(r) ==
  /\ status[r] \in TerminalStatuses => status'[r] = status[r]
  /\ status[r] = "stopping" => status'[r] \in {"stopping", "stopped", Abnormal}

LEMMA StepEnds == TypeOK /\ Next => \A q \in Runs : RunEnds(q)
<1> SUFFICES ASSUME TypeOK, Next, NEW q \in Runs PROVE RunEnds(q)
  OBVIOUS
<1> USE DEF TypeOK, RunEnds
<1>1. ASSUME NEW r \in Runs, Create(r) PROVE RunEnds(q)
  BY <1>1 DEF Create
<1>2. ASSUME NEW r \in Runs, NEW p \in Runs, CreateRecovery(r, p) PROVE RunEnds(q)
  BY <1>2 DEF CreateRecovery
<1>3. ASSUME NEW r \in Runs, NEW s \in Statuses, Advance(r, s) PROVE RunEnds(q)
  BY <1>3 DEF Advance, CanTransition
<1>4. ASSUME NEW r \in Runs, Abort(r) PROVE RunEnds(q)
  BY <1>4 DEF Abort
<1> QED
  BY <1>1, <1>2, <1>3, <1>4 DEF Next

\* A run that ended never changes, and a run once stopping never turns out to
\* have succeeded (contract.CanTransition, gormdb FinishSyncRun).
THEOREM EndsAreFinal == Spec => EndIsFinal
<1>1. TypeOK /\ [Next]_vars =>
        [\A r \in Runs :
           /\ status[r] \in TerminalStatuses => status'[r] = status[r]
           /\ status[r] = "stopping" => status'[r] \in {"stopping", "stopped",
              Abnormal}]_vars
  BY StepEnds DEF RunEnds
<1> QED
  BY <1>1, TypeCorrect, PTL DEF Spec, EndIsFinal
=============================================================================
