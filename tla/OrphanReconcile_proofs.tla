----------------------- MODULE OrphanReconcile_proofs -----------------------
(***************************************************************************)
(* Proofs about OrphanReconcile, for any set of keys, any number of calls  *)
(* that overlap in any way, any thresholds, approvals and failing calls.   *)
(***************************************************************************)
EXTENDS OrphanReconcile, FiniteSetTheorems, TLAPS

-----------------------------------------------------------------------------
\* The inductive invariant.

\* Before and after the decision about an approval.
Undecided == {"new", "drop", "create", "stage", "count", "query", "load"}
Settled == {"delete", "cleanup", "done"}

\* An approval belongs to the one call that marked it.
ApprovalInv ==
  /\ \A c \in Callers : pc[c] \in Undecided => approval[c] = NoApproval
  /\ \A c \in Callers :
       pc[c] \in Settled /\ approval[c] # NoApproval => approvals[approval[c]].used
  /\ \A c, d \in Callers :
       pc[c] \in Settled /\ pc[d] \in Settled /\ approval[c] = approval[d]
         => c = d \/ approval[c] = NoApproval

\* What has been weighed before a call comes to the DELETE.
Weighed(c) == Source(c) # {} /\ ~input[c].duplicates /\ input[c].execute
Named(c) ==
  /\ approval[c] # NoApproval
  /\ approvals[approval[c]].count = Cardinality(orphans[c])

BoundInv ==
  \A c \in Callers :
    /\ pc[c] \in {"load", "use", "delete"} => Weighed(c)
    /\ pc[c] = "use" => Named(c)
    /\ pc[c] = "delete" => Automatic(c) \/ Named(c)
    /\ pc[c] \notin {"cleanup", "done"} => deleted[c] = {}

\* Calls for the same keys know of each other, and a call without such company
\* finds in the staging table what it has put there.
CompanyInv ==
  \A c, d \in Callers :
    c # d /\ Active(c) /\ Active(d) /\ Source(c) = Source(d)
      => overlapped[c] /\ overlapped[d]

Alone(c) ==
  /\ pc[c] # "new" => input[c] \in Inputs
  /\ pc[c] \in {"drop", "create"} => rest[c] = Source(c)
  /\ pc[c] \in {"count", "query"} => rest[c] = {}
  /\ ~overlapped[c] =>
       /\ pc[c] \in {"stage", "count", "query"} =>
            Source(c) \ rest[c] \subseteq staging[Source(c)].keys
       /\ pc[c] \in {"load", "use", "delete"} => orphans[c] \cap Source(c) = {}
       /\ deleted[c] \cap Source(c) = {}

StagingInv == CompanyInv /\ \A c \in Callers : Alone(c)

IInv == TypeOK /\ ApprovalInv /\ BoundInv /\ DeletionIsBounded /\ StagingInv

-----------------------------------------------------------------------------
\* Sets and numbers.

LEMMA SubsetsOfKeys ==
  ASSUME NEW S, S \subseteq Keys
  PROVE  /\ IsFiniteSet(S)
         /\ Cardinality(S) \in 0..Cardinality(Keys)
<1>1. IsFiniteSet(Keys)
  BY OrphanAssumption
<1>2. IsFiniteSet(S) /\ Cardinality(S) <= Cardinality(Keys)
  BY <1>1, FS_Subset
<1>3. Cardinality(S) \in Nat /\ Cardinality(Keys) \in Nat
  BY <1>1, <1>2, FS_CardinalityType
<1> QED
  BY <1>2, <1>3

LEMMA SmallerSets ==
  ASSUME NEW S, S \subseteq Keys, NEW T, T \subseteq S
  PROVE  /\ Cardinality(T) \in Nat /\ Cardinality(S) \in Nat
         /\ Cardinality(T) <= Cardinality(S)
<1>1. IsFiniteSet(S)
  BY SubsetsOfKeys
<1>2. IsFiniteSet(T) /\ Cardinality(T) <= Cardinality(S)
  BY <1>1, FS_Subset
<1> QED
  BY <1>1, <1>2, FS_CardinalityType

LEMMA SmallerShares ==
  ASSUME NEW m \in Nat, NEW n \in Nat, NEW s \in Nat, m <= n
  PROVE  m * s <= n * s
<1>1. PICK k \in Nat : n = m + k
  <2>1. n - m \in Nat /\ n = m + (n - m)
    OBVIOUS
  <2> QED
    BY <2>1
<1>2. n * s = m * s + k * s
  BY <1>1
<1>3. k * s \in Nat /\ m * s \in Nat
  OBVIOUS
<1> QED
  BY <1>2, <1>3

LEMMA EmptySet == Cardinality({}) = 0
  BY FS_EmptySet

-----------------------------------------------------------------------------
\* Types.

LEMMA TablesType ==
  /\ NoTable \in Tables /\ [exists |-> TRUE, keys |-> {}] \in Tables
  /\ \A t \in Tables, B \in SUBSET Keys : Filled(t, B) \in Tables
<1>1. NoTable \in Tables /\ [exists |-> TRUE, keys |-> {}] \in Tables
  BY DEF Tables
<1>2. ASSUME NEW t \in Tables, NEW B \in SUBSET Keys PROVE Filled(t, B) \in Tables
  <2>1. t.keys \subseteq Keys
    <3>1. CASE t = NoTable
      BY <3>1 DEF NoTable
    <3>2. CASE t \in [exists : {TRUE}, keys : SUBSET Keys]
      BY <3>2
    <3> QED
      BY <3>1, <3>2 DEF Tables
  <2>2. t.keys \cup B \in SUBSET Keys
    BY <2>1
  <2> QED
    BY <2>2 DEF Tables, Filled
<1> QED
  BY <1>1, <1>2

LEMMA UsedType ==
  ASSUME NEW a \in ApprovalRows
  PROVE  /\ [a EXCEPT !.used = TRUE] \in ApprovalRows
         /\ [a EXCEPT !.used = TRUE].used
         /\ [a EXCEPT !.used = TRUE].count = a.count
  BY DEF ApprovalRows

LEMMA InitType == Init => TypeOK
<1> SUFFICES ASSUME Init PROVE TypeOK
  OBVIOUS
<1>1. 0 \in 0..Cardinality(Keys)
  BY SubsetsOfKeys, EmptySet
<1>2. 0 \in 0..MaxWrites /\ 0 \in 0..MaxFaults
  BY OrphanAssumption
<1> QED
  BY <1>1, <1>2, TablesType DEF Init, TypeOK, Pcs

LEMMA SourcesAreKeys == \A s \in Sources : s \subseteq Keys
  BY OrphanAssumption

LEMMA FaultType == TypeOK /\ (Fault \/ UNCHANGED faults) => faults' \in 0..MaxFaults
<1> SUFFICES ASSUME TypeOK, Fault \/ UNCHANGED faults PROVE faults' \in 0..MaxFaults
  OBVIOUS
<1>1. MaxFaults \in Nat /\ faults \in 0..MaxFaults
  BY OrphanAssumption DEF TypeOK
<1> QED
  BY <1>1 DEF Fault

LEMMA StepType ==
  ASSUME TypeOK, NEW c \in Callers, Step(c)
  PROVE  TypeOK'
<1>1. CASE Begin(c)
  <2>1. PICK i \in Inputs :
          LET same == {d \in Callers \ {c} : Active(d) /\ Source(d) = i.source} IN
          /\ input' = [input EXCEPT ![c] = i]
          /\ rest' = [rest EXCEPT ![c] = i.source]
          /\ overlapped' = [d \in Callers |->
                               overlapped[d] \/ d \in same \/ (d = c /\ same # {})]
    BY <1>1 DEF Begin
  <2>2. input' \in [Callers -> Inputs \cup {NoInput}]
    BY <2>1 DEF TypeOK
  <2>3. rest' \in [Callers -> SUBSET Keys]
    BY <2>1, SourcesAreKeys DEF TypeOK, Inputs
  <2>4. overlapped' \in [Callers -> BOOLEAN]
    BY <2>1 DEF TypeOK
  <2>5. pc' \in [Callers -> Pcs]
    BY <1>1 DEF TypeOK, Begin, Goto, Pcs
  <2> QED
    BY <1>1, <2>2, <2>3, <2>4, <2>5 DEF TypeOK, Begin
<1>2. CASE DropEarlier(c)
  BY <1>2, FaultType, TablesType DEF TypeOK, DropEarlier, Goto, Pcs
<1>3. CASE CreateStaging(c)
  <2>1. staging' \in [Sources -> Tables]
    BY <1>3, TablesType DEF TypeOK, CreateStaging
  <2>2. pc' \in [Callers -> Pcs]
    BY <1>3 DEF TypeOK, CreateStaging, Goto, Pcs
  <2> QED
    BY <1>3, <2>1, <2>2, FaultType DEF TypeOK, CreateStaging
<1>4. CASE StageKeys(c)
  <2>1. staging' \in [Sources -> Tables] /\ rest' \in [Callers -> SUBSET Keys]
    BY <1>4, TablesType DEF TypeOK, StageKeys
  <2> QED
    BY <1>4, <2>1, FaultType DEF TypeOK, StageKeys, Goto, Pcs
<1>5. CASE CountTarget(c)
  BY <1>5, FaultType, SubsetsOfKeys DEF TypeOK, CountTarget, Goto, Pcs
<1>6. CASE QueryOrphans(c)
  <2>1. Decided(c) \in Pcs
    BY DEF Decided, Pcs
  <2> QED
    BY <1>6, <2>1, FaultType DEF TypeOK, QueryOrphans, Goto, Pcs
<1>7. CASE LoadApproval(c)
  BY <1>7, FaultType DEF TypeOK, LoadApproval, Goto, Pcs
<1>8. CASE UseApproval(c)
  <2>1. /\ DOMAIN approvals' = DOMAIN approvals
        /\ approvals' \in [DOMAIN approvals -> ApprovalRows]
    <3>1. CASE approvals' = [approvals EXCEPT ![approval[c]].used = TRUE]
      BY <3>1, UsedType DEF TypeOK
    <3>2. CASE UNCHANGED approvals
      BY <3>2 DEF TypeOK
    <3> QED
      BY <1>8, <3>1, <3>2 DEF UseApproval
  <2> QED
    BY <1>8, <2>1, FaultType DEF TypeOK, UseApproval, Goto, Pcs
<1>9. CASE DeleteKeys(c)
  BY <1>9, FaultType DEF TypeOK, DeleteKeys, Goto, Pcs
<1>10. CASE Cleanup(c)
  BY <1>10, FaultType, TablesType DEF TypeOK, Cleanup, Goto, Pcs
<1> QED
  BY <1>1, <1>2, <1>3, <1>4, <1>5, <1>6, <1>7, <1>8, <1>9, <1>10 DEF Step

LEMMA EnvironmentType ==
  ASSUME TypeOK,
         \/ \E a \in Approvals : Approve(a)
         \/ \E k \in Keys : SyncWrites(k)
         \/ UNCHANGED vars
  PROVE  TypeOK'
<1>1. ASSUME NEW a \in Approvals, Approve(a) PROVE TypeOK'
  BY <1>1 DEF TypeOK, Approve, ApprovalRows, callVars
<1>2. ASSUME NEW k \in Keys, SyncWrites(k) PROVE TypeOK'
  BY <1>2, OrphanAssumption DEF TypeOK, SyncWrites, callVars
<1>3. CASE UNCHANGED vars
  BY <1>3 DEF TypeOK, vars, callVars
<1> QED
  BY <1>1, <1>2, <1>3

-----------------------------------------------------------------------------
\* Approvals.

LEMMA InitApprovals == Init => ApprovalInv
  BY DEF Init, ApprovalInv, Settled

\* A step of a call leaves the place and the approval of all others alone, and
\* only UseApproval touches the rows of the approvals.
Elsewhere(c) ==
  \A d \in Callers \ {c} :
    /\ pc'[d] = pc[d] /\ approval'[d] = approval[d] /\ input'[d] = input[d]
    /\ orphans'[d] = orphans[d] /\ counted'[d] = counted[d]
    /\ deleted'[d] = deleted[d] /\ rest'[d] = rest[d]

LEMMA StepElsewhere ==
  ASSUME TypeOK, NEW c \in Callers, Step(c)
  PROVE  Elsewhere(c)
<1> USE DEF TypeOK, Elsewhere, Goto
<1>1. CASE Begin(c)
  BY <1>1 DEF Begin
<1>2. CASE DropEarlier(c)
  BY <1>2 DEF DropEarlier
<1>3. CASE CreateStaging(c)
  BY <1>3 DEF CreateStaging
<1>4. CASE StageKeys(c)
  BY <1>4 DEF StageKeys
<1>5. CASE CountTarget(c)
  BY <1>5 DEF CountTarget
<1>6. CASE QueryOrphans(c)
  BY <1>6 DEF QueryOrphans
<1>7. CASE LoadApproval(c)
  BY <1>7 DEF LoadApproval
<1>8. CASE UseApproval(c)
  BY <1>8 DEF UseApproval
<1>9. CASE DeleteKeys(c)
  BY <1>9 DEF DeleteKeys
<1>10. CASE Cleanup(c)
  BY <1>10 DEF Cleanup
<1> QED
  BY <1>1, <1>2, <1>3, <1>4, <1>5, <1>6, <1>7, <1>8, <1>9, <1>10 DEF Step

\* Steps that leave the approvals alone and keep a call undecided, or settle it
\* without an approval, or keep it settled with what it had.
LEMMA QuietStep ==
  ASSUME TypeOK, ApprovalInv, NEW c \in Callers, Elsewhere(c),
         approvals' = approvals, approval' = approval,
         \/ pc[c] \in Undecided /\ pc'[c] \in Undecided \cup Settled
         \/ pc[c] \in Settled /\ pc'[c] \in Settled
  PROVE  ApprovalInv'
  BY DEF TypeOK, ApprovalInv, Elsewhere, Undecided, Settled

LEMMA StepApprovals ==
  ASSUME TypeOK, ApprovalInv, NEW c \in Callers, Step(c)
  PROVE  ApprovalInv'
<1>1. Elsewhere(c)
  BY StepElsewhere
<1> USE DEF TypeOK, Goto
<1>2. CASE \/ Begin(c) \/ DropEarlier(c) \/ CreateStaging(c) \/ StageKeys(c)
           \/ CountTarget(c)
  BY <1>1, <1>2, QuietStep DEF Begin, DropEarlier, CreateStaging, StageKeys, CountTarget,
     Undecided, Settled
<1>3. CASE QueryOrphans(c)
  BY <1>1, <1>3, QuietStep DEF QueryOrphans, Decided, Undecided, Settled
<1>4. CASE DeleteKeys(c) \/ Cleanup(c)
  BY <1>1, <1>4, QuietStep DEF DeleteKeys, Cleanup, Undecided, Settled
<1>5. CASE LoadApproval(c)
  <2>1. CASE UNCHANGED approval /\ Goto(c, "cleanup")
    BY <1>1, <1>5, <2>1, QuietStep DEF LoadApproval, Undecided, Settled
  <2>2. CASE pc'[c] = "use"
    <3>1. UNCHANGED approvals /\ pc'[c] \notin Undecided \cup Settled
      BY <1>5, <2>2 DEF LoadApproval, Undecided, Settled
    <3> QED
      BY <1>1, <3>1 DEF ApprovalInv, Elsewhere
  <2> QED
    BY <1>5, <2>1, <2>2 DEF LoadApproval
<1>6. CASE UseApproval(c)
  <2>1. pc[c] = "use" /\ approval[c] \in DOMAIN approvals \cup {NoApproval}
    BY <1>6 DEF UseApproval
  <2>2. CASE pc'[c] = "delete"
    <3>1. /\ approval' = approval /\ ~approvals[approval[c]].used
          /\ approvals' = [approvals EXCEPT ![approval[c]].used = TRUE]
      BY <1>6, <2>2 DEF UseApproval
    <3>2. ASSUME NEW d \in Callers, approval[d] # NoApproval,
                 d = c \/ approvals[approval[d]].used
          PROVE  approvals'[approval[d]].used
      BY <3>1, <3>2, UsedType
    <3>3. ASSUME NEW d \in Callers \ {c}, pc[d] \in Settled, approval[d] = approval[c]
          PROVE  approval[c] = NoApproval
      BY <3>1, <3>3 DEF ApprovalInv
    <3> QED
      BY <1>1, <2>1, <2>2, <3>1, <3>2, <3>3 DEF ApprovalInv, Elsewhere, Undecided, Settled
  <2>3. CASE pc'[c] = "cleanup"
    <3>1. approval' = [approval EXCEPT ![c] = NoApproval] /\ UNCHANGED approvals
      BY <1>6, <2>3 DEF UseApproval
    <3> QED
      BY <1>1, <2>1, <2>3, <3>1 DEF ApprovalInv, Elsewhere, Undecided, Settled
  <2> QED
    BY <1>6, <2>2, <2>3 DEF UseApproval
<1> QED
  BY <1>2, <1>3, <1>4, <1>5, <1>6 DEF Step

LEMMA EnvironmentApprovals ==
  ASSUME TypeOK, ApprovalInv,
         \/ \E a \in Approvals : Approve(a)
         \/ \E k \in Keys : SyncWrites(k)
         \/ UNCHANGED vars
  PROVE  ApprovalInv'
<1>1. ASSUME NEW a \in Approvals, Approve(a) PROVE ApprovalInv'
  <2>1. \A b \in DOMAIN approvals : approvals'[b] = approvals[b]
    BY <1>1 DEF Approve
  <2> QED
    BY <1>1, <2>1 DEF Approve, callVars, TypeOK, ApprovalInv
<1>2. CASE UNCHANGED <<approvals, callVars>>
  BY <1>2 DEF callVars, ApprovalInv
<1> QED
  BY <1>1, <1>2 DEF SyncWrites, vars

-----------------------------------------------------------------------------
\* What a deletion may take.

LEMMA InitBounds == Init => BoundInv /\ DeletionIsBounded
<1> SUFFICES ASSUME Init PROVE BoundInv /\ DeletionIsBounded
  OBVIOUS
<1>1. BoundInv
  BY DEF Init, BoundInv
<1>2. \A c \in Callers : Cardinality(deleted[c]) = 0
  BY EmptySet DEF Init
<1> QED
  BY <1>1, <1>2 DEF DeletionIsBounded

\* What the invariant says of one call.
Kept(c) ==
  /\ pc[c] \in {"load", "use", "delete"} => Weighed(c)
  /\ pc[c] = "use" => Named(c)
  /\ pc[c] = "delete" => Automatic(c) \/ Named(c)
  /\ pc[c] \notin {"cleanup", "done"} => deleted[c] = {}
Bounded(c) ==
  LET n == Cardinality(deleted[c]) IN
  n > 0 => /\ Weighed(c)
           /\ \/ n <= AutoCap /\ n * AutoShare <= counted[c]
              \/ /\ approval[c] # NoApproval
                 /\ approvals[approval[c]].used
                 /\ n <= approvals[approval[c]].count

LEMMA OneByOne ==
  /\ BoundInv <=> \A c \in Callers : Kept(c)
  /\ DeletionIsBounded <=> \A c \in Callers : Bounded(c)
  BY DEF BoundInv, Kept, DeletionIsBounded, Bounded, Weighed

\* Approvals are never forgotten, changed or used less.
ApprovalsStay ==
  \A a \in DOMAIN approvals :
    /\ approvals'[a].count = approvals[a].count
    /\ approvals[a].used => approvals'[a].used

LEMMA StepApprovalsStay ==
  ASSUME TypeOK, NEW c \in Callers, Step(c)
  PROVE  ApprovalsStay
<1>1. CASE UNCHANGED approvals
  BY <1>1 DEF ApprovalsStay
<1>2. CASE approvals' = [approvals EXCEPT ![approval[c]].used = TRUE]
  BY <1>2, UsedType DEF ApprovalsStay, TypeOK
<1> QED
  BY <1>1, <1>2 DEF Step, Begin, DropEarlier, CreateStaging, StageKeys, CountTarget,
     QueryOrphans, LoadApproval, UseApproval, DeleteKeys, Cleanup

\* A call that does not move keeps what is known of it.
LEMMA OthersKept ==
  ASSUME TypeOK, ApprovalsStay, NEW d \in Callers, Kept(d), Bounded(d),
         pc'[d] = pc[d], approval'[d] = approval[d], input'[d] = input[d],
         orphans'[d] = orphans[d], counted'[d] = counted[d], deleted'[d] = deleted[d]
  PROVE  Kept(d)' /\ Bounded(d)'
<1>1. approval[d] \in DOMAIN approvals \cup {NoApproval}
  BY DEF TypeOK
<1>2. Weighed(d)' <=> Weighed(d)
  BY DEF Weighed, Source
<1>3. Named(d) => Named(d)'
  BY <1>1 DEF Named, ApprovalsStay
<1>4. Automatic(d)' <=> Automatic(d)
  BY DEF Automatic
<1>5. Kept(d)'
  BY <1>2, <1>3, <1>4 DEF Kept
<1>6. approval[d] # NoApproval =>
        /\ approvals'[approval[d]].count = approvals[approval[d]].count
        /\ approvals[approval[d]].used => approvals'[approval[d]].used
  BY <1>1 DEF ApprovalsStay
<1>7. Bounded(d)'
  BY <1>2, <1>6 DEF Bounded
<1> QED
  BY <1>5, <1>7

\* A call that has deleted nothing is within every bound.
LEMMA NothingDeleted ==
  ASSUME NEW c \in Callers, deleted'[c] = {}
  PROVE  Bounded(c)'
  BY EmptySet DEF Bounded

\* The DELETE takes rows of the call's orphans only, and the call was weighed.
LEMMA DeleteBounded ==
  ASSUME TypeOK, ApprovalInv, NEW c \in Callers, Kept(c), DeleteKeys(c)
  PROVE  Bounded(c)'
<1> DEFINE n == Cardinality(orphans[c])
           m == Cardinality(deleted'[c])
<1>1. pc[c] = "delete" /\ deleted'[c] \subseteq orphans[c] /\ orphans[c] \subseteq Keys
  <2>1. pc[c] = "delete" /\ deleted[c] = {}
    BY DEF DeleteKeys, Kept
  <2> QED
    BY <2>1 DEF DeleteKeys, TypeOK
<1>2. m \in Nat /\ n \in Nat /\ m <= n
  BY <1>1, SmallerSets
<1>3. Weighed(c)'
  BY <1>1 DEF Kept, Weighed, Source, DeleteKeys
<1>4. CASE Automatic(c)
  <2>1. n = 0 \/ (n <= AutoCap /\ n * AutoShare <= counted[c])
    BY <1>4 DEF Automatic
  <2>2. AutoShare \in Nat /\ AutoCap \in Nat
    BY OrphanAssumption
  <2>3. counted[c] \in Nat /\ counted'[c] = counted[c]
    BY SubsetsOfKeys, EmptySet DEF TypeOK, DeleteKeys
  <2>4. m * AutoShare <= n * AutoShare /\ m * AutoShare \in Nat /\ n * AutoShare \in Nat
    BY <1>2, <2>2, SmallerShares
  <2>5. m > 0 => m <= AutoCap /\ m * AutoShare <= counted'[c]
    <3> HIDE DEF m, n
    <3>1. ASSUME NEW x \in Nat, NEW y \in Nat, m > 0, x <= y, y <= counted[c]
          PROVE  n > 0 /\ x <= counted'[c]
      BY <1>2, <2>3, <3>1
    <3> QED
      BY <1>2, <2>1, <2>2, <2>3, <2>4
  <2> QED
    BY <1>3, <2>5 DEF Bounded
<1>5. CASE Named(c)
  <2>1. /\ approval'[c] = approval[c] /\ approvals' = approvals
        /\ approval[c] # NoApproval /\ approvals[approval[c]].count = n
    BY <1>5 DEF Named, DeleteKeys
  <2>2. approvals[approval[c]].used
    BY <1>1, <2>1 DEF ApprovalInv, Settled
  <2>3. m <= approvals'[approval'[c]].count
    BY <1>2, <2>1
  <2> QED
    BY <1>3, <2>1, <2>2, <2>3 DEF Bounded
<1> QED
  BY <1>1, <1>4, <1>5 DEF Kept

LEMMA StepKept ==
  ASSUME TypeOK, ApprovalInv, NEW c \in Callers, Kept(c), Bounded(c), Step(c)
  PROVE  Kept(c)' /\ Bounded(c)'
<1> USE DEF TypeOK, Goto
<1>1. CASE \/ Begin(c) \/ DropEarlier(c) \/ CreateStaging(c) \/ StageKeys(c)
           \/ CountTarget(c)
  <2>1. deleted'[c] = {} /\ pc'[c] \notin {"load", "use", "delete"}
    BY <1>1 DEF Kept, Begin, DropEarlier, CreateStaging, StageKeys, CountTarget
  <2> QED
    BY <2>1, NothingDeleted DEF Kept
<1>2. CASE QueryOrphans(c)
  <2>1. deleted'[c] = {} /\ input' = input /\ pc'[c] # "use"
    BY <1>2 DEF Kept, QueryOrphans, Decided
  <2>2. pc'[c] \in {"load", "delete"} => input[c].execute /\ ~Blocked(c)'
    BY <1>2 DEF QueryOrphans, Decided
  <2>3. pc'[c] = "delete" => Automatic(c)'
    BY <1>2 DEF QueryOrphans, Decided
  <2>4. pc'[c] \in {"load", "delete"} => Weighed(c)'
    BY <2>1, <2>2 DEF Blocked, Weighed, Source
  <2> QED
    BY <2>1, <2>3, <2>4, NothingDeleted DEF Kept
<1>3. CASE LoadApproval(c)
  <2>1. /\ deleted'[c] = {} /\ Weighed(c)' /\ pc'[c] \in {"use", "cleanup"}
    BY <1>3 DEF Kept, LoadApproval, Weighed, Source
  <2>2. CASE pc'[c] = "use"
    <3>1. PICK a \in DOMAIN approvals : Fits(c, a) /\ approval' = [approval EXCEPT ![c] = a]
      BY <1>3, <2>2 DEF LoadApproval
    <3>2. a # NoApproval /\ approval'[c] = a
      BY <3>1, OrphanAssumption
    <3>3. Named(c)'
      BY <1>3, <3>1, <3>2 DEF Named, Fits, LoadApproval
    <3> QED
      BY <2>1, <2>2, <3>3, NothingDeleted DEF Kept
  <2> QED
    BY <2>1, <2>2, NothingDeleted DEF Kept
<1>4. CASE UseApproval(c)
  <2>1. /\ deleted'[c] = {} /\ Weighed(c)' /\ pc'[c] \in {"delete", "cleanup"}
    BY <1>4 DEF Kept, UseApproval, Weighed, Source
  <2>2. CASE pc'[c] = "delete"
    <3>1. Named(c) /\ approval' = approval /\ orphans' = orphans
      BY <1>4, <2>2 DEF UseApproval, Kept
    <3>2. ApprovalsStay
      BY <1>4, StepApprovalsStay DEF Step
    <3>3. Named(c)'
      BY <3>1, <3>2 DEF Named, ApprovalsStay
    <3> QED
      BY <2>1, <2>2, <3>3, NothingDeleted DEF Kept
  <2> QED
    BY <2>1, <2>2, NothingDeleted DEF Kept
<1>5. CASE DeleteKeys(c)
  <2>1. pc'[c] = "cleanup"
    BY <1>5 DEF DeleteKeys
  <2> QED
    BY <1>5, <2>1, DeleteBounded DEF Kept
<1>6. CASE Cleanup(c)
  <2>1. pc'[c] = "done"
    BY <1>6 DEF Cleanup
  <2>2. Bounded(c)'
    BY <1>6 DEF Cleanup, Bounded, Weighed, Source
  <2> QED
    BY <2>1, <2>2 DEF Kept
<1> QED
  BY <1>1, <1>2, <1>3, <1>4, <1>5, <1>6 DEF Step

LEMMA StepBounds ==
  ASSUME TypeOK, ApprovalInv, BoundInv, DeletionIsBounded, NEW c \in Callers, Step(c)
  PROVE  BoundInv' /\ DeletionIsBounded'
<1>1. \A d \in Callers : Kept(d) /\ Bounded(d)
  BY OneByOne
<1>2. ApprovalsStay /\ Elsewhere(c)
  BY StepApprovalsStay, StepElsewhere
<1>3. ASSUME NEW d \in Callers \ {c} PROVE Kept(d)' /\ Bounded(d)'
  BY <1>1, <1>2, OthersKept DEF Elsewhere
<1>4. Kept(c)' /\ Bounded(c)'
  BY <1>1, StepKept
<1>5. \A d \in Callers : Kept(d)' /\ Bounded(d)'
  BY <1>3, <1>4
<1>6. /\ BoundInv' <=> \A d \in Callers : Kept(d)'
      /\ DeletionIsBounded' <=> \A d \in Callers : Bounded(d)'
  BY DEF BoundInv, Kept, DeletionIsBounded, Bounded, Weighed
<1> QED
  BY <1>5, <1>6

LEMMA EnvironmentBounds ==
  ASSUME TypeOK, BoundInv, DeletionIsBounded,
         \/ \E a \in Approvals : Approve(a)
         \/ \E k \in Keys : SyncWrites(k)
         \/ UNCHANGED vars
  PROVE  BoundInv' /\ DeletionIsBounded'
<1>1. UNCHANGED callVars
  BY DEF Approve, SyncWrites, vars
<1>2. ApprovalsStay
  <2>1. ASSUME NEW a \in Approvals, Approve(a) PROVE ApprovalsStay
    BY <2>1 DEF Approve, ApprovalsStay
  <2>2. CASE UNCHANGED approvals
    BY <2>2 DEF ApprovalsStay
  <2> QED
    BY <2>1, <2>2 DEF SyncWrites, vars
<1>3. ASSUME NEW d \in Callers PROVE Kept(d)' /\ Bounded(d)'
  BY <1>1, <1>2, OneByOne, OthersKept DEF callVars
<1>4. /\ BoundInv' <=> \A d \in Callers : Kept(d)'
      /\ DeletionIsBounded' <=> \A d \in Callers : Bounded(d)'
  BY DEF BoundInv, Kept, DeletionIsBounded, Bounded, Weighed
<1> QED
  BY <1>3, <1>4

-----------------------------------------------------------------------------
\* The staging table of a call that no other overlaps.

LEMMA InitStaging == Init => StagingInv
  BY DEF Init, StagingInv, CompanyInv, Alone, Active

LEMMA StepCompany ==
  ASSUME TypeOK, CompanyInv, NEW c \in Callers, Step(c)
  PROVE  CompanyInv'
<1>1. Elsewhere(c)
  BY StepElsewhere
<1>2. CASE Begin(c)
  <2>1. PICK i \in Inputs :
          /\ input' = [input EXCEPT ![c] = i]
          /\ overlapped' = [d \in Callers |->
               \/ overlapped[d]
               \/ d \in {e \in Callers \ {c} : Active(e) /\ Source(e) = i.source}
               \/ d = c /\ {e \in Callers \ {c} : Active(e) /\ Source(e) = i.source} # {}]
    BY <1>2 DEF Begin
  <2>2. ASSUME NEW d \in Callers \ {c}, Active(d)', Source(d)' = Source(c)'
        PROVE  overlapped'[c] /\ overlapped'[d]
    <3>1. Active(d) /\ Source(d) = i.source
      BY <1>1, <2>1, <2>2 DEF Active, Source, Elsewhere, TypeOK
    <3> QED
      BY <2>1, <3>1
  <2>3. ASSUME NEW d \in Callers \ {c}, NEW e \in Callers \ {c}, d # e,
               Active(d)', Active(e)', Source(d)' = Source(e)'
        PROVE  overlapped'[d] /\ overlapped'[e]
    <3>1. Active(d) /\ Active(e) /\ Source(d) = Source(e)
      BY <1>1, <2>3 DEF Active, Source, Elsewhere
    <3>2. overlapped[d] /\ overlapped[e]
      BY <2>3, <3>1 DEF CompanyInv
    <3> QED
      BY <2>1, <3>2
  <2> QED
    BY <2>2, <2>3 DEF CompanyInv
<1>3. CASE ~Begin(c)
  <2>1. overlapped' = overlapped /\ input' = input /\ Active(c)
    BY <1>3 DEF Step, DropEarlier, CreateStaging, StageKeys, CountTarget, QueryOrphans,
       LoadApproval, UseApproval, DeleteKeys, Cleanup, Active
  <2>2. \A d \in Callers : Active(d)' => Active(d)
    BY <1>1, <2>1 DEF Active, Elsewhere
  <2> QED
    BY <2>1, <2>2 DEF CompanyInv, Source
<1> QED
  BY <1>2, <1>3

\* A step fills or drops the table of its own keys only.
LEMMA StepStaging ==
  ASSUME TypeOK, NEW c \in Callers, Step(c)
  PROVE  /\ staging' = staging \/ (Active(c) /\ input' = input /\ overlapped' = overlapped)
         /\ \A s \in Sources : s # Source(c) => staging'[s] = staging[s]
         /\ \A d \in Callers : overlapped[d] => overlapped'[d]
<1>1. CASE Begin(c)
  <2>1. PICK i \in Inputs :
          overlapped' = [d \in Callers |->
            \/ overlapped[d]
            \/ d \in {e \in Callers \ {c} : Active(e) /\ Source(e) = i.source}
            \/ d = c /\ {e \in Callers \ {c} : Active(e) /\ Source(e) = i.source} # {}]
    BY <1>1 DEF Begin
  <2> QED
    BY <1>1, <2>1 DEF Begin
<1>2. CASE DropEarlier(c) \/ CreateStaging(c) \/ Cleanup(c)
  BY <1>2 DEF DropEarlier, CreateStaging, Cleanup, Active, TypeOK
<1>3. CASE StageKeys(c)
  BY <1>3 DEF StageKeys, Active, TypeOK
<1>4. CASE CountTarget(c) \/ QueryOrphans(c) \/ LoadApproval(c) \/ UseApproval(c)
           \/ DeleteKeys(c)
  BY <1>4 DEF CountTarget, QueryOrphans, LoadApproval, UseApproval, DeleteKeys
<1> QED
  BY <1>1, <1>2, <1>3, <1>4 DEF Step

\* A call that does not move is alone as it was.
LEMMA OthersAlone ==
  ASSUME TypeOK, CompanyInv, BoundInv, NEW c \in Callers, Step(c),
         NEW d \in Callers \ {c}, Alone(d)
  PROVE  Alone(d)'
<1>1. Elsewhere(c)
  BY StepElsewhere
<1>2. Source(d)' = Source(d)
  BY <1>1 DEF Elsewhere, Source
<1>3. ASSUME ~overlapped'[d], pc[d] \in {"stage", "count", "query"}
      PROVE  staging'[Source(d)] = staging[Source(d)]
  <2>1. Active(d) /\ Source(d) \in Sources /\ ~overlapped[d]
    BY <1>3, StepStaging DEF Active, Alone, Source, Inputs
  <2>2. CASE Source(c) = Source(d)
    <3>1. ~Active(c)
      BY <2>1, <2>2 DEF CompanyInv
    <3> QED
      BY <3>1, StepStaging
  <2>3. CASE Source(c) # Source(d)
    BY <2>1, <2>3, StepStaging
  <2> QED
    BY <2>2, <2>3
<1>4. ~overlapped'[d] => ~overlapped[d]
  BY StepStaging
<1> QED
  BY <1>1, <1>2, <1>3, <1>4 DEF Alone, Elsewhere

LEMMA StepAlone ==
  ASSUME TypeOK, BoundInv, NEW c \in Callers, Alone(c), Step(c)
  PROVE  Alone(c)'
<1> USE DEF TypeOK, Goto
<1>1. CASE Begin(c)
  <2>1. PICK i \in Inputs :
          input' = [input EXCEPT ![c] = i] /\ rest' = [rest EXCEPT ![c] = i.source]
    BY <1>1 DEF Begin
  <2>2. pc'[c] = "drop" /\ deleted'[c] = {}
    BY <1>1 DEF Begin, BoundInv
  <2> QED
    BY <2>1, <2>2 DEF Alone, Source
<1>2. ASSUME ~Begin(c)
      PROVE  /\ overlapped' = overlapped /\ input' = input /\ Source(c)' = Source(c)
             /\ pc[c] # "new" /\ Source(c) \in Sources
  <2>1. overlapped' = overlapped /\ input' = input /\ pc[c] # "new"
    BY <1>2 DEF Step, DropEarlier, CreateStaging, StageKeys, CountTarget, QueryOrphans,
       LoadApproval, UseApproval, DeleteKeys, Cleanup
  <2> QED
    BY <2>1 DEF Alone, Source, Inputs
<1>3. CASE DropEarlier(c)
  <2>1. pc[c] = "drop" /\ pc'[c] = "create" /\ rest' = rest /\ deleted' = deleted
    BY <1>3 DEF DropEarlier
  <2>2. ~Begin(c)
    BY <2>1 DEF Begin
  <2> QED
    BY <1>2, <2>1, <2>2 DEF Alone
<1>4. CASE CreateStaging(c)
  <2>1. /\ pc[c] = "create" /\ pc'[c] \in {"stage", "done"}
        /\ rest' = rest /\ deleted' = deleted
    BY <1>4 DEF CreateStaging
  <2>2. ~Begin(c)
    BY <2>1 DEF Begin
  <2>3. Source(c) \ rest'[c] = {}
    BY <2>1 DEF Alone
  <2> QED
    BY <1>2, <2>1, <2>2, <2>3 DEF Alone
<1>5. CASE StageKeys(c)
  <2>1. pc[c] = "stage" /\ deleted' = deleted
    BY <1>5 DEF StageKeys
  <2>2. ~Begin(c)
    BY <2>1 DEF Begin
  <2>3. CASE rest[c] = {} /\ Goto(c, "count") /\ UNCHANGED <<staging, rest>>
    BY <1>2, <2>1, <2>2, <2>3 DEF Alone
  <2>4. ASSUME NEW B \in SUBSET rest[c], UNCHANGED pc,
               staging' = [staging EXCEPT ![Source(c)] = Filled(@, B)],
               rest' = [rest EXCEPT ![c] = @ \ B]
        PROVE  Alone(c)'
    <3>1. staging'[Source(c)].keys = staging[Source(c)].keys \cup B
      BY <1>2, <2>2, <2>4 DEF Filled
    <3>2. rest'[c] = rest[c] \ B
      BY <2>4
    <3> QED
      BY <1>2, <2>1, <2>2, <2>4, <3>1, <3>2 DEF Alone
  <2>5. CASE Goto(c, "cleanup")
    BY <1>2, <2>1, <2>2, <2>5 DEF Alone
  <2> QED
    BY <1>5, <2>3, <2>4, <2>5 DEF StageKeys
<1>6. CASE CountTarget(c)
  <2>1. /\ pc[c] = "count" /\ pc'[c] \in {"query", "cleanup"} /\ deleted' = deleted
        /\ rest' = rest /\ staging' = staging
    BY <1>6 DEF CountTarget
  <2>2. ~Begin(c)
    BY <2>1 DEF Begin
  <2> QED
    BY <1>2, <2>1, <2>2 DEF Alone
<1>7. CASE QueryOrphans(c)
  <2>1. /\ pc[c] = "query" /\ pc'[c] \in {"load", "delete", "cleanup"}
        /\ deleted' = deleted
        /\ \/ pc'[c] = "cleanup"
           \/ orphans'[c] = target \ staging[Source(c)].keys
    BY <1>7 DEF QueryOrphans, Decided
  <2>2. ~Begin(c)
    BY <2>1 DEF Begin
  <2>3. ~overlapped[c] => Source(c) \subseteq staging[Source(c)].keys
    BY <2>1 DEF Alone
  <2> QED
    BY <1>2, <2>1, <2>2, <2>3 DEF Alone
<1>8. CASE LoadApproval(c) \/ UseApproval(c)
  <2>1. /\ pc[c] \in {"load", "use"} /\ pc'[c] \in {"use", "delete", "cleanup"}
        /\ deleted' = deleted /\ orphans' = orphans
    BY <1>8 DEF LoadApproval, UseApproval
  <2>2. ~Begin(c)
    BY <2>1 DEF Begin
  <2> QED
    BY <1>2, <2>1, <2>2 DEF Alone
<1>9. CASE DeleteKeys(c)
  <2>1. /\ pc[c] = "delete" /\ pc'[c] = "cleanup"
        /\ deleted'[c] \subseteq orphans[c] \cup deleted[c]
    BY <1>9 DEF DeleteKeys
  <2>2. ~Begin(c)
    BY <2>1 DEF Begin
  <2> QED
    BY <1>2, <2>1, <2>2 DEF Alone
<1>10. CASE Cleanup(c)
  <2>1. pc[c] = "cleanup" /\ pc'[c] = "done" /\ deleted' = deleted
    BY <1>10 DEF Cleanup
  <2>2. ~Begin(c)
    BY <2>1 DEF Begin
  <2> QED
    BY <1>2, <2>1, <2>2 DEF Alone
<1> QED
  BY <1>1, <1>3, <1>4, <1>5, <1>6, <1>7, <1>8, <1>9, <1>10 DEF Step

LEMMA StepKeepsStaging ==
  ASSUME TypeOK, BoundInv, StagingInv, NEW c \in Callers, Step(c)
  PROVE  StagingInv'
<1>1. \A d \in Callers : Alone(d)
  BY DEF StagingInv
<1>2. Alone(c)'
  BY <1>1, StepAlone
<1>3. ASSUME NEW d \in Callers \ {c} PROVE Alone(d)'
  BY <1>1, OthersAlone DEF StagingInv
<1> QED
  BY <1>2, <1>3, StepCompany DEF StagingInv

LEMMA EnvironmentStaging ==
  ASSUME StagingInv,
         \/ \E a \in Approvals : Approve(a)
         \/ \E k \in Keys : SyncWrites(k)
         \/ UNCHANGED vars
  PROVE  StagingInv'
<1>1. UNCHANGED callVars /\ UNCHANGED staging
  BY DEF Approve, SyncWrites, vars
<1>2. CompanyInv'
  BY <1>1 DEF StagingInv, CompanyInv, Active, Source, callVars
<1>3. ASSUME NEW c \in Callers PROVE Alone(c)'
  BY <1>1 DEF StagingInv, Alone, Source, callVars
<1> QED
  BY <1>2, <1>3 DEF StagingInv

-----------------------------------------------------------------------------
\* The theorems.

LEMMA Invariance == Spec => []IInv
<1>1. Init => IInv
  BY InitType, InitApprovals, InitBounds, InitStaging DEF IInv
<1>2. IInv /\ [Next]_vars => IInv'
  <2> SUFFICES ASSUME IInv, [Next]_vars PROVE IInv'
    OBVIOUS
  <2>1. ASSUME NEW c \in Callers, Step(c) PROVE IInv'
    BY <2>1, StepType, StepApprovals, StepBounds, StepKeepsStaging DEF IInv
  <2>2. CASE \/ \E a \in Approvals : Approve(a)
             \/ \E k \in Keys : SyncWrites(k)
             \/ UNCHANGED vars
    BY <2>2, EnvironmentType, EnvironmentApprovals, EnvironmentBounds, EnvironmentStaging
       DEF IInv
  <2> QED
    BY <2>1, <2>2 DEF Next
<1> QED
  BY <1>1, <1>2, PTL DEF Spec

\* OrphanReconcile keeps its types: numbers of keys are counted in the target.
THEOREM TypeCorrect == Spec => []TypeOK
<1>1. IInv => TypeOK
  BY DEF IInv
<1> QED
  BY <1>1, Invariance, PTL

\* One call deletes with an approval, however many race for it
\* (ConsumeOrphanDeleteApproval).
THEOREM ApprovedOnceHolds == Spec => []ApprovedOnce
<1>1. IInv => ApprovedOnce
  BY DEF IInv, ApprovalInv, ApprovedOnce, Settled
<1> QED
  BY <1>1, Invariance, PTL

\* A call deletes no more than the automatic share of what it counted, or than
\* the approval it used names (EvaluateOrphanDelete, ReconcileOrphans).
THEOREM DeletionIsBoundedHolds == Spec => []DeletionIsBounded
<1>1. IInv => DeletionIsBounded
  BY DEF IInv
<1> QED
  BY <1>1, Invariance, PTL

\* A call that no other call for the same keys overlaps deletes no key that its
\* snapshot of the source holds (queryOrphanKeys).
THEOREM OnlyTargetOnlyHolds == Spec => []OnlyTargetOnly
<1>1. IInv => OnlyTargetOnly
  BY DEF IInv, StagingInv, Alone, OnlyTargetOnly
<1> QED
  BY <1>1, Invariance, PTL
=============================================================================
