--------------------------- MODULE OrphanReconcile ---------------------------
(***************************************************************************)
(* The guarded deletion of rows that the source no longer has              *)
(* (ReconcileOrphans, EvaluateOrphanDelete and the approvals of gormdb):   *)
(* calls stage the keys of a source snapshot, read the rows of the target  *)
(* that are not among them, weigh the numbers and delete, by themselves    *)
(* when few, with an approval otherwise. Calls may overlap, and the sync   *)
(* writes to the target meanwhile. One action is one database call.        *)
(***************************************************************************)
EXTENDS Integers, FiniteSets

CONSTANTS Keys,          \* storage keys of the target table
          Callers,       \* calls of ReconcileOrphans
          Sources,       \* key sets of the snapshots, each with its hash
          Previous,      \* source counts of earlier snapshots
          InsertBatch,   \* keys of one INSERT into the staging table (1000)
          AutoCap,       \* orphans that are deleted without approval (1000)
          AutoShare,     \* and their least share of the target, 1/AutoShare (100)
          KeptPercent,   \* share of the earlier count that must remain (90)
          Approvals,     \* identities of approvals
          MaxWrites,     \* bound on the rows that the sync writes meanwhile
          MaxFaults      \* bound on failing calls

NoApproval == "none"

ASSUME OrphanAssumption ==
  /\ IsFiniteSet(Keys) /\ Sources \subseteq SUBSET Keys
  /\ IsFiniteSet(Callers) /\ Previous \subseteq Nat /\ NoApproval \notin Approvals
  /\ InsertBatch \in Nat \ {0} /\ AutoCap \in Nat /\ AutoShare \in Nat \ {0}
  /\ KeptPercent \in 0..100 /\ MaxWrites \in Nat /\ MaxFaults \in Nat

NoTable == [exists |-> FALSE, keys |-> {}]
Tables == {NoTable} \cup [exists : {TRUE}, keys : SUBSET Keys]

VARIABLES
  target,      \* keys in the target table
  staging,     \* snapshot_keys_<hash>, shared by all calls of one key set
  approvals,   \* orphan_delete_approvals: for which snapshot and count, if used
  pc, input,   \* of each call: where it is; what it was asked
  rest,        \* keys still to stage
  counted,     \* TargetCount
  orphans,     \* OrphanRows
  approval,    \* the approval loaded
  deleted,     \* keys that the call has deleted
  \* history and bounds
  overlapped,  \* whether a call for the same keys ran at the same time
  writes, faults

callVars == <<pc, input, rest, counted, orphans, approval, deleted, overlapped>>
vars == <<target, staging, approvals, callVars, writes, faults>>

Pcs == {"new", "drop", "create", "stage", "count", "query", "load", "use",
        "delete", "cleanup", "done"}
Inputs == [source : Sources, previous : Previous, duplicates : BOOLEAN,
           execute : BOOLEAN]
NoInput == [source |-> {}, previous |-> 0, duplicates |-> FALSE, execute |-> FALSE]
ApprovalRows == [source : Sources, count : 0..Cardinality(Keys), used : BOOLEAN]

TypeOK ==
  /\ target \subseteq Keys
  /\ staging \in [Sources -> Tables]
  /\ DOMAIN approvals \subseteq Approvals
  /\ approvals \in [DOMAIN approvals -> ApprovalRows]
  /\ pc \in [Callers -> Pcs] /\ input \in [Callers -> Inputs \cup {NoInput}]
  /\ rest \in [Callers -> SUBSET Keys] /\ orphans \in [Callers -> SUBSET Keys]
  /\ counted \in [Callers -> 0..Cardinality(Keys)]
  /\ approval \in [Callers -> DOMAIN approvals \cup {NoApproval}]
  /\ deleted \in [Callers -> SUBSET Keys] /\ overlapped \in [Callers -> BOOLEAN]
  /\ writes \in 0..MaxWrites /\ faults \in 0..MaxFaults

\* What a call is asked is settled when it begins.
Init ==
  /\ target \in SUBSET Keys
  /\ staging = [s \in Sources |-> NoTable]
  /\ approvals = [a \in {} |-> NoTable]
  /\ pc = [c \in Callers |-> "new"]
  /\ input = [c \in Callers |-> NoInput]
  /\ rest = [c \in Callers |-> {}] /\ orphans = [c \in Callers |-> {}]
  /\ counted = [c \in Callers |-> 0]
  /\ approval = [c \in Callers |-> NoApproval]
  /\ deleted = [c \in Callers |-> {}]
  /\ overlapped = [c \in Callers |-> FALSE]
  /\ writes = 0 /\ faults = 0

-----------------------------------------------------------------------------
\* EvaluateOrphanDelete.

Source(c) == input[c].source
Blocked(c) ==
  \/ Source(c) = {} \/ input[c].duplicates
  \/ Cardinality(orphans[c]) > counted[c]
  \/ /\ input[c].previous > 0
     /\ Cardinality(Source(c)) * 100 < input[c].previous * KeptPercent

\* Mutant: only the cap is looked at, not the share of the table.
AutomaticByCap(c) == Cardinality(orphans[c]) <= AutoCap

Automatic(c) ==
  LET n == Cardinality(orphans[c]) IN
  n = 0 \/ (n <= AutoCap /\ n * AutoShare <= counted[c])

-----------------------------------------------------------------------------
\* A call.

Filled(table, B) == [exists |-> TRUE, keys |-> table.keys \cup B]

Goto(c, p) == pc' = [pc EXCEPT ![c] = p]
Fault == faults < MaxFaults /\ faults' = faults + 1
Active(c) == pc[c] \notin {"new", "done"}

\* A duplicate of a key does not change the hash.
Begin(c) ==
  /\ pc[c] = "new" /\ Goto(c, "drop")
  /\ \E i \in Inputs :
       LET same == {d \in Callers \ {c} : Active(d) /\ Source(d) = i.source} IN
       /\ input' = [input EXCEPT ![c] = i]
       /\ rest' = [rest EXCEPT ![c] = i.source]
       /\ overlapped' = [d \in Callers |->
                            overlapped[d] \/ d \in same \/ (d = c /\ same # {})]
  /\ UNCHANGED <<target, staging, approvals, counted, orphans, approval,
                 deleted, writes, faults>>

\* A table that an earlier call has left is dropped, an error of it ignored.
DropEarlier(c) ==
  /\ pc[c] = "drop" /\ Goto(c, "create")
  /\ \/ staging' = [staging EXCEPT ![Source(c)] = NoTable] /\ UNCHANGED faults
     \/ Fault /\ UNCHANGED staging
  /\ UNCHANGED <<target, approvals, input, rest, counted, orphans, approval,
                 deleted, overlapped, writes>>

\* The table may be there again; then the call fails without its cleanup.
CreateStaging(c) ==
  /\ pc[c] = "create"
  /\ \/ /\ ~staging[Source(c)].exists
        /\ staging' = [staging EXCEPT ![Source(c)] = [exists |-> TRUE, keys |-> {}]]
        /\ Goto(c, "stage") /\ UNCHANGED faults
     \/ /\ staging[Source(c)].exists /\ Goto(c, "done")
        /\ UNCHANGED <<staging, faults>>
     \/ Fault /\ Goto(c, "done") /\ UNCHANGED staging
  /\ UNCHANGED <<target, approvals, input, rest, counted, orphans, approval,
                 deleted, overlapped, writes>>

\* Mutant: only the first batch is staged.
StageFirst(c) ==
  /\ pc[c] = "stage" /\ Goto(c, "count") /\ staging[Source(c)].exists
  /\ \E B \in SUBSET rest[c] :
       /\ Cardinality(B) <= InsertBatch
       /\ staging' = [staging EXCEPT ![Source(c)] = Filled(@, B)]
       /\ rest' = [rest EXCEPT ![c] = @ \ B]
  /\ UNCHANGED <<target, approvals, input, counted, orphans, approval, deleted,
                 overlapped, writes, faults>>

StageKeys(c) ==
  /\ pc[c] = "stage"
  /\ \/ /\ rest[c] = {} /\ Goto(c, "count") /\ UNCHANGED <<staging, rest, faults>>
     \/ /\ rest[c] # {} /\ staging[Source(c)].exists
        /\ \E B \in SUBSET rest[c] :
             /\ \/ Cardinality(B) = InsertBatch
                \/ B = rest[c] /\ Cardinality(B) < InsertBatch
             /\ staging' = [staging EXCEPT ![Source(c)] = Filled(@, B)]
             /\ rest' = [rest EXCEPT ![c] = @ \ B]
        /\ UNCHANGED <<pc, faults>>
     \/ /\ rest[c] # {}
        /\ Fault \/ (~staging[Source(c)].exists /\ UNCHANGED faults)
        /\ Goto(c, "cleanup") /\ UNCHANGED <<staging, rest>>
  /\ UNCHANGED <<target, approvals, input, counted, orphans, approval, deleted,
                 overlapped, writes>>

\* Mutant: the rows of the staging table are counted as well.
CountBoth(c) ==
  /\ pc[c] = "count" /\ Goto(c, "query")
  /\ counted' = [counted EXCEPT
                   ![c] = Cardinality(target) + Cardinality(staging[Source(c)].keys)]
  /\ UNCHANGED <<target, staging, approvals, input, rest, orphans, approval,
                 deleted, overlapped, writes, faults>>

CountTarget(c) ==
  /\ pc[c] = "count"
  /\ \/ /\ counted' = [counted EXCEPT ![c] = Cardinality(target)]
        /\ Goto(c, "query") /\ UNCHANGED faults
     \/ Fault /\ Goto(c, "cleanup") /\ UNCHANGED counted
  /\ UNCHANGED <<target, staging, approvals, input, rest, orphans, approval,
                 deleted, overlapped, writes>>

\* What follows the query: nothing to do, a refusal, an approval or the DELETE.
Decided(c) ==
  IF ~input[c].execute \/ Blocked(c)' THEN "cleanup"
  ELSE IF Automatic(c)' THEN "delete" ELSE "load"

QueryOrphans(c) ==
  /\ pc[c] = "query"
  /\ \/ /\ staging[Source(c)].exists
        /\ orphans' = [orphans EXCEPT ![c] = target \ staging[Source(c)].keys]
        /\ UNCHANGED <<input, counted, faults>>
        /\ Goto(c, Decided(c))
     \/ /\ Fault \/ (~staging[Source(c)].exists /\ UNCHANGED faults)
        /\ Goto(c, "cleanup") /\ UNCHANGED <<input, counted, orphans>>
  /\ UNCHANGED <<target, staging, approvals, rest, approval, deleted,
                 overlapped, writes>>

\* ConsumeOrphanDeleteApproval: an unused approval for this snapshot and count
\* is loaded, then marked if it is still unused.
Fits(c, a) ==
  /\ ~approvals[a].used /\ approvals[a].source = Source(c)
  /\ approvals[a].count = Cardinality(orphans[c])

LoadApproval(c) ==
  /\ pc[c] = "load"
  /\ \/ /\ \E a \in DOMAIN approvals :
             Fits(c, a) /\ approval' = [approval EXCEPT ![c] = a]
        /\ Goto(c, "use") /\ UNCHANGED faults
     \/ /\ Fault \/ (UNCHANGED faults /\ \A a \in DOMAIN approvals : ~Fits(c, a))
        /\ Goto(c, "cleanup") /\ UNCHANGED approval
  /\ UNCHANGED <<target, staging, approvals, input, rest, counted, orphans,
                 deleted, overlapped, writes>>

\* Mutant: the approval is marked without looking whether it is still unused.
UseAgain(c) ==
  /\ pc[c] = "use" /\ Goto(c, "delete")
  /\ approvals' = [approvals EXCEPT ![approval[c]].used = TRUE]
  /\ UNCHANGED <<target, staging, input, rest, counted, orphans, approval,
                 deleted, overlapped, writes, faults>>

UseApproval(c) ==
  /\ pc[c] = "use"
  /\ \/ /\ ~approvals[approval[c]].used /\ Goto(c, "delete")
        /\ approvals' = [approvals EXCEPT ![approval[c]].used = TRUE]
        /\ UNCHANGED <<approval, faults>>
     \/ /\ Fault \/ (approvals[approval[c]].used /\ UNCHANGED faults)
        /\ Goto(c, "cleanup") /\ UNCHANGED approvals
        /\ approval' = [approval EXCEPT ![c] = NoApproval]
  /\ UNCHANGED <<target, staging, input, rest, counted, orphans, deleted,
                 overlapped, writes>>

\* One DELETE of the keys read before; an error leaves it done or not done.
DeleteKeys(c) ==
  /\ pc[c] = "delete" /\ Goto(c, "cleanup")
  /\ LET gone == target \cap orphans[c] IN
     \/ /\ target' = target \ gone /\ deleted' = [deleted EXCEPT ![c] = gone]
        /\ UNCHANGED faults \/ Fault
     \/ Fault /\ UNCHANGED <<target, deleted>>
  /\ UNCHANGED <<staging, approvals, input, rest, counted, orphans, approval,
                 overlapped, writes>>

\* The deferred DROP; its error is ignored.
Cleanup(c) ==
  /\ pc[c] = "cleanup" /\ Goto(c, "done")
  /\ \/ staging' = [staging EXCEPT ![Source(c)] = NoTable] /\ UNCHANGED faults
     \/ Fault /\ UNCHANGED staging
  /\ UNCHANGED <<target, approvals, input, rest, counted, orphans, approval,
                 deleted, overlapped, writes>>

-----------------------------------------------------------------------------
\* The environment.

\* CreateOrphanDeleteApproval, after a call that was not to delete.
Approve(a) ==
  /\ a \notin DOMAIN approvals
  /\ \E s \in Sources, n \in 0..Cardinality(Keys) :
       approvals' = [b \in DOMAIN approvals \cup {a} |->
                       IF b = a THEN [source |-> s, count |-> n, used |-> FALSE]
                       ELSE approvals[b]]
  /\ UNCHANGED <<target, staging, callVars, writes, faults>>

\* The sync writes a row of the source.
SyncWrites(k) ==
  /\ writes < MaxWrites /\ k \notin target /\ writes' = writes + 1
  /\ target' = target \cup {k}
  /\ UNCHANGED <<staging, approvals, callVars, faults>>

Step(c) ==
  \/ Begin(c) \/ DropEarlier(c) \/ CreateStaging(c) \/ StageKeys(c)
  \/ CountTarget(c) \/ QueryOrphans(c) \/ LoadApproval(c) \/ UseApproval(c)
  \/ DeleteKeys(c) \/ Cleanup(c)

Next ==
  \/ \E c \in Callers : Step(c)
  \/ \E a \in Approvals : Approve(a)
  \/ \E k \in Keys : SyncWrites(k)

Spec == Init /\ [][Next]_vars

-----------------------------------------------------------------------------
\* Properties.

\* An approval lets one call delete, whichever calls race for it.
ApprovedOnce ==
  \A c, d \in Callers :
    c # d /\ approval[c] = approval[d] /\ pc[c] \in {"delete", "cleanup", "done"}
          /\ pc[d] \in {"delete", "cleanup", "done"} =>
      approval[c] = NoApproval \/ deleted[c] = {} \/ deleted[d] = {}

\* Whatever other calls and the sync do meanwhile, even to the staging table,
\* a call deletes at most the automatic share of the table it has counted, or
\* exactly as many rows as its approval names.
DeletionIsBounded ==
  \A c \in Callers :
    LET n == Cardinality(deleted[c]) IN
    n > 0 => /\ Source(c) # {} /\ ~input[c].duplicates /\ input[c].execute
             /\ \/ n <= AutoCap /\ n * AutoShare <= counted[c]
                \/ /\ approval[c] # NoApproval
                   /\ approvals[approval[c]].used
                   /\ n <= approvals[approval[c]].count

\* A call that no other call for the same keys overlaps deletes no key of its
\* snapshot.
OnlyTargetOnly ==
  \A c \in Callers : ~overlapped[c] => deleted[c] \cap Source(c) = {}
=============================================================================
