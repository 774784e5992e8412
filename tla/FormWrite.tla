------------------------------ MODULE FormWrite ------------------------------
(***************************************************************************)
(* One form without cursor keys and its target table, round after round    *)
(* (the row path of runSync's form goroutine and the writer below it): the *)
(* budget of the form, the query, the refusals, the snapshot that replaces *)
(* the table or the periods it covers, the MERGE through a staging table   *)
(* or in direct batches, the recovery of the staging table, the status     *)
(* that the form ends with, and the DELETE that an API run of the          *)
(* inventory sends after its end, when the next run may be writing.        *)
(*                                                                         *)
(* A "whole" form is aggregated and replaces the table; a "scoped" one     *)
(* replaces its accounting periods; a "table" is merged by key. One action *)
(* is one query or database call. A call under the form's context need     *)
(* never be answered: it is only sure to return once that context is done. *)
(***************************************************************************)
EXTENDS Integers, FiniteSets

CONSTANTS Rows, KeyOf, ScopeOf, NoKey, NoScope, NoStock,   \* see TargetTable
          Modes,         \* sync types asked for
          DirectBelow,   \* fewer rows than this skip the staging table (5000)
          DirectBatch,   \* rows of a direct MERGE (100)
          MaxRounds,     \* bound on the rounds
          MaxFaults,     \* bound on failing calls
          MaxCrashes     \* bound on crashes

SyncTypes == {"full", "incremental", "reset"}

ASSUME FormWriteAssumption ==
  /\ IsFiniteSet(Rows)
  /\ DOMAIN KeyOf = Rows /\ DOMAIN ScopeOf = Rows /\ NoStock \subseteq SUBSET Rows
  /\ Modes \subseteq SyncTypes
  /\ DirectBelow \in Nat /\ DirectBatch \in Nat \ {0}
  /\ MaxRounds \in Nat /\ MaxFaults \in Nat /\ MaxCrashes \in Nat

VARIABLES
  \* the target database
  form, target,
  staging,     \* staging tables that exist, each named by the round it is of
  tx,          \* the table as the open transaction sees it
  \* the form's goroutine
  pc, mode, dry,
  batch,       \* rows fetched in this round
  loaded,      \* rows in the staging table, as they would be in the target
  todo,        \* rows that direct MERGEs still have to send
  part,        \* rows of the last direct MERGE, not counted yet
  result,      \* UpsertResult: inserted, updated; err when an error returned
  stat,        \* FormStat: status, inserted, updated
  tail,        \* the DELETE of an API run that has ended is still to come
  \* the round's context, the form's budget, the stop of the fetching
  cancelled, late, fetchStopped,
  \* history and bounds
  round, faults, crashes

tableVars == <<form, target, staging, tx>>
roundVars == <<mode, dry, round>>
dataVars  == <<batch, loaded, todo, part>>
ctxVars   == <<cancelled, late, fetchStopped>>
vars == <<tableVars, pc, roundVars, dataVars, result, stat, tail, ctxVars, faults,
          crashes>>

Table == INSTANCE TargetTable WITH answer <- batch

\* Calls that run under the form's context.
WriterCalls == {"create", "load", "count", "begin", "delete", "insert", "merge",
                "commit", "direct", "recount"}
Pcs == {"idle", "start", "fetch", "fetched", "truncate", "columns", "drop",
        "written"} \cup WriterCalls
Statuses == {"none", "success", "failed", "stopped"}
NoTable == {}
NoResult == [inserted |-> 0, updated |-> 0, err |-> FALSE]
NoStat == [status |-> "none", inserted |-> 0, updated |-> 0]

TypeOK ==
  /\ form \in Table!Forms /\ target \subseteq Table!TargetRows
  /\ staging \subseteq 1..MaxRounds /\ tx \subseteq Table!TargetRows
  /\ pc \in Pcs /\ mode \in SyncTypes /\ dry \in BOOLEAN
  /\ batch \subseteq Rows /\ loaded \subseteq Table!TargetRows
  /\ todo \subseteq batch /\ part \subseteq batch
  /\ result \in [inserted : Nat, updated : Nat, err : BOOLEAN]
  /\ stat \in [status : Statuses, inserted : Nat, updated : Nat]
  /\ tail \in BOOLEAN
  /\ cancelled \in BOOLEAN /\ late \in BOOLEAN /\ fetchStopped \in BOOLEAN
  /\ round \in 0..MaxRounds /\ faults \in 0..MaxFaults
  /\ crashes \in 0..MaxCrashes

-----------------------------------------------------------------------------
\* Helpers.

Fresh(B) == [at |-> B, of |-> B]
Plain(B) == {Fresh({r}) : r \in B}

\* aggregateRowsByKey: one row for each key, standing for all rows with it.
Aggregated(B) == {Fresh({s \in B : KeyOf[s] = KeyOf[r]}) : r \in B}

\* Rows that the form writes for a batch.
RowsToWrite(B) == IF form = "whole" THEN Aggregated(B) ELSE Plain(B)

\* Sources of T that a MERGE matches to row t; an empty key matches too.
Matches(t, B) == {r \in B : KeyOf[r] = Table!Key(t)}
Matched(T, B) == {r \in B : \E t \in T : Table!Key(t) = KeyOf[r]}

\* SQL Server refuses to update a row twice in one MERGE (error 8672).
MergeRefused(T, B) == \E t \in T : Cardinality(Matches(t, B)) > 1
Merged(T, B) ==
  {IF Matches(t, B) = {} THEN t ELSE [t EXCEPT !.of = Matches(t, B)] : t \in T}
    \cup Plain(B \ Matched(T, B))

\* Rows whose key is missing hide all duplicates (FindDuplicateBusinessKeys).
Duplicates(B) ==
  /\ NoKey \notin Table!Keys(B)
  /\ \E r, s \in B : r # s /\ KeyOf[r] = KeyOf[s]

Fault == faults < MaxFaults /\ faults' = faults + 1
CtxDone == cancelled \/ late
BudgetExceeded == late /\ ~cancelled     \* formBudgetExceededCause

Goto(p) == pc' = p

\* The goroutine ends with this FormStat; its data and contexts are gone.
goroutineVars == <<loaded, todo, part, result, stat, tail, ctxVars>>
Leave(st) ==
  /\ stat' = st /\ Goto("idle")
  /\ loaded' = {} /\ todo' = {} /\ part' = {} /\ result' = NoResult
  /\ cancelled' = FALSE /\ late' = FALSE /\ fetchStopped' = FALSE

\* The run of the form ends without an error: one created by the API, unlike a
\* retry, a scheduled or a recovery run, then sends the DELETE for an inventory
\* form that succeeded, also after a dry run.
EndWith(st) ==
  /\ Leave(st)
  /\ tail' \in IF form = "whole" /\ st.status = "success" THEN {tail, TRUE} ELSE {tail}
End(status) == EndWith([NoStat EXCEPT !.status = status])
Success(res) ==
  [status |-> "success", inserted |-> res.inserted, updated |-> res.updated]

\* Mutant: a form over its budget ends with a status of its own.
AsTimedOut == IF BudgetExceeded THEN "timed_out" ELSE "stopped"

AsBudget == IF BudgetExceeded THEN "failed" ELSE "stopped"

Init ==
  /\ form \in Table!Forms
  /\ target \in {Plain(B) : B \in SUBSET Rows}
  /\ form = "whole" => Table!KeysUnique(target)
  /\ form = "scoped" => NoScope \notin {Table!Scope(t) : t \in target}
  /\ form = "table" => Table!KeysUnique(target)
  /\ staging = {} /\ tx = NoTable
  /\ pc = "idle" /\ mode = "full" /\ dry = FALSE
  /\ batch = {} /\ loaded = {} /\ todo = {} /\ part = {}
  /\ result = NoResult /\ stat = NoStat /\ tail = FALSE
  /\ cancelled = FALSE /\ late = FALSE /\ fetchStopped = FALSE
  /\ round = 0 /\ faults = 0 /\ crashes = 0

-----------------------------------------------------------------------------
\* The round and its query.

\* A round reaches the form; its contexts are new.
StartRound ==
  /\ pc = "idle" /\ round < MaxRounds
  /\ round' = round + 1 /\ Goto("start")
  /\ mode' \in Modes /\ dry' \in BOOLEAN
  /\ batch' = {} /\ stat' = NoStat
  /\ UNCHANGED <<tableVars, loaded, todo, part, result, tail, ctxVars, faults,
                 crashes>>

\* The stop is looked at and the run's identity is read.
Preamble ==
  /\ pc = "start"
  /\ \/ /\ CtxDone \/ fetchStopped
        /\ End("stopped") /\ UNCHANGED faults
     \/ /\ ~CtxDone /\ ~fetchStopped
        /\ \/ Fault /\ End("failed")
           \/ Goto("fetch") /\ UNCHANGED <<goroutineVars, faults>>
  /\ UNCHANGED <<tableVars, roundVars, batch, crashes>>

\* The source returns all its rows, whatever they are now.
FetchAnswers ==
  /\ pc = "fetch" /\ Goto("fetched")
  /\ batch' \in SUBSET Rows
  /\ UNCHANGED <<tableVars, roundVars, goroutineVars, faults, crashes>>

FetchFails ==
  /\ pc = "fetch" /\ Fault
  /\ End(IF CtxDone \/ fetchStopped THEN AsBudget ELSE "failed")
  /\ UNCHANGED <<tableVars, roundVars, batch, crashes>>

\* The query ends with its context, answered or not.
FetchAborts ==
  /\ pc = "fetch"
  /\ CtxDone \/ fetchStopped
  /\ End(AsBudget)
  /\ UNCHANGED <<tableVars, roundVars, batch, faults, crashes>>

\* An empty answer never reaches the writer; a dry run stops here.
FetchedEnds ==
  \/ /\ CtxDone
     /\ End(AsBudget)
  \/ /\ ~CtxDone /\ batch = {}
     /\ End(IF mode = "full" THEN "failed" ELSE "success")
  \/ /\ ~CtxDone /\ batch # {} /\ dry
     /\ EndWith(Success([inserted |-> Cardinality(batch), updated |-> 0]))

CheckFetched ==
  /\ pc = "fetched"
  /\ \/ FetchedEnds
     \/ /\ ~CtxDone /\ batch # {} /\ ~dry /\ UNCHANGED goroutineVars
        /\ Goto(IF mode = "reset" /\ form = "table" THEN "truncate" ELSE "columns")
  /\ UNCHANGED <<tableVars, roundVars, batch, faults, crashes>>

-----------------------------------------------------------------------------
\* Two calls without a context: the TRUNCATE of a reset and the column names.

\* An error leaves the TRUNCATE done or not done.
Truncate ==
  /\ pc = "truncate"
  /\ \/ target' = {} /\ Goto("columns") /\ UNCHANGED <<goroutineVars, faults>>
     \/ target' \in {target, {}} /\ Fault /\ End("failed")
  /\ UNCHANGED <<form, staging, tx, roundVars, batch, crashes>>

\* writeRowsWithMode and validateSnapshotScope refuse before any side effect.
Refused ==
  \/ form = "table" /\ Duplicates(batch)
  \/ form = "scoped" /\ NoScope \in Table!Scopes(batch)

Columns ==
  /\ pc = "columns"
  /\ \/ /\ Fault \/ (Refused /\ UNCHANGED faults)
        /\ result' = [NoResult EXCEPT !.err = TRUE]
        /\ Goto("written") /\ UNCHANGED todo
     \/ /\ ~Refused /\ UNCHANGED <<result, faults>>
        /\ IF form = "table" /\ Cardinality(batch) < DirectBelow
           THEN Goto("direct") /\ todo' = batch
           ELSE Goto("create") /\ UNCHANGED todo
  /\ UNCHANGED <<tableVars, roundVars, batch, loaded, part, stat, tail, ctxVars,
                 crashes>>

-----------------------------------------------------------------------------
\* The staging table and the transaction (stagingUpsert, ReplaceSnapshot).

writerRest == <<form, roundVars, batch, todo, part, stat, tail, ctxVars, faults,
                crashes>>

CreateStaging ==
  /\ pc = "create" /\ Goto("load")
  /\ staging' = staging \cup {round}
  /\ UNCHANGED <<writerRest, target, tx, loaded, result>>

LoadStaging ==
  /\ pc = "load"
  /\ loaded' = RowsToWrite(batch)
  /\ Goto(IF form = "table" THEN "count" ELSE "begin")
  /\ UNCHANGED <<writerRest, target, staging, tx, result>>

\* The keys that exist are counted before the MERGE.
CountExisting ==
  /\ pc = "count" /\ Goto("begin")
  /\ result' = [result EXCEPT !.updated = Cardinality(Matched(target, batch))]
  /\ UNCHANGED <<writerRest, target, staging, tx, loaded>>

BeginTx ==
  /\ pc = "begin" /\ Goto(IF form = "table" THEN "merge" ELSE "delete")
  /\ tx' = target
  /\ UNCHANGED <<writerRest, target, staging, loaded, result>>

\* Mutant: rows are deleted outside the transaction.
DeleteAtOnce ==
  /\ pc = "delete" /\ Goto("insert")
  /\ target' = {} /\ tx' = {}
  /\ UNCHANGED <<writerRest, staging, loaded, result>>

\* TRUNCATE, or DELETE of the rows that join the staged ones on their period.
DeleteOld ==
  /\ pc = "delete" /\ Goto("insert")
  /\ tx' = IF form = "whole" THEN {}
           ELSE {t \in tx : \A u \in loaded : Table!Scope(u) # Table!Scope(t)}
  /\ UNCHANGED <<writerRest, target, staging, loaded, result>>

InsertNew ==
  /\ pc = "insert" /\ Goto("commit")
  /\ tx' = tx \cup loaded
  /\ result' = [result EXCEPT !.inserted = Cardinality(loaded)]
  /\ UNCHANGED <<writerRest, target, staging, loaded>>

Merge ==
  /\ pc = "merge" /\ ~MergeRefused(tx, batch) /\ Goto("commit")
  /\ tx' = Merged(tx, batch)
  /\ result' = [result EXCEPT !.inserted = Cardinality(loaded) - result.updated]
  /\ UNCHANGED <<writerRest, target, staging, loaded>>

\* Commit refuses a context that is done.
Commit ==
  /\ pc = "commit" /\ ~CtxDone /\ Goto("drop")
  /\ target' = tx /\ tx' = NoTable
  /\ UNCHANGED <<writerRest, staging, loaded, result>>

-----------------------------------------------------------------------------
\* Direct batches, each committed by itself and counted afterwards.

DirectMerge ==
  /\ pc = "direct" /\ Goto("recount")
  /\ part' \in {B \in SUBSET todo :
                  \/ Cardinality(B) = DirectBatch
                  \/ B = todo /\ Cardinality(B) < DirectBatch}
  /\ ~MergeRefused(target, part')
  /\ target' = Merged(target, part') /\ todo' = todo \ part'
  /\ UNCHANGED <<form, staging, tx, roundVars, batch, loaded, result, stat,
                 tail, ctxVars, faults, crashes>>

AfterPart == Goto(IF todo = {} THEN "written" ELSE "direct")

\* A missing key is NULL in this count and matches nothing.
DirectCount ==
  /\ pc = "recount" /\ AfterPart
  /\ LET existing == {r \in Matched(target, part) : KeyOf[r] # NoKey} IN
     result' = [result EXCEPT
                  !.updated = @ + Cardinality(existing),
                  !.inserted = @ + Cardinality(part) - Cardinality(existing)]
  /\ UNCHANGED <<writerRest, target, staging, tx, loaded>>

-----------------------------------------------------------------------------
\* Calls that return an error.

\* What a writer call that fails may have done: a staging table that was
\* created, a commit or a direct batch that the server has carried out.
Leftover ==
  \/ pc = "create" /\ staging' \in {staging, staging \cup {round}} /\ UNCHANGED target
  \/ /\ pc = "commit" /\ UNCHANGED staging
     /\ target' \in IF CtxDone THEN {target} ELSE {target, tx}
  \/ /\ pc = "direct" /\ UNCHANGED staging
     /\ \/ UNCHANGED target
        \/ \E B \in SUBSET todo \ {{}} :
             /\ Cardinality(B) <= DirectBatch /\ ~MergeRefused(target, B)
             /\ target' = Merged(target, B)
  \/ pc \notin {"create", "commit", "direct"} /\ UNCHANGED <<staging, target>>

\* An error ends the writer: the transaction is rolled back and the staging
\* table dropped. Only the two counts are content with an error.
WriterFails ==
  /\ pc \in WriterCalls
  /\ Leftover /\ tx' = NoTable
  /\ CASE pc = "count" -> Goto("begin") /\ UNCHANGED result
       [] pc = "recount" ->
            /\ AfterPart
            /\ result' = [result EXCEPT !.inserted = @ + Cardinality(part)]
       [] OTHER ->
            /\ Goto(IF pc = "direct" THEN "written" ELSE "drop")
            /\ result' = [NoResult EXCEPT !.err = TRUE]
  /\ UNCHANGED <<form, roundVars, dataVars, stat, tail, ctxVars, crashes>>

MergeRefusedError ==
  /\ \/ pc = "merge" /\ MergeRefused(tx, batch)
     \/ /\ pc = "direct"
        /\ \E B \in SUBSET todo : Cardinality(B) <= DirectBatch /\ MergeRefused(target, B)
  /\ tx' = NoTable
  /\ Goto(IF pc = "direct" THEN "written" ELSE "drop")
  /\ result' = [NoResult EXCEPT !.err = TRUE]
  /\ UNCHANGED <<form, target, staging, roundVars, dataVars, stat, tail, ctxVars,
                 faults, crashes>>

CallFails == Fault /\ WriterFails
\* Mutant: the batches of the staging table are sent without the context.
AbortsNoLoad == pc # "load" /\ CtxDone /\ UNCHANGED faults /\ WriterFails
CallAborts == CtxDone /\ UNCHANGED faults /\ WriterFails

\* Mutant: the staging table is dropped under the form's own context.
DropUnderForm ==
  /\ pc = "drop" /\ Goto("written")
  /\ staging' = IF CtxDone THEN staging ELSE staging \ {round}
  /\ UNCHANGED <<writerRest, target, tx, loaded, result>>

\* The deferred DROP has a context and a deadline of its own.
DropStaging ==
  /\ pc = "drop" /\ Goto("written")
  /\ \/ staging' = staging \ {round} /\ UNCHANGED faults
     \/ Fault /\ UNCHANGED staging
  /\ UNCHANGED <<form, target, tx, roundVars, dataVars, result, stat, tail, ctxVars,
                 crashes>>

\* Mutant: an error of the writer is only logged.
WrittenAnyway ==
  /\ pc = "written" /\ EndWith(Success(result))
  /\ UNCHANGED <<tableVars, roundVars, batch, faults, crashes>>

Written ==
  /\ pc = "written"
  /\ \/ result.err /\ End("failed")
     \/ ~result.err /\ CtxDone /\ End(AsBudget)
     \/ ~result.err /\ ~CtxDone /\ EndWith(Success(result))
  /\ UNCHANGED <<tableVars, roundVars, batch, faults, crashes>>

-----------------------------------------------------------------------------
\* After the run.

\* The DELETE of the records without stock, in a transaction of its own; its
\* error is ignored, and it may be carried out all the same. The slot is free by
\* then: another round may be under way, but not between its TRUNCATE and its
\* COMMIT, which lock the table.
PruneStock ==
  /\ tail /\ tail' = FALSE
  /\ pc \notin {"insert", "commit"}
  /\ \/ target' = Table!Stocked(target) /\ UNCHANGED faults
     \/ target' \in {target, Table!Stocked(target)} /\ Fault
  /\ tx' = IF pc = "delete" THEN target' ELSE tx
  /\ UNCHANGED <<form, staging, pc, roundVars, dataVars, result, stat, ctxVars, crashes>>

-----------------------------------------------------------------------------
\* The environment.

envRest == <<tableVars, pc, roundVars, dataVars, result, stat, tail, faults, crashes>>

\* The run is stopped, shut down or over its own time.
Cancel ==
  /\ pc # "idle" /\ ~cancelled /\ cancelled' = TRUE
  /\ UNCHANGED <<envRest, late, fetchStopped>>

\* Nothing looks at it once the rows are fetched.
StopFetch ==
  /\ pc \in {"start", "fetch"} /\ ~fetchStopped /\ fetchStopped' = TRUE
  /\ UNCHANGED <<envRest, cancelled, late>>

\* A deadline that passes after the cancellation changes nothing.
BudgetRunsOut ==
  /\ pc # "idle" /\ ~late /\ ~cancelled /\ late' = TRUE
  /\ UNCHANGED <<envRest, cancelled, fetchStopped>>

\* The server rolls the transaction back; the staging table stays, and the
\* DELETE of an earlier run is not sent any more.
Crash ==
  /\ pc # "idle" /\ crashes < MaxCrashes /\ crashes' = crashes + 1
  /\ tx' = NoTable /\ batch' = {} /\ Leave(NoStat) /\ tail' = FALSE
  /\ UNCHANGED <<form, target, staging, roundVars, faults>>

Next ==
  \/ StartRound \/ Preamble \/ FetchAnswers \/ FetchFails \/ FetchAborts
  \/ CheckFetched \/ Truncate \/ Columns
  \/ CreateStaging \/ LoadStaging \/ CountExisting \/ BeginTx \/ DeleteOld
  \/ InsertNew \/ Merge \/ Commit \/ DirectMerge \/ DirectCount
  \/ CallFails \/ CallAborts \/ MergeRefusedError \/ DropStaging \/ Written
  \/ PruneStock \/ Cancel \/ StopFetch \/ BudgetRunsOut \/ Crash

Spec == Init /\ [][Next]_vars

\* Nothing makes the source or the database answer under a context; timers
\* fire, the two calls without one are answered, and the code goes on.
Fairness ==
  /\ WF_vars(Preamble) /\ WF_vars(FetchAborts) /\ WF_vars(CheckFetched)
  /\ WF_vars(Truncate) /\ WF_vars(Columns) /\ WF_vars(CallAborts)
  /\ WF_vars(DropStaging) /\ WF_vars(Written) /\ WF_vars(BudgetRunsOut)

FairSpec == Spec /\ Fairness

-----------------------------------------------------------------------------
\* Properties.

\* A form that reports success has its whole batch in the target: a snapshot
\* holds exactly the rows fetched, and quantities of fragments are neither
\* lost nor counted twice (once an API run has pruned it, the records without
\* stock are missing, all of them and no others); a merged table holds every
\* row fetched, under its key. The counts reported add up to the rows written
\* (isWriteComplete).
Holds(B) ==
  CASE form = "whole" -> Table!Replaced(target, B) \/ Table!Pruned(target, B)
    [] form = "scoped" -> Table!ReplacedInScope(target, target, B)
    [] form = "table" ->
         /\ Table!Keys(B) \subseteq {Table!Key(t) : t \in target}
         /\ NoKey \notin Table!Keys(B) =>
              Table!Singles(B) \subseteq Table!Contents(target)

SuccessIsWritten ==
  stat.status = "success" /\ ~dry /\ batch # {} =>
    /\ Holds(batch)
    /\ stat.inserted + stat.updated = Cardinality(RowsToWrite(batch))

\* A staging table survives its round only when a call failed or the process
\* died, never because the form was cancelled or ran out of its budget
\* (cleanupContext: 2026-11-02, one table of 60000 rows left by each round).
LeaksAreFaults == pc = "idle" => Cardinality(staging) <= faults + crashes

\* Readers of the target see it change from one complete picture to the next;
\* a snapshot may lose its records without stock, all in one step, and no others
\* (ADR-0007 knows complete snapshots only).
WritesAsATable == Table!Spec

\* A form ends although neither Kingdee nor the database ever answers a call
\* under its context (the budget of the form).
FormEnds == pc # "idle" ~> pc = "idle"
=============================================================================
