----------------------------- MODULE CursorSync -----------------------------
(***************************************************************************)
(* One cursor form and its target table over the runs that synchronise it  *)
(* (syncCursorForm and the writer below it): the page loop against a       *)
(* source that changes meanwhile, the cursor checkpoint and its resumption *)
(* by a recovery run, the write of a page, the staged keys and the orphan  *)
(* deletion of a full run.                                                 *)
(*                                                                         *)
(* A row is its place in the cursor order; its content is the time of its  *)
(* last change. One action is one query, one database call or one change   *)
(* of the source. Runs follow one another: SyncEngine shows that at most   *)
(* one executes.                                                           *)
(***************************************************************************)
EXTENDS Integers, FiniteSets

CONSTANTS N,           \* rows the source can hold, in cursor order
          Keyless,     \* rows that lack the cursor key (header-only rows)
          PageSize,    \* rows of a full page (kingdee.page_size)
          OrphanCap,   \* a deletion is at most 1/OrphanCap of the target (10)
          Staged,      \* pages are merged through a staging table
          Modes,       \* sync types of the runs asked for
          MaxRuns,     \* bound on the runs
          MaxTime,     \* bound on the clock, hence on changes of the source
          MaxFaults,   \* bound on failing calls
          MaxCrashes,  \* bound on crashes
          AllowStop    \* whether runs are stopped

SyncTypes == {"full", "incremental"}

ASSUME CursorAssumption ==
  /\ N \in Nat /\ Keyless \subseteq 1..N
  /\ PageSize \in Nat \ {0} /\ OrphanCap \in Nat \ {0}
  /\ Staged \in BOOLEAN /\ AllowStop \in BOOLEAN
  /\ Modes \subseteq SyncTypes
  /\ MaxRuns \in Nat /\ MaxTime \in Nat \ {0}
  /\ MaxFaults \in Nat /\ MaxCrashes \in Nat

Rows == 1..N
Keyed == Rows \ Keyless
Runs == 1..MaxRuns
NoRun == 0
Times == 0..MaxTime       \* 0: no such row
NoCheckpoint == [owner |-> NoRun, cursor |-> 0, from |-> 0, low |-> 0, asked |-> 0]

VARIABLES
  \* the source (external)
  now,         \* the clock
  born, mod,   \* creation and last change of each row; 0 when it does not exist
  \* the target database
  tgt,         \* change of the source that each row holds; 0 when absent
  synced,      \* its SYNC_TIME
  \* the state database
  cp,          \* the checkpoint: owner, cursor; from, low, asked are its pull's
  status, kind, parent,   \* sync_runs
  \* the form's goroutine
  run, pc,
  since,       \* lower bound of the filter (GetLastSyncTime); 0 for none
  from,        \* history: when the pull that this run completes began
  low,         \* history: the lower bound that the pull began with
  asked,       \* history: the highest bound that a run of the pull asked with
  prev,        \* previous: the cursor
  resumed, collecting,    \* resumed; pkCollector # nil
  page,        \* the rows of the page read, with their content
  fetched,     \* FetchedCount
  staged,      \* keys in the source-key staging table
  \* the environment
  stopping, faults, crashes

sourceVars == <<now, born, mod>>
runVars    == <<status, kind, parent>>
pullVars   == <<since, from, low, asked, prev, resumed, collecting, fetched, staged>>
envVars    == <<stopping, faults, crashes>>
vars == <<sourceVars, tgt, synced, cp, runVars, run, pc, pullVars, page, envVars>>

Pcs == {"idle", "load", "query", "write", "stage", "save", "finish",
        "reconcile", "clear"}
Statuses == {"none", "running", "success", "failed", "abnormal"}
NoPage == [p \in {} |-> 0]

TypeOK ==
  /\ now \in 1..MaxTime
  /\ born \in [Rows -> Times] /\ mod \in [Rows -> Times]
  /\ tgt \in [Rows -> Times] /\ synced \in [Rows -> Times]
  /\ cp \in [owner : Runs \cup {NoRun}, cursor : Rows \cup {0}, from : Times,
             low : Times, asked : Times]
  /\ status \in [Runs -> Statuses]
  /\ kind \in [Runs -> SyncTypes]
  /\ parent \in [Runs -> Runs \cup {NoRun}]
  /\ run \in Runs \cup {NoRun} /\ pc \in Pcs
  /\ since \in Times /\ from \in Times /\ low \in Times /\ asked \in Times
  /\ prev \in Rows \cup {0}
  /\ resumed \in BOOLEAN /\ collecting \in BOOLEAN
  /\ DOMAIN page \subseteq Rows /\ page \in [DOMAIN page -> Times]
  /\ fetched \in Nat /\ staged \in SUBSET Keyed
  /\ stopping \in BOOLEAN /\ faults \in Nat /\ crashes \in Nat

\* The target holds any of the keyed rows that earlier runs have written; the
\* source may have lost them since, and may hold rows never pulled.
Init ==
  /\ now = 1
  /\ born \in [Rows -> {0, 1}] /\ mod = born
  /\ tgt \in {t \in [Rows -> {0, 1}] : \A p \in Keyless : t[p] = 0}
  /\ synced = tgt
  /\ cp = NoCheckpoint
  /\ status = [r \in Runs |-> "none"]
  /\ kind = [r \in Runs |-> "full"]
  /\ parent = [r \in Runs |-> NoRun]
  /\ run = NoRun /\ pc = "idle"
  /\ since = 0 /\ from = 0 /\ low = 0 /\ asked = 0 /\ prev = 0
  /\ resumed = FALSE /\ collecting = FALSE
  /\ page = NoPage /\ fetched = 0 /\ staged = {}
  /\ stopping = FALSE /\ faults = 0 /\ crashes = 0

-----------------------------------------------------------------------------
\* Helpers.

MaxOf(S) == CHOOSE x \in S : \A y \in S : y <= x

Fault == faults < MaxFaults /\ faults' = faults + 1

\* A call under the run's context fails by itself or because a stop, which
\* cancels that context, came in.
CallFails == Fault \/ (stopping /\ UNCHANGED faults)

\* Rows that the continuation filter matches, and the first page of them.
Matching == {p \in Rows : p > prev /\ mod[p] > since}
FirstPage ==
  {p \in Matching : Cardinality({q \in Matching : q < p}) < PageSize}

\* The cursor after a page: its last row that has the key.
Keys(S) == S \cap Keyed
CursorAfter(S) == MaxOf(Keys(S))

\* What a write that fails half-way leaves: a MERGE is one transaction,
\* direct batches are committed one by one in the order of the rows.
Written(S) ==
  IF Staged THEN {{}} ELSE {{}} \cup {{q \in S : q < p} : p \in S}

Put(S) ==
  /\ tgt' = [p \in Rows |-> IF p \in S THEN page[p] ELSE tgt[p]]
  /\ synced' = [p \in Rows |-> IF p \in S THEN now ELSE synced[p]]

\* MAX(SYNC_TIME) over the rows of the target, none when it is empty.
LastSyncTime ==
  MaxOf({0} \cup {synced[p] : p \in {q \in Rows : tgt[q] # 0}})

IsRecovery == parent[run] # NoRun

\* Mutant: any checkpoint is resumed.
BelongsToAnyone == cp.owner # NoRun

\* checkpointBelongsToRun
Belongs == cp.owner = run \/ (IsRecovery /\ cp.owner = parent[run])

\* The run of the form ends; its locals are gone.
End(s) ==
  /\ status' = [status EXCEPT ![run] = s]
  /\ pc' = "idle" /\ run' = NoRun
  /\ since' = 0 /\ from' = 0 /\ low' = 0 /\ asked' = 0 /\ prev' = 0
  /\ resumed' = FALSE /\ collecting' = FALSE
  /\ page' = NoPage /\ fetched' = 0 /\ staged' = {}
  /\ stopping' = FALSE
  /\ UNCHANGED <<kind, parent>>

-----------------------------------------------------------------------------
\* The source.

SourceSaves(p) ==
  /\ now < MaxTime
  /\ now' = now + 1
  /\ mod' = [mod EXCEPT ![p] = now + 1]
  /\ born' = [born EXCEPT ![p] = IF @ = 0 THEN now + 1 ELSE @]
  /\ UNCHANGED <<tgt, synced, cp, runVars, run, pc, pullVars, page, envVars>>

SourceDeletes(p) ==
  /\ now < MaxTime /\ born[p] # 0
  /\ now' = now + 1
  /\ mod' = [mod EXCEPT ![p] = 0]
  /\ born' = [born EXCEPT ![p] = 0]
  /\ UNCHANGED <<tgt, synced, cp, runVars, run, pc, pullVars, page, envVars>>

-----------------------------------------------------------------------------
\* Runs. A recovery run continues an abnormal one that owns the checkpoint
\* and has no successful recovery yet; it takes over its sync type.

\* The incremental filter; when the lookup fails the run pulls everything.
LowerBound(m) ==
  \/ m = "incremental" /\ since' = LastSyncTime /\ UNCHANGED faults
  \/ m = "incremental" /\ since' = 0 /\ Fault
  \/ m = "full" /\ since' = 0 /\ UNCHANGED faults

Begin(r, m, q) ==
  /\ pc = "idle" /\ status[r] = "none" /\ \A s \in Runs : s < r => status[s] # "none"
  /\ status' = [status EXCEPT ![r] = "running"]
  /\ kind' = [kind EXCEPT ![r] = m]
  /\ parent' = [parent EXCEPT ![r] = q]
  /\ run' = r /\ pc' = "load"
  /\ LowerBound(m)
  /\ UNCHANGED <<sourceVars, tgt, synced, cp, from, low, asked, prev, resumed,
                 collecting, fetched, staged, page, stopping, crashes>>

BeginRun(r) == \E m \in Modes : Begin(r, m, NoRun)

BeginRecovery(r) ==
  \E q \in Runs :
    /\ status[q] = "abnormal" /\ cp.owner = q
    /\ \A s \in Runs : ~(parent[s] = q /\ status[s] = "success")
    /\ Begin(r, kind[q], q)

-----------------------------------------------------------------------------
\* The form.

\* Restore the cursor of this pull, or start from the beginning; a full pull
\* from the beginning collects the keys it sees, when that can be prepared.
\* A recovery run goes on with its own since, looked up after the pages of the
\* run it continues were written; low keeps the bound of that run.
LoadCheckpoint ==
  /\ pc = "load"
  /\ \/ Fault /\ End("failed")
     \/ /\ resumed' = Belongs
        /\ prev' = IF Belongs THEN cp.cursor ELSE 0
        /\ from' = IF Belongs /\ IsRecovery THEN cp.from ELSE now
        /\ low' = IF Belongs /\ IsRecovery THEN cp.low ELSE since
        /\ asked' = IF Belongs /\ IsRecovery /\ cp.asked > since
                      THEN cp.asked ELSE since
        /\ \/ collecting' = (kind[run] = "full" /\ ~Belongs) /\ UNCHANGED faults
           \/ collecting' = FALSE /\ Fault
        /\ pc' = "query"
        /\ UNCHANGED <<runVars, run, since, fetched, staged, page, stopping>>
  /\ UNCHANGED <<sourceVars, tgt, synced, cp, crashes>>

\* Mutant: a short page without keys does not end the loop.
QueryPageAgain ==
  /\ pc = "query"
  /\ \/ /\ FirstPage = {}
        /\ pc' = "finish"
        /\ UNCHANGED <<runVars, run, pullVars, page, stopping>>
     \/ /\ FirstPage # {} /\ Keys(FirstPage) = {}
        /\ pc' = "query"
        /\ UNCHANGED <<runVars, run, pullVars, page, stopping>>
     \/ /\ Keys(FirstPage) # {}
        /\ page' = [p \in FirstPage |-> mod[p]]
        /\ pc' = "write"
        /\ UNCHANGED <<runVars, run, pullVars, stopping>>
  /\ UNCHANGED <<sourceVars, tgt, synced, cp, faults, crashes>>

\* One page. A page without any cursor key ends the data when it is short
\* and fails the form when it is full.
QueryPage ==
  /\ pc = "query"
  /\ \/ /\ Keys(FirstPage) = {} /\ Cardinality(FirstPage) < PageSize
        /\ pc' = "finish"
        /\ UNCHANGED <<runVars, run, pullVars, page, stopping>>
     \/ /\ Keys(FirstPage) = {} /\ Cardinality(FirstPage) >= PageSize
        /\ End("failed")
     \/ /\ Keys(FirstPage) # {}
        /\ page' = [p \in FirstPage |-> mod[p]]
        /\ pc' = "write"
        /\ UNCHANGED <<runVars, run, pullVars, stopping>>
  /\ UNCHANGED <<sourceVars, tgt, synced, cp, faults, crashes>>

\* Every attempt fails, the rows are not in order, or a stop cancelled the fetch.
QueryFails ==
  /\ pc = "query" /\ CallFails /\ End("failed")
  /\ UNCHANGED <<sourceVars, tgt, synced, cp, crashes>>

\* Mutant: a failing batch is logged and the loop goes on.
WritePageLoosely ==
  /\ pc = "write"
  /\ \E S \in {DOMAIN page} \cup Written(DOMAIN page) : Put(S)
  /\ fetched' = fetched + Cardinality(DOMAIN page)
  /\ pc' = IF collecting THEN "stage" ELSE "save"
  /\ UNCHANGED <<sourceVars, cp, runVars, run, since, from, low, asked,
                 prev, resumed, collecting, staged, page, envVars>>

WritePage ==
  /\ pc = "write"
  /\ Put(DOMAIN page)
  /\ fetched' = fetched + Cardinality(DOMAIN page)
  /\ pc' = IF collecting THEN "stage" ELSE "save"
  /\ UNCHANGED <<sourceVars, cp, runVars, run, since, from, low, asked,
                 prev, resumed, collecting, staged, page, envVars>>

WriteFails ==
  /\ pc = "write" /\ CallFails
  /\ \E S \in Written(DOMAIN page) : Put(S)
  /\ End("failed")
  /\ UNCHANGED <<sourceVars, cp, crashes>>

\* Mutant: rows without a key are staged as well.
StageAll ==
  /\ pc = "stage"
  /\ staged' = staged \cup DOMAIN page
  /\ pc' = "save"
  /\ UNCHANGED <<sourceVars, tgt, synced, cp, runVars, run, since, from, low, asked,
                 prev, resumed, collecting, fetched, page, envVars>>

\* AddPage: rows without a key are skipped, a failing batch is only logged.
StageKeys ==
  /\ pc = "stage"
  /\ \/ staged' = staged \cup Keys(DOMAIN page) /\ UNCHANGED faults
     \/ /\ CallFails
        /\ \E p \in DOMAIN page :
             staged' = staged \cup {q \in Keys(DOMAIN page) : q < p}
  /\ pc' = "save"
  /\ UNCHANGED <<sourceVars, tgt, synced, cp, runVars, run, since, from, low, asked,
                 prev, resumed, collecting, fetched, page, stopping, crashes>>

\* SaveCursorCheckpoint, whose failure is only logged; a short page is the last.
SaveCursor ==
  /\ pc = "save"
  /\ prev' = CursorAfter(DOMAIN page)
  /\ \/ /\ cp' = [owner |-> run, cursor |-> prev', from |-> from, low |-> low,
                  asked |-> asked]
        /\ UNCHANGED faults
     \/ Fault /\ UNCHANGED cp
  /\ page' = NoPage
  /\ pc' = IF Cardinality(DOMAIN page) < PageSize THEN "finish" ELSE "query"
  /\ UNCHANGED <<sourceVars, tgt, synced, runVars, run, since, from, low, asked,
                 resumed, collecting, fetched, staged, stopping, crashes>>

\* The gates before the cleanup. A full pull that saw nothing is a failure; a
\* failed look-up of the run's identity only skips the cleanup (its "failed"
\* is overwritten by the final success).
Empty == fetched = 0 /\ kind[run] = "full"

Finish ==
  /\ pc = "finish"
  /\ \/ Empty /\ End("failed") /\ UNCHANGED faults
     \/ /\ ~Empty
        /\ \/ /\ pc' = IF collecting /\ ~IsRecovery /\ ~stopping
                      THEN "reconcile" ELSE "clear"
              /\ UNCHANGED faults
           \/ pc' = "clear" /\ collecting /\ Fault
        /\ UNCHANGED <<runVars, run, pullVars, page, stopping>>
  /\ UNCHANGED <<sourceVars, tgt, synced, cp, crashes>>

\* ReconcileAndDelete: the target's rows whose key was not staged, if every
\* row fetched was staged and they are few.
Orphans == {p \in Rows : tgt[p] # 0} \ staged

\* Mutant: staged keys are not compared with fetched rows.
MayDeleteUnchecked ==
  /\ fetched > 0
  /\ Cardinality(Orphans) * OrphanCap <= Cardinality({p \in Rows : tgt[p] # 0})

MayDelete ==
  /\ fetched > 0 /\ Cardinality(staged) = fetched
  /\ Cardinality(Orphans) * OrphanCap <= Cardinality({p \in Rows : tgt[p] # 0})

Reconcile ==
  /\ pc = "reconcile"
  /\ \/ /\ MayDelete
        /\ tgt' = [p \in Rows |-> IF p \in Orphans THEN 0 ELSE tgt[p]]
        /\ synced' = [p \in Rows |-> IF p \in Orphans THEN 0 ELSE synced[p]]
        /\ UNCHANGED faults
     \/ ~MayDelete /\ UNCHANGED <<tgt, synced, faults>>
     \/ CallFails /\ UNCHANGED <<tgt, synced>>
  /\ pc' = "clear"
  /\ UNCHANGED <<sourceVars, cp, runVars, run, pullVars, page, stopping, crashes>>

\* ClearCheckpoint, whose failure is only logged, and success.
Clear ==
  /\ pc = "clear"
  /\ \/ cp' = NoCheckpoint /\ UNCHANGED faults
     \/ Fault /\ UNCHANGED cp
  /\ End("success")
  /\ UNCHANGED <<sourceVars, tgt, synced, crashes>>

-----------------------------------------------------------------------------
\* The environment.

RequestStop ==
  /\ AllowStop /\ pc # "idle" /\ ~stopping
  /\ stopping' = TRUE
  /\ UNCHANGED <<sourceVars, tgt, synced, cp, runVars, run, pc, pullVars, page,
                 faults, crashes>>

\* The process dies; the next start marks the run abnormal.
Crash ==
  /\ crashes < MaxCrashes /\ pc # "idle"
  /\ crashes' = crashes + 1
  /\ \/ pc = "write" /\ \E S \in Written(DOMAIN page) : Put(S)
     \/ pc # "write" /\ UNCHANGED <<tgt, synced>>
  /\ End("abnormal")
  /\ UNCHANGED <<sourceVars, cp, faults>>

FormStep ==
  \/ LoadCheckpoint \/ QueryPage \/ QueryFails \/ WritePage \/ WriteFails
  \/ StageKeys \/ SaveCursor \/ Finish \/ Reconcile \/ Clear

Next ==
  \/ \E p \in Rows : SourceSaves(p) \/ SourceDeletes(p)
  \/ \E r \in Runs : BeginRun(r) \/ BeginRecovery(r)
  \/ FormStep
  \/ RequestStop \/ Crash

Spec == Init /\ [][Next]_vars

\* The goroutine runs on, and its calls return; a fault is never required.
FairSpec == Spec /\ WF_vars(FormStep)

-----------------------------------------------------------------------------
\* Properties.

\* Row p of the source has not changed since the pull began, and the pull's
\* filters let it through.
Due(p, start, bound) == mod[p] > bound /\ mod[p] <= start

\* A deletion of orphans never removes a row that has existed in the source
\* since before the pull began, whatever pages, stagings or checkpoints failed.
LiveRowsKept ==
  [][\A p \in Keyed : tgt[p] # 0 /\ tgt'[p] = 0 => born[p] = 0 \/ born[p] > from]_vars

\* What a pull has to bring: every row with a key that was due when it began
\* (its first run's filter, at its first run's start) is in the target as it
\* is in the source, and after a full pull no row that outlived it is missing.
NothingMissing == kind[run] = "full" =>
  \A p \in Keyed : born[p] # 0 /\ born[p] <= from => tgt[p] # 0
Complete ==
  /\ \A p \in Keyed : Due(p, from, low) => tgt[p] = mod[p]
  /\ NothingMissing

\* Row p is below the bound that the recovery of an incremental pull asks with.
Unasked(p) == IsRecovery /\ kind[run] = "incremental" /\ mod[p] <= asked

\* When a form succeeds, its pull is complete: a full pull also when crashes
\* split it over several runs, an incremental one when a single run made it.
\* What the recovery of an incremental pull may miss are the rows below the
\* bound it asked with, and no others.
SuccessIsComplete ==
  pc = "clear" =>
    /\ \A p \in Keyed : Due(p, from, low) => tgt[p] = mod[p] \/ Unasked(p)
    /\ NothingMissing

\* Promised by models.go and gormdb.go for the checkpoint: a recovery run that
\* resumes from the cursor stands for the whole pull of the run it continues.
RecoveryIsComplete == pc = "clear" => Complete

\* A checkpoint never runs ahead of the target: whatever its pull asked for up
\* to its cursor is there, so that the rows before the cursor need no second
\* pull. (For a full pull that is every row; see RecoveryIsComplete.)
CheckpointIsDurable ==
  cp.owner # NoRun =>
    \A p \in Keyed : p <= cp.cursor /\ Due(p, cp.from, cp.asked) => tgt[p] = mod[p]

\* A form's run ends, however the source changes and whatever fails.
FormEnds == pc # "idle" ~> pc = "idle"

\* Claimed by sqlserver_writer.go: SYNC_TIME serves as the lower bound of the
\* incremental window. After a successful incremental run every row changed
\* before the run began (and after the model's first instant) would then be
\* in the target.
IncrementalCatchesUp ==
  [][pc = "clear" /\ pc' = "idle" /\ status'[run] = "success" /\ kind[run] = "incremental" =>
       \A p \in Keyed : mod[p] > 1 /\ mod[p] <= from => tgt[p] = mod[p]]_vars

=============================================================================
