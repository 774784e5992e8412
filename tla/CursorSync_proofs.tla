------------------------- MODULE CursorSync_proofs -------------------------
(***************************************************************************)
(* Proofs about CursorSync, for any number of rows, with or without keys,  *)
(* any page size, any cap, any number of runs, changes of the source,      *)
(* failing calls and crashes.                                              *)
(***************************************************************************)
EXTENDS CursorSync, FiniteSetTheorems, WellFoundedInduction, TLAPS

-----------------------------------------------------------------------------
\* The inductive invariant.

\* Between the steps of a run.
Active  == pc # "idle"
Pulling == pc \notin {"idle", "load"}
HasPage == pc \in {"write", "stage", "save"}
Pulled  == pc \in {"finish", "reconcile", "clear"}

\* Row p was in the source before the pull began and is still there.
Live(p, start) == born[p] # 0 /\ born[p] <= start

SourceInv == \A p \in Rows : born[p] <= mod[p] /\ mod[p] <= now /\ (mod[p] # 0 => born[p] # 0)

\* Who runs, whose child, and what a pull inherits from its parent.
RunInv ==
  /\ Active => run \in Runs /\ status[run] # "none"
  /\ pc = "load" => cp.owner # run
  /\ cp.owner # NoRun => status[cp.owner] # "none"
  /\ \A r \in Runs : parent[r] # NoRun =>
       /\ status[r] # "none" /\ status[parent[r]] # "none"
       /\ kind[r] = kind[parent[r]]

\* Bounds and locals.
LocalInv ==
  /\ pc \in {"idle", "load"} => staged = {} /\ fetched = 0 /\ ~collecting
  /\ Active /\ kind[run] = "full" => since = 0
  /\ Pulling => from <= now /\ since <= asked /\ (kind[run] = "full" => asked = 0)
  /\ Pulling /\ parent[run] = NoRun => asked = low
  /\ collecting => kind[run] = "full"
  /\ pc \in {"stage", "reconcile"} => collecting
  /\ cp.owner # NoRun =>
       /\ cp.from <= now
       /\ kind[cp.owner] = "full" => cp.asked = 0
       /\ Pulling => cp.from <= from

\* What a pull owes for row p, and that the target has it.
Relevant(p, start, bound, full) == Due(p, start, bound) \/ (full /\ Live(p, start))
Covered(p, start, bound, full) ==
  /\ Due(p, start, bound) => tgt[p] = mod[p]
  /\ full /\ Live(p, start) => tgt[p] # 0

\* The checkpoint and the cursor in memory lag behind the target.
CheckpointInv ==
  cp.owner # NoRun =>
    \A p \in Keyed : p <= cp.cursor => Covered(p, cp.from, cp.asked, kind[cp.owner] = "full")

Seen(p) == p <= prev \/ Pulled \/ (pc \in {"stage", "save"} /\ p \in DOMAIN page)
PullInv ==
  Pulling => \A p \in Keyed : Seen(p) => Covered(p, from, asked, kind[run] = "full")

\* The page in memory: as old as the pull at most, and without gaps.
PageInv ==
  HasPage =>
    /\ Keys(DOMAIN page) # {}
    /\ \A p \in DOMAIN page :
         p > prev /\ page[p] # 0 /\ (mod[p] # 0 /\ mod[p] <= from => page[p] = mod[p])
    /\ \A p \in Keyed \ DOMAIN page :
         p > prev /\ Relevant(p, from, asked, kind[run] = "full") =>
           /\ Cardinality(DOMAIN page) >= PageSize
           /\ \A q \in DOMAIN page : q < p

\* Every live row passed so far and every staged key was fetched: there are no
\* more of them than rows fetched.
Counted ==
  {p \in Keyed : Live(p, from) /\ (p <= prev \/ Pulled)} \cup staged \cup
  (IF pc \in {"stage", "save"} THEN Keys(DOMAIN page) ELSE {})
CountInv == collecting => Cardinality(Counted) <= fetched

IInv ==
  /\ TypeOK /\ SourceInv /\ RunInv /\ LocalInv
  /\ CheckpointInv /\ PullInv /\ PageInv /\ CountInv

-----------------------------------------------------------------------------
\* Finite sets of rows.

LEMMA MinExists ==
  ASSUME NEW S \in SUBSET Nat, S # {}
  PROVE  \E x \in S : \A y \in S : x <= y
<1>1. \E x \in S : \A y \in S : ~(<<y, x>> \in OpToRel(<, Nat))
  BY NatLessThanWellFounded, WFMin, Zenon
<1>2. \A x \in S, y \in S : ~(<<y, x>> \in OpToRel(<, Nat)) => x <= y
  BY DEF OpToRel
<1> QED
  BY <1>1, <1>2

LEMMA MaxIsLargest ==
  ASSUME NEW S \in SUBSET Rows, S # {}
  PROVE  MaxOf(S) \in S /\ \A y \in S : y <= MaxOf(S)
<1> DEFINE T == {N - x : x \in S}
<1>1. \A x \in S : N - x \in Nat
  BY CursorAssumption DEF Rows
<1>2. T \subseteq Nat /\ T # {}
  BY <1>1, Zenon
<1>3. PICK t \in T : \A y \in T : t <= y
  BY <1>2, MinExists
<1>4. PICK x \in S : t = N - x
  BY <1>3
<1>5. ASSUME NEW y \in S PROVE y <= x
  <2>1. N - y \in T
    OBVIOUS
  <2>2. N - x <= N - y
    BY <2>1, <1>3, <1>4
  <2> HIDE DEF T
  <2> QED
    BY <2>2, CursorAssumption DEF Rows
<1>6. \E z \in S : \A y \in S : y <= z
  BY <1>5
<1> HIDE DEF T
<1> QED
  BY <1>6, Zenon DEF MaxOf

LEMMA RowsFinite ==
  ASSUME NEW S \in SUBSET Rows
  PROVE  IsFiniteSet(S) /\ Cardinality(S) \in Nat
<1>1. IsFiniteSet(Rows)
  BY FS_Interval, CursorAssumption DEF Rows
<1> QED
  BY <1>1, FS_Subset, FS_CardinalityType

LEMMA SmallerSet ==
  ASSUME NEW S \in SUBSET Rows, NEW T \in SUBSET S
  PROVE  Cardinality(T) <= Cardinality(S) /\ (Cardinality(S) = Cardinality(T) => S = T)
BY RowsFinite, FS_Subset

\* The first page has no gaps, and all there is when it is short.
LEMMA PageWithoutGaps ==
  ASSUME NEW p \in Matching, p \notin FirstPage
  PROVE  /\ Cardinality(FirstPage) >= PageSize
         /\ \A q \in FirstPage : q < p
<1> DEFINE Below(q) == {r \in Matching : r < q}
<1>0. Matching \subseteq Rows /\ FirstPage \subseteq Rows
  BY DEF Matching, FirstPage
<1>a. FirstPage \subseteq Matching /\ \A r \in Matching : r \in Int
  BY <1>0 DEF Rows, FirstPage
<1>1. \A q \in Matching : Below(q) \in SUBSET Rows /\ Cardinality(Below(q)) \in Nat
  BY <1>0, RowsFinite
<1>2. ASSUME NEW q \in FirstPage, p <= q PROVE FALSE
  <2>1. Below(p) \subseteq Below(q)
    BY <1>2, <1>a
  <2>2. Cardinality(Below(p)) <= Cardinality(Below(q))
    BY <2>1, <1>1, SmallerSet DEF FirstPage
  <2>3. Cardinality(Below(q)) < PageSize /\ q \in Matching
    BY DEF FirstPage
  <2>4. p \in FirstPage
    BY <2>2, <2>3, <1>1, CursorAssumption DEF FirstPage
  <2> QED
    BY <2>4
<1>3. \A q \in FirstPage : q < p
  BY <1>0, <1>2 DEF Rows
<1> DEFINE Rest == Matching \ FirstPage
<1>4. PICK m \in Rest : \A q \in Rest : m <= q
  <2>1. Rest \subseteq Nat /\ Rest # {}
    BY <1>0 DEF Rows
  <2> QED
    BY <2>1, MinExists
<1>5. ASSUME NEW r \in Below(m) PROVE r \in FirstPage
  <2>1. r \in Matching /\ m \in Matching /\ r < m
    BY <1>4
  <2> QED
    BY <2>1, <1>4, <1>a
<1>6. Cardinality(Below(m)) <= Cardinality(FirstPage)
  BY <1>5, <1>0, SmallerSet
<1>7. ~(Cardinality(Below(m)) < PageSize)
  BY <1>4 DEF FirstPage
<1>8. Cardinality(FirstPage) >= PageSize
  BY <1>6, <1>7, <1>0, <1>1, <1>4, RowsFinite, CursorAssumption
<1> QED
  BY <1>3, <1>8

-----------------------------------------------------------------------------
\* Type correctness.

LEMMA EndType ==
  ASSUME TypeOK, NEW s \in Statuses, End(s)
  PROVE  /\ status' \in [Runs -> Statuses] /\ kind' \in [Runs -> SyncTypes]
         /\ parent' \in [Runs -> Runs \cup {NoRun}]
         /\ run' \in Runs \cup {NoRun} /\ pc' \in Pcs
         /\ since' \in Times /\ from' \in Times /\ low' \in Times /\ asked' \in Times
         /\ prev' \in Rows \cup {0}
         /\ resumed' \in BOOLEAN /\ collecting' \in BOOLEAN
         /\ DOMAIN page' \subseteq Rows /\ page' \in [DOMAIN page' -> Times]
         /\ fetched' \in Nat /\ staged' \in SUBSET Keyed /\ stopping' \in BOOLEAN
<1>1. page' = NoPage /\ DOMAIN NoPage = {} /\ NoPage \in [{} -> Times]
  BY DEF End, NoPage
<1>2. 0 \in Times
  BY CursorAssumption DEF Times
<1>3. DOMAIN page' \subseteq Rows /\ page' \in [DOMAIN page' -> Times]
  BY <1>1
<1> QED
  BY <1>2, <1>3 DEF End, TypeOK, Pcs, Keyed, NoRun

LEMMA FaultType ==
  ASSUME TypeOK, Fault \/ CallFails
  PROVE  faults' \in Nat
BY DEF TypeOK, Fault, CallFails

LEMMA PutType ==
  ASSUME TypeOK, NEW S \in SUBSET DOMAIN page, Put(S)
  PROVE  tgt' \in [Rows -> Times] /\ synced' \in [Rows -> Times]
<1>1. \A p \in S : page[p] \in Times
  BY DEF TypeOK
<1>2. now \in Times
  BY CursorAssumption DEF TypeOK, Times
<1> QED
  BY <1>1, <1>2 DEF Put, TypeOK

LEMMA WrittenSubset ==
  ASSUME NEW S, NEW W \in Written(S)
  PROVE  W \subseteq S
BY DEF Written

LEMMA CursorAfterType ==
  ASSUME TypeOK, PageInv, HasPage
  PROVE  /\ CursorAfter(DOMAIN page) \in Keys(DOMAIN page)
         /\ \A q \in Keys(DOMAIN page) : q <= CursorAfter(DOMAIN page)
BY MaxIsLargest DEF TypeOK, PageInv, CursorAfter, Keys, Keyed

LEMMA LastSyncTimeType ==
  ASSUME TypeOK
  PROVE  LastSyncTime \in Times
<1> DEFINE S == {0} \cup {synced[p] : p \in {q \in Rows : tgt[q] # 0}}
<1>1. S \subseteq Times /\ S # {}
  BY CursorAssumption DEF TypeOK, Times
<1> DEFINE T == {MaxTime - x : x \in S}
<1>2. \A x \in S : MaxTime - x \in Nat
  BY <1>1, CursorAssumption DEF Times
<1>3. T \subseteq Nat /\ T # {}
  BY <1>2, <1>1, Zenon
<1>4. PICK t \in T : \A y \in T : t <= y
  BY <1>3, MinExists
<1>5. PICK x \in S : t = MaxTime - x
  BY <1>4
<1>6. ASSUME NEW y \in S PROVE y <= x
  <2>1. MaxTime - y \in T
    OBVIOUS
  <2>2. MaxTime - x <= MaxTime - y
    BY <2>1, <1>4, <1>5
  <2> HIDE DEF S, T
  <2> QED
    BY <2>2, <1>1, CursorAssumption DEF Times
<1>7. \E z \in S : \A y \in S : y <= z
  BY <1>6
<1>8. LastSyncTime = MaxOf(S)
  BY DEF LastSyncTime
<1> HIDE DEF S
<1>9. MaxOf(S) \in S
  BY <1>7, Zenon DEF MaxOf
<1> QED
  BY <1>1, <1>8, <1>9

LEMMA InitType == Init => TypeOK
<1> SUFFICES ASSUME Init PROVE TypeOK
  OBVIOUS
<1>1. {0, 1} \subseteq Times /\ 1 \in 1..MaxTime
  BY CursorAssumption DEF Times
<1>2. born \in [Rows -> Times] /\ mod \in [Rows -> Times] /\ tgt \in [Rows -> Times]
  BY <1>1 DEF Init
<1>3. DOMAIN page \subseteq Rows /\ page \in [DOMAIN page -> Times]
  BY DEF Init, NoPage
<1>4. cp \in [owner : Runs \cup {NoRun}, cursor : Rows \cup {0}, from : Times,
               low : Times, asked : Times]
  BY <1>1 DEF Init, NoCheckpoint
<1>5. status \in [Runs -> Statuses] /\ kind \in [Runs -> SyncTypes]
      /\ parent \in [Runs -> Runs \cup {NoRun}]
  BY DEF Init, Statuses, SyncTypes
<1>6. pc \in Pcs /\ run \in Runs \cup {NoRun}
  BY DEF Init, Pcs
<1> QED
  BY <1>1, <1>2, <1>3, <1>4, <1>5, <1>6 DEF Init, TypeOK

LEMMA SourceType ==
  ASSUME TypeOK, NEW p \in Rows, SourceSaves(p) \/ SourceDeletes(p)
  PROVE  TypeOK'
<1>1. now' \in 1..MaxTime /\ now + 1 \in Times /\ 0 \in Times
  BY CursorAssumption DEF SourceSaves, SourceDeletes, TypeOK, Times
<1>2. mod' \in [Rows -> Times] /\ born' \in [Rows -> Times]
  <2>1. CASE SourceSaves(p)
    BY <2>1, <1>1 DEF SourceSaves, TypeOK
  <2>2. CASE SourceDeletes(p)
    BY <2>2, <1>1 DEF SourceDeletes, TypeOK
  <2> QED
    BY <2>1, <2>2
<1>3. UNCHANGED <<tgt, synced, cp, runVars, run, pc, pullVars, page, envVars>>
  BY DEF SourceSaves, SourceDeletes
<1> QED
  BY <1>1, <1>2, <1>3 DEF TypeOK, runVars, pullVars, envVars

LEMMA BeginType ==
  ASSUME TypeOK, NEW r \in Runs, NEW m \in SyncTypes, NEW q \in Runs \cup {NoRun}, Begin(r, m, q)
  PROVE  TypeOK'
<1>1. since' \in Times /\ faults' \in Nat
  BY LastSyncTimeType, FaultType, CursorAssumption DEF Begin, LowerBound, TypeOK, Times
<1>2. "running" \in Statuses /\ "load" \in Pcs
  BY DEF Statuses, Pcs
<1> QED
  BY <1>1, <1>2 DEF Begin, TypeOK, sourceVars

LEMMA LoadType ==
  ASSUME TypeOK, LoadCheckpoint
  PROVE  TypeOK'
<1>1. CASE End("failed")
  <2>1. "failed" \in Statuses
    BY DEF Statuses
  <2>2. faults' \in Nat
    BY <1>1, FaultType DEF LoadCheckpoint, End, TypeOK
  <2> QED
    BY <1>1, <2>1, <2>2, EndType DEF LoadCheckpoint, TypeOK, sourceVars
<1>2. CASE ~End("failed")
  <2>1. now \in Times
    BY CursorAssumption DEF TypeOK, Times
  <2>2. faults' \in Nat
    BY <1>2, FaultType DEF LoadCheckpoint, TypeOK
  <2>3. "query" \in Pcs
    BY DEF Pcs
  <2>4. prev' \in Rows \cup {0} /\ from' \in Times /\ low' \in Times /\ asked' \in Times
    BY <1>2, <2>1 DEF LoadCheckpoint, TypeOK
  <2>5. resumed' \in BOOLEAN /\ collecting' \in BOOLEAN
    BY <1>2 DEF LoadCheckpoint, Belongs
  <2> QED
    BY <1>2, <2>2, <2>3, <2>4, <2>5 DEF LoadCheckpoint, TypeOK, sourceVars, runVars
<1> QED
  BY <1>1, <1>2

LEMMA QueryType ==
  ASSUME TypeOK, QueryPage \/ QueryFails
  PROVE  TypeOK'
<1>0. "failed" \in Statuses /\ "finish" \in Pcs /\ "write" \in Pcs
  BY DEF Statuses, Pcs
<1>1. CASE End("failed")
  <2>1. faults' \in Nat
    BY FaultType DEF QueryPage, QueryFails, TypeOK
  <2> QED
    BY <1>0, <1>1, <2>1, EndType DEF QueryPage, QueryFails, TypeOK, sourceVars
<1>2. CASE ~End("failed")
  <2>1. QueryPage /\ pc' \in Pcs /\ UNCHANGED <<run, runVars, pullVars, stopping>>
    BY <1>0, <1>2 DEF QueryPage, QueryFails
  <2>2. DOMAIN page' \subseteq Rows /\ page' \in [DOMAIN page' -> Times]
    <3>1. CASE page' = [p \in FirstPage |-> mod[p]]
      BY <3>1 DEF TypeOK, FirstPage, Matching
    <3>2. CASE page' = page
      BY <3>2 DEF TypeOK
    <3> QED
      BY <1>2, <2>1, <3>1, <3>2 DEF QueryPage
  <2> QED
    BY <2>1, <2>2 DEF QueryPage, TypeOK, sourceVars, runVars, pullVars
<1> QED
  BY <1>1, <1>2

LEMMA WriteType ==
  ASSUME TypeOK, WritePage \/ WriteFails
  PROVE  TypeOK'
<1>1. CASE WritePage
  <2>1. tgt' \in [Rows -> Times] /\ synced' \in [Rows -> Times]
    BY <1>1, PutType DEF WritePage
  <2>2. fetched' \in Nat
    BY <1>1, RowsFinite DEF WritePage, TypeOK
  <2>3. pc' \in Pcs
    BY <1>1 DEF WritePage, Pcs
  <2> QED
    BY <1>1, <2>1, <2>2, <2>3 DEF WritePage, TypeOK, sourceVars, runVars, envVars
<1>2. CASE WriteFails
  <2>1. tgt' \in [Rows -> Times] /\ synced' \in [Rows -> Times]
    BY <1>2, PutType, WrittenSubset DEF WriteFails
  <2>2. faults' \in Nat /\ "failed" \in Statuses
    BY <1>2, FaultType DEF WriteFails, Statuses
  <2> QED
    BY <1>2, <2>1, <2>2, EndType DEF WriteFails, TypeOK, sourceVars
<1> QED
  BY <1>1, <1>2

LEMMA StageType ==
  ASSUME TypeOK, StageKeys
  PROVE  TypeOK'
<1>1. Keys(DOMAIN page) \subseteq Keyed /\ staged \subseteq Keyed
  BY DEF Keys, TypeOK
<1>2. staged' \in SUBSET Keyed
  BY <1>1 DEF StageKeys
<1>3. faults' \in Nat /\ "save" \in Pcs
  BY FaultType DEF StageKeys, TypeOK, Pcs
<1> QED
  BY <1>2, <1>3 DEF StageKeys, TypeOK, sourceVars, runVars

LEMMA SaveType ==
  ASSUME TypeOK, RunInv, PageInv, SaveCursor
  PROVE  TypeOK'
<1>1. prev' \in Rows
  BY CursorAfterType DEF SaveCursor, Keys, Keyed, HasPage
<1>2. run \in Runs
  BY DEF RunInv, SaveCursor, Active
<1>3. cp' \in [owner : Runs \cup {NoRun}, cursor : Rows \cup {0}, from : Times,
               low : Times, asked : Times]
  BY <1>1, <1>2 DEF SaveCursor, TypeOK
<1>4. faults' \in Nat /\ pc' \in Pcs
  BY FaultType DEF SaveCursor, TypeOK, Pcs
<1>5. DOMAIN page' \subseteq Rows /\ page' \in [DOMAIN page' -> Times]
  BY DEF SaveCursor, NoPage
<1> QED
  BY <1>1, <1>3, <1>4, <1>5 DEF SaveCursor, TypeOK, sourceVars, runVars

LEMMA FinishType ==
  ASSUME TypeOK, Finish
  PROVE  TypeOK'
<1>0. "failed" \in Statuses /\ "reconcile" \in Pcs /\ "clear" \in Pcs
  BY DEF Statuses, Pcs
<1>1. faults' \in Nat
  BY FaultType DEF Finish, TypeOK
<1>2. CASE Empty
  BY <1>0, <1>1, <1>2, EndType DEF Finish, TypeOK, sourceVars
<1>3. CASE ~Empty
  BY <1>0, <1>1, <1>3 DEF Finish, TypeOK, sourceVars, runVars, pullVars
<1> QED
  BY <1>2, <1>3

LEMMA ReconcileType ==
  ASSUME TypeOK, Reconcile
  PROVE  TypeOK'
<1>1. tgt' \in [Rows -> Times] /\ synced' \in [Rows -> Times]
  <2>1. 0 \in Times
    BY CursorAssumption DEF Times
  <2> QED
    BY <2>1 DEF Reconcile, TypeOK
<1>2. faults' \in Nat /\ "clear" \in Pcs
  BY FaultType DEF Reconcile, TypeOK, Pcs
<1> QED
  BY <1>1, <1>2 DEF Reconcile, TypeOK, sourceVars, runVars, pullVars

LEMMA ClearType ==
  ASSUME TypeOK, Clear
  PROVE  TypeOK'
<1>1. 0 \in Times
  BY CursorAssumption DEF Times
<1>2. cp' \in [owner : Runs \cup {NoRun}, cursor : Rows \cup {0}, from : Times,
               low : Times, asked : Times]
  BY <1>1 DEF Clear, NoCheckpoint, TypeOK
<1>3. faults' \in Nat /\ "success" \in Statuses
  BY FaultType DEF Clear, TypeOK, Statuses
<1> QED
  BY <1>2, <1>3, EndType DEF Clear, TypeOK, sourceVars

LEMMA EnvironmentType ==
  ASSUME TypeOK, RequestStop \/ Crash
  PROVE  TypeOK'
<1>1. CASE RequestStop
  BY <1>1 DEF RequestStop, TypeOK, sourceVars, runVars, pullVars
<1>2. CASE Crash
  <2>1. tgt' \in [Rows -> Times] /\ synced' \in [Rows -> Times]
    BY <1>2, PutType, WrittenSubset DEF Crash, TypeOK
  <2>2. crashes' \in Nat /\ "abnormal" \in Statuses
    BY <1>2 DEF Crash, Statuses, TypeOK
  <2> QED
    BY <1>2, <2>1, <2>2, EndType DEF Crash, TypeOK, sourceVars
<1> QED
  BY <1>1, <1>2

LEMMA TypeStep ==
  ASSUME TypeOK, RunInv, PageInv, [Next]_vars
  PROVE  TypeOK'
<1>1. CASE \E p \in Rows : SourceSaves(p) \/ SourceDeletes(p)
  BY <1>1, SourceType
<1>2. ASSUME NEW r \in Runs, BeginRun(r) \/ BeginRecovery(r) PROVE TypeOK'
  <2>1. NoRun \in Runs \cup {NoRun} /\ Modes \subseteq SyncTypes
    BY CursorAssumption
  <2>2. \A q \in Runs : kind[q] \in SyncTypes
    BY DEF TypeOK
  <2> QED
    BY <1>2, <2>1, <2>2, BeginType DEF BeginRun, BeginRecovery
<1>3. CASE FormStep
  BY <1>3, LoadType, QueryType, WriteType, StageType, SaveType, FinishType,
     ReconcileType, ClearType DEF FormStep
<1>4. CASE RequestStop \/ Crash
  BY <1>4, EnvironmentType
<1>5. CASE UNCHANGED vars
  BY <1>5 DEF TypeOK, vars, sourceVars, runVars, pullVars, envVars
<1> QED
  BY <1>1, <1>2, <1>3, <1>4, <1>5 DEF Next

-----------------------------------------------------------------------------
\* The invariant, action by action. Rest is what it adds to the types.

Rest == SourceInv /\ RunInv /\ LocalInv /\ CheckpointInv /\ PullInv /\ PageInv /\ CountInv

LEMMA CountedRows ==
  ASSUME TypeOK
  PROVE  Counted \in SUBSET Rows
BY DEF Counted, TypeOK, Keyed, Keys

LEMMA CountShrinks ==
  ASSUME TypeOK, TypeOK', CountInv, Counted' \subseteq Counted,
         collecting' => collecting, fetched' >= fetched
  PROVE  CountInv'
<1>1. Cardinality(Counted') <= Cardinality(Counted)
  BY CountedRows, SmallerSet
<1>2. Cardinality(Counted') \in Nat /\ Cardinality(Counted) \in Nat
  <2>1. Counted \in SUBSET Rows /\ Counted' \in SUBSET Rows
    BY CountedRows
  <2> QED
    BY <2>1, RowsFinite
<1>3. fetched \in Nat /\ fetched' \in Nat
  BY DEF TypeOK
<1> QED
  BY <1>1, <1>2, <1>3 DEF CountInv

LEMMA InitRest == Init => Rest
<1> SUFFICES ASSUME Init PROVE Rest
  OBVIOUS
<1>1. SourceInv
  BY DEF Init, SourceInv
<1>2. RunInv /\ CheckpointInv /\ PullInv /\ PageInv
  BY DEF Init, RunInv, CheckpointInv, PullInv, PageInv, NoCheckpoint, Active, Pulling, HasPage
<1>3. LocalInv /\ CountInv
  BY DEF Init, LocalInv, CountInv, NoCheckpoint, Active, Pulling
<1> QED
  BY <1>1, <1>2, <1>3 DEF Rest

\* What a change of the source does to what is owed.
LEMMA SourceChange ==
  ASSUME IInv, NEW q \in Rows, SourceSaves(q) \/ SourceDeletes(q),
         NEW p \in Rows, NEW start, start \in Int, start <= now
  PROVE  /\ mod'[p] # 0 /\ mod'[p] <= start => mod'[p] = mod[p]
         /\ born'[p] # 0 /\ born'[p] <= start => born'[p] = born[p]
         /\ now' = now + 1
<1>1. now \in Int /\ mod \in [Rows -> Int] /\ born \in [Rows -> Int]
  BY DEF IInv, TypeOK, Times
<1>2. CASE SourceSaves(q)
  BY <1>1, <1>2 DEF SourceSaves
<1>3. CASE SourceDeletes(q)
  BY <1>1, <1>3 DEF SourceDeletes
<1> QED
  BY <1>2, <1>3

LEMMA SourceRest ==
  ASSUME IInv, TypeOK', NEW q \in Rows, SourceSaves(q) \/ SourceDeletes(q)
  PROVE  Rest'
<1>0. UNCHANGED <<tgt, synced, cp, runVars, run, pc, pullVars, page, envVars>>
  BY DEF SourceSaves, SourceDeletes
<1>a. now \in Int /\ mod \in [Rows -> Int] /\ born \in [Rows -> Int]
      /\ from \in Int /\ cp.from \in Int /\ asked \in Nat /\ cp.asked \in Nat /\ now' = now + 1
  <2>1. now' = now + 1
    BY DEF SourceSaves, SourceDeletes
  <2> QED
    BY <2>1 DEF IInv, TypeOK, Times
<1>1. SourceInv'
  <2>1. \A p \in Rows : born[p] <= mod[p] /\ mod[p] <= now /\ (mod[p] # 0 => born[p] # 0)
    BY DEF IInv, SourceInv
  <2>2. \A p \in Rows : p # q => mod'[p] = mod[p] /\ born'[p] = born[p]
    BY <1>a DEF SourceSaves, SourceDeletes
  <2>3. now \in Nat \ {0}
    BY DEF IInv, TypeOK
  <2>4. \/ mod'[q] = now + 1 /\ born'[q] \in {born[q], now + 1} /\ born'[q] # 0
        \/ mod'[q] = 0 /\ born'[q] = 0
    BY <1>a, <2>3 DEF SourceSaves, SourceDeletes
  <2>5. born'[q] <= mod'[q] /\ mod'[q] <= now + 1 /\ (mod'[q] # 0 => born'[q] # 0)
    BY <1>a, <2>1, <2>3, <2>4
  <2>6. \A p \in Rows : born'[p] <= mod'[p] /\ mod'[p] <= now + 1 /\ (mod'[p] # 0 => born'[p] # 0)
    <3> SUFFICES ASSUME NEW p \in Rows, p # q
                 PROVE  born'[p] <= mod'[p] /\ mod'[p] <= now + 1 /\ (mod'[p] # 0 => born'[p] # 0)
      BY <2>5
    <3> QED
      BY <1>a, <2>1, <2>2
  <2> QED
    BY <1>a, <2>6 DEF SourceInv
<1>2. RunInv' /\ LocalInv'
  BY <1>0, <1>a DEF IInv, RunInv, LocalInv, Active, Pulling, runVars, pullVars
<1>b. cp.owner # NoRun => cp.from <= now
  BY DEF IInv, LocalInv
<1>c. Pulling => from <= now
  BY DEF IInv, LocalInv
<1>d. Keyed \subseteq Rows
  BY DEF Keyed
<1>3. CheckpointInv'
  BY <1>0, <1>a, <1>b, <1>d, SourceChange
  DEF IInv, CheckpointInv, Covered, Due, Live, runVars
<1>4. PullInv'
  BY <1>0, <1>a, <1>c, <1>d, SourceChange
  DEF IInv, PullInv, Covered, Due, Live, Seen, Pulling, Pulled, runVars, pullVars
<1>5. PageInv'
  <2>1. HasPage => Pulling
    BY DEF HasPage, Pulling
  <2>2. DOMAIN page \subseteq Rows
    BY DEF IInv, TypeOK
  <2>3. HasPage => \A p \in Rows :
           /\ mod'[p] # 0 /\ mod'[p] <= from => mod[p] # 0 /\ mod[p] <= from /\ mod'[p] = mod[p]
           /\ Relevant(p, from, asked, kind[run] = "full")' => Relevant(p, from, asked, kind[run] = "full")
    BY <1>0, <1>a, <1>c, <2>1, SourceChange DEF Relevant, Due, Live, runVars, pullVars
  <2> QED
    BY <1>0, <1>d, <2>2, <2>3 DEF IInv, PageInv, HasPage, runVars, pullVars
<1>6. CountInv'
  <2>1. CASE collecting
    <3>1. Pulling
      BY <2>1 DEF IInv, LocalInv, Pulling
    <3>2. Counted' \subseteq Counted
      BY <1>0, <1>a, <1>c, <1>d, <3>1, SourceChange DEF Counted, Live, Pulled, pullVars
    <3>3. fetched' >= fetched /\ collecting' = collecting
      BY <1>0 DEF pullVars, IInv, TypeOK
    <3> QED
      BY <3>2, <3>3, CountShrinks DEF IInv
  <2>2. CASE ~collecting
    BY <1>0, <2>2 DEF CountInv, pullVars
  <2> QED
    BY <2>1, <2>2
<1> QED
  BY <1>1, <1>2, <1>3, <1>4, <1>5, <1>6 DEF Rest

LEMMA BeginRest ==
  ASSUME IInv, NEW r \in Runs, BeginRun(r) \/ BeginRecovery(r)
  PROVE  Rest'
<1>1. PICK m \in SyncTypes, q \in Runs \cup {NoRun} :
        Begin(r, m, q) /\ (q # NoRun => status[q] = "abnormal" /\ kind[q] = m)
  BY CursorAssumption DEF BeginRun, BeginRecovery, IInv, TypeOK
<1>2. status[r] = "none" /\ pc = "idle" /\ pc' = "load" /\ run' = r
      /\ UNCHANGED <<sourceVars, tgt, synced, cp, from, low, asked, prev, resumed,
                     collecting, fetched, staged, page>>
  BY <1>1 DEF Begin
<1>3. status' = [status EXCEPT ![r] = "running"] /\ kind' = [kind EXCEPT ![r] = m]
      /\ parent' = [parent EXCEPT ![r] = q]
  BY <1>1 DEF Begin
<1>4. status \in [Runs -> Statuses] /\ kind \in [Runs -> SyncTypes]
      /\ parent \in [Runs -> Runs \cup {NoRun}] /\ cp.owner \in Runs \cup {NoRun}
  BY DEF IInv, TypeOK
<1>5. SourceInv'
  BY <1>2 DEF IInv, SourceInv, sourceVars
<1>6. cp.owner # NoRun => cp.owner # r /\ kind'[cp.owner] = kind[cp.owner]
  BY <1>2, <1>3, <1>4 DEF IInv, RunInv
<1>7. RunInv'
  <2>1. \A s \in Runs : s # r => status'[s] = status[s] /\ kind'[s] = kind[s] /\ parent'[s] = parent[s]
    BY <1>3, <1>4
  <2>2. status'[r] = "running" /\ kind'[r] = m /\ parent'[r] = q
    BY <1>3, <1>4
  <2>3. \A s \in Runs : parent'[s] # NoRun =>
          status'[s] # "none" /\ status'[parent'[s]] # "none" /\ kind'[s] = kind'[parent'[s]]
    <3> SUFFICES ASSUME NEW s \in Runs, parent'[s] # NoRun
                 PROVE  status'[s] # "none" /\ status'[parent'[s]] # "none" /\ kind'[s] = kind'[parent'[s]]
      OBVIOUS
    <3>1. CASE s = r
      BY <1>1, <1>2, <2>1, <2>2, <3>1
    <3>2. CASE s # r
      <4>1. parent[s] \in Runs /\ parent[s] # r
        BY <1>2, <1>4, <2>1, <3>2 DEF IInv, RunInv
      <4> QED
        BY <2>1, <3>2, <4>1 DEF IInv, RunInv
    <3> QED
      BY <3>1, <3>2
  <2>4. cp.owner # NoRun => status'[cp.owner] # "none"
    BY <1>4, <1>6, <2>1 DEF IInv, RunInv
  <2>5. NoRun \notin Runs
    BY DEF NoRun, Runs
  <2> QED
    BY <1>2, <1>6, <2>2, <2>3, <2>4, <2>5 DEF RunInv, Active
<1>8. LocalInv'
  <2>1. m = "full" => since' = 0
    BY <1>1 DEF Begin, LowerBound
  <2>2. kind'[r] = m
    BY <1>3, <1>4
  <2> QED
    BY <1>2, <1>6, <2>1, <2>2 DEF IInv, LocalInv, Active, Pulling, sourceVars
<1>9. CheckpointInv'
  BY <1>2, <1>6 DEF IInv, CheckpointInv, Covered, Due, Live, sourceVars
<1>10. PullInv' /\ PageInv' /\ CountInv'
  BY <1>2 DEF IInv, LocalInv, PullInv, PageInv, CountInv, Pulling, HasPage
<1> QED
  BY <1>5, <1>7, <1>8, <1>9, <1>10 DEF Rest

\* A run that ends leaves nothing behind but its row and the checkpoint.
LEMMA EndRest ==
  ASSUME IInv, pc # "idle", NEW s, s # "none", End(s), UNCHANGED sourceVars,
         cp' = cp \/ cp' = NoCheckpoint, CheckpointInv'
  PROVE  Rest'
<1>1. pc' = "idle" /\ collecting' = FALSE /\ fetched' = 0 /\ staged' = {}
      /\ UNCHANGED <<kind, parent>> /\ status' = [status EXCEPT ![run] = s]
  BY DEF End
<1>2. SourceInv'
  BY DEF IInv, SourceInv, sourceVars
<1>3. \A r \in Runs : status[r] # "none" => status'[r] # "none"
  BY <1>1 DEF IInv, TypeOK
<1>4. cp'.owner # NoRun => cp' = cp
  BY DEF NoCheckpoint
<1>5. RunInv'
  <2>1. \A r \in Runs : parent[r] # NoRun => parent[r] \in Runs
    BY DEF IInv, TypeOK
  <2>2. cp.owner # NoRun => cp.owner \in Runs
    BY DEF IInv, TypeOK
  <2> QED
    BY <1>1, <1>3, <1>4, <2>1, <2>2 DEF IInv, RunInv, Active
<1>6. LocalInv'
  BY <1>1, <1>4 DEF IInv, LocalInv, Active, Pulling, sourceVars
<1>7. PullInv' /\ PageInv' /\ CountInv'
  BY <1>1 DEF PullInv, PageInv, CountInv, Pulling, HasPage
<1> QED
  BY <1>2, <1>5, <1>6, <1>7 DEF Rest

LEMMA CheckpointKept ==
  ASSUME CheckpointInv, UNCHANGED <<sourceVars, tgt, kind>>, cp' = cp \/ cp' = NoCheckpoint
  PROVE  CheckpointInv'
<1>1. CASE cp' = cp
  BY <1>1 DEF CheckpointInv, Covered, Due, Live, sourceVars
<1>2. CASE cp' = NoCheckpoint
  BY <1>2 DEF CheckpointInv, NoCheckpoint
<1> QED
  BY <1>1, <1>2

LEMMA LoadRest ==
  ASSUME IInv, LoadCheckpoint
  PROVE  Rest'
<1>0. pc = "load" /\ UNCHANGED <<sourceVars, tgt, cp, kind>> /\ UNCHANGED parent
  BY DEF LoadCheckpoint, End, runVars
<1>1. CheckpointInv'
  BY <1>0, CheckpointKept DEF IInv
<1>2. CASE End("failed")
  BY <1>0, <1>1, <1>2, EndRest DEF Rest
<1>3. CASE ~End("failed")
  <2>0. /\ pc' = "query"
        /\ prev' = IF Belongs THEN cp.cursor ELSE 0
        /\ from' = IF Belongs /\ IsRecovery THEN cp.from ELSE now
        /\ low' = IF Belongs /\ IsRecovery THEN cp.low ELSE since
        /\ asked' = IF Belongs /\ IsRecovery /\ cp.asked > since THEN cp.asked ELSE since
        /\ collecting' => kind[run] = "full" /\ ~Belongs
        /\ UNCHANGED <<runVars, run, since, fetched, staged, page, stopping>>
    BY <1>3 DEF LoadCheckpoint
  <2>1. now \in Int /\ since \in Nat /\ cp.from \in Int /\ cp.asked \in Nat /\ cp.cursor \in Nat
    BY DEF IInv, TypeOK, Times, Rows
  <2>2. run \in Runs /\ status[run] # "none" /\ cp.owner # run
    BY <1>0 DEF IInv, RunInv, Active
  <2>3. Belongs => /\ IsRecovery /\ cp.owner = parent[run] /\ cp.owner # NoRun
                   /\ kind[cp.owner] = kind[run]
    BY <2>2 DEF Belongs, IsRecovery, IInv, RunInv
  <2>4. cp.owner # NoRun => cp.from <= now /\ (kind[cp.owner] = "full" => cp.asked = 0)
    BY DEF IInv, LocalInv
  <2>5. kind[run] = "full" => since = 0
    BY <1>0 DEF IInv, LocalInv, Active
  <2>6. SourceInv' /\ RunInv'
    BY <1>0, <2>0 DEF IInv, SourceInv, RunInv, Active, sourceVars, runVars
  <2>7. LocalInv'
    <3>1. from' <= now /\ since <= asked' /\ (kind[run] = "full" => asked' = 0)
      BY <2>0, <2>1, <2>3, <2>4, <2>5
    <3>2. cp.owner # NoRun => cp.from <= from'
      BY <2>0, <2>1, <2>4
    <3>3. parent[run] = NoRun => asked' = low'
      BY <2>0 DEF IsRecovery
    <3> QED
      BY <1>0, <2>0, <2>4, <2>5, <3>1, <3>2, <3>3 DEF LocalInv, Active, Pulling, sourceVars, runVars
  <2>8. PullInv'
    <3>1. CASE Belongs
      <4>1. from' = cp.from /\ asked' >= cp.asked /\ prev' = cp.cursor
        BY <2>0, <2>1, <2>3, <3>1
      <4>2. \A p \in Keyed : p <= cp.cursor => Covered(p, cp.from, cp.asked, kind[cp.owner] = "full")
        BY <2>3, <3>1 DEF IInv, CheckpointInv
      <4>3. \A p \in Keyed : mod[p] \in Int
        BY DEF Keyed, IInv, TypeOK, Times
      <4>4. asked' \in Int
        BY <2>0, <2>1
      <4>5. \A p \in Keyed : p <= prev' => Covered(p, from, asked, kind[run] = "full")'
        BY <1>0, <2>0, <2>1, <2>3, <3>1, <4>1, <4>2, <4>3, <4>4
        DEF Covered, Due, Live, sourceVars, runVars
      <4> QED
        BY <2>0, <4>5 DEF PullInv, Seen, Pulled
    <3>2. CASE ~Belongs
      <4>1. \A p \in Keyed : ~(p <= prev')
        BY <2>0, <3>2, CursorAssumption DEF Keyed, Rows
      <4> QED
        BY <2>0, <4>1 DEF PullInv, Seen, Pulled
    <3> QED
      BY <3>1, <3>2
  <2>9. PageInv'
    BY <2>0 DEF PageInv, HasPage
  <2>10. CountInv'
    <3> SUFFICES ASSUME collecting' PROVE Cardinality(Counted') <= fetched'
      BY DEF CountInv
    <3>1. prev' = 0 /\ staged' = {} /\ fetched' = 0
      BY <1>0, <2>0 DEF IInv, LocalInv
    <3>2. Counted' = {}
      BY <2>0, <3>1, CursorAssumption DEF Counted, Pulled, Keyed, Rows
    <3> QED
      BY <3>1, <3>2, FS_EmptySet
  <2> QED
    BY <1>1, <2>6, <2>7, <2>8, <2>9, <2>10 DEF Rest
<1> QED
  BY <1>2, <1>3

LEMMA QueryRest ==
  ASSUME IInv, TypeOK', QueryPage \/ QueryFails
  PROVE  Rest'
<1>0. pc = "query" /\ UNCHANGED <<sourceVars, tgt, cp, kind, parent>>
  BY DEF QueryPage, QueryFails, End, runVars
<1>1. CheckpointInv'
  BY <1>0, CheckpointKept DEF IInv
<1>2. CASE End("failed")
  BY <1>0, <1>1, <1>2, EndRest DEF Rest
<1>3. CASE ~End("failed")
  <2>0. UNCHANGED <<run, status, pullVars>> /\ pc' \in {"finish", "write"}
    BY <1>3 DEF QueryPage, QueryFails, runVars
  <2>1. SourceInv' /\ RunInv' /\ LocalInv'
    BY <1>0, <2>0 DEF IInv, SourceInv, RunInv, LocalInv, Active, Pulling, sourceVars, pullVars
  <2>2. from \in Int /\ asked \in Nat /\ since \in Nat /\ since <= asked /\ from <= now
        /\ (kind[run] = "full" => since = 0) /\ prev \in Nat
    <3>1. from \in Int /\ asked \in Nat /\ since \in Nat /\ prev \in Nat
      <4>1. from \in Times /\ asked \in Times /\ since \in Times /\ prev \in Rows \cup {0}
        BY DEF IInv, TypeOK
      <4> QED
        BY <4>1, CursorAssumption DEF Times, Rows
    <3>2. since <= asked /\ from <= now /\ (kind[run] = "full" => since = 0)
      BY <1>0 DEF IInv, LocalInv, Active, Pulling
    <3> QED
      BY <3>1, <3>2
  \* What the pull still owes is behind the filter.
  <2>3. \A p \in Keyed : p > prev /\ Relevant(p, from, asked, kind[run] = "full") => p \in Matching
    <3>1. \A p \in Rows : born[p] \in Nat /\ mod[p] \in Nat /\ born[p] <= mod[p]
      BY DEF IInv, TypeOK, SourceInv, Times
    <3> QED
      BY <2>2, <3>1 DEF Keyed, Relevant, Due, Live, Matching
  <2>4. CASE pc' = "write"
    <3>1. page' = [p \in FirstPage |-> mod[p]] /\ Keys(FirstPage) # {}
      BY <1>3, <2>4 DEF QueryPage, QueryFails
    <3>2. DOMAIN page' = FirstPage /\ \A p \in FirstPage : page'[p] = mod[p]
      BY <3>1
    <3>3. PageInv'
      <4>1. Keys(DOMAIN page)' # {}
        BY <3>1, <3>2 DEF Keys
      <4>2. \A p \in FirstPage : p > prev /\ mod[p] # 0
        BY <2>2 DEF FirstPage, Matching, IInv, TypeOK, Times
      <4>3. \A p \in Keyed \ FirstPage :
              p > prev /\ Relevant(p, from, asked, kind[run] = "full") =>
                Cardinality(FirstPage) >= PageSize /\ \A q \in FirstPage : q < p
        BY <2>3, PageWithoutGaps
      <4>4. \A p \in Keyed : Relevant(p, from, asked, kind[run] = "full")'
                             = Relevant(p, from, asked, kind[run] = "full")
        BY <1>0, <2>0 DEF Relevant, Due, Live, sourceVars, pullVars
      <4>5. prev' = prev /\ mod' = mod /\ from' = from
        BY <1>0, <2>0 DEF sourceVars, pullVars
      <4> QED
        BY <3>2, <4>1, <4>2, <4>3, <4>4, <4>5 DEF PageInv
    <3>4. PullInv'
      BY <1>0, <2>0, <2>4
      DEF IInv, PullInv, Seen, Pulling, Pulled, Covered, Due, Live, sourceVars, pullVars
    <3>5. CountInv'
      <4>1. Counted' \subseteq Counted
        BY <1>0, <2>0, <2>4 DEF Counted, Pulled, Live, sourceVars, pullVars
      <4>2. fetched' >= fetched /\ collecting' = collecting
        BY <2>0 DEF pullVars, IInv, TypeOK
      <4> QED
        BY <4>1, <4>2, CountShrinks DEF IInv
    <3> QED
      BY <1>1, <2>1, <3>3, <3>4, <3>5 DEF Rest
  <2>5. CASE pc' = "finish"
    <3>1. Keys(FirstPage) = {} /\ Cardinality(FirstPage) < PageSize
      BY <1>3, <2>5 DEF QueryPage, QueryFails
    <3>2. ASSUME NEW p \in Keyed, p > prev, Relevant(p, from, asked, kind[run] = "full")
          PROVE  FALSE
      <4>1. p \in Matching
        BY <2>3, <3>2
      <4>2. p \notin FirstPage
        BY <3>1 DEF Keys
      <4>3. Cardinality(FirstPage) >= PageSize
        BY <4>1, <4>2, PageWithoutGaps
      <4>4. FirstPage \subseteq Rows
        BY DEF FirstPage, Matching
      <4> QED
        BY <3>1, <4>3, <4>4, RowsFinite, CursorAssumption
    <3>3. \A p \in Keyed : p \in Int
      BY CursorAssumption DEF Keyed, Rows
    <3>4. PullInv'
      <4>1. \A p \in Keyed : Covered(p, from, asked, kind[run] = "full")
        BY <1>0, <2>2, <3>2, <3>3
        DEF IInv, PullInv, Seen, Pulling, Relevant, Covered
      <4> QED
        BY <1>0, <2>0, <4>1 DEF PullInv, Covered, Due, Live, sourceVars, pullVars
    <3>5. PageInv'
      BY <2>5 DEF PageInv, HasPage
    <3>6. CountInv'
      <4>0. CASE collecting
        <5>1. kind[run] = "full"
          BY <4>0 DEF IInv, LocalInv
        <5>2. Counted' \subseteq Counted
          BY <1>0, <2>0, <2>2, <2>5, <3>2, <3>3, <5>1
          DEF Counted, Pulled, Live, Relevant, sourceVars, pullVars
        <5>3. fetched' >= fetched /\ collecting' = collecting
          BY <2>0 DEF pullVars, IInv, TypeOK
        <5> QED
          BY <5>2, <5>3, CountShrinks DEF IInv
      <4>1. CASE ~collecting
        BY <2>0, <4>1 DEF CountInv, pullVars
      <4> QED
        BY <4>0, <4>1
    <3> QED
      BY <1>1, <2>1, <3>4, <3>5, <3>6 DEF Rest
  <2> QED
    BY <2>0, <2>4, <2>5
<1> QED
  BY <1>2, <1>3

\* Writing rows of the page, all or some, keeps what the checkpoint covers.
LEMMA PutKeeps ==
  ASSUME IInv, pc = "write", NEW S \in SUBSET DOMAIN page, Put(S),
         UNCHANGED <<sourceVars, cp, kind>>
  PROVE  /\ CheckpointInv'
         /\ \A p \in Rows : tgt[p] # 0 => tgt'[p] # 0
         /\ \A p \in S : tgt'[p] = page[p]
         /\ \A p \in Rows \ S : tgt'[p] = tgt[p]
<1>1. \A p \in DOMAIN page :
        p \in Rows /\ page[p] # 0 /\ (mod[p] # 0 /\ mod[p] <= from => page[p] = mod[p])
  BY DEF IInv, TypeOK, PageInv, HasPage
<1>2. /\ \A p \in S : tgt'[p] = page[p]
      /\ \A p \in Rows \ S : tgt'[p] = tgt[p]
  BY <1>1 DEF Put
<1>3. \A p \in Rows : tgt[p] # 0 => tgt'[p] # 0
  BY <1>1, <1>2
<1>4. CheckpointInv'
  <2> SUFFICES ASSUME cp.owner # NoRun, NEW p \in Keyed, p <= cp.cursor
               PROVE  Covered(p, cp.from, cp.asked, kind[cp.owner] = "full")'
    BY DEF CheckpointInv
  <2>1. Covered(p, cp.from, cp.asked, kind[cp.owner] = "full") /\ p \in Rows
    BY DEF IInv, CheckpointInv, Keyed
  <2>2. cp.from <= from
    BY DEF IInv, LocalInv, Pulling
  <2>3. mod[p] \in Int /\ cp.from \in Int /\ from \in Int /\ cp.asked \in Nat
    BY <2>1 DEF IInv, TypeOK, Times
  <2>4. p \in S /\ mod[p] > cp.asked /\ mod[p] <= cp.from => page[p] = mod[p]
    BY <1>1, <2>2, <2>3
  <2> QED
    BY <1>2, <1>3, <2>1, <2>4 DEF Covered, Due, Live, sourceVars
<1> QED
  BY <1>2, <1>3, <1>4

LEMMA WriteRest ==
  ASSUME IInv, TypeOK', WritePage
  PROVE  Rest'
<1>0. /\ pc = "write" /\ Put(DOMAIN page) /\ pc' \in {"stage", "save"} /\ (pc' = "stage" => collecting)
      /\ fetched' = fetched + Cardinality(DOMAIN page)
      /\ UNCHANGED <<sourceVars, cp, runVars, run, since, from, low, asked, prev, resumed,
                     collecting, staged, page, envVars>>
  BY DEF WritePage
<1>1. /\ CheckpointInv'
      /\ \A p \in DOMAIN page : tgt'[p] = page[p]
      /\ \A p \in Rows \ DOMAIN page : tgt'[p] = tgt[p]
  BY <1>0, PutKeeps DEF runVars
<1>2. SourceInv' /\ RunInv' /\ LocalInv'
  BY <1>0 DEF IInv, SourceInv, RunInv, LocalInv, Active, Pulling, sourceVars, runVars
<1>3. \A p \in DOMAIN page :
        p \in Rows /\ page[p] # 0 /\ (mod[p] # 0 /\ mod[p] <= from => page[p] = mod[p])
  BY <1>0 DEF IInv, TypeOK, PageInv, HasPage
<1>4. PullInv'
  <2> SUFFICES ASSUME NEW p \in Keyed, p <= prev \/ p \in DOMAIN page
               PROVE  Covered(p, from, asked, kind[run] = "full")'
    BY <1>0 DEF PullInv, Seen, Pulled
  <2>1. CASE p \in DOMAIN page
    <3>1. mod[p] \in Int /\ asked \in Nat
      BY <1>3, <2>1 DEF IInv, TypeOK, Times
    <3> QED
      BY <1>0, <1>1, <1>3, <2>1, <3>1 DEF Covered, Due, Live, sourceVars, runVars
  <2>2. CASE p \notin DOMAIN page
    <3>1. Covered(p, from, asked, kind[run] = "full") /\ p \in Rows
      BY <1>0, <2>2 DEF IInv, PullInv, Pulling, Seen, Keyed
    <3> QED
      BY <1>0, <1>1, <2>2, <3>1 DEF Covered, Due, Live, sourceVars, runVars
  <2> QED
    BY <2>1, <2>2
<1>5. PageInv'
  <2>1. HasPage /\ HasPage'
    BY <1>0 DEF HasPage
  <2> QED
    BY <1>0, <2>1 DEF IInv, PageInv, Relevant, Due, Live, sourceVars, runVars
<1>6. CountInv'
  <2> SUFFICES ASSUME collecting PROVE Cardinality(Counted') <= fetched'
    BY <1>0 DEF CountInv
  <2>1. Counted' = Counted \cup Keys(DOMAIN page)
    BY <1>0 DEF Counted, Pulled, Live, sourceVars
  <2>2. Counted \in SUBSET Rows /\ DOMAIN page \in SUBSET Rows
    BY CountedRows DEF IInv, TypeOK
  <2>3. Keys(DOMAIN page) \in SUBSET DOMAIN page
    BY DEF Keys
  <2>4. Cardinality(Counted \cup Keys(DOMAIN page)) <= Cardinality(Counted) + Cardinality(Keys(DOMAIN page))
    <3>1. IsFiniteSet(Counted) /\ IsFiniteSet(Keys(DOMAIN page))
      BY <2>2, <2>3, RowsFinite
    <3>2. Counted \cap Keys(DOMAIN page) \in SUBSET Rows
      BY <2>2
    <3>3. Cardinality(Counted \cap Keys(DOMAIN page)) \in Nat
      BY <3>2, RowsFinite
    <3>4. Cardinality(Counted) \in Nat /\ Cardinality(Keys(DOMAIN page)) \in Nat
      BY <3>1, FS_CardinalityType
    <3>5. Cardinality(Counted \cup Keys(DOMAIN page)) =
            Cardinality(Counted) + Cardinality(Keys(DOMAIN page))
              - Cardinality(Counted \cap Keys(DOMAIN page))
      BY <3>1, FS_Union
    <3> QED
      BY <3>3, <3>4, <3>5
  <2>5. Cardinality(Keys(DOMAIN page)) <= Cardinality(DOMAIN page)
    BY <2>2, <2>3, SmallerSet
  <2>6. /\ Cardinality(Counted \cup Keys(DOMAIN page)) \in Nat /\ Cardinality(Counted) \in Nat
        /\ Cardinality(Keys(DOMAIN page)) \in Nat /\ Cardinality(DOMAIN page) \in Nat
    BY <2>2, <2>3, RowsFinite
  <2>7. Cardinality(Counted) <= fetched /\ fetched \in Nat
    BY DEF IInv, CountInv, TypeOK
  <2> QED
    BY <1>0, <2>1, <2>4, <2>5, <2>6, <2>7
<1> QED
  BY <1>1, <1>2, <1>4, <1>5, <1>6 DEF Rest

LEMMA WriteFailsRest ==
  ASSUME IInv, WriteFails
  PROVE  Rest'
<1>1. PICK S \in Written(DOMAIN page) : Put(S)
  BY DEF WriteFails
<1>2. pc = "write" /\ End("failed") /\ UNCHANGED <<sourceVars, cp>> /\ UNCHANGED kind
  BY DEF WriteFails, End
<1>3. CheckpointInv'
  BY <1>1, <1>2, WrittenSubset, PutKeeps
<1> QED
  BY <1>2, <1>3, EndRest

LEMMA StageRest ==
  ASSUME IInv, TypeOK', StageKeys
  PROVE  Rest'
<1>0. /\ pc = "stage" /\ pc' = "save" /\ staged' \subseteq staged \cup Keys(DOMAIN page)
      /\ UNCHANGED <<sourceVars, tgt, synced, cp, runVars, run, since, from, low, asked,
                     prev, resumed, collecting, fetched, page, stopping, crashes>>
  BY DEF StageKeys
<1>1. SourceInv' /\ RunInv' /\ LocalInv' /\ CheckpointInv'
  BY <1>0, CheckpointKept
  DEF IInv, SourceInv, RunInv, LocalInv, Active, Pulling, sourceVars, runVars
<1>2. PullInv'
  BY <1>0 DEF IInv, PullInv, Seen, Pulling, Pulled, Covered, Due, Live, sourceVars, runVars
<1>3. PageInv'
  <2>1. HasPage /\ HasPage'
    BY <1>0 DEF HasPage
  <2> QED
    BY <1>0, <2>1 DEF IInv, PageInv, Relevant, Due, Live, sourceVars, runVars
<1>4. CountInv'
  <2>1. Counted' \subseteq Counted
    BY <1>0 DEF Counted, Pulled, Live, sourceVars
  <2>2. fetched' >= fetched
    BY <1>0 DEF IInv, TypeOK
  <2> QED
    BY <1>0, <2>1, <2>2, CountShrinks DEF IInv
<1> QED
  BY <1>1, <1>2, <1>3, <1>4 DEF Rest

LEMMA SaveRest ==
  ASSUME IInv, TypeOK', SaveCursor
  PROVE  Rest'
<1>0. /\ pc = "save" /\ prev' = CursorAfter(DOMAIN page)
      /\ cp' = cp \/ cp' = [owner |-> run, cursor |-> prev', from |-> from,
                     low |-> low, asked |-> asked]
      /\ pc' = IF Cardinality(DOMAIN page) < PageSize THEN "finish" ELSE "query"
      /\ UNCHANGED <<sourceVars, tgt, synced, runVars, run, since, from, low, asked,
                     resumed, collecting, fetched, staged, stopping, crashes>>
  BY DEF SaveCursor
<1>a. HasPage /\ Pulling /\ run \in Runs /\ status[run] # "none"
  BY <1>0 DEF HasPage, Pulling, IInv, RunInv, Active
<1>b. prev' \in Keys(DOMAIN page) /\ \A q \in Keys(DOMAIN page) : q <= prev'
  BY <1>0, <1>a, CursorAfterType DEF IInv
<1>c. \A p \in Keyed : p \in Int
  BY CursorAssumption DEF Keyed, Rows
<1>d. prev \in Int /\ prev' \in Int /\ prev' \in DOMAIN page
  BY <1>b, <1>c DEF Keys, IInv, TypeOK, Rows
\* Behind the page nothing is owed, or it is short and ends the data.
<1>1. ASSUME NEW p \in Keyed, p <= prev' \/ pc' = "finish", ~(p <= prev), p \notin DOMAIN page
      PROVE  ~Relevant(p, from, asked, kind[run] = "full")
  <2> SUFFICES ASSUME Relevant(p, from, asked, kind[run] = "full") PROVE FALSE
    OBVIOUS
  <2>1. Cardinality(DOMAIN page) >= PageSize /\ \A q \in DOMAIN page : q < p
    BY <1>1, <1>a, <1>c, <1>d DEF IInv, PageInv
  <2>2. Cardinality(DOMAIN page) \in Nat
    BY RowsFinite DEF IInv, TypeOK
  <2>3. ~(p <= prev')
    BY <1>c, <1>d, <2>1
  <2> QED
    BY <1>0, <1>1, <2>1, <2>2, <2>3, CursorAssumption
<1>2. ASSUME NEW p \in Keyed, p <= prev' \/ pc' = "finish"
      PROVE  Covered(p, from, asked, kind[run] = "full")
  <2>1. CASE p <= prev \/ p \in DOMAIN page
    BY <1>0, <1>a, <2>1 DEF IInv, PullInv, Seen
  <2>2. CASE ~(p <= prev) /\ p \notin DOMAIN page
    BY <1>1, <1>2, <2>2 DEF Relevant, Covered
  <2> QED
    BY <2>1, <2>2
<1>3. \A p \in Keyed : Covered(p, from, asked, kind[run] = "full")'
                       <=> Covered(p, from, asked, kind[run] = "full")
  BY <1>0 DEF Covered, Due, Live, sourceVars, runVars
<1>4. SourceInv'
  BY <1>0 DEF IInv, SourceInv, sourceVars
<1>5. RunInv'
  BY <1>0, <1>a DEF IInv, RunInv, Active, runVars
<1>6. LocalInv'
  <2>1. from \in Int
    BY DEF IInv, TypeOK, Times
  <2>2. cp' = cp => LocalInv'
    BY <1>0, <1>a DEF IInv, LocalInv, Active, Pulling, sourceVars, runVars
  <2>3. cp' = [owner |-> run, cursor |-> prev', from |-> from,
                     low |-> low, asked |-> asked] => LocalInv'
    <3> SUFFICES ASSUME cp' = [owner |-> run, cursor |-> prev', from |-> from,
                     low |-> low, asked |-> asked]
                 PROVE  LocalInv'
      OBVIOUS
    <3>1. cp'.owner = run /\ cp'.from = from /\ cp'.asked = asked
      OBVIOUS
    <3> QED
      BY <1>0, <1>a, <2>1, <3>1 DEF IInv, LocalInv, Active, Pulling, sourceVars, runVars
  <2> QED
    BY <1>0, <2>2, <2>3
<1>7. CheckpointInv'
  <2>1. CASE cp' = cp
    BY <1>0, <2>1, CheckpointKept DEF IInv, runVars
  <2>2. CASE cp' = [owner |-> run, cursor |-> prev', from |-> from,
                     low |-> low, asked |-> asked]
    <3>1. cp'.owner = run /\ cp'.from = from /\ cp'.asked = asked /\ cp'.cursor = prev'
      BY <2>2
    <3>2. \A p \in Keyed : p <= prev' => Covered(p, from, asked, kind[run] = "full")'
      BY <1>2, <1>3
    <3> QED
      BY <1>0, <3>1, <3>2 DEF CheckpointInv, Covered, Due, Live, runVars
  <2> QED
    BY <1>0, <2>1, <2>2
<1>8. PullInv'
  BY <1>0, <1>2, <1>3 DEF PullInv, Seen, Pulled
<1>9. PageInv'
  BY <1>0 DEF PageInv, HasPage
<1>10. CountInv'
  <2>1. CASE collecting
    <3>1. kind[run] = "full"
      BY <2>1 DEF IInv, LocalInv
    <3>2. ASSUME NEW p \in Keyed, Live(p, from), p <= prev' \/ pc' = "finish"
          PROVE  p <= prev \/ p \in DOMAIN page
      BY <1>1, <3>1, <3>2 DEF Relevant
    <3>3. Counted' \subseteq Counted
      BY <1>0, <3>2 DEF Counted, Pulled, Live, Keys, sourceVars
    <3>4. fetched' >= fetched
      BY <1>0 DEF IInv, TypeOK
    <3> QED
      BY <1>0, <3>3, <3>4, CountShrinks DEF IInv
  <2>2. CASE ~collecting
    BY <1>0, <2>2 DEF CountInv
  <2> QED
    BY <2>1, <2>2
<1> QED
  BY <1>4, <1>5, <1>6, <1>7, <1>8, <1>9, <1>10 DEF Rest

LEMMA FinishRest ==
  ASSUME IInv, TypeOK', Finish
  PROVE  Rest'
<1>0. pc = "finish" /\ UNCHANGED <<sourceVars, tgt, cp, kind>>
  BY DEF Finish, End, runVars
<1>1. CheckpointInv'
  BY <1>0, CheckpointKept DEF IInv
<1>2. CASE Empty
  BY <1>0, <1>1, <1>2, EndRest DEF Finish
<1>3. CASE ~Empty
  <2>0. /\ pc' \in {"reconcile", "clear"} /\ (pc' = "reconcile" => collecting)
        /\ UNCHANGED <<runVars, run, pullVars, page, stopping>>
    BY <1>3 DEF Finish
  <2>1. SourceInv' /\ RunInv' /\ LocalInv'
    BY <1>0, <2>0 DEF IInv, SourceInv, RunInv, LocalInv, Active, Pulling, sourceVars, runVars, pullVars
  <2>2. PullInv'
    BY <1>0, <2>0 DEF IInv, PullInv, Seen, Pulling, Pulled, Covered, Due, Live, sourceVars, runVars, pullVars
  <2>3. PageInv'
    BY <2>0 DEF PageInv, HasPage
  <2>4. CountInv'
    <3>1. Counted' \subseteq Counted
      BY <1>0, <2>0 DEF Counted, Pulled, Live, sourceVars, pullVars
    <3>2. fetched' >= fetched /\ collecting' = collecting
      BY <2>0 DEF IInv, TypeOK, pullVars
    <3> QED
      BY <3>1, <3>2, CountShrinks DEF IInv
  <2> QED
    BY <1>1, <2>1, <2>2, <2>3, <2>4 DEF Rest
<1> QED
  BY <1>2, <1>3

\* When the deletion is allowed, every live row with a key has been staged.
LEMMA StagedIsLive ==
  ASSUME IInv, pc = "reconcile", MayDelete, NEW p \in Keyed, Live(p, from)
  PROVE  p \in staged
<1>1. collecting
  BY DEF IInv, LocalInv
<1>2. Cardinality(Counted) <= Cardinality(staged)
  BY <1>1 DEF IInv, CountInv, MayDelete
<1>3. Counted \in SUBSET Rows /\ staged \in SUBSET Counted
  BY CountedRows DEF IInv, Counted
<1>4. Cardinality(Counted) \in Nat /\ Cardinality(staged) \in Nat
  BY <1>3, RowsFinite
<1>5. Counted = staged
  BY <1>2, <1>3, <1>4, SmallerSet
<1>6. p \in Counted
  BY DEF Counted, Pulled
<1> QED
  BY <1>5, <1>6

LEMMA ReconcileRest ==
  ASSUME IInv, TypeOK', Reconcile
  PROVE  Rest'
<1>0. pc = "reconcile" /\ pc' = "clear"
      /\ UNCHANGED <<sourceVars, cp, runVars, run, pullVars, page, stopping, crashes>>
  BY DEF Reconcile
<1>1. SourceInv' /\ RunInv' /\ LocalInv'
  BY <1>0 DEF IInv, SourceInv, RunInv, LocalInv, Active, Pulling, sourceVars, runVars, pullVars
\* A row that is still owed to somebody keeps its content.
<1>2. ASSUME NEW p \in Keyed, Live(p, from) PROVE tgt'[p] = tgt[p]
  <2>1. CASE tgt' = tgt
    BY <2>1
  <2>2. CASE tgt' # tgt
    <3>1. MayDelete /\ tgt' = [r \in Rows |-> IF r \in Orphans THEN 0 ELSE tgt[r]]
      BY <2>2 DEF Reconcile
    <3>2. p \notin Orphans /\ p \in Rows
      BY <1>0, <1>2, <3>1, StagedIsLive DEF Orphans, Keyed
    <3> QED
      BY <3>1, <3>2
  <2> QED
    BY <2>1, <2>2
<1>3. ASSUME NEW p \in Keyed, mod[p] # 0, mod[p] <= from PROVE Live(p, from)
  BY <1>3 DEF IInv, TypeOK, SourceInv, Live, Keyed, Times
<1>4. from \in Int /\ asked \in Nat /\ cp.from \in Int /\ cp.asked \in Nat
      /\ \A p \in Keyed : mod[p] \in Int /\ born[p] \in Int
  BY DEF IInv, TypeOK, Keyed, Times
<1>5. PullInv'
  <2> SUFFICES ASSUME NEW p \in Keyed PROVE Covered(p, from, asked, kind[run] = "full")'
    BY DEF PullInv
  <2>1. Covered(p, from, asked, kind[run] = "full")
    BY <1>0 DEF IInv, PullInv, Seen, Pulling, Pulled
  <2>2. Due(p, from, asked) => Live(p, from)
    BY <1>3, <1>4 DEF Due
  <2> QED
    BY <1>0, <1>2, <2>1, <2>2 DEF Covered, Due, Live, sourceVars, runVars, pullVars
<1>6. CheckpointInv'
  <2> SUFFICES ASSUME cp.owner # NoRun, NEW p \in Keyed, p <= cp.cursor
               PROVE  Covered(p, cp.from, cp.asked, kind[cp.owner] = "full")'
    BY <1>0 DEF CheckpointInv
  <2>1. Covered(p, cp.from, cp.asked, kind[cp.owner] = "full") /\ cp.from <= from
    BY <1>0 DEF IInv, CheckpointInv, LocalInv, Pulling
  <2>2. Live(p, cp.from) => Live(p, from)
    BY <1>4, <2>1 DEF Live
  <2>3. Due(p, cp.from, cp.asked) => Live(p, from)
    BY <1>3, <1>4, <2>1 DEF Due
  <2> QED
    BY <1>0, <1>2, <2>1, <2>2, <2>3 DEF Covered, Due, Live, sourceVars, runVars
<1>7. PageInv'
  BY <1>0 DEF PageInv, HasPage
<1>8. CountInv'
  <2>1. Counted' \subseteq Counted
    BY <1>0 DEF Counted, Pulled, Live, sourceVars, pullVars
  <2>2. fetched' >= fetched /\ collecting' = collecting
    BY <1>0 DEF IInv, TypeOK, pullVars
  <2> QED
    BY <2>1, <2>2, CountShrinks DEF IInv
<1> QED
  BY <1>1, <1>5, <1>6, <1>7, <1>8 DEF Rest

LEMMA ClearRest ==
  ASSUME IInv, Clear
  PROVE  Rest'
<1>1. pc = "clear" /\ End("success") /\ UNCHANGED <<sourceVars, tgt, kind>>
      /\ (cp' = cp \/ cp' = NoCheckpoint)
  BY DEF Clear, End
<1>2. CheckpointInv'
  BY <1>1, CheckpointKept DEF IInv
<1> QED
  BY <1>1, <1>2, EndRest

LEMMA EnvironmentRest ==
  ASSUME IInv, RequestStop \/ Crash
  PROVE  Rest'
<1>1. CASE RequestStop
  <2>1. UNCHANGED <<sourceVars, tgt, cp, runVars, run, pc, pullVars, page>>
    BY <1>1 DEF RequestStop
  <2>2. SourceInv' /\ RunInv' /\ LocalInv' /\ CheckpointInv'
    BY <2>1, CheckpointKept
    DEF IInv, SourceInv, RunInv, LocalInv, Active, Pulling, sourceVars, runVars, pullVars
  <2>3. PullInv' /\ PageInv' /\ CountInv'
    BY <2>1 DEF IInv, PullInv, PageInv, CountInv, Counted, Seen, Pulling, Pulled, HasPage,
                Relevant, Covered, Due, Live, sourceVars, runVars, pullVars
  <2> QED
    BY <2>2, <2>3 DEF Rest
<1>2. CASE Crash
  <2>1. pc # "idle" /\ End("abnormal") /\ UNCHANGED <<sourceVars, cp, kind>>
    BY <1>2 DEF Crash, End
  <2>2. CheckpointInv'
    <3>1. CASE pc = "write" /\ \E S \in Written(DOMAIN page) : Put(S)
      BY <2>1, <3>1, WrittenSubset, PutKeeps
    <3>2. CASE UNCHANGED <<tgt, synced>>
      BY <2>1, <3>2, CheckpointKept DEF IInv
    <3> QED
      BY <1>2, <3>1, <3>2 DEF Crash
  <2> QED
    BY <2>1, <2>2, EndRest
<1> QED
  BY <1>1, <1>2

LEMMA IdleRest ==
  ASSUME IInv, UNCHANGED vars
  PROVE  Rest'
<1>1. UNCHANGED <<sourceVars, tgt, cp, runVars, run, pc, pullVars, page>>
  BY DEF vars
<1>2. SourceInv' /\ RunInv' /\ LocalInv' /\ CheckpointInv'
  BY <1>1, CheckpointKept
  DEF IInv, SourceInv, RunInv, LocalInv, Active, Pulling, sourceVars, runVars, pullVars
<1>3. PullInv' /\ PageInv' /\ CountInv'
  BY <1>1 DEF IInv, PullInv, PageInv, CountInv, Counted, Seen, Pulling, Pulled, HasPage,
              Relevant, Covered, Due, Live, sourceVars, runVars, pullVars
<1> QED
  BY <1>2, <1>3 DEF Rest

-----------------------------------------------------------------------------
\* The theorems.

LEMMA InvStep == IInv /\ [Next]_vars => IInv'
<1> SUFFICES ASSUME IInv, [Next]_vars PROVE IInv'
  OBVIOUS
<1>0. TypeOK'
  BY TypeStep DEF IInv
<1>1. Rest'
  <2>1. CASE \E p \in Rows : SourceSaves(p) \/ SourceDeletes(p)
    BY <1>0, <2>1, SourceRest
  <2>2. CASE \E r \in Runs : BeginRun(r) \/ BeginRecovery(r)
    BY <2>2, BeginRest
  <2>3. CASE FormStep
    BY <1>0, <2>3, LoadRest, QueryRest, WriteRest, WriteFailsRest, StageRest, SaveRest,
       FinishRest, ReconcileRest, ClearRest DEF FormStep
  <2>4. CASE RequestStop \/ Crash
    BY <2>4, EnvironmentRest
  <2>5. CASE UNCHANGED vars
    BY <2>5, IdleRest
  <2> QED
    BY <2>1, <2>2, <2>3, <2>4, <2>5 DEF Next
<1> QED
  BY <1>0, <1>1 DEF IInv, Rest

\* The inductive invariant holds: who owns what, how old the page in memory is,
\* what the cursors cover and how many keys can have been staged.
THEOREM Invariance == Spec => []IInv
<1>1. Init => IInv
  BY InitType, InitRest DEF IInv, Rest
<1> QED
  BY <1>1, InvStep, PTL DEF Spec

\* The types of the model hold for every source, page size, cap and schedule
\* of runs, faults and crashes.
THEOREM TypeCorrect == Spec => []TypeOK
<1>1. IInv => TypeOK
  BY DEF IInv
<1> QED
  BY <1>1, Invariance, PTL

\* SaveCursorCheckpoint never records a cursor ahead of the target: resuming
\* behind it skips no row that its pull had to bring.
THEOREM CheckpointIsDurableHolds == Spec => []CheckpointIsDurable
<1>1. IInv => CheckpointIsDurable
  BY DEF IInv, CheckpointInv, Covered, CheckpointIsDurable
<1> QED
  BY <1>1, Invariance, PTL

\* A form of syncCursorForm that comes to its success has brought every row its
\* pull had to bring: a full pull also over crashes and recovery runs, an
\* incremental pull when one run made it. The recovery of an incremental pull
\* may miss rows below the bound it asked with, and only those.
THEOREM SuccessIsCompleteHolds == Spec => []SuccessIsComplete
<1>1. IInv => SuccessIsComplete
  <2> SUFFICES ASSUME IInv, pc = "clear"
               PROVE  /\ \A p \in Keyed : Due(p, from, low) => tgt[p] = mod[p] \/ Unasked(p)
                      /\ NothingMissing
    BY DEF SuccessIsComplete
  <2>1. \A p \in Keyed : Covered(p, from, asked, kind[run] = "full")
    BY DEF IInv, PullInv, Pulling, Seen, Pulled
  <2>2. NothingMissing
    BY <2>1 DEF Covered, Live, NothingMissing
  <2>3. ASSUME NEW p \in Keyed, Due(p, from, low), tgt[p] # mod[p]
        PROVE  Unasked(p)
    <3>1. mod[p] \in Nat /\ low \in Nat /\ asked \in Nat
      BY DEF IInv, TypeOK, Keyed, Times
    <3>2. mod[p] <= asked
      BY <2>1, <2>3, <3>1 DEF Covered, Due
    <3>3. asked # low /\ asked # 0
      BY <2>3, <3>1, <3>2 DEF Due
    <3>4. IsRecovery /\ kind[run] # "full"
      BY <3>3 DEF IInv, LocalInv, Pulling, IsRecovery
    <3>5. kind[run] \in SyncTypes
      BY DEF IInv, TypeOK, RunInv, Active
    <3> QED
      BY <3>2, <3>4, <3>5 DEF Unasked, SyncTypes
  <2> QED
    BY <2>2, <2>3
<1> QED
  BY <1>1, Invariance, PTL

\* Writes never blank a row.
LEMMA PutKeepsRows ==
  ASSUME IInv, pc = "write", NEW S \in SUBSET DOMAIN page, Put(S), NEW p \in Keyed, tgt[p] # 0
  PROVE  tgt'[p] # 0
<1>1. \A q \in DOMAIN page : page[q] # 0
  BY DEF IInv, PageInv, HasPage
<1>2. p \in Rows
  BY DEF Keyed
<1> QED
  BY <1>1, <1>2 DEF Put

\* ReconcileAndDelete never removes a row that the source has had since before
\* the pull began, whatever was not staged, not saved or cut short.
THEOREM LiveRowsKeptHolds == Spec => LiveRowsKept
<1> DEFINE Kept == \A p \in Keyed : tgt[p] # 0 /\ tgt'[p] = 0 => born[p] = 0 \/ born[p] > from
<1>1. ASSUME IInv, [Next]_vars PROVE [Kept]_vars
  <2> SUFFICES ASSUME NEW p \in Keyed, tgt[p] # 0, tgt'[p] = 0
               PROVE  born[p] = 0 \/ born[p] > from
    OBVIOUS
  <2>1. tgt' # tgt
    OBVIOUS
  <2>2. CASE WritePage \/ WriteFails \/ Crash
    <3>1. PICK S \in SUBSET DOMAIN page : pc = "write" /\ Put(S)
      BY <2>1, <2>2, WrittenSubset DEF WritePage, WriteFails, Crash
    <3> QED
      BY <1>1, <3>1, PutKeepsRows
  <2>3. CASE Reconcile
    <3>1. pc = "reconcile" /\ MayDelete /\ p \in Orphans
      <4>1. pc = "reconcile" /\ MayDelete
            /\ tgt' = [r \in Rows |-> IF r \in Orphans THEN 0 ELSE tgt[r]]
        BY <2>1, <2>3 DEF Reconcile
      <4> QED
        BY <4>1 DEF Keyed
    <3>2. ~Live(p, from)
      BY <1>1, <3>1, StagedIsLive DEF Orphans
    <3>3. born[p] \in Int /\ from \in Int
      BY <1>1 DEF IInv, TypeOK, Keyed, Times
    <3> QED
      BY <3>2, <3>3 DEF Live
  <2>4. CASE \/ \E q \in Rows : SourceSaves(q) \/ SourceDeletes(q)
             \/ \E r \in Runs : BeginRun(r) \/ BeginRecovery(r)
             \/ UNCHANGED vars
    BY <2>1, <2>4 DEF SourceSaves, SourceDeletes, BeginRun, BeginRecovery, Begin, vars
  <2>5. CASE LoadCheckpoint \/ QueryPage \/ QueryFails \/ StageKeys \/ SaveCursor
             \/ Finish \/ Clear \/ RequestStop
    BY <2>1, <2>5 DEF LoadCheckpoint, QueryPage, QueryFails, StageKeys, SaveCursor, Finish,
                      Clear, RequestStop
  <2> QED
    BY <1>1, <2>2, <2>3, <2>4, <2>5 DEF Next, FormStep
<1>2. LiveRowsKept <=> [][Kept]_vars
  BY DEF LiveRowsKept
<1> HIDE DEF Kept
<1> QED
  BY <1>1, <1>2, Invariance, PTL DEF Spec

=============================================================================
