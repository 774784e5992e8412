-------------------------- MODULE FormWrite_proofs --------------------------
(***************************************************************************)
(* Proofs about FormWrite, for any set of rows, keys and periods, any      *)
(* sizes of the batches and any number of rounds, failing calls and        *)
(* crashes.                                                                *)
(***************************************************************************)
EXTENDS FormWrite, FiniteSetTheorems, TLAPS

-----------------------------------------------------------------------------
\* The inductive invariant.

\* Before the writer, and in the path through the staging table.
Early == {"idle", "start", "fetch", "fetched", "truncate", "columns"}
Staged == {"create", "load", "count", "begin", "delete", "insert", "merge", "commit",
           "drop"}
\* The staging table of the round may exist.
MayExist == Staged \ {"create"}

Sum(res) == res.inserted + res.updated

\* What the goroutine's own data say at each step.
GoroutineInv ==
  /\ pc # "idle" => round # 0
  /\ pc \in Early \cup Staged => todo = {} /\ part = {}
  /\ pc \in Early \cup {"create", "load", "count"} => result = NoResult
  /\ pc # "idle" => stat = NoStat
  /\ pc \in {"delete", "insert"} => form # "table"
  /\ pc \in {"truncate", "count", "merge", "direct", "recount"} => form = "table"
  /\ pc \in WriterCalls => ~Refused /\ ~result.err
  /\ pc \in {"truncate", "columns"} \cup WriterCalls => batch # {}

LoadedInv ==
  /\ pc \in {"count", "begin", "delete", "insert", "merge", "commit"} =>
       loaded = RowsToWrite(batch)
  /\ pc \in {"begin", "delete", "insert", "merge"} =>
       /\ result.inserted = 0 /\ result.updated <= Cardinality(batch)
       /\ form # "table" => result.updated = 0

\* The table that a commit makes visible.
Kept == IF form = "whole" THEN {}
        ELSE {t \in target : \A u \in loaded : Table!Scope(u) # Table!Scope(t)}
Complete == IF form = "table" THEN Merged(target, batch) ELSE Kept \cup loaded

TxInv ==
  /\ pc \in {"delete", "merge"} => tx = target
  /\ pc = "insert" => tx = Kept
  /\ pc = "commit" =>
       /\ tx = Complete
       /\ form = "table" => ~MergeRefused(target, batch)
       /\ Sum(result) = Cardinality(RowsToWrite(batch))

\* The rows that direct batches have sent are in the target, and counted.
Arrived(T, B) ==
  /\ Table!Keys(B) \subseteq {Table!Key(t) : t \in T}
  /\ NoKey \notin Table!Keys(batch) => Table!Singles(B) \subseteq Table!Contents(T)

DirectInv ==
  /\ pc \in {"direct", "recount"} => Arrived(target, batch \ todo)
  /\ pc = "direct" => Sum(result) + Cardinality(todo) = Cardinality(batch)
  /\ pc = "recount" =>
       Sum(result) + Cardinality(todo) + Cardinality(part) = Cardinality(batch)

DoneInv ==
  pc \in {"drop", "written"} /\ ~result.err =>
    Holds(batch) /\ Sum(result) = Cardinality(RowsToWrite(batch))

\* Only an inventory run leaves a DELETE behind.
TailInv == tail => form = "whole"

LeakInv ==
  /\ pc \in MayExist => Cardinality(staging \ {round}) <= faults + crashes
  /\ pc \notin MayExist => Cardinality(staging) <= faults + crashes

IInv ==
  /\ TypeOK /\ GoroutineInv /\ LoadedInv /\ TxInv /\ DirectInv /\ DoneInv
  /\ SuccessIsWritten /\ LeakInv /\ TailInv

-----------------------------------------------------------------------------
\* Rows of the target.

LEMMA Singleton ==
  ASSUME NEW r
  PROVE  /\ Fresh({r}).of = {r} /\ Fresh({r}).at = {r}
         /\ Table!Key(Fresh({r})) = KeyOf[r]
         /\ Table!Scope(Fresh({r})) = ScopeOf[r]
<1>1. Fresh({r}).of = {r} /\ Fresh({r}).at = {r}
  BY DEF Fresh
<1>2. (CHOOSE s \in {r} : TRUE) = r
  OBVIOUS
<1> QED
  BY <1>1, <1>2 DEF Table!Key, Table!Scope

LEMMA PlainMembers ==
  ASSUME NEW B, NEW t \in Plain(B)
  PROVE  \E r \in B : /\ t = Fresh({r}) /\ t.of = {r} /\ t.at = {r}
                      /\ Table!Key(t) = KeyOf[r] /\ Table!Scope(t) = ScopeOf[r]
<1>1. PICK r \in B : t = Fresh({r})
  BY DEF Plain
<1> QED
  BY <1>1, Singleton

LEMMA PlainType ==
  ASSUME NEW B, B \subseteq Rows
  PROVE  Plain(B) \subseteq Table!TargetRows
  BY DEF Plain, Fresh, Table!TargetRows

LEMMA FiniteBatch ==
  ASSUME NEW B, B \subseteq Rows
  PROVE  IsFiniteSet(B) /\ Cardinality(B) \in Nat
<1>1. IsFiniteSet(Rows)
  BY FormWriteAssumption
<1>2. IsFiniteSet(B)
  BY <1>1, FS_Subset
<1> QED
  BY <1>2, FS_CardinalityType

LEMMA PlainSize ==
  ASSUME NEW B, B \subseteq Rows
  PROVE  Cardinality(Plain(B)) = Cardinality(B)
<1> DEFINE f == [r \in B |-> Fresh({r})]
<1>1. f \in Bijection(B, Plain(B))
  <2>1. f \in [B -> Plain(B)]
    BY DEF Plain
  <2>2. \A r, s \in B : f[r] = f[s] => r = s
    <3> SUFFICES ASSUME NEW r \in B, NEW s \in B, f[r] = f[s] PROVE r = s
      OBVIOUS
    <3>1. Fresh({r}).of = Fresh({s}).of
      OBVIOUS
    <3> QED
      BY <3>1, Singleton
  <2>3. \A t \in Plain(B) : \E r \in B : f[r] = t
    BY DEF Plain
  <2> HIDE DEF f
  <2> QED
    BY <2>1, <2>2, <2>3 DEF Bijection, Injection, Surjection, IsInjective
<1>2. ExistsBijection(B, Plain(B))
  BY <1>1 DEF ExistsBijection
<1> QED
  BY <1>2, FiniteBatch, FS_Bijection

-----------------------------------------------------------------------------
\* Aggregation.

LEMMA AggregatedMembers ==
  ASSUME NEW B, NEW t \in Aggregated(B)
  PROVE  /\ t.of # {} /\ t = Fresh(t.of)
         /\ t.of = {r \in B : KeyOf[r] = Table!Key(t)}
<1>1. PICK r \in B : t = Fresh({s \in B : KeyOf[s] = KeyOf[r]})
  BY DEF Aggregated
<1>2. t.of = {s \in B : KeyOf[s] = KeyOf[r]}
  BY <1>1 DEF Fresh
<1>3. (CHOOSE s \in t.of : TRUE) \in t.of
  BY <1>2
<1>4. Table!Key(t) = KeyOf[r]
  BY <1>2, <1>3 DEF Table!Key
<1> QED
  BY <1>1, <1>2, <1>4

LEMMA AggregatedReplaces ==
  ASSUME NEW B
  PROVE  Table!Replaced(Aggregated(B), B)
<1>1. Table!Contents(Aggregated(B)) = Table!Records(B)
  <2>1. ASSUME NEW t \in Aggregated(B) PROVE t.of \in Table!Records(B)
    <3>1. PICK r \in B : t = Fresh({s \in B : KeyOf[s] = KeyOf[r]})
      BY DEF Aggregated
    <3>2. t.of = {s \in B : KeyOf[s] = KeyOf[r]}
      BY <3>1 DEF Fresh
    <3> QED
      BY <3>2 DEF Table!Records
  <2>2. ASSUME NEW r \in B
        PROVE  {s \in B : KeyOf[s] = KeyOf[r]} \in Table!Contents(Aggregated(B))
    <3> DEFINE R == {s \in B : KeyOf[s] = KeyOf[r]}
    <3>1. Fresh(R) \in Aggregated(B)
      BY DEF Aggregated
    <3> HIDE DEF R
    <3>2. Fresh(R).of = R
      BY DEF Fresh
    <3>3. R \in Table!Contents(Aggregated(B))
      BY <3>1, <3>2 DEF Table!Contents
    <3> QED
      BY <3>3 DEF R
  <2>3. Table!Contents(Aggregated(B)) \subseteq Table!Records(B)
    BY <2>1 DEF Table!Contents
  <2>4. Table!Records(B) \subseteq Table!Contents(Aggregated(B))
    BY <2>2 DEF Table!Records
  <2> QED
    BY <2>3, <2>4
<1>2. Table!KeysUnique(Aggregated(B))
  <2> SUFFICES ASSUME NEW t \in Aggregated(B), NEW u \in Aggregated(B),
                      Table!Key(t) = Table!Key(u)
               PROVE  t = u
    BY DEF Table!KeysUnique
  <2>1. /\ t.of = {r \in B : KeyOf[r] = Table!Key(t)}
        /\ u.of = {r \in B : KeyOf[r] = Table!Key(u)}
    BY AggregatedMembers
  <2>2. t = Fresh(t.of) /\ u = Fresh(u.of)
    BY AggregatedMembers
  <2> QED
    BY <2>1, <2>2
<1> QED
  BY <1>1, <1>2 DEF Table!Replaced

\* What the DELETE makes of a snapshot, pruned or not.
LEMMA StockedPrunes ==
  ASSUME NEW T, NEW B, Table!Replaced(T, B) \/ Table!Pruned(T, B)
  PROVE  Table!Pruned(Table!Stocked(T), B)
<1> DEFINE S == Table!Stocked(T)
<1>1. S \subseteq T
  BY DEF Table!Stocked
<1>2. Table!Contents(S) = Table!Contents(T) \ NoStock
  BY DEF Table!Contents, Table!Stocked
<1>3. Table!KeysUnique(S)
  BY <1>1 DEF Table!KeysUnique, Table!Replaced, Table!Pruned
<1>4. Table!Contents(S) = Table!Records(B) \ NoStock
  BY <1>2 DEF Table!Replaced, Table!Pruned
<1> QED
  BY <1>3, <1>4 DEF Table!Pruned

LEMMA AggregatedType ==
  ASSUME NEW B, B \subseteq Rows
  PROVE  Aggregated(B) \subseteq Table!TargetRows
  BY DEF Aggregated, Fresh, Table!TargetRows

LEMMA AggregatedFinite ==
  ASSUME NEW B, B \subseteq Rows
  PROVE  IsFiniteSet(Aggregated(B))
<1> DEFINE f == [r \in B |-> Fresh({s \in B : KeyOf[s] = KeyOf[r]})]
<1>1. f \in Surjection(B, Aggregated(B))
  BY DEF Surjection, Aggregated
<1> QED
  BY <1>1, FiniteBatch, FS_Surjection

LEMMA RowsToWriteType ==
  ASSUME NEW B, B \subseteq Rows
  PROVE  /\ RowsToWrite(B) \subseteq Table!TargetRows
         /\ Cardinality(RowsToWrite(B)) \in Nat
         /\ form # "whole" => Cardinality(RowsToWrite(B)) = Cardinality(B)
<1>1. CASE form = "whole"
  BY <1>1, AggregatedType, AggregatedFinite, FS_CardinalityType DEF RowsToWrite
<1>2. CASE form # "whole"
  BY <1>2, PlainType, PlainSize, FiniteBatch DEF RowsToWrite
<1> QED
  BY <1>1, <1>2

-----------------------------------------------------------------------------
\* The MERGE.

\* What a MERGE makes of one row of the target.
Updated(t, B) == IF Matches(t, B) = {} THEN t ELSE [t EXCEPT !.of = Matches(t, B)]

LEMMA MergedParts ==
  ASSUME NEW T, NEW B
  PROVE  Merged(T, B) = {Updated(t, B) : t \in T} \cup Plain(B \ Matched(T, B))
  BY DEF Merged, Updated

LEMMA MatchedRows ==
  ASSUME NEW T, NEW B
  PROVE  /\ \A t \in T : Matches(t, B) = {} <=> Table!Key(t) \notin Table!Keys(B)
         /\ \A r \in B : r \in Matched(T, B) <=> \E t \in T : Table!Key(t) = KeyOf[r]
  BY DEF Matches, Matched, Table!Keys

LEMMA UpdatedRow ==
  ASSUME NEW t \in Table!TargetRows, NEW B, B \subseteq Rows, Cardinality(Matches(t, B)) <= 1
  PROVE  /\ Updated(t, B) \in Table!TargetRows
         /\ Updated(t, B).at = t.at
         /\ Table!Key(Updated(t, B)) = Table!Key(t)
         /\ Table!Key(t) \notin Table!Keys(B) => Updated(t, B) = t
         /\ Table!Key(t) \in Table!Keys(B) => Updated(t, B).of \in Table!Singles(B)
         /\ \A r \in B : KeyOf[r] = Table!Key(t) => Updated(t, B).of = {r}
<1>1. CASE Matches(t, B) = {}
  <2>1. Updated(t, B) = t
    BY <1>1 DEF Updated
  <2>2. Table!Key(t) \notin Table!Keys(B) /\ \A r \in B : KeyOf[r] # Table!Key(t)
    BY <1>1 DEF Matches, Table!Keys
  <2> QED
    BY <2>1, <2>2
<1>2. CASE Matches(t, B) # {}
  <2>1. PICK r \in B : KeyOf[r] = Table!Key(t) /\ Matches(t, B) = {r}
    <3>1. Matches(t, B) \subseteq B
      BY DEF Matches
    <3>2. IsFiniteSet(Matches(t, B)) /\ Cardinality(Matches(t, B)) \in Nat
      BY <3>1, FiniteBatch
    <3>3. Cardinality(Matches(t, B)) # 0
      BY <1>2, <3>2, FS_EmptySet
    <3>4. Cardinality(Matches(t, B)) = 1
      BY <3>2, <3>3
    <3>5. PICK r : Matches(t, B) = {r}
      BY <3>2, <3>4, FS_Singleton
    <3> QED
      BY <3>5 DEF Matches
  <2>2. Updated(t, B) = [t EXCEPT !.of = {r}]
    BY <1>2, <2>1 DEF Updated
  <2>3. /\ Updated(t, B) \in Table!TargetRows
        /\ Updated(t, B).at = t.at /\ Updated(t, B).of = {r}
    BY <2>2 DEF Table!TargetRows
  <2>4. (CHOOSE s \in {r} : TRUE) = r
    OBVIOUS
  <2>5. Table!Key(Updated(t, B)) = Table!Key(t)
    BY <2>1, <2>3, <2>4 DEF Table!Key
  <2>6. \A s \in B : KeyOf[s] = Table!Key(t) => s = r
    BY <2>1 DEF Matches
  <2>7. Table!Key(t) \in Table!Keys(B) /\ {r} \in Table!Singles(B)
    BY <2>1 DEF Table!Keys, Table!Singles
  <2> QED
    BY <2>3, <2>5, <2>6, <2>7
<1> QED
  BY <1>1, <1>2

\* A MERGE that is not refused keeps every row, updates those whose keys it
\* sends and adds the others.
LEMMA MergedRows ==
  ASSUME NEW T, T \subseteq Table!TargetRows, NEW B, B \subseteq Rows,
         ~MergeRefused(T, B)
  PROVE  /\ Merged(T, B) \subseteq Table!TargetRows
         /\ \A t \in T : Updated(t, B) \in Merged(T, B)
         /\ \A r \in B : \E u \in Merged(T, B) : Table!Key(u) = KeyOf[r] /\ u.of = {r}
         /\ \A t \in T : Cardinality(Matches(t, B)) <= 1
<1>1. \A t \in T : Cardinality(Matches(t, B)) <= 1
  <2> SUFFICES ASSUME NEW t \in T PROVE Cardinality(Matches(t, B)) <= 1
    OBVIOUS
  <2>1. Matches(t, B) \subseteq Rows
    BY DEF Matches
  <2>2. Cardinality(Matches(t, B)) \in Nat
    BY <2>1, FiniteBatch
  <2>3. ~(Cardinality(Matches(t, B)) > 1)
    BY DEF MergeRefused
  <2> QED
    BY <2>2, <2>3
<1>2. \A t \in T : Updated(t, B) \in Merged(T, B)
  BY MergedParts
<1>3. \A r \in B : r \notin Matched(T, B) => Fresh({r}) \in Merged(T, B)
  BY MergedParts DEF Plain
<1>4. ASSUME NEW r \in B
      PROVE  \E u \in Merged(T, B) : Table!Key(u) = KeyOf[r] /\ u.of = {r}
  <2>1. CASE r \in Matched(T, B)
    <3>1. PICK t \in T : Table!Key(t) = KeyOf[r]
      BY <2>1, MatchedRows
    <3>2. Table!Key(Updated(t, B)) = KeyOf[r] /\ Updated(t, B).of = {r}
      BY <1>1, <3>1, UpdatedRow
    <3> QED
      BY <1>2, <3>2
  <2>2. CASE r \notin Matched(T, B)
    BY <1>3, <2>2, Singleton
  <2> QED
    BY <2>1, <2>2
<1>5. {Updated(t, B) : t \in T} \subseteq Table!TargetRows
  BY <1>1, UpdatedRow
<1>6. Plain(B \ Matched(T, B)) \subseteq Table!TargetRows
  BY PlainType
<1>7. Merged(T, B) \subseteq Table!TargetRows
  BY <1>5, <1>6, MergedParts
<1> QED
  BY <1>1, <1>2, <1>3, <1>4, <1>7

\* To the readers a MERGE is an upsert.
LEMMA MergeUpserts ==
  ASSUME NEW T, T \subseteq Table!TargetRows, batch \subseteq Rows,
         NEW B, B \subseteq batch, ~MergeRefused(T, B), ~Duplicates(batch)
  PROVE  Table!Upserted(T, Merged(T, B), B)
<1>0. B \subseteq Rows
  OBVIOUS
<1>1. /\ Merged(T, B) \subseteq Table!TargetRows
      /\ \A t \in T : Updated(t, B) \in Merged(T, B)
      /\ \A r \in B : \E u \in Merged(T, B) : Table!Key(u) = KeyOf[r] /\ u.of = {r}
      /\ \A t \in T : Cardinality(Matches(t, B)) <= 1
  BY <1>0, MergedRows
<1> DEFINE M == Merged(T, B)
<1>2. \A t \in T : Updated(t, B) \in M /\ Cardinality(Matches(t, B)) <= 1
  BY <1>1
<1>3. \A u \in M :
        \/ \E t \in T : u = Updated(t, B) /\ Table!Key(u) = Table!Key(t)
        \/ \E r \in B \ Matched(T, B) : u = Fresh({r}) /\ Table!Key(u) = KeyOf[r]
  <2>1. ASSUME NEW t \in T PROVE Table!Key(Updated(t, B)) = Table!Key(t)
    BY <1>0, <1>2, UpdatedRow
  <2>2. ASSUME NEW u \in Plain(B \ Matched(T, B))
        PROVE  \E r \in B \ Matched(T, B) : u = Fresh({r}) /\ Table!Key(u) = KeyOf[r]
    BY PlainMembers
  <2> QED
    BY <2>1, <2>2, MergedParts
<1> HIDE DEF M
<1>4. ASSUME Table!KeysUnique(T), NoKey \notin Table!Keys(batch),
             NEW u \in M, NEW v \in M, Table!Key(u) = Table!Key(v)
      PROVE  u = v
  <2>1. \A r, s \in B : KeyOf[r] = KeyOf[s] => r = s
    BY <1>4 DEF Duplicates
  <2>2. \A r \in B \ Matched(T, B), t \in T : Table!Key(t) # KeyOf[r]
    BY MatchedRows
  <2>3. CASE \E t \in T : u = Updated(t, B) /\ Table!Key(u) = Table!Key(t)
    <3>1. PICK t \in T : u = Updated(t, B) /\ Table!Key(u) = Table!Key(t)
      BY <2>3
    <3>2. PICK w \in T : v = Updated(w, B) /\ Table!Key(v) = Table!Key(w)
      BY <1>3, <1>4, <2>2, <3>1
    <3> QED
      BY <1>4, <3>1, <3>2 DEF Table!KeysUnique
  <2>4. CASE \E r \in B \ Matched(T, B) : u = Fresh({r}) /\ Table!Key(u) = KeyOf[r]
    <3>1. PICK r \in B \ Matched(T, B) : u = Fresh({r}) /\ Table!Key(u) = KeyOf[r]
      BY <2>4
    <3>2. PICK s \in B \ Matched(T, B) : v = Fresh({s}) /\ Table!Key(v) = KeyOf[s]
      BY <1>3, <1>4, <2>2, <3>1
    <3> QED
      BY <1>4, <2>1, <3>1, <3>2
  <2> QED
    BY <1>3, <2>3, <2>4
<1>5. {u \in M : Table!Key(u) \notin Table!Keys(B)} = {t \in T : Table!Key(t) \notin Table!Keys(B)}
  <2>1. ASSUME NEW t \in T, Table!Key(t) \notin Table!Keys(B) PROVE t \in M
    BY <1>0, <1>2, <2>1, UpdatedRow
  <2>2. ASSUME NEW u \in M, Table!Key(u) \notin Table!Keys(B) PROVE u \in T
    <3>1. ~ \E r \in B : Table!Key(u) = KeyOf[r]
      BY <2>2 DEF Table!Keys
    <3>2. PICK t \in T : u = Updated(t, B) /\ Table!Key(u) = Table!Key(t)
      BY <1>3, <3>1
    <3> QED
      BY <1>0, <1>2, <2>2, <3>2, UpdatedRow
  <2> QED
    BY <2>1, <2>2
<1>6. \A u \in M : Table!Key(u) \in Table!Keys(B) => u.of \in Table!Singles(B)
  <2> SUFFICES ASSUME NEW u \in M, Table!Key(u) \in Table!Keys(B)
               PROVE  u.of \in Table!Singles(B)
    OBVIOUS
  <2>1. CASE \E t \in T : u = Updated(t, B) /\ Table!Key(u) = Table!Key(t)
    BY <1>0, <1>2, <2>1, UpdatedRow
  <2>2. CASE \E r \in B \ Matched(T, B) : u = Fresh({r}) /\ Table!Key(u) = KeyOf[r]
    <3>1. PICK r \in B : u = Fresh({r})
      BY <2>2
    <3>2. u.of = {r}
      BY <3>1, Singleton
    <3> QED
      BY <3>2 DEF Table!Singles
  <2> QED
    BY <1>3, <2>1, <2>2
<1>7. Table!Keys(B) \subseteq {Table!Key(u) : u \in M}
  <2>1. \A r \in B : \E u \in M : Table!Key(u) = KeyOf[r] /\ u.of = {r}
    BY <1>1 DEF M
  <2> QED
    BY <2>1 DEF Table!Keys
<1>8. {t.at : t \in T} \subseteq {u.at : u \in M}
  BY <1>0, <1>2, UpdatedRow
<1>9. Table!KeysUnique(T) /\ NoKey \notin Table!Keys(batch) => Table!KeysUnique(M)
  BY <1>4 DEF Table!KeysUnique
<1>10. Table!Contents({u \in M : Table!Key(u) \in Table!Keys(B)}) \subseteq Table!Singles(B)
  BY <1>6 DEF Table!Contents
<1> QED
  BY <1>5, <1>7, <1>8, <1>9, <1>10 DEF Table!Upserted, M

\* The rows of a MERGE arrive, and those of earlier ones stay.
LEMMA MergeArrives ==
  ASSUME NEW T, T \subseteq Table!TargetRows, batch \subseteq Rows,
         NEW B, B \subseteq batch, NEW D, D \subseteq batch, D \cap B = {},
         ~MergeRefused(T, B), ~Duplicates(batch), Arrived(T, D)
  PROVE  Arrived(Merged(T, B), D \cup B)
<1> DEFINE M == Merged(T, B)
<1>0. B \subseteq Rows
  OBVIOUS
<1>1. \A t \in T : Updated(t, B) \in M /\ Cardinality(Matches(t, B)) <= 1
  BY <1>0, MergedRows
<1>2. \A r \in B : \E u \in M : Table!Key(u) = KeyOf[r] /\ u.of = {r}
  BY <1>0, MergedRows
<1> HIDE DEF M
<1>3. \A r \in D : \E u \in M : Table!Key(u) = KeyOf[r]
  <2> SUFFICES ASSUME NEW r \in D PROVE \E u \in M : Table!Key(u) = KeyOf[r]
    OBVIOUS
  <2>1. PICK t \in T : Table!Key(t) = KeyOf[r]
    BY DEF Arrived, Table!Keys
  <2>2. Table!Key(Updated(t, B)) = KeyOf[r]
    BY <1>0, <1>1, <2>1, UpdatedRow
  <2> QED
    BY <1>1, <2>2
<1>4. ASSUME NoKey \notin Table!Keys(batch), NEW r \in D
      PROVE  \E u \in M : u.of = {r}
  <2>1. PICK t \in T : t.of = {r}
    <3>1. {r} \in Table!Contents(T)
      BY <1>4 DEF Arrived, Table!Singles
    <3> QED
      BY <3>1 DEF Table!Contents
  <2>2. Table!Key(t) = KeyOf[r]
    <3>1. (CHOOSE q \in {r} : TRUE) = r
      OBVIOUS
    <3> QED
      BY <2>1, <3>1 DEF Table!Key
  <2>3. \A q \in B : KeyOf[q] # KeyOf[r]
    BY <1>4 DEF Duplicates
  <2>4. Table!Key(t) \notin Table!Keys(B)
    BY <2>2, <2>3 DEF Table!Keys
  <2>5. Updated(t, B) = t
    BY <1>0, <1>1, <2>4, UpdatedRow
  <2> QED
    BY <1>1, <2>1, <2>5
<1>5. Table!Keys(D \cup B) \subseteq {Table!Key(u) : u \in M}
  BY <1>2, <1>3 DEF Table!Keys
<1>6. NoKey \notin Table!Keys(batch) => Table!Singles(D \cup B) \subseteq Table!Contents(M)
  BY <1>2, <1>4 DEF Table!Singles, Table!Contents
<1> QED
  BY <1>5, <1>6 DEF Arrived, M

-----------------------------------------------------------------------------
\* Snapshots.

LEMMA PeriodsReplaced ==
  ASSUME NEW T, NEW B, NEW N,
         N = {t \in T : \A u \in Plain(B) : Table!Scope(u) # Table!Scope(t)} \cup Plain(B)
  PROVE  Table!ReplacedInScope(T, N, B) /\ Table!ReplacedInScope(N, N, B)
<1>1. \A t \in Plain(B) :
        Table!Scope(t) \in Table!Scopes(B) /\ t.of \in Table!Singles(B)
  BY PlainMembers DEF Table!Scopes, Table!Singles
<1>2. \A r \in B : /\ Fresh({r}) \in Plain(B) /\ Fresh({r}).of = {r}
                   /\ Table!Scope(Fresh({r})) = ScopeOf[r]
  BY Singleton DEF Plain
<1>3. \A t : (\A u \in Plain(B) : Table!Scope(u) # Table!Scope(t))
               <=> Table!Scope(t) \notin Table!Scopes(B)
  BY <1>1, <1>2 DEF Table!Scopes
<1>4. {t \in N : Table!Scope(t) \notin Table!Scopes(B)}
        = {t \in T : Table!Scope(t) \notin Table!Scopes(B)}
  BY <1>1, <1>3
<1>5. {t \in N : Table!Scope(t) \in Table!Scopes(B)} = Plain(B)
  BY <1>1, <1>3
<1>6. Table!Contents(Plain(B)) = Table!Singles(B)
  <2>1. Table!Contents(Plain(B)) \subseteq Table!Singles(B)
    BY <1>1 DEF Table!Contents
  <2>2. \A r \in B : {r} \in Table!Contents(Plain(B))
    BY <1>2 DEF Table!Contents
  <2>3. Table!Singles(B) \subseteq Table!Contents(Plain(B))
    BY <2>2 DEF Table!Singles
  <2> QED
    BY <2>1, <2>3
<1> QED
  BY <1>4, <1>5, <1>6 DEF Table!ReplacedInScope

-----------------------------------------------------------------------------
\* Types.

StatType == [status : Statuses, inserted : Nat, updated : Nat]
ResultType == [inserted : Nat, updated : Nat, err : BOOLEAN]

LEMMA Blanks ==
  /\ NoStat \in StatType /\ NoResult \in ResultType
  /\ [NoResult EXCEPT !.err = TRUE] \in ResultType /\ [NoResult EXCEPT !.err = TRUE].err
  /\ \A s : [NoStat EXCEPT !.status = s] = [status |-> s, inserted |-> 0, updated |-> 0]
<1>1. NoStat \in StatType /\ NoResult \in ResultType
  BY DEF StatType, ResultType, NoStat, NoResult, Statuses
<1>2. [NoResult EXCEPT !.err = TRUE] \in ResultType /\ [NoResult EXCEPT !.err = TRUE].err
  BY DEF NoResult, ResultType
<1>3. ASSUME NEW s
      PROVE  [NoStat EXCEPT !.status = s] = [status |-> s, inserted |-> 0, updated |-> 0]
  BY DEF NoStat
<1> QED
  BY <1>1, <1>2, <1>3

LEMMA InitType == Init => TypeOK
<1> SUFFICES ASSUME Init PROVE TypeOK
  OBVIOUS
<1>1. target \subseteq Table!TargetRows
  BY PlainType DEF Init
<1>2. NoStat \in StatType /\ NoResult \in ResultType
  BY Blanks
<1>3. round \in 0..MaxRounds /\ faults \in 0..MaxFaults /\ crashes \in 0..MaxCrashes
  BY FormWriteAssumption DEF Init
<1> QED
  BY <1>1, <1>2, <1>3 DEF Init, TypeOK, NoTable, Pcs, SyncTypes, StatType, ResultType

\* The form ends with a status: what Leave leaves has its types.
LEMMA EndType ==
  ASSUME NEW st \in StatType, Leave(st)
  PROVE  /\ pc' \in Pcs /\ loaded' \subseteq Table!TargetRows
         /\ todo' = {} /\ part' = {}
         /\ result' \in ResultType /\ stat' \in StatType
         /\ cancelled' \in BOOLEAN /\ late' \in BOOLEAN /\ fetchStopped' \in BOOLEAN
  BY Blanks DEF Leave, Goto, Pcs

LEMMA Endings ==
  /\ \A s \in Statuses : End(s) => \E st \in StatType : st.status = s /\ EndWith(st)
  /\ AsBudget \in Statuses \ {"success", "none"}
<1>1. AsBudget \in Statuses \ {"success", "none"}
  BY DEF AsBudget, Statuses
<1>2. ASSUME NEW s \in Statuses, End(s)
      PROVE  \E st \in StatType : st.status = s /\ EndWith(st)
  <2>1. [status |-> s, inserted |-> 0, updated |-> 0] \in StatType
    BY DEF StatType
  <2>2. EndWith([status |-> s, inserted |-> 0, updated |-> 0])
    BY <1>2, Blanks DEF End
  <2> QED
    BY <2>1, <2>2
<1> QED
  BY <1>1, <1>2

\* How the goroutine can end, for any property of its end.
TailMoves == tail' \in {tail, FALSE} \/ (form = "whole" /\ tail' = TRUE)
Ends == TailMoves /\ \E st \in StatType : Leave(st)

LEMMA EndWithEnds ==
  ASSUME NEW st \in StatType, EndWith(st)
  PROVE  Ends
  BY DEF EndWith, Ends, TailMoves

LEMMA CrashEnds == Crash => Ends
  BY Blanks DEF Crash, Ends, TailMoves

LEMMA EndsAll ==
  /\ \A s \in Statuses : End(s) => Ends
  /\ \A res \in ResultType : EndWith(Success(res)) => Ends
<1>1. \A s \in Statuses : End(s) => Ends
  BY Endings, EndWithEnds
<1>2. \A res \in ResultType : Success(res) \in StatType
  BY DEF ResultType, StatType, Success, Statuses
<1> QED
  BY <1>1, <1>2, EndWithEnds

LEMMA EndsType ==
  ASSUME tail \in BOOLEAN, Ends
  PROVE  /\ pc' \in Pcs /\ loaded' \subseteq Table!TargetRows
         /\ todo' = {} /\ part' = {} /\ tail' \in BOOLEAN
         /\ result' \in ResultType /\ stat' \in StatType
         /\ cancelled' \in BOOLEAN /\ late' \in BOOLEAN /\ fetchStopped' \in BOOLEAN
  BY EndType DEF Ends, TailMoves

LEMMA FaultType ==
  ASSUME faults \in 0..MaxFaults, Fault
  PROVE  faults' \in 0..MaxFaults /\ faults' = faults + 1 /\ faults \in Nat
  BY FormWriteAssumption DEF Fault

\* Every end of the goroutine is one of Ends.
LEMMA TheseEnd ==
  ASSUME TypeOK
  PROVE  /\ \A s \in Statuses : End(s) => Ends
         /\ FetchedEnds => Ends
         /\ Written => Ends
<1> USE EndsAll
<1>1. AsBudget \in Statuses
  BY Endings
<1>2. {"success", "failed", "stopped"} \subseteq Statuses
  BY DEF Statuses
<1>3. ASSUME FetchedEnds PROVE Ends
  <2>1. CASE EndWith(Success([inserted |-> Cardinality(batch), updated |-> 0]))
    <3>1. [inserted |-> Cardinality(batch), updated |-> 0] \in [inserted : Nat, updated : Nat]
      BY FiniteBatch DEF TypeOK
    <3>2. Success([inserted |-> Cardinality(batch), updated |-> 0]) \in StatType
      BY <3>1 DEF Success, StatType, Statuses
    <3> QED
      BY <2>1, <3>2, EndWithEnds
  <2> QED
    BY <1>1, <1>2, <1>3, <2>1 DEF FetchedEnds
<1>4. ASSUME Written PROVE Ends
  <2>1. result \in ResultType
    BY DEF TypeOK, ResultType
  <2> QED
    BY <1>1, <1>2, <1>4, <2>1 DEF Written
<1> QED
  BY <1>3, <1>4

\* What a MERGE and its counts do to the result.
LEMMA SubsetSize ==
  ASSUME NEW B, B \subseteq Rows, NEW C, C \subseteq B
  PROVE  /\ Cardinality(C) \in Nat /\ Cardinality(B) \in Nat
         /\ Cardinality(C) <= Cardinality(B)
         /\ Cardinality(B \ C) + Cardinality(C) = Cardinality(B)
<1>1. IsFiniteSet(B) /\ IsFiniteSet(C) /\ Cardinality(B) \in Nat /\ Cardinality(C) \in Nat
  BY FiniteBatch
<1>2. Cardinality(C) <= Cardinality(B)
  BY <1>1, FS_Subset
<1>3. Cardinality(B \ C) = Cardinality(B) - Cardinality(B \cap C)
  BY <1>1, FS_Difference
<1>4. B \cap C = C
  OBVIOUS
<1>5. Cardinality(B \ C) = Cardinality(B) - Cardinality(C)
  BY <1>3, <1>4
<1> QED
  BY <1>1, <1>2, <1>5

-----------------------------------------------------------------------------
\* What a failing call of the writer changes.

LEMMA CallFailsEffect ==
  ASSUME TypeOK, GoroutineInv, pc \in WriterCalls, WriterFails
  PROVE  /\ tx' = {} /\ UNCHANGED <<form, roundVars, dataVars, stat, tail, ctxVars, crashes>>
         /\ \/ pc = "count" /\ pc' = "begin" /\ UNCHANGED result
            \/ /\ pc = "recount" /\ pc' = IF todo = {} THEN "written" ELSE "direct"
               /\ result' = [result EXCEPT !.inserted = @ + Cardinality(part)]
            \/ /\ pc \notin {"count", "recount"} /\ result' \in ResultType /\ result'.err
               /\ pc' = IF pc = "direct" THEN "written" ELSE "drop"
<1>1. tx' = {} /\ UNCHANGED <<form, roundVars, dataVars, stat, tail, ctxVars, crashes>>
  BY DEF WriterFails, NoTable
<1>2. CASE pc = "count"
  BY <1>1, <1>2 DEF WriterFails, Goto
<1>3. CASE pc = "recount"
  BY <1>1, <1>3 DEF WriterFails, Goto, AfterPart
<1>4. CASE pc \notin {"count", "recount"}
  <2>1. result' = [NoResult EXCEPT !.err = TRUE]
    BY <1>4 DEF WriterFails
  <2>2. pc' = IF pc = "direct" THEN "written" ELSE "drop"
    BY <1>4 DEF WriterFails, Goto
  <2> QED
    BY <1>1, <1>4, <2>1, <2>2, Blanks
<1> QED
  BY <1>2, <1>3, <1>4

\* What it may have done to the tables.
LEMMA LeftoverEffect ==
  ASSUME TypeOK, pc \in WriterCalls, Leftover
  PROVE  \/ UNCHANGED <<staging, target>>
         \/ pc = "create" /\ staging' = staging \cup {round} /\ UNCHANGED target
         \/ pc = "commit" /\ target' = tx /\ UNCHANGED staging
         \/ /\ pc = "direct" /\ UNCHANGED staging
            /\ \E B \in SUBSET todo \ {{}} :
                 ~MergeRefused(target, B) /\ target' = Merged(target, B)
<1>1. CASE pc = "create"
  BY <1>1 DEF Leftover
<1>2. CASE pc = "commit"
  BY <1>2 DEF Leftover
<1>3. CASE pc = "direct"
  BY <1>3 DEF Leftover
<1>4. CASE pc \notin {"create", "commit", "direct"}
  BY <1>4 DEF Leftover
<1> QED
  BY <1>1, <1>2, <1>3, <1>4

LEMMA MergedType ==
  ASSUME target \subseteq Table!TargetRows, NEW B, B \subseteq Rows,
         ~MergeRefused(target, B)
  PROVE  Merged(target, B) \subseteq Table!TargetRows
  BY MergedRows

-----------------------------------------------------------------------------
\* Every step keeps the types.

LEMMA RoundStarted == TypeOK /\ GoroutineInv /\ pc # "idle" => round \in 1..MaxRounds
  BY FormWriteAssumption DEF TypeOK, GoroutineInv

CallFailing == (Fault \/ (CtxDone /\ UNCHANGED faults)) /\ WriterFails

LEMMA CallsFailing == CallFails \/ CallAborts => CallFailing
  BY DEF CallFails, CallAborts, CallFailing

\* The calls that go well and leave the tables alone.
LEMMA TypeStepRound ==
  ASSUME TypeOK, GoroutineInv,
         \/ StartRound \/ Preamble \/ FetchAnswers \/ FetchFails \/ FetchAborts
         \/ CheckFetched \/ Written
  PROVE  TypeOK'
<1> USE DEF StatType, ResultType
<1>0. CtxDone \in BOOLEAN /\ AsBudget \in Statuses /\ {"success", "failed", "stopped"} \subseteq Statuses
  BY Endings DEF TypeOK, CtxDone, Statuses
<1>1. CASE StartRound
  <2>1. round' \in 0..MaxRounds
    BY <1>1, FormWriteAssumption DEF StartRound, TypeOK
  <2>2. mode' \in SyncTypes
    BY <1>1, FormWriteAssumption DEF StartRound
  <2> QED
    BY <1>1, <2>1, <2>2, Blanks
       DEF StartRound, TypeOK, GoroutineInv, Early, Goto, Pcs, tableVars, ctxVars
<1>2. CASE FetchAnswers
  BY <1>2 DEF FetchAnswers, TypeOK, GoroutineInv, Early, Goto, Pcs, tableVars, roundVars,
              goroutineVars, ctxVars
<1>3. CASE Ends /\ UNCHANGED <<tableVars, roundVars, batch, crashes>> /\ faults' \in 0..MaxFaults
  BY <1>3, EndsType DEF TypeOK, tableVars, roundVars
<1>4. CASE Preamble
  <2>1. CASE Goto("fetch") /\ UNCHANGED <<goroutineVars, faults>>
    BY <1>4, <2>1 DEF Preamble, TypeOK, Goto, Pcs, tableVars, roundVars, goroutineVars, ctxVars
  <2>2. CASE End("stopped") /\ UNCHANGED faults
    BY <1>0, <1>3, <1>4, <2>2, TheseEnd DEF Preamble, TypeOK
  <2>3. CASE Fault /\ End("failed")
    BY <1>0, <1>3, <1>4, <2>3, TheseEnd, FaultType DEF Preamble, TypeOK
  <2> QED
    BY <1>4, <2>1, <2>2, <2>3 DEF Preamble
<1>5. CASE FetchFails
  <2>1. (IF CtxDone \/ fetchStopped THEN AsBudget ELSE "failed") \in Statuses
    BY <1>0
  <2>2. Ends
    BY <1>5, <2>1, TheseEnd DEF FetchFails
  <2> QED
    BY <1>3, <1>5, <2>2, FaultType DEF FetchFails, TypeOK
<1>6. CASE FetchAborts
  BY <1>0, <1>3, <1>6, TheseEnd DEF FetchAborts, TypeOK
<1>7. CASE CheckFetched
  <2>1. CASE FetchedEnds
    BY <1>3, <1>7, <2>1, TheseEnd DEF CheckFetched, TypeOK
  <2>2. CASE UNCHANGED goroutineVars /\ pc' \in {"truncate", "columns"}
    BY <1>7, <2>2 DEF CheckFetched, TypeOK, Pcs, tableVars, roundVars, goroutineVars, ctxVars
  <2> QED
    BY <1>7, <2>1, <2>2 DEF CheckFetched, Goto
<1>8. CASE Written
  BY <1>3, <1>8, TheseEnd DEF Written, TypeOK
<1> QED
  BY <1>1, <1>2, <1>4, <1>5, <1>6, <1>7, <1>8

LEMMA TypeStepWriter ==
  ASSUME TypeOK, GoroutineInv, LoadedInv, TxInv,
         \/ Truncate \/ Columns \/ CreateStaging \/ LoadStaging \/ CountExisting \/ BeginTx
         \/ DeleteOld \/ InsertNew \/ Merge \/ Commit \/ DropStaging
  PROVE  TypeOK'
<1>1. /\ target \subseteq Table!TargetRows /\ tx \subseteq Table!TargetRows
      /\ loaded \subseteq Table!TargetRows
      /\ batch \subseteq Rows /\ todo \subseteq batch /\ part \subseteq batch
      /\ result \in ResultType /\ round \in 0..MaxRounds /\ faults \in 0..MaxFaults
  BY DEF TypeOK, ResultType
<1>2. CASE Truncate
  <2>1. target' \subseteq Table!TargetRows
    BY <1>1, <1>2 DEF Truncate
  <2>2. CASE Goto("columns") /\ UNCHANGED <<goroutineVars, faults>>
    BY <1>2, <2>1, <2>2
       DEF Truncate, TypeOK, Goto, Pcs, roundVars, goroutineVars, ctxVars
  <2>3. CASE Fault /\ End("failed")
    <3>1. Ends /\ faults' \in 0..MaxFaults
      BY <1>1, <2>3, TheseEnd, FaultType DEF Statuses
    <3> QED
      BY <1>2, <2>1, <3>1, EndsType DEF Truncate, TypeOK, roundVars, ResultType, StatType
  <2> QED
    BY <1>2, <2>2, <2>3 DEF Truncate
<1>3. CASE Columns
  <2>1. result' \in ResultType /\ faults' \in 0..MaxFaults /\ todo' \subseteq batch
    BY <1>1, <1>3, Blanks, FaultType DEF Columns
  <2>2. pc' \in Pcs
    BY <1>3 DEF Columns, Goto, Pcs, WriterCalls
  <2> QED
    BY <1>3, <2>1, <2>2 DEF Columns, TypeOK, tableVars, roundVars, ctxVars, ResultType
<1>4. CASE CreateStaging
  <2>1. round \in 1..MaxRounds
    BY <1>4, RoundStarted DEF CreateStaging
  <2> QED
    BY <1>4, <2>1 DEF CreateStaging, TypeOK, Goto, Pcs, WriterCalls, writerRest, roundVars, ctxVars
<1>5. CASE LoadStaging
  <2>1. loaded' \subseteq Table!TargetRows
    BY <1>1, <1>5, RowsToWriteType DEF LoadStaging
  <2> QED
    BY <1>5, <2>1 DEF LoadStaging, TypeOK, Goto, Pcs, WriterCalls, writerRest, roundVars, ctxVars
<1>6. CASE CountExisting
  <2>1. Cardinality(Matched(target, batch)) \in Nat
    BY <1>1, SubsetSize DEF Matched
  <2>2. result' \in ResultType
    BY <1>1, <1>6, <2>1 DEF CountExisting, ResultType
  <2> QED
    BY <1>6, <2>2
       DEF CountExisting, TypeOK, Goto, Pcs, WriterCalls, writerRest, roundVars, ctxVars,
           ResultType
<1>7. CASE BeginTx
  BY <1>7 DEF BeginTx, TypeOK, Goto, Pcs, WriterCalls, writerRest, roundVars, ctxVars
<1>8. CASE DeleteOld
  BY <1>8 DEF DeleteOld, TypeOK, Goto, Pcs, WriterCalls, writerRest, roundVars, ctxVars
<1>9. CASE InsertNew
  <2>1. Cardinality(loaded) \in Nat
    BY <1>1, <1>9, RowsToWriteType DEF InsertNew, LoadedInv
  <2>2. result' \in ResultType
    BY <1>1, <1>9, <2>1 DEF InsertNew, ResultType
  <2> QED
    BY <1>9, <2>2
       DEF InsertNew, TypeOK, Goto, Pcs, WriterCalls, writerRest, roundVars, ctxVars,
           ResultType
<1>10. CASE Merge
  <2>1. form = "table" /\ tx = target /\ loaded = RowsToWrite(batch)
    BY <1>10 DEF Merge, GoroutineInv, LoadedInv, TxInv
  <2>2. tx' \subseteq Table!TargetRows
    BY <1>1, <1>10, <2>1, MergedType DEF Merge
  <2>3. Cardinality(loaded) \in Nat /\ result.updated <= Cardinality(loaded)
    BY <1>1, <1>10, <2>1, RowsToWriteType DEF Merge, LoadedInv
  <2>4. Cardinality(loaded) - result.updated \in Nat
    BY <1>1, <2>3 DEF ResultType
  <2>5. result' \in ResultType
    BY <1>1, <1>10, <2>4 DEF Merge, ResultType
  <2> QED
    BY <1>10, <2>2, <2>5
       DEF Merge, TypeOK, Goto, Pcs, WriterCalls, writerRest, roundVars, ctxVars, ResultType
<1>11. CASE Commit
  BY <1>11 DEF Commit, TypeOK, Goto, Pcs, WriterCalls, writerRest, roundVars, ctxVars, NoTable
<1>12. CASE DropStaging
  <2>1. faults' \in 0..MaxFaults /\ staging' \subseteq staging
    BY <1>1, <1>12, FaultType DEF DropStaging
  <2> QED
    BY <1>12, <2>1 DEF DropStaging, TypeOK, Goto, Pcs, roundVars, dataVars, ctxVars
<1> QED
  BY <1>2, <1>3, <1>4, <1>5, <1>6, <1>7, <1>8, <1>9, <1>10, <1>11, <1>12

\* A direct batch is counted in two parts.
LEMMA CountedParts ==
  ASSUME target \subseteq Table!TargetRows, part \subseteq Rows, result \in ResultType,
         NEW res,
         LET existing == {r \in Matched(target, part) : KeyOf[r] # NoKey} IN
         res = [result EXCEPT !.updated = @ + Cardinality(existing),
                              !.inserted = @ + Cardinality(part) - Cardinality(existing)]
  PROVE  res \in ResultType /\ res.err = result.err /\ Sum(res) = Sum(result) + Cardinality(part)
<1> DEFINE existing == {r \in Matched(target, part) : KeyOf[r] # NoKey}
           e == Cardinality(existing)
           p == Cardinality(part)
<1>1. e \in Nat /\ p \in Nat /\ e <= p
  <2>1. existing \subseteq part
    BY DEF Matched
  <2> QED
    BY <2>1, SubsetSize
<1>2. res = [result EXCEPT !.updated = @ + e, !.inserted = @ + p - e]
  OBVIOUS
<1> HIDE DEF e, p
<1>3. result.inserted \in Nat /\ result.updated \in Nat /\ result.err \in BOOLEAN
  BY DEF ResultType
<1>4. /\ res.updated = result.updated + e /\ res.inserted = result.inserted + p - e
      /\ res.err = result.err
  BY <1>2 DEF ResultType
<1>5. res \in ResultType
  <2>1. result.updated + e \in Nat /\ result.inserted + p - e \in Nat
    BY <1>1, <1>3
  <2> QED
    BY <1>2, <2>1 DEF ResultType
<1> QED
  BY <1>1, <1>3, <1>4, <1>5 DEF Sum, p

LEMMA TypeStepDirect ==
  ASSUME TypeOK, GoroutineInv, DirectMerge \/ DirectCount \/ MergeRefusedError
  PROVE  TypeOK'
<1>1. /\ target \subseteq Table!TargetRows
      /\ batch \subseteq Rows /\ todo \subseteq batch /\ part \subseteq batch
      /\ result \in ResultType
  BY DEF TypeOK, ResultType
<1>2. CASE DirectMerge
  <2>1. part' \subseteq todo /\ ~MergeRefused(target, part') /\ todo' = todo \ part'
    BY <1>2 DEF DirectMerge
  <2>2. target' \subseteq Table!TargetRows
    <3>1. target' = Merged(target, part')
      BY <1>2 DEF DirectMerge
    <3>2. part' \subseteq Rows
      BY <1>1, <2>1
    <3> QED
      BY <1>1, <2>1, <3>1, <3>2, MergedType
  <2> QED
    BY <1>2, <2>1, <2>2
       DEF DirectMerge, TypeOK, Goto, Pcs, WriterCalls, roundVars, ctxVars
<1>3. CASE DirectCount
  <2>1. result' \in ResultType
    BY <1>1, <1>3, CountedParts DEF DirectCount
  <2> QED
    BY <1>3, <2>1
       DEF DirectCount, TypeOK, AfterPart, Goto, Pcs, WriterCalls, writerRest, roundVars,
           ctxVars, ResultType
<1>4. CASE MergeRefusedError
  BY <1>4, Blanks
     DEF MergeRefusedError, TypeOK, Goto, Pcs, WriterCalls, roundVars, dataVars, ctxVars,
         NoTable, ResultType
<1> QED
  BY <1>2, <1>3, <1>4

LEMMA TypeStepFailing ==
  ASSUME TypeOK, GoroutineInv, pc \in WriterCalls, CallFailing
  PROVE  TypeOK'
<1>1. /\ target \subseteq Table!TargetRows /\ tx \subseteq Table!TargetRows
      /\ batch \subseteq Rows /\ todo \subseteq batch /\ part \subseteq batch
      /\ result \in ResultType /\ staging \subseteq 1..MaxRounds
  BY DEF TypeOK, ResultType
<1>2. faults' \in 0..MaxFaults
  BY FaultType DEF CallFailing, TypeOK
<1>3. result' \in ResultType /\ pc' \in Pcs
  <2>1. Cardinality(part) \in Nat
    BY <1>1, FiniteBatch
  <2>2. [result EXCEPT !.inserted = @ + Cardinality(part)] \in ResultType
    BY <1>1, <2>1 DEF ResultType
  <2> QED
    BY <1>1, <2>2, CallFailsEffect DEF CallFailing, Pcs, WriterCalls
<1>4. staging' \subseteq 1..MaxRounds /\ target' \subseteq Table!TargetRows
  <2>1. pc = "create" => round \in 1..MaxRounds
    BY RoundStarted
  <2>2. \A B \in SUBSET todo :
          ~MergeRefused(target, B) => Merged(target, B) \subseteq Table!TargetRows
    BY <1>1, MergedType
  <2>3. Leftover
    BY DEF CallFailing, WriterFails
  <2> QED
    BY <1>1, <2>1, <2>2, <2>3, LeftoverEffect
<1> QED
  BY <1>2, <1>3, <1>4, CallFailsEffect
     DEF CallFailing, TypeOK, roundVars, dataVars, ctxVars, ResultType

\* The DELETE of an earlier run touches a snapshot table only, and nothing of
\* the goroutine.
LEMMA PruneEffect ==
  ASSUME TypeOK, TailInv, PruneStock
  PROVE  /\ form = "whole" /\ target' \in {target, Table!Stocked(target)}
         /\ target' \subseteq target
         /\ pc \notin {"insert", "commit"} /\ tx' = IF pc = "delete" THEN target' ELSE tx
         /\ faults' \in {faults, faults + 1} /\ faults' \in 0..MaxFaults
         /\ UNCHANGED <<form, staging, pc, roundVars, dataVars, result, stat, ctxVars,
                        crashes>>
<1>1. Table!Stocked(target) \subseteq target
  BY DEF Table!Stocked
<1>2. faults' \in {faults, faults + 1} /\ faults' \in 0..MaxFaults
  BY FaultType DEF PruneStock, TypeOK
<1> QED
  BY <1>1, <1>2 DEF PruneStock, TailInv

LEMMA TypeStepPrune ==
  ASSUME TypeOK, TailInv, PruneStock
  PROVE  TypeOK'
<1>1. tail' \in BOOLEAN
  BY DEF PruneStock
<1> QED
  BY <1>1, PruneEffect DEF TypeOK, roundVars, dataVars, ctxVars

LEMMA TypeStepEnvironment ==
  ASSUME TypeOK, Cancel \/ StopFetch \/ BudgetRunsOut \/ Crash
  PROVE  TypeOK'
<1>1. CASE Cancel \/ StopFetch \/ BudgetRunsOut
  BY <1>1 DEF Cancel, StopFetch, BudgetRunsOut, TypeOK, envRest, tableVars, roundVars, dataVars
<1>2. CASE Crash
  <2>1. Ends
    BY <1>2, CrashEnds
  <2>2. crashes' \in 0..MaxCrashes
    BY <1>2, FormWriteAssumption DEF Crash, TypeOK
  <2> QED
    BY <1>2, <2>1, <2>2, EndsType DEF Crash, TypeOK, NoTable, roundVars, ResultType, StatType
<1> QED
  BY <1>1, <1>2

-----------------------------------------------------------------------------
\* The goroutine's own data.

LEMMA EndsIdle ==
  ASSUME Ends
  PROVE  pc' = "idle" /\ todo' = {} /\ part' = {} /\ result' = NoResult
  BY DEF Ends, Leave, Goto

LEMMA EndsGoroutine == Ends => GoroutineInv'
  BY EndsIdle DEF GoroutineInv, Early, Staged, WriterCalls

LEMMA RefusedStays ==
  ASSUME UNCHANGED <<form, batch>>
  PROVE  Refused' <=> Refused
  BY DEF Refused, Duplicates, Table!Scopes, Table!Keys

LEMMA GoroutineStepRound ==
  ASSUME TypeOK, GoroutineInv,
         \/ StartRound \/ Preamble \/ FetchAnswers \/ FetchFails \/ FetchAborts
         \/ CheckFetched \/ Written \/ Truncate
  PROVE  GoroutineInv'
<1>0. /\ AsBudget \in Statuses
      /\ \A s \in {"success", "failed", "stopped"} : s \in Statuses
  BY Endings DEF Statuses
<1>1. CASE Ends
  BY <1>1, EndsGoroutine
<1>2. CASE StartRound
  <2>1. round' # 0
    BY <1>2 DEF StartRound, TypeOK
  <2> QED
    BY <1>2, <2>1 DEF StartRound, GoroutineInv, Early, Staged, WriterCalls, Goto
<1>3. CASE Preamble
  BY <1>0, <1>1, <1>3, TheseEnd
     DEF Preamble, GoroutineInv, Early, Staged, WriterCalls, Goto, goroutineVars, roundVars
<1>4. CASE FetchAnswers
  BY <1>4 DEF FetchAnswers, GoroutineInv, Early, Staged, WriterCalls, Goto, goroutineVars,
              roundVars
<1>5. CASE FetchFails
  <2>1. (IF CtxDone \/ fetchStopped THEN AsBudget ELSE "failed") \in Statuses
    BY <1>0
  <2> QED
    BY <1>1, <1>5, <2>1, TheseEnd DEF FetchFails
<1>6. CASE FetchAborts
  BY <1>0, <1>1, <1>6, TheseEnd DEF FetchAborts
<1>7. CASE CheckFetched
  BY <1>1, <1>7, TheseEnd
     DEF CheckFetched, GoroutineInv, Early, Staged, WriterCalls, Goto, goroutineVars,
         roundVars, tableVars
<1>8. CASE Written
  BY <1>1, <1>8, TheseEnd
<1>9. CASE Truncate
  BY <1>0, <1>1, <1>9, TheseEnd
     DEF Truncate, GoroutineInv, Early, Staged, WriterCalls, Goto, goroutineVars, roundVars
<1> QED
  BY <1>2, <1>3, <1>4, <1>5, <1>6, <1>7, <1>8, <1>9

LEMMA GoroutineStepWriter ==
  ASSUME TypeOK, GoroutineInv,
         \/ Columns \/ CreateStaging \/ LoadStaging \/ CountExisting \/ BeginTx
         \/ DeleteOld \/ InsertNew \/ Merge \/ Commit \/ DropStaging
  PROVE  GoroutineInv'
<1> USE DEF GoroutineInv, Early, Staged, WriterCalls, Goto, writerRest, roundVars, dataVars,
            tableVars, ctxVars
<1>0. UNCHANGED <<form, batch>> => (Refused' <=> Refused)
  BY RefusedStays
<1>1. result \in ResultType
  BY DEF TypeOK, ResultType
<1>2. CASE Columns
  BY <1>0, <1>2 DEF Columns, NoResult
<1>3. CASE CreateStaging
  BY <1>0, <1>3 DEF CreateStaging
<1>4. CASE LoadStaging
  BY <1>0, <1>4 DEF LoadStaging
<1>5. CASE CountExisting
  <2>1. result'.err = result.err
    BY <1>1, <1>5 DEF CountExisting, ResultType
  <2> QED
    BY <1>0, <1>5, <2>1 DEF CountExisting
<1>6. CASE BeginTx
  BY <1>0, <1>6 DEF BeginTx
<1>7. CASE DeleteOld
  BY <1>0, <1>7 DEF DeleteOld
<1>8. CASE InsertNew
  <2>1. result'.err = result.err
    BY <1>1, <1>8 DEF InsertNew, ResultType
  <2> QED
    BY <1>0, <1>8, <2>1 DEF InsertNew
<1>9. CASE Merge
  <2>1. result'.err = result.err
    BY <1>1, <1>9 DEF Merge, ResultType
  <2> QED
    BY <1>0, <1>9, <2>1 DEF Merge
<1>10. CASE Commit
  BY <1>0, <1>10 DEF Commit
<1>11. CASE DropStaging
  BY <1>0, <1>11 DEF DropStaging
<1> QED
  BY <1>2, <1>3, <1>4, <1>5, <1>6, <1>7, <1>8, <1>9, <1>10, <1>11

LEMMA GoroutineStepDirect ==
  ASSUME TypeOK, GoroutineInv,
         \/ DirectMerge \/ DirectCount \/ MergeRefusedError
         \/ (pc \in WriterCalls /\ CallFailing)
         \/ Cancel \/ StopFetch \/ BudgetRunsOut \/ Crash
  PROVE  GoroutineInv'
<1>0. UNCHANGED <<form, batch>> => (Refused' <=> Refused)
  BY RefusedStays
<1>1. result \in ResultType
  BY DEF TypeOK, ResultType
<1>2. CASE DirectMerge
  BY <1>0, <1>2 DEF DirectMerge, GoroutineInv, Early, Staged, WriterCalls, Goto, roundVars
<1>3. CASE DirectCount
  <2>1. result'.err = result.err
    BY <1>1, <1>3, CountedParts DEF DirectCount, TypeOK
  <2> QED
    BY <1>0, <1>3, <2>1
       DEF DirectCount, AfterPart, GoroutineInv, Early, Staged, WriterCalls, Goto,
           writerRest, roundVars
<1>4. CASE MergeRefusedError
  BY <1>0, <1>4
     DEF MergeRefusedError, GoroutineInv, Early, Staged, WriterCalls, Goto, roundVars, dataVars
<1>5. CASE pc \in WriterCalls /\ CallFailing
  <2>1. WriterFails
    BY <1>5 DEF CallFailing
  <2>2. pc = "recount" /\ result' = [result EXCEPT !.inserted = @ + Cardinality(part)]
          => result'.err = result.err
    BY <1>1 DEF ResultType
  <2> QED
    BY <1>0, <1>5, <2>1, <2>2, CallFailsEffect
       DEF GoroutineInv, Early, Staged, WriterCalls, roundVars, dataVars
<1>6. CASE Cancel \/ StopFetch \/ BudgetRunsOut
  BY <1>0, <1>6
     DEF Cancel, StopFetch, BudgetRunsOut, GoroutineInv, envRest, tableVars, roundVars,
         dataVars
<1>7. CASE Crash
  BY <1>7, CrashEnds, EndsGoroutine
<1> QED
  BY <1>2, <1>3, <1>4, <1>5, <1>6, <1>7

LEMMA GoroutineStepPrune ==
  ASSUME TypeOK, TailInv, GoroutineInv, PruneStock
  PROVE  GoroutineInv'
<1>1. UNCHANGED <<form, pc, roundVars, dataVars, result, stat>>
  BY PruneEffect
<1>2. Refused' <=> Refused
  BY <1>1, RefusedStays DEF dataVars
<1> QED
  BY <1>1, <1>2 DEF GoroutineInv, roundVars, dataVars

-----------------------------------------------------------------------------
\* Steps outside the writer, and steps that only touch the contexts.

RoundStep ==
  \/ StartRound \/ Preamble \/ FetchAnswers \/ FetchFails \/ FetchAborts
  \/ CheckFetched \/ Written \/ Truncate \/ Crash
ContextStep == Cancel \/ StopFetch \/ BudgetRunsOut
FailingStep == pc \in WriterCalls /\ CallFailing

LEMMA NextSteps ==
  [Next]_vars =>
    \/ RoundStep \/ ContextStep \/ FailingStep
    \/ Columns \/ CreateStaging \/ LoadStaging \/ CountExisting \/ BeginTx \/ DeleteOld
    \/ InsertNew \/ Merge \/ Commit \/ DirectMerge \/ DirectCount \/ MergeRefusedError
    \/ DropStaging \/ PruneStock \/ UNCHANGED vars
<1>1. CallFails \/ CallAborts => FailingStep
  BY CallsFailing DEF FailingStep, CallFailing, WriterFails
<1> QED
  BY <1>1 DEF Next, RoundStep, ContextStep

LEMMA RoundStepEnds ==
  ASSUME TypeOK, RoundStep
  PROVE  pc' \in Early
<1>0. /\ AsBudget \in Statuses
      /\ \A s \in {"success", "failed", "stopped"} : s \in Statuses
  BY Endings DEF Statuses
<1>1. Ends => pc' \in Early
  BY EndsIdle DEF Early
<1>2. CASE StartRound \/ FetchAnswers
  BY <1>2 DEF StartRound, FetchAnswers, Goto, Early
<1>3. CASE Preamble
  BY <1>0, <1>1, <1>3, TheseEnd DEF Preamble, Goto, Early
<1>4. CASE FetchFails
  <2>1. (IF CtxDone \/ fetchStopped THEN AsBudget ELSE "failed") \in Statuses
    BY <1>0
  <2> QED
    BY <1>1, <1>4, <2>1, TheseEnd DEF FetchFails
<1>5. CASE FetchAborts
  BY <1>0, <1>1, <1>5, TheseEnd DEF FetchAborts
<1>6. CASE CheckFetched
  BY <1>1, <1>6, TheseEnd DEF CheckFetched, Goto, Early
<1>7. CASE Written
  BY <1>1, <1>7, TheseEnd
<1>8. CASE Truncate
  BY <1>0, <1>1, <1>8, TheseEnd DEF Truncate, Goto, Early
<1>9. CASE Crash
  BY <1>1, <1>9, CrashEnds
<1> QED
  BY <1>2, <1>3, <1>4, <1>5, <1>6, <1>7, <1>8, <1>9 DEF RoundStep

LEMMA ContextStepKeeps ==
  ASSUME ContextStep
  PROVE  UNCHANGED <<tableVars, pc, roundVars, dataVars, result, stat, tail, faults, crashes>>
  BY DEF ContextStep, Cancel, StopFetch, BudgetRunsOut, envRest

LEMMA RowsToWriteStays ==
  ASSUME UNCHANGED <<form, batch>>
  PROVE  RowsToWrite(batch)' = RowsToWrite(batch)
  BY DEF RowsToWrite, Aggregated, Plain, Fresh

\* A failing call goes on only after a count.
LEMMA FailingGoes ==
  ASSUME TypeOK, GoroutineInv, FailingStep
  PROVE  /\ pc' \in {"begin", "direct", "drop", "written"}
         /\ pc' = "begin" => pc = "count" /\ UNCHANGED result
         /\ pc' = "direct" => pc = "recount"
         /\ pc' \in {"drop", "written"} => pc = "recount" \/ result'.err
         /\ UNCHANGED <<form, batch, loaded, todo, part, stat, round, dry, crashes>>
<1>1. pc \in WriterCalls /\ WriterFails
  BY DEF FailingStep, CallFailing
<1> QED
  BY <1>1, CallFailsEffect DEF dataVars, roundVars

-----------------------------------------------------------------------------
\* The rows loaded and the counts of the staging path.

LEMMA LoadedStep ==
  ASSUME TypeOK, TailInv, GoroutineInv, LoadedInv, [Next]_vars
  PROVE  LoadedInv'
<1> USE DEF LoadedInv, Goto, writerRest
<1>0. /\ UNCHANGED <<form, batch>> => RowsToWrite(batch)' = RowsToWrite(batch)
      /\ result \in ResultType /\ Cardinality(batch) \in Nat /\ batch \subseteq Rows
  BY RowsToWriteStays, FiniteBatch DEF TypeOK, ResultType
<1>1. pc' \notin {"count", "begin", "delete", "insert", "merge", "commit"} => LoadedInv'
  OBVIOUS
<1>2. CASE RoundStep
  BY <1>1, <1>2, RoundStepEnds DEF Early
<1>3. CASE ContextStep \/ UNCHANGED vars
  BY <1>0, <1>3, ContextStepKeeps DEF vars, tableVars, dataVars
<1>4. CASE FailingStep
  BY <1>0, <1>1, <1>4, FailingGoes DEF GoroutineInv, NoResult
<1>5. CASE Columns \/ CreateStaging \/ Commit \/ DropStaging \/ DirectMerge \/ DirectCount
           \/ MergeRefusedError
  BY <1>1, <1>5
     DEF Columns, CreateStaging, Commit, DropStaging, DirectMerge, DirectCount, AfterPart,
         MergeRefusedError
<1>6. CASE LoadStaging
  BY <1>0, <1>6 DEF LoadStaging, GoroutineInv, NoResult
<1>7. CASE CountExisting
  <2>1. Matched(target, batch) \subseteq batch
    BY DEF Matched
  <2>2. Cardinality(Matched(target, batch)) <= Cardinality(batch)
    BY <1>0, <2>1, SubsetSize
  <2>3. /\ result'.inserted = result.inserted
        /\ result'.updated = Cardinality(Matched(target, batch))
    BY <1>0, <1>7 DEF CountExisting, ResultType
  <2> QED
    BY <1>0, <1>7, <2>2, <2>3 DEF CountExisting, GoroutineInv, NoResult
<1>8. CASE BeginTx
  BY <1>0, <1>8 DEF BeginTx
<1>9. CASE DeleteOld
  BY <1>0, <1>9 DEF DeleteOld
<1>10. CASE InsertNew
  BY <1>0, <1>10 DEF InsertNew
<1>11. CASE Merge
  BY <1>0, <1>11 DEF Merge
<1>12. CASE PruneStock
  BY <1>0, <1>12, PruneEffect DEF dataVars
<1> QED
  BY <1>2, <1>3, <1>4, <1>5, <1>6, <1>7, <1>8, <1>9, <1>10, <1>11, <1>12, NextSteps

-----------------------------------------------------------------------------
\* The transaction.

LEMMA KeptStays ==
  ASSUME UNCHANGED <<form, target, loaded, batch>>
  PROVE  Kept' = Kept /\ Complete' = Complete
         /\ MergeRefused(target, batch)' = MergeRefused(target, batch)
<1>1. Kept' = Kept
  BY DEF Kept, Table!Scope
<1>2. Merged(target, batch)' = Merged(target, batch)
  BY DEF Merged, Matches, Matched, Plain, Fresh, Table!Key
<1>3. MergeRefused(target, batch)' = MergeRefused(target, batch)
  BY DEF MergeRefused, Matches, Table!Key
<1> QED
  BY <1>1, <1>2, <1>3 DEF Complete

LEMMA TxStep ==
  ASSUME TypeOK, TailInv, GoroutineInv, LoadedInv, TxInv, [Next]_vars
  PROVE  TxInv'
<1> USE DEF Goto, writerRest
<1>0. /\ UNCHANGED <<form, batch>> => RowsToWrite(batch)' = RowsToWrite(batch)
      /\ UNCHANGED <<form, target, loaded, batch>> =>
           /\ Kept' = Kept /\ Complete' = Complete
           /\ MergeRefused(target, batch)' = MergeRefused(target, batch)
      /\ result \in ResultType /\ batch \subseteq Rows
  BY RowsToWriteStays, KeptStays DEF TypeOK, ResultType
<1>1. pc' \notin {"delete", "insert", "merge", "commit"} => TxInv'
  BY DEF TxInv
<1>2. CASE RoundStep
  BY <1>1, <1>2, RoundStepEnds DEF Early
<1>3. CASE ContextStep \/ UNCHANGED vars
  BY <1>0, <1>3, ContextStepKeeps DEF vars, tableVars, dataVars, TxInv, Sum
<1>4. CASE FailingStep
  BY <1>1, <1>4, FailingGoes
<1>5. CASE Columns \/ CreateStaging \/ LoadStaging \/ CountExisting \/ Commit \/ DropStaging
           \/ DirectMerge \/ DirectCount \/ MergeRefusedError
  BY <1>1, <1>5
     DEF Columns, CreateStaging, LoadStaging, CountExisting, Commit, DropStaging,
         DirectMerge, DirectCount, AfterPart, MergeRefusedError
<1>6. CASE BeginTx
  BY <1>6 DEF BeginTx, TxInv
<1>7. CASE DeleteOld
  <2>1. tx' = Kept /\ pc' = "insert"
    BY <1>7 DEF DeleteOld, TxInv, Kept
  <2> QED
    BY <1>0, <1>7, <2>1 DEF DeleteOld, TxInv
<1>8. CASE InsertNew
  <2>1. form # "table" /\ tx = Kept /\ loaded = RowsToWrite(batch)
        /\ result.inserted = 0 /\ result.updated = 0
    BY <1>8 DEF InsertNew, GoroutineInv, LoadedInv, TxInv
  <2>2. tx' = Complete /\ pc' = "commit" /\ UNCHANGED <<form, target, loaded, batch>>
    BY <1>8, <2>1 DEF InsertNew, Complete
  <2>3. result'.inserted = Cardinality(loaded) /\ result'.updated = 0
    BY <1>0, <1>8, <2>1 DEF InsertNew, ResultType
  <2>4. Cardinality(RowsToWrite(batch)) \in Nat
    BY <1>0, RowsToWriteType
  <2> QED
    BY <1>0, <2>1, <2>2, <2>3, <2>4 DEF TxInv, Sum
<1>9. CASE Merge
  <2>1. form = "table" /\ tx = target /\ loaded = RowsToWrite(batch)
    BY <1>9 DEF Merge, GoroutineInv, LoadedInv, TxInv
  <2>2. tx' = Complete /\ pc' = "commit" /\ UNCHANGED <<form, target, loaded, batch>>
        /\ ~MergeRefused(target, batch)
    BY <1>9, <2>1 DEF Merge, Complete
  <2>3. /\ result'.inserted = Cardinality(loaded) - result.updated
        /\ result'.updated = result.updated /\ result.updated \in Nat
    BY <1>0, <1>9 DEF Merge, ResultType
  <2>4. Cardinality(RowsToWrite(batch)) \in Nat
    BY <1>0, RowsToWriteType
  <2> QED
    BY <1>0, <2>1, <2>2, <2>3, <2>4 DEF TxInv, Sum
<1>10. CASE PruneStock
  <2>1. form = "whole" /\ pc \notin {"insert", "commit"} /\ UNCHANGED pc
        /\ tx' = IF pc = "delete" THEN target' ELSE tx
    BY <1>10, PruneEffect
  <2>2. pc # "merge"
    BY <2>1 DEF GoroutineInv
  <2> QED
    BY <2>1, <2>2 DEF TxInv
<1> QED
  BY <1>2, <1>3, <1>4, <1>5, <1>6, <1>7, <1>8, <1>9, <1>10, NextSteps

-----------------------------------------------------------------------------
\* Direct batches.

LEMMA TableBatch ==
  ASSUME TypeOK, GoroutineInv, pc \in WriterCalls, form = "table"
  PROVE  ~Duplicates(batch) /\ Cardinality(RowsToWrite(batch)) = Cardinality(batch)
  BY RowsToWriteType DEF GoroutineInv, Refused, TypeOK

LEMMA ArrivedStays ==
  ASSUME UNCHANGED <<target, batch, todo>>
  PROVE  Arrived(target, batch \ todo)' <=> Arrived(target, batch \ todo)
  BY DEF Arrived, Table!Keys, Table!Singles, Table!Contents, Table!Key

LEMMA DirectStep ==
  ASSUME TypeOK, TailInv, GoroutineInv, DirectInv, [Next]_vars
  PROVE  DirectInv'
<1> USE DEF Goto, writerRest
<1>0. /\ UNCHANGED <<target, batch, todo>> =>
           (Arrived(target, batch \ todo)' <=> Arrived(target, batch \ todo))
      /\ result \in ResultType /\ batch \subseteq Rows
      /\ todo \subseteq batch /\ part \subseteq batch
  BY ArrivedStays DEF TypeOK, ResultType
<1>1. pc' \notin {"direct", "recount"} => DirectInv'
  BY DEF DirectInv
<1>2. CASE RoundStep
  BY <1>1, <1>2, RoundStepEnds DEF Early
<1>3. CASE ContextStep \/ UNCHANGED vars
  BY <1>0, <1>3, ContextStepKeeps DEF vars, tableVars, dataVars, DirectInv, Sum
<1>4. CASE FailingStep
  <2>1. CASE pc' = "direct"
    <3>1. pc = "recount" /\ result' = [result EXCEPT !.inserted = @ + Cardinality(part)]
      BY <1>4, <2>1, CallFailsEffect, FailingGoes DEF FailingStep, CallFailing
    <3>2. UNCHANGED <<target, batch, todo>>
      BY <1>4, <3>1, FailingGoes, LeftoverEffect
         DEF FailingStep, CallFailing, WriterFails
    <3>3. Cardinality(part) \in Nat /\ Cardinality(todo) \in Nat
      BY <1>0, FiniteBatch
    <3>4. Sum(result') = Sum(result) + Cardinality(part)
      BY <1>0, <3>1, <3>3 DEF Sum, ResultType
    <3>5. Sum(result) \in Nat
      BY <1>0 DEF Sum, ResultType
    <3> QED
      BY <1>0, <2>1, <3>1, <3>2, <3>3, <3>4, <3>5 DEF DirectInv
  <2>2. CASE pc' # "direct"
    BY <1>1, <1>4, <2>2, FailingGoes
  <2> QED
    BY <2>1, <2>2
<1>5. CASE Columns
  <2>1. CASE pc' = "direct"
    <3>1. /\ todo' = batch /\ batch' = batch /\ UNCHANGED result /\ result = NoResult
      BY <1>5, <2>1 DEF Columns, GoroutineInv, Early
    <3>2. (batch \ todo)' = {}
      BY <3>1
    <3>3. Arrived(target, batch \ todo)'
      BY <3>2 DEF Arrived, Table!Keys, Table!Singles
    <3>4. Cardinality(batch) \in Nat
      BY <1>0, FiniteBatch
    <3> QED
      BY <2>1, <3>1, <3>3, <3>4 DEF DirectInv, Sum, NoResult
  <2>2. CASE pc' # "direct"
    BY <1>1, <1>5, <2>2 DEF Columns
  <2> QED
    BY <2>1, <2>2
<1>6. CASE DirectMerge
  <2>1. /\ pc = "direct" /\ pc' = "recount" /\ part' \subseteq todo /\ todo' = todo \ part'
        /\ ~MergeRefused(target, part') /\ target' = Merged(target, part')
        /\ UNCHANGED <<batch, result>>
    BY <1>6 DEF DirectMerge
  <2>2. Arrived(Merged(target, part'), (batch \ todo) \cup part')
    <3>1. ~Duplicates(batch)
      BY <2>1, TableBatch DEF GoroutineInv, WriterCalls
    <3>2. Arrived(target, batch \ todo)
      BY <2>1 DEF DirectInv
    <3>3. /\ target \subseteq Table!TargetRows /\ part' \subseteq batch
          /\ batch \ todo \subseteq batch /\ (batch \ todo) \cap part' = {}
      BY <1>0, <2>1 DEF TypeOK
    <3> QED
      BY <1>0, <2>1, <3>1, <3>2, <3>3, MergeArrives
  <2>3. (batch \ todo) \cup part' = batch' \ todo'
    BY <1>0, <2>1
  <2>4. Arrived(target, batch \ todo)'
    BY <2>1, <2>2, <2>3
       DEF Arrived, Table!Keys, Table!Singles, Table!Contents, Table!Key
  <2>5. Cardinality(todo') + Cardinality(part') = Cardinality(todo)
    BY <1>0, <2>1, SubsetSize
  <2>6. Cardinality(todo') \in Nat /\ Cardinality(part') \in Nat /\ Cardinality(todo) \in Nat
    BY <1>0, <2>1, FiniteBatch
  <2>7. Sum(result) \in Nat /\ Sum(result)' = Sum(result)
    BY <1>0, <2>1 DEF Sum, ResultType
  <2> QED
    BY <2>1, <2>4, <2>5, <2>6, <2>7 DEF DirectInv
<1>7. CASE DirectCount
  <2>1. /\ pc = "recount" /\ pc' = IF todo = {} THEN "written" ELSE "direct"
        /\ UNCHANGED <<target, batch, todo, part>>
    BY <1>7 DEF DirectCount, AfterPart
  <2>2. Sum(result') = Sum(result) + Cardinality(part)
    BY <1>0, <1>7, CountedParts DEF DirectCount, TypeOK
  <2>3. Cardinality(part) \in Nat /\ Cardinality(todo) \in Nat /\ Sum(result) \in Nat
    BY <1>0, FiniteBatch DEF Sum, ResultType
  <2> QED
    BY <1>0, <2>1, <2>2, <2>3 DEF DirectInv
<1>8. CASE CreateStaging \/ LoadStaging \/ CountExisting \/ BeginTx \/ DeleteOld \/ InsertNew
           \/ Merge \/ Commit \/ DropStaging \/ MergeRefusedError
  BY <1>1, <1>8
     DEF CreateStaging, LoadStaging, CountExisting, BeginTx, DeleteOld, InsertNew, Merge,
         Commit, DropStaging, MergeRefusedError
<1>9. CASE PruneStock
  BY <1>1, <1>9, PruneEffect DEF GoroutineInv
<1> QED
  BY <1>2, <1>3, <1>4, <1>5, <1>6, <1>7, <1>8, <1>9, NextSteps

-----------------------------------------------------------------------------
\* What is in the target when the writer is done.

LEMMA HoldsStays ==
  ASSUME UNCHANGED <<form, target, batch>>
  PROVE  Holds(batch)' <=> Holds(batch)
<1>1. /\ Table!Replaced(target, batch)' <=> Table!Replaced(target, batch)
      /\ Table!Pruned(target, batch)' <=> Table!Pruned(target, batch)
  BY DEF Table!Replaced, Table!Pruned, Table!Records, Table!Contents, Table!Key,
         Table!KeysUnique
<1>2. Table!ReplacedInScope(target, target, batch)' <=> Table!ReplacedInScope(target, target, batch)
  BY DEF Table!ReplacedInScope, Table!Contents, Table!Scope, Table!Scopes, Table!Singles
<1>3. (Table!Keys(batch) \subseteq {Table!Key(t) : t \in target})'
        <=> Table!Keys(batch) \subseteq {Table!Key(t) : t \in target}
  BY DEF Table!Keys, Table!Key
<1>4. (NoKey \notin Table!Keys(batch) => Table!Singles(batch) \subseteq Table!Contents(target))'
        <=> (NoKey \notin Table!Keys(batch) => Table!Singles(batch) \subseteq Table!Contents(target))
  BY DEF Table!Keys, Table!Singles, Table!Contents
<1> QED
  BY <1>1, <1>2, <1>3, <1>4 DEF Holds

\* The DELETE of an earlier run leaves what a snapshot has to hold.
LEMMA PruneHolds ==
  ASSUME TypeOK, TailInv, PruneStock, Holds(batch)
  PROVE  Holds(batch)'
<1>1. form = "whole" /\ target' \in {target, Table!Stocked(target)} /\ UNCHANGED <<form, batch>>
  BY PruneEffect DEF dataVars
<1>2. CASE target' = target
  BY <1>1, <1>2, HoldsStays
<1>3. CASE target' = Table!Stocked(target)
  <2>1. Table!Pruned(Table!Stocked(target), batch)
    BY <1>1, StockedPrunes DEF Holds
  <2>2. Table!Pruned(target, batch)'
    BY <1>1, <1>3, <2>1
       DEF Table!Pruned, Table!Records, Table!Contents, Table!Key, Table!KeysUnique
  <2> QED
    BY <1>1, <2>2 DEF Holds
<1> QED
  BY <1>1, <1>2, <1>3

\* The table that the transaction has made, read as the target of later.
LEMMA CommitHolds ==
  ASSUME TypeOK, GoroutineInv, LoadedInv, TxInv, pc = "commit",
         target' = tx, UNCHANGED <<form, batch>>
  PROVE  Holds(batch)'
<1>1. /\ tx = Complete /\ loaded = RowsToWrite(batch) /\ batch \subseteq Rows
      /\ form \in Table!Forms /\ ~Refused /\ target \subseteq Table!TargetRows
  BY DEF TypeOK, GoroutineInv, LoadedInv, TxInv, WriterCalls
<1>2. CASE form = "whole"
  <2>1. tx = Aggregated(batch)
    BY <1>1, <1>2 DEF Complete, Kept, RowsToWrite
  <2>2. Table!Replaced(tx, batch)
    BY <2>1, AggregatedReplaces
  <2>3. Table!Replaced(target, batch)'
    <3>1. Table!Contents(target)' = Table!Contents(tx) /\ Table!Records(batch)' = Table!Records(batch)
      BY DEF Table!Contents, Table!Records
    <3>2. Table!KeysUnique(target)' <=> Table!KeysUnique(tx)
      BY DEF Table!KeysUnique, Table!Key
    <3> QED
      BY <2>2, <3>1, <3>2 DEF Table!Replaced
  <2> QED
    BY <1>2, <2>3 DEF Holds
<1>3. CASE form = "scoped"
  <2>1. tx = {t \in target : \A u \in Plain(batch) : Table!Scope(u) # Table!Scope(t)}
               \cup Plain(batch)
    BY <1>1, <1>3 DEF Complete, Kept, RowsToWrite
  <2>2. Table!ReplacedInScope(tx, tx, batch)
    BY <2>1, PeriodsReplaced
  <2>3. Table!ReplacedInScope(target, target, batch)'
    BY <2>2
       DEF Table!ReplacedInScope, Table!Contents, Table!Scope, Table!Scopes, Table!Singles
  <2> QED
    BY <1>3, <2>3 DEF Holds
<1>4. CASE form = "table"
  <2>1. tx = Merged(target, batch) /\ ~MergeRefused(target, batch) /\ ~Duplicates(batch)
    BY <1>1, <1>4 DEF Complete, TxInv, Refused
  <2>2. Arrived(target, {})
    BY DEF Arrived, Table!Keys, Table!Singles
  <2>3. Arrived(Merged(target, batch), {} \cup batch)
    BY <1>1, <2>1, <2>2, MergeArrives
  <2>4. Arrived(tx, batch)
    BY <2>1, <2>3
  <2>5. Arrived(target, batch)'
    BY <2>4 DEF Arrived, Table!Keys, Table!Singles, Table!Contents, Table!Key
  <2> QED
    BY <1>4, <2>5 DEF Holds, Arrived
<1> QED
  BY <1>1, <1>2, <1>3, <1>4 DEF Table!Forms

LEMMA DirectHolds ==
  ASSUME TypeOK, GoroutineInv, DirectInv, pc = "recount", todo = {},
         Sum(result') = Sum(result) + Cardinality(part), UNCHANGED <<form, target, batch>>
  PROVE  Holds(batch)' /\ Sum(result)' = Cardinality(RowsToWrite(batch))'
<1>1. /\ form = "table" /\ batch \ todo = batch /\ Cardinality(todo) = 0
      /\ Cardinality(part) \in Nat /\ Sum(result) \in Nat
  BY FiniteBatch, FS_EmptySet DEF GoroutineInv, TypeOK, Sum
<1>2. Holds(batch)
  BY <1>1 DEF Holds, DirectInv, Arrived
<1>3. Sum(result') = Cardinality(batch)
  BY <1>1 DEF DirectInv
<1>4. Cardinality(RowsToWrite(batch)) = Cardinality(batch)
  BY <1>1, TableBatch DEF WriterCalls
<1>5. RowsToWrite(batch)' = RowsToWrite(batch)
  BY RowsToWriteStays
<1> QED
  BY <1>2, <1>3, <1>4, <1>5, HoldsStays

LEMMA DoneStep ==
  ASSUME TypeOK, TailInv, GoroutineInv, LoadedInv, TxInv, DirectInv, DoneInv, [Next]_vars
  PROVE  DoneInv'
<1> USE DEF Goto, writerRest
<1>0. /\ UNCHANGED <<form, target, batch>> => (Holds(batch)' <=> Holds(batch))
      /\ UNCHANGED <<form, batch>> => RowsToWrite(batch)' = RowsToWrite(batch)
      /\ result \in ResultType /\ part \subseteq Rows
  BY HoldsStays, RowsToWriteStays DEF TypeOK, ResultType
<1>1. pc' \notin {"drop", "written"} \/ result'.err => DoneInv'
  BY DEF DoneInv
<1>2. CASE RoundStep
  BY <1>1, <1>2, RoundStepEnds DEF Early
<1>3. CASE ContextStep \/ UNCHANGED vars
  BY <1>0, <1>3, ContextStepKeeps DEF vars, tableVars, dataVars, DoneInv, Sum
<1>4. CASE FailingStep
  <2>1. CASE pc = "recount" /\ todo = {}
    <3>1. result' = [result EXCEPT !.inserted = @ + Cardinality(part)]
      BY <1>4, <2>1, CallFailsEffect DEF FailingStep, CallFailing
    <3>2. UNCHANGED <<form, target, batch>>
      BY <1>4, <2>1, FailingGoes, LeftoverEffect DEF FailingStep, CallFailing, WriterFails
    <3>3. Sum(result') = Sum(result) + Cardinality(part)
      <4>1. Cardinality(part) \in Nat
        BY <1>0, FiniteBatch
      <4> QED
        BY <1>0, <3>1, <4>1 DEF Sum, ResultType
    <3> QED
      BY <2>1, <3>2, <3>3, DirectHolds DEF DoneInv
  <2>2. CASE pc = "recount" /\ todo # {}
    BY <1>1, <1>4, <2>2, CallFailsEffect DEF FailingStep, CallFailing
  <2>3. CASE pc # "recount"
    BY <1>1, <1>4, <2>3, FailingGoes
  <2> QED
    BY <2>1, <2>2, <2>3
<1>5. CASE Columns
  BY <1>1, <1>5, Blanks DEF Columns
<1>6. CASE Commit
  <2>1. /\ pc = "commit" /\ target' = tx /\ UNCHANGED <<form, batch, result>>
    BY <1>6 DEF Commit
  <2> QED
    BY <1>0, <2>1, CommitHolds DEF DoneInv, TxInv, Sum
<1>7. CASE DropStaging
  BY <1>0, <1>7 DEF DropStaging, DoneInv, dataVars, Sum
<1>8. CASE DirectCount
  <2>1. Sum(result') = Sum(result) + Cardinality(part)
    BY <1>0, <1>8, CountedParts DEF DirectCount, TypeOK
  <2>2. CASE todo = {}
    BY <1>8, <2>1, <2>2, DirectHolds DEF DirectCount, DoneInv
  <2>3. CASE todo # {}
    BY <1>1, <1>8, <2>3 DEF DirectCount, AfterPart
  <2> QED
    BY <2>2, <2>3
<1>9. CASE MergeRefusedError
  BY <1>1, <1>9, Blanks DEF MergeRefusedError
<1>10. CASE CreateStaging \/ LoadStaging \/ CountExisting \/ BeginTx \/ DeleteOld \/ InsertNew
            \/ Merge \/ DirectMerge
  BY <1>1, <1>10
     DEF CreateStaging, LoadStaging, CountExisting, BeginTx, DeleteOld, InsertNew, Merge,
         DirectMerge
<1>11. CASE PruneStock
  <2>1. UNCHANGED <<pc, form, batch, result>>
    BY <1>11, PruneEffect DEF dataVars
  <2> QED
    BY <1>0, <1>11, <2>1, PruneHolds DEF DoneInv, Sum
<1> QED
  BY <1>2, <1>3, <1>4, <1>5, <1>6, <1>7, <1>8, <1>9, <1>10, <1>11, NextSteps

-----------------------------------------------------------------------------
\* Success.

\* Only an end writes the status, and only a success can break the property.
LEMMA SuccessStep ==
  ASSUME TypeOK, TailInv, GoroutineInv, DoneInv, SuccessIsWritten, [Next]_vars
  PROVE  SuccessIsWritten'
<1>0. /\ AsBudget \in Statuses \ {"success"}
      /\ \A s \in {"failed", "stopped"} : s \in Statuses \ {"success"}
  BY Endings DEF Statuses
<1>1. stat'.status # "success" => SuccessIsWritten'
  BY DEF SuccessIsWritten
<1>2. \A s \in Statuses \ {"success"} : End(s) => SuccessIsWritten'
  <2> SUFFICES ASSUME NEW s \in Statuses \ {"success"}, End(s) PROVE SuccessIsWritten'
    OBVIOUS
  <2>1. PICK st \in StatType : st.status = s /\ EndWith(st)
    BY Endings
  <2> QED
    BY <1>1, <2>1 DEF EndWith, Leave
<1>3. CASE pc # "idle" /\ UNCHANGED stat
  BY <1>1, <1>3 DEF GoroutineInv, NoStat
<1>4. CASE StartRound
  BY <1>1, <1>4 DEF StartRound, NoStat
<1>5. CASE Preamble
  BY <1>0, <1>2, <1>3, <1>5 DEF Preamble, goroutineVars
<1>6. CASE FetchFails
  <2>1. (IF CtxDone \/ fetchStopped THEN AsBudget ELSE "failed") \in Statuses \ {"success"}
    BY <1>0
  <2> QED
    BY <1>2, <1>6, <2>1 DEF FetchFails
<1>7. CASE FetchAborts
  BY <1>0, <1>2, <1>7 DEF FetchAborts
<1>8. CASE CheckFetched
  <2>1. CASE batch = {} \/ dry
    <3>1. batch' = {} \/ dry'
      BY <1>8, <2>1 DEF CheckFetched, roundVars
    <3> QED
      BY <3>1 DEF SuccessIsWritten
  <2>2. CASE batch # {} /\ ~dry /\ FetchedEnds
    BY <1>0, <1>2, <2>2 DEF FetchedEnds
  <2>3. CASE UNCHANGED goroutineVars
    BY <1>3, <1>8, <2>3 DEF CheckFetched, goroutineVars
  <2> QED
    BY <1>8, <2>1, <2>2, <2>3 DEF CheckFetched
<1>9. CASE Written
  <2>1. CASE ~result.err /\ EndWith(Success(result))
    <3>1. /\ stat'.inserted = result.inserted /\ stat'.updated = result.updated
          /\ UNCHANGED <<form, target, batch>>
      BY <1>9, <2>1 DEF Written, EndWith, Leave, Success, tableVars
    <3>2. Holds(batch) /\ Sum(result) = Cardinality(RowsToWrite(batch))
      BY <1>9, <2>1 DEF Written, DoneInv
    <3>3. RowsToWrite(batch)' = RowsToWrite(batch) /\ Holds(batch)'
      BY <3>1, <3>2, RowsToWriteStays, HoldsStays
    <3> QED
      BY <3>1, <3>2, <3>3 DEF SuccessIsWritten, Sum
  <2>2. CASE End("failed") \/ End(AsBudget)
    BY <1>0, <1>2, <2>2
  <2> QED
    BY <1>9, <2>1, <2>2 DEF Written
<1>10. CASE Crash
  BY <1>1, <1>10 DEF Crash, Leave, NoStat
<1>11. CASE Truncate
  BY <1>0, <1>2, <1>3, <1>11 DEF Truncate, goroutineVars
<1>12. CASE ContextStep
  BY <1>3, <1>12, ContextStepKeeps DEF ContextStep, Cancel, StopFetch, BudgetRunsOut
<1>13. CASE FailingStep
  BY <1>3, <1>13, FailingGoes DEF FailingStep, WriterCalls
<1>14. CASE FetchAnswers \/ Columns \/ DirectMerge \/ MergeRefusedError \/ DropStaging
  BY <1>3, <1>14
     DEF FetchAnswers, Columns, DirectMerge, MergeRefusedError, DropStaging, goroutineVars
<1>15. CASE CreateStaging \/ LoadStaging \/ CountExisting \/ BeginTx \/ DeleteOld
            \/ InsertNew \/ Merge \/ Commit \/ DirectCount
  BY <1>3, <1>15
     DEF CreateStaging, LoadStaging, CountExisting, BeginTx, DeleteOld, InsertNew, Merge,
         Commit, DirectCount, writerRest
<1>16. CASE UNCHANGED vars
  <2>1. UNCHANGED <<form, target, batch, stat, dry>>
    BY <1>16 DEF vars, tableVars, roundVars, dataVars
  <2> QED
    BY <2>1, RowsToWriteStays, HoldsStays DEF SuccessIsWritten
<1>17. CASE PruneStock
  <2>1. UNCHANGED <<form, batch, stat, dry>>
    BY <1>17, PruneEffect DEF dataVars, roundVars
  <2> QED
    BY <1>17, <2>1, RowsToWriteStays, PruneHolds DEF SuccessIsWritten
<1> QED
  BY <1>4, <1>5, <1>6, <1>7, <1>8, <1>9, <1>10, <1>11, <1>12, <1>13, <1>14, <1>15, <1>16,
     <1>17, NextSteps DEF RoundStep

-----------------------------------------------------------------------------
\* Staging tables that are left.

LEMMA StagingSizes ==
  ASSUME TypeOK
  PROVE  /\ Cardinality(staging) \in Nat /\ Cardinality(staging \ {round}) \in Nat
         /\ Cardinality(staging) <= Cardinality(staging \ {round}) + 1
         /\ Cardinality(staging \ {round}) <= Cardinality(staging)
         /\ (staging \cup {round}) \ {round} = staging \ {round}
         /\ faults \in Nat /\ crashes \in Nat
<1>1. IsFiniteSet(1..MaxRounds) /\ faults \in Nat /\ crashes \in Nat
  BY FormWriteAssumption, FS_Interval DEF TypeOK
<1>2. IsFiniteSet(staging)
  BY <1>1, FS_Subset DEF TypeOK
<1>3. /\ IsFiniteSet(staging \ {round})
      /\ Cardinality(staging \ {round}) =
           IF round \in staging THEN Cardinality(staging) - 1 ELSE Cardinality(staging)
  BY <1>2, FS_RemoveElement
<1>4. Cardinality(staging) \in Nat /\ Cardinality(staging \ {round}) \in Nat
  BY <1>2, <1>3, FS_CardinalityType
<1> QED
  BY <1>1, <1>3, <1>4

LEMMA LeakStep ==
  ASSUME TypeOK, TailInv, GoroutineInv, LeakInv, [Next]_vars
  PROVE  LeakInv'
<1> USE DEF MayExist, Staged, Goto, writerRest
<1>0. USE StagingSizes
<1>1. ASSUME pc \notin MayExist, pc' \notin MayExist, UNCHANGED <<staging, crashes>>,
             faults' \in {faults, faults + 1}
      PROVE  LeakInv'
  BY <1>1 DEF LeakInv
<1>2. CASE Crash
  BY <1>2 DEF Crash, Leave, LeakInv
<1>3. CASE RoundStep /\ ~Crash
  <2>1. pc' \notin MayExist
    BY <1>3, RoundStepEnds DEF Early
  <2>2. /\ pc \notin MayExist /\ UNCHANGED <<staging, crashes>>
        /\ faults' \in {faults, faults + 1}
    BY <1>3
       DEF RoundStep, StartRound, Preamble, FetchAnswers, FetchFails, FetchAborts,
           CheckFetched, Written, Truncate, Fault, tableVars, goroutineVars
  <2> QED
    BY <1>1, <2>1, <2>2
<1>4. CASE ContextStep \/ UNCHANGED vars
  BY <1>4, ContextStepKeeps DEF vars, tableVars, roundVars, LeakInv
<1>5. CASE Columns
  BY <1>1, <1>5 DEF Columns, Fault, tableVars
<1>6. CASE DirectMerge \/ DirectCount
  BY <1>1, <1>6 DEF DirectMerge, DirectCount, AfterPart
<1>7. CASE CreateStaging
  <2>1. /\ staging' = staging \cup {round} /\ pc = "create" /\ pc' = "load"
        /\ UNCHANGED <<round, faults, crashes>>
    BY <1>7 DEF CreateStaging, roundVars
  <2>2. Cardinality(staging \ {round})' = Cardinality(staging \ {round})
    BY <2>1
  <2>3. Cardinality(staging) <= faults + crashes
    BY <2>1 DEF LeakInv
  <2> QED
    BY <2>1, <2>2, <2>3 DEF LeakInv
<1>8. CASE LoadStaging \/ CountExisting \/ BeginTx \/ DeleteOld \/ InsertNew \/ Merge \/ Commit
  BY <1>8
     DEF LoadStaging, CountExisting, BeginTx, DeleteOld, InsertNew, Merge, Commit, roundVars,
         LeakInv
<1>9. CASE DropStaging
  <2>1. CASE staging' = staging \ {round} /\ UNCHANGED faults
    BY <1>9, <2>1 DEF DropStaging, LeakInv
  <2>2. CASE Fault /\ UNCHANGED staging
    BY <1>9, <2>2 DEF DropStaging, Fault, LeakInv
  <2> QED
    BY <1>9, <2>1, <2>2 DEF DropStaging
<1>10. CASE MergeRefusedError
  BY <1>10 DEF MergeRefusedError, roundVars, LeakInv
<1>11. CASE FailingStep
  <2>1. faults' \in {faults, faults + 1} /\ Leftover
    BY <1>11 DEF FailingStep, CallFailing, Fault, WriterFails
  <2>2. UNCHANGED <<round, crashes>>
    BY <1>11, FailingGoes
  <2>3. pc \in MayExist => pc' \in MayExist
    BY <1>11, CallFailsEffect DEF FailingStep, CallFailing
  <2>4. CASE UNCHANGED staging
    BY <2>1, <2>2, <2>3, <2>4 DEF LeakInv
  <2>5. CASE pc = "create" /\ staging' = staging \cup {round}
    <3>1. pc' = "drop"
      BY <1>11, <2>5, CallFailsEffect DEF FailingStep, CallFailing
    <3>2. Cardinality(staging \ {round})' = Cardinality(staging \ {round})
      BY <2>2, <2>5
    <3>3. Cardinality(staging) <= faults + crashes
      BY <2>5 DEF LeakInv
    <3> QED
      BY <2>1, <2>2, <3>1, <3>2, <3>3 DEF LeakInv
  <2> QED
    BY <1>11, <2>1, <2>4, <2>5, LeftoverEffect DEF FailingStep
<1>12. CASE PruneStock
  BY <1>12, PruneEffect DEF roundVars, LeakInv
<1> QED
  BY <1>2, <1>3, <1>4, <1>5, <1>6, <1>7, <1>8, <1>9, <1>10, <1>11, <1>12, NextSteps

-----------------------------------------------------------------------------
\* The DELETE to come.

LEMMA RoundStepTail ==
  ASSUME TypeOK, RoundStep
  PROVE  TailMoves /\ UNCHANGED form
<1>0. /\ AsBudget \in Statuses
      /\ \A s \in {"success", "failed", "stopped"} : s \in Statuses
  BY Endings DEF Statuses
<1>1. Ends => TailMoves
  BY DEF Ends
<1>2. UNCHANGED tail => TailMoves
  BY DEF TailMoves
<1>3. UNCHANGED form
  BY DEF RoundStep, StartRound, Preamble, FetchAnswers, FetchFails, FetchAborts,
         CheckFetched, Written, Truncate, Crash, tableVars
<1>4. CASE StartRound \/ FetchAnswers
  BY <1>2, <1>3, <1>4 DEF StartRound, FetchAnswers, goroutineVars
<1>5. CASE Preamble
  BY <1>0, <1>1, <1>2, <1>3, <1>5, TheseEnd DEF Preamble, goroutineVars
<1>6. CASE FetchFails
  <2>1. (IF CtxDone \/ fetchStopped THEN AsBudget ELSE "failed") \in Statuses
    BY <1>0
  <2> QED
    BY <1>1, <1>3, <1>6, <2>1, TheseEnd DEF FetchFails
<1>7. CASE FetchAborts
  BY <1>0, <1>1, <1>3, <1>7, TheseEnd DEF FetchAborts
<1>8. CASE CheckFetched
  BY <1>1, <1>2, <1>3, <1>8, TheseEnd DEF CheckFetched, goroutineVars
<1>9. CASE Written
  BY <1>1, <1>3, <1>9, TheseEnd
<1>10. CASE Truncate
  BY <1>0, <1>1, <1>2, <1>3, <1>10, TheseEnd DEF Truncate, goroutineVars
<1>11. CASE Crash
  BY <1>1, <1>3, <1>11, CrashEnds
<1> QED
  BY <1>4, <1>5, <1>6, <1>7, <1>8, <1>9, <1>10, <1>11 DEF RoundStep

LEMMA TailStep ==
  ASSUME TypeOK, TailInv, [Next]_vars
  PROVE  TailInv'
<1>1. CASE RoundStep
  BY <1>1, RoundStepTail DEF TailMoves, TailInv
<1>2. CASE ContextStep \/ UNCHANGED vars
  BY <1>2, ContextStepKeeps DEF vars, tableVars, TailInv
<1>3. CASE FailingStep
  BY <1>3 DEF FailingStep, CallFailing, WriterFails, TailInv
<1>4. CASE PruneStock
  BY <1>4 DEF PruneStock, TailInv
<1>5. CASE \/ Columns \/ CreateStaging \/ LoadStaging \/ CountExisting \/ BeginTx \/ DeleteOld
           \/ InsertNew \/ Merge \/ Commit \/ DirectMerge \/ DirectCount \/ MergeRefusedError
           \/ DropStaging
  BY <1>5
     DEF Columns, CreateStaging, LoadStaging, CountExisting, BeginTx, DeleteOld, InsertNew,
         Merge, Commit, DirectMerge, DirectCount, MergeRefusedError, DropStaging, writerRest,
         tableVars, TailInv
<1> QED
  BY <1>1, <1>2, <1>3, <1>4, <1>5, NextSteps

-----------------------------------------------------------------------------
\* The table as its readers see it.

\* A commit replaces the table, its periods or the keys of the batch.
LEMMA CommitWrites ==
  ASSUME TypeOK, GoroutineInv, LoadedInv, TxInv, pc = "commit",
         target' = tx, UNCHANGED <<form, batch>>
  PROVE  Table!Write
<1>1. /\ tx = Complete /\ loaded = RowsToWrite(batch) /\ batch \subseteq Rows
      /\ form \in Table!Forms /\ ~Refused /\ target \subseteq Table!TargetRows /\ batch # {}
  BY DEF TypeOK, GoroutineInv, LoadedInv, TxInv, WriterCalls
<1>2. CASE form = "whole"
  <2>1. target' = Aggregated(batch)
    BY <1>1, <1>2 DEF Complete, Kept, RowsToWrite
  <2>2. Table!Replaced(target', batch)
    BY <2>1, AggregatedReplaces
  <2> QED
    BY <1>1, <1>2, <2>2 DEF Table!Write
<1>3. CASE form = "scoped"
  <2>1. target' = {t \in target : \A u \in Plain(batch) : Table!Scope(u) # Table!Scope(t)}
                    \cup Plain(batch)
    BY <1>1, <1>3 DEF Complete, Kept, RowsToWrite
  <2>2. Table!ReplacedInScope(target, target', batch)
    BY <2>1, PeriodsReplaced
  <2>3. NoScope \notin Table!Scopes(batch)
    BY <1>1, <1>3 DEF Refused
  <2> QED
    BY <1>1, <1>3, <2>2, <2>3 DEF Table!Write
<1>4. CASE form = "table"
  <2>1. /\ target' = Merged(target, batch) /\ ~MergeRefused(target, batch)
        /\ ~Duplicates(batch)
    BY <1>1, <1>4 DEF Complete, TxInv, Refused
  <2>2. Table!Upserted(target, target', batch)
    BY <1>1, <2>1, MergeUpserts
  <2> QED
    BY <1>1, <1>4, <2>2 DEF Table!Write
<1> QED
  BY <1>1, <1>2, <1>3, <1>4 DEF Table!Forms

\* A direct batch is an upsert of a part of the answer.
LEMMA DirectWrites ==
  ASSUME TypeOK, GoroutineInv, pc = "direct", NEW B, B \subseteq todo,
         ~MergeRefused(target, B), target' = Merged(target, B), UNCHANGED <<form, batch>>
  PROVE  Table!Write
<1>1. /\ form = "table" /\ batch # {} /\ batch \subseteq Rows /\ B \subseteq batch
      /\ target \subseteq Table!TargetRows
  BY DEF GoroutineInv, TypeOK, WriterCalls
<1>2. ~Duplicates(batch)
  BY <1>1, TableBatch DEF WriterCalls
<1>3. Table!Upserted(target, target', B)
  BY <1>1, <1>2, MergeUpserts
<1> QED
  BY <1>1, <1>3 DEF Table!Write

LEMMA TableStep ==
  ASSUME IInv, [Next]_vars
  PROVE  [Table!Next]_<<form, target, batch>>
<1> USE DEF writerRest, tableVars
<1>0. TypeOK /\ GoroutineInv /\ LoadedInv /\ TxInv /\ TailInv
  BY DEF IInv
<1>1. CASE UNCHANGED <<form, target, batch>>
  BY <1>1
<1>2. CASE batch' \subseteq Rows /\ UNCHANGED <<form, target>>
  BY <1>2 DEF Table!Next, Table!Fetch
<1>3. CASE StartRound \/ FetchAnswers \/ Crash
  BY <1>2, <1>3 DEF StartRound, FetchAnswers, Crash
<1>4. CASE Truncate
  BY <1>0, <1>1, <1>4 DEF Truncate, GoroutineInv, Table!Next, Table!Truncate
<1>5. CASE Commit
  BY <1>0, <1>5, CommitWrites DEF Commit, Table!Next
<1>6. CASE DirectMerge
  <2>1. /\ part' \subseteq todo /\ ~MergeRefused(target, part')
        /\ target' = Merged(target, part') /\ pc = "direct" /\ UNCHANGED <<form, batch>>
    BY <1>6 DEF DirectMerge
  <2> QED
    BY <1>0, <2>1, DirectWrites DEF Table!Next
<1>7. CASE FailingStep
  <2>1. pc \in WriterCalls /\ Leftover /\ UNCHANGED <<form, batch>>
    BY <1>0, <1>7, FailingGoes DEF FailingStep, CallFailing, WriterFails
  <2>2. CASE UNCHANGED target
    BY <1>1, <2>1, <2>2
  <2>3. CASE pc = "commit" /\ target' = tx
    BY <1>0, <2>1, <2>3, CommitWrites DEF Table!Next
  <2>4. CASE /\ pc = "direct"
             /\ \E B \in SUBSET todo \ {{}} :
                  ~MergeRefused(target, B) /\ target' = Merged(target, B)
    BY <1>0, <2>1, <2>4, DirectWrites DEF Table!Next
  <2> QED
    BY <1>0, <2>1, <2>2, <2>3, <2>4, LeftoverEffect
<1>8. CASE Preamble \/ FetchFails \/ FetchAborts \/ CheckFetched \/ Written
  BY <1>1, <1>8 DEF Preamble, FetchFails, FetchAborts, CheckFetched, Written
<1>9. CASE ContextStep \/ UNCHANGED vars
  BY <1>1, <1>9, ContextStepKeeps DEF vars, dataVars
<1>10. CASE Columns \/ CreateStaging \/ LoadStaging \/ CountExisting \/ BeginTx \/ DeleteOld
            \/ InsertNew \/ Merge \/ DirectCount \/ MergeRefusedError \/ DropStaging
  BY <1>1, <1>10
     DEF Columns, CreateStaging, LoadStaging, CountExisting, BeginTx, DeleteOld, InsertNew,
         Merge, DirectCount, MergeRefusedError, DropStaging, dataVars
<1>11. CASE PruneStock
  <2>1. form = "whole" /\ target' \in {target, Table!Stocked(target)} /\ UNCHANGED <<form, batch>>
    BY <1>0, <1>11, PruneEffect DEF dataVars
  <2>2. CASE target' = Table!Stocked(target)
    BY <2>1, <2>2 DEF Table!Next, Table!Prune
  <2> QED
    BY <1>1, <2>1, <2>2
<1> QED
  BY <1>3, <1>4, <1>5, <1>6, <1>7, <1>8, <1>9, <1>10, <1>11, NextSteps DEF RoundStep

-----------------------------------------------------------------------------
\* The theorems.

LEMMA InitIInv == Init => IInv
<1> SUFFICES ASSUME Init PROVE IInv
  OBVIOUS
<1>1. TypeOK
  BY InitType
<1>2. GoroutineInv
  BY DEF Init, GoroutineInv, Early, Staged, WriterCalls
<1>3. LoadedInv /\ TxInv /\ DirectInv /\ DoneInv
  BY DEF Init, LoadedInv, TxInv, DirectInv, DoneInv
<1>4. SuccessIsWritten
  BY DEF Init, SuccessIsWritten, NoStat
<1>5. LeakInv
  <2>1. Cardinality(staging) = 0
    BY FS_EmptySet DEF Init
  <2> QED
    BY <2>1 DEF Init, LeakInv, MayExist, Staged
<1>6. TailInv
  BY DEF Init, TailInv
<1> QED
  BY <1>1, <1>2, <1>3, <1>4, <1>5, <1>6 DEF IInv

LEMMA TypeStep ==
  ASSUME TypeOK, TailInv, GoroutineInv, LoadedInv, TxInv, [Next]_vars
  PROVE  TypeOK'
<1>1. CASE UNCHANGED vars
  BY <1>1 DEF vars, TypeOK, tableVars, roundVars, dataVars, ctxVars
<1>2. CASE ~UNCHANGED vars
  BY <1>2, NextSteps, TypeStepRound, TypeStepWriter, TypeStepDirect, TypeStepFailing,
     TypeStepEnvironment, TypeStepPrune
     DEF RoundStep, ContextStep, FailingStep
<1> QED
  BY <1>1, <1>2

LEMMA GoroutineStep ==
  ASSUME TypeOK, TailInv, GoroutineInv, [Next]_vars
  PROVE  GoroutineInv'
<1>1. CASE UNCHANGED vars
  <2>1. UNCHANGED <<form, batch>>
    BY <1>1 DEF vars, tableVars, dataVars
  <2> QED
    BY <1>1, <2>1, RefusedStays DEF vars, GoroutineInv, tableVars, roundVars, dataVars
<1>2. CASE ~UNCHANGED vars
  BY <1>2, NextSteps, GoroutineStepRound, GoroutineStepWriter, GoroutineStepDirect,
     GoroutineStepPrune
     DEF RoundStep, ContextStep, FailingStep
<1> QED
  BY <1>1, <1>2

LEMMA Step ==
  ASSUME IInv, [Next]_vars
  PROVE  IInv'
  BY TypeStep, GoroutineStep, LoadedStep, TxStep, DirectStep, DoneStep, SuccessStep, LeakStep,
     TailStep DEF IInv

LEMMA Inductive == Spec => []IInv
<1>1. Init => IInv
  BY InitIInv
<1>2. IInv /\ [Next]_vars => IInv'
  BY Step
<1> QED
  BY <1>1, <1>2, PTL DEF Spec

\* The variables keep their types; the counts of a result never turn negative.
THEOREM TypeCorrect == Spec => []TypeOK
<1>1. IInv => TypeOK
  BY DEF IInv
<1> QED
  BY <1>1, Inductive, PTL

\* Success means that the whole batch is in the target and counted, whatever was
\* cancelled, failed or came late on the way.
THEOREM SuccessIsWrittenHolds == Spec => []SuccessIsWritten
<1>1. IInv => SuccessIsWritten
  BY DEF IInv
<1> QED
  BY <1>1, Inductive, PTL

\* A staging table that stays behind is the trace of a failed call or a crash.
THEOREM LeaksAreFaultsHolds == Spec => []LeaksAreFaults
<1>1. IInv => LeaksAreFaults
  BY DEF IInv, LeakInv, LeaksAreFaults, MayExist, Staged
<1> QED
  BY <1>1, Inductive, PTL

\* Staging tables, transactions and direct batches implement the table of
\* TargetTable: its readers see nothing else.
THEOREM WritesAsATableHolds == Spec => WritesAsATable
<1>1. Init => Table!Init
  <2>1. Init => target \subseteq Table!TargetRows
    BY InitType DEF TypeOK
  <2> QED
    BY <2>1 DEF Init, Table!Init
<1>2. IInv /\ [Next]_vars => [Table!Next]_<<form, target, batch>>
  BY TableStep
<1> QED
  BY <1>1, <1>2, Inductive, PTL DEF Spec, WritesAsATable, Table!Spec
=============================================================================
