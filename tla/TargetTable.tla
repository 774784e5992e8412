----------------------------- MODULE TargetTable -----------------------------
(***************************************************************************)
(* What the readers of a target table may see of a form that is written to *)
(* it without a cursor: the table changes from one complete picture to the *)
(* next (docs of ReplaceSnapshot and of the MERGE path in                  *)
(* sqlserver_writer.go), except that the records without stock leave the   *)
(* inventory some time after it was replaced. FormWrite implements it with *)
(* staging tables, transactions and batches.                               *)
(***************************************************************************)
CONSTANTS Rows,     \* rows the source may return, each a version of some record
          KeyOf,    \* business key of a row; NoKey when a key column is missing
          ScopeOf,  \* period a row belongs to; NoScope when it has none
          NoKey, NoScope,
          NoStock   \* sets of rows whose quantities add up to zero

VARIABLES form,     \* how the form is written: "whole", "scoped" or "table"
          target,   \* committed rows of the target table
          answer    \* rows that the source returned last

Forms == {"whole", "scoped", "table"}

\* A row of the target: "at" tells it from the others, "of" holds the source
\* rows it stands for, more than one after an aggregation.
TargetRows == [at : SUBSET Rows, of : SUBSET Rows]
Key(t) == KeyOf[CHOOSE r \in t.of : TRUE]
Scope(t) == ScopeOf[CHOOSE r \in t.of : TRUE]
Keys(B) == {KeyOf[r] : r \in B}
Scopes(B) == {ScopeOf[r] : r \in B}
Singles(B) == {{r} : r \in B}
Contents(T) == {t.of : t \in T}
KeysUnique(T) == \A t, u \in T : Key(t) = Key(u) => t = u

\* The records of a batch: the fragments that share a key.
Records(B) == {{s \in B : KeyOf[s] = KeyOf[r]} : r \in B}

\* The whole table is the batch, one row for each record, nothing counted twice.
Replaced(new, B) == Contents(new) = Records(B) /\ KeysUnique(new)

\* The same without the records that have no stock.
Stocked(T) == {t \in T : t.of \notin NoStock}
Pruned(new, B) == Contents(new) = Records(B) \ NoStock /\ KeysUnique(new)

\* The periods of the batch hold exactly the batch; all others are untouched.
ReplacedInScope(old, new, B) ==
  /\ {t \in new : Scope(t) \notin Scopes(B)} = {t \in old : Scope(t) \notin Scopes(B)}
  /\ Contents({t \in new : Scope(t) \in Scopes(B)}) = Singles(B)

\* Keys of the rows written hold one of them; other rows are untouched and no row
\* disappears. Two rows come to share a key only if a key of the answer was missing.
Upserted(old, new, B) ==
  /\ KeysUnique(old) /\ NoKey \notin Keys(answer) => KeysUnique(new)
  /\ {t \in new : Key(t) \notin Keys(B)} = {t \in old : Key(t) \notin Keys(B)}
  /\ Contents({t \in new : Key(t) \in Keys(B)}) \subseteq Singles(B)
  /\ Keys(B) \subseteq {Key(t) : t \in new}
  /\ {t.at : t \in old} \subseteq {t.at : t \in new}

Init == form \in Forms /\ target \subseteq TargetRows /\ answer \subseteq Rows

Fetch == answer' \in SUBSET Rows /\ UNCHANGED <<form, target>>

\* A snapshot is the whole answer, a merge may write a part of it.
Write ==
  /\ \/ form = "whole" /\ Replaced(target', answer)
     \/ form = "scoped" /\ NoScope \notin Scopes(answer) /\ ReplacedInScope(target, target', answer)
     \/ form = "table" /\ \E B \in SUBSET answer : Upserted(target, target', B)
  /\ answer # {}
  /\ UNCHANGED <<form, answer>>

\* Only a run of type "reset" empties a table, never one of a snapshot form.
Truncate == form = "table" /\ target' = {} /\ UNCHANGED <<form, answer>>

\* An API run of the inventory deletes the records without stock at its end.
Prune == form = "whole" /\ target' = Stocked(target) /\ UNCHANGED <<form, answer>>

Next == Fetch \/ Truncate \/ Write \/ Prune

Spec == Init /\ [][Next]_<<form, target, answer>>
=============================================================================
