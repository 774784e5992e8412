--------------------------- MODULE MCSyncEngine ---------------------------
(* Small instances of SyncEngine for TLC. *)
EXTENDS SyncEngine

CONSTANTS light, heavy, light2

\* One form of group 0 and one large form, or two of group 0.
MCGroup == [f \in Forms |-> IF f = heavy THEN 2 ELSE 0]

\* What callers ask for: every configured form; or all of them, one, or none.
AllForms == {Forms}
AnyNumber == {Forms, {light}, {}}

\* Several forms are looked at in runs of the API without faults or shutdown, a
\* single form with both: two instances in one run.
ManyFormsNoFault ==
  \A r \in Runs :
    Cardinality(job[r].forms) > 1 =>
      faults = 0 /\ shutdowns = 0 /\ job[r].kind = "api"
===========================================================================
