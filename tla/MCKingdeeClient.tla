-------------------------- MODULE MCKingdeeClient --------------------------
(***************************************************************************)
(* The Kingdee client on a small instance: a call of several requests and  *)
(* another caller share the session with the keep-alive.                   *)
(***************************************************************************)
EXTENDS KingdeeClient, TLC

CONSTANTS c1, c2

TwoCalls == {(c1 :> "query") @@ (c2 :> "single"), (c1 :> "balance") @@ (c2 :> "test"),
             (c1 :> "test") @@ (c2 :> "query")}

\* A short last page for one caller, more pages than the cap for the other.
FewAndMany == (c1 :> 3) @@ (c2 :> 5)
=============================================================================
