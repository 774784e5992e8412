--------------------------- MODULE MCCursorSync ---------------------------
(* Small instances of CursorSync for TLC. *)
EXTENDS CursorSync
===========================================================================
