---------------------------- MODULE MCScheduler ----------------------------
(* Small instances of Scheduler for TLC. *)
EXTENDS Scheduler

CONSTANTS daily

\* A window across midnight, in a day of four minutes.
MCWindow == [start |-> 3, end |-> 1]
===========================================================================
