---------------------------- MODULE MCSupervise ----------------------------
(***************************************************************************)
(* Office that updates itself, for TLC: MCSupervise_updates.cfg gives the  *)
(* bounds.  Processes get the smallest free number (StartUI), so that five *)
(* are enough for the dashboards of two updates and two faults.            *)
(***************************************************************************)
EXTENDS Supervise
=============================================================================
