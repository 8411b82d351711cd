----------------------------- MODULE MCSchedules -----------------------------
(***************************************************************************)
(* A schedule of backups and one of restarts, on one server; each may be   *)
(* enabled, disabled or not there at first.                                *)
(***************************************************************************)
EXTENDS Schedules

CONSTANTS nightly, reboots
===============================================================================
