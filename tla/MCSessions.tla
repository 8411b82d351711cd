------------------------------ MODULE MCSessions -------------------------------
(***************************************************************************)
(* Two sessions of one account and two requests at a time.                 *)
(***************************************************************************)
EXTENDS Sessions

CONSTANTS t1, t2, r1, r2
===============================================================================
