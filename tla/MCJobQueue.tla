----------------------------- MODULE MCJobQueue -----------------------------
(***************************************************************************)
(* Three jobs for two servers: enough for a second job of a server to be   *)
(* refused, for one to be overtaken, and for a recovery that requeues one  *)
(* running job while it gives up another.                                  *)
(***************************************************************************)
EXTENDS JobQueue

MCStamp == 0..1
=============================================================================
