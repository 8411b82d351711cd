-------------------------- MODULE MCServerLifecycle --------------------------
(***************************************************************************)
(* Three requests are enough for a server to be provisioned, started and   *)
(* then stopped, restarted or deleted; two crashes with two attempts reach *)
(* the operation that is given up; a fault makes one operation fail.       *)
(***************************************************************************)
EXTENDS ServerLifecycle
=============================================================================
