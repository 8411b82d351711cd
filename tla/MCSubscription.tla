--------------------------- MODULE MCSubscription ---------------------------
(***************************************************************************)
(* Three requests reach a renewal after the release and a retry or a       *)
(* deletion on top; two crashes interrupt one operation twice, three give  *)
(* it up.                                                                  *)
(***************************************************************************)
EXTENDS Subscription

\* jobs_action_check as migration 006 writes it, with "release".
Schema006 == Action

\* jobs_action_check as migrations 008 and 009, the last ones, leave it.
Schema009 == Action \ {"release"}
=============================================================================
