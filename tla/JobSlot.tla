------------------------------- MODULE JobSlot -------------------------------
(***************************************************************************)
(* What the durable job queue promises to one server, whatever is done for *)
(* other servers: the server has one slot.  An operation that was accepted *)
(* occupies the slot until it has an outcome; while it does, no other      *)
(* operation is accepted; it is handed to the worker at most MaxAttempts   *)
(* times; and an outcome is only reached from an attempt.                  *)
(*                                                                         *)
(* JobQueue implements it for every server at once, with the jobs table    *)
(* and the worker; ServerLifecycle, Subscription, Restore, ModpackInstall, *)
(* Addons and Schedules for one server, with what its jobs do.             *)
(***************************************************************************)
EXTENDS Naturals

CONSTANT MaxAttempts   \* attempts after which an interrupted job is given up

VARIABLES
  phase,   \* "free", or the status of the slot's job: "queued", "running"
  tries    \* how often the slot's job has been handed to the worker

slotVars == <<phase, tries>>

Init == phase = "free" /\ tries = 0

\* A free slot accepts an operation.
Submit ==
  /\ phase = "free"
  /\ phase' = "queued"
  /\ tries' = 0

\* The worker takes the operation: one more attempt.
Attempt ==
  /\ phase = "queued"
  /\ tries < MaxAttempts
  /\ phase' = "running"
  /\ tries' = tries + 1

\* An interrupted attempt is repeated, unless it was the last one allowed.
Requeue ==
  /\ phase = "running"
  /\ tries < MaxAttempts
  /\ phase' = "queued"
  /\ UNCHANGED tries

\* The attempt has an outcome: the slot is free again.
Resolve ==
  /\ phase = "running"
  /\ phase' = "free"
  /\ tries' = 0

Next == Submit \/ Attempt \/ Requeue \/ Resolve

Spec == Init /\ [][Next]_slotVars
=============================================================================
