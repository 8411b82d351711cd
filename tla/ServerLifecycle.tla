--------------------------- MODULE ServerLifecycle ---------------------------
(***************************************************************************)
(* One game server from its creation to its deletion: its row (desired and *)
(* observed state), its container on the node, its job slot, the worker    *)
(* that executes the job step by step, and the reconciler, which works     *)
(* from a snapshot of the row it read several steps ago.                   *)
(*                                                                         *)
(* A controller crash abandons the worker, the reconciler and the agent    *)
(* call in progress; the container lives on.  The agent notices at its     *)
(* next Docker request, except where it does not read the body of the      *)
(* call: such an orphan goes on beside the next job.  Replies of the       *)
(* database that are lost are in JobQueue, the end of a paid period is in  *)
(* Subscription.                                                           *)
(***************************************************************************)
EXTENDS Naturals, NodeAgent

CONSTANTS
  MaxAttempts,   \* the 3 of recoverJobs
  MaxRequests,   \* bound: operations the API accepts
  MaxCrashes,    \* bound: crashes of the controller
  MaxFaults      \* bound: failed requests, process exits, full disks

ASSUME LifecycleAssumption ==
  /\ MaxAttempts \in Nat \ {0}
  /\ MaxRequests \in Nat
  /\ MaxCrashes \in Nat
  /\ MaxFaults \in Nat

VARIABLES
  desired,    \* servers.desired_state
  observed,   \* servers.observed_state
  deleted,    \* servers.deleted_at IS NOT NULL
  container,  \* the Docker container
  overDisk,   \* the server's directory is larger than its disk limit
  orphans,    \* agent calls without a caller: how many have which requests left
  action,     \* action of the active job, "none" without one
  phase,      \* "free", or the status of the active job
  tries,      \* its attempts
  step,       \* where executeJob is
  left,       \* Docker requests left of the agent's operation
  failed,     \* executeJob has an error
  recon,      \* where the reconciler is
  seen,       \* the row the reconciler read, and the agent's report
  up,         \* the controller is running
  budget      \* what is left of the three bounds

vars == <<desired, observed, deleted, container, overDisk, orphans, action,
          phase, tries, step, left, failed, recon, seen, up, budget>>

row == <<desired, observed, deleted>>
node == <<overDisk, orphans>>
slot == <<action, phase, tries>>
worker == <<step, left, failed>>
reconciler == <<recon, seen>>

Action == {"provision", "start", "stop", "restart", "update", "restore", "task", "delete"}
Desired == {"running", "offline", "deleted"}
Observed == {"installing", "starting", "stopping", "deleting", "running", "offline", "error"}

\* Between two rounds the reconciler remembers nothing.
NothingSeen == [desired |-> "offline", observed |-> "offline", report |-> "offline"]

Init ==
  /\ desired = "offline" /\ observed = "installing" /\ deleted = FALSE
  /\ container = "absent" /\ overDisk = FALSE /\ orphans = [c \in OrphanCall |-> 0]
  /\ action = "none" /\ phase = "free" /\ tries = 0
  /\ step = "idle" /\ left = <<>> /\ failed = FALSE
  /\ recon = "idle"
  /\ seen = NothingSeen
  /\ up = TRUE
  /\ budget = [requests |-> MaxRequests, crashes |-> MaxCrashes, faults |-> MaxFaults]

Spend(kind) ==
  /\ budget[kind] > 0
  /\ budget' = [budget EXCEPT ![kind] = @ - 1]

-----------------------------------------------------------------------------
(***************************************************************************)
(* Requests.  createLifecycleJob changes the desired state and inserts the *)
(* job in one transaction, which the unique index of active jobs undoes.   *)
(***************************************************************************)
DesiredAfter(a) ==
  CASE a \in {"start", "restart"} -> "running"
    [] a = "stop"                 -> "offline"
    [] a = "delete"               -> "deleted"
    [] OTHER                      -> desired

InsertJob(a) ==
  /\ phase = "free"
  /\ action' = a
  /\ phase' = "queued"
  /\ tries' = 0

Request(a) ==
  /\ up
  /\ ~deleted
  /\ Spend("requests")
  /\ InsertJob(a)
  /\ desired' = DesiredAfter(a)
  /\ UNCHANGED <<observed, deleted, container, node, worker, reconciler, up>>

-----------------------------------------------------------------------------
(***************************************************************************)
(* The worker: executeJob, one step per statement or agent call.           *)
(***************************************************************************)
Claim ==
  /\ up /\ step = "idle" /\ phase = "queued"
  /\ phase' = "running"
  /\ tries' = tries + 1
  /\ step' = "load"
  /\ failed' = FALSE
  /\ UNCHANGED <<row, container, node, action, left, reconciler, up, budget>>

\* Mutant: the load finds a deleted server, too.
LoadDeleted ==
  /\ step = "load"
  /\ \/ step' = "mark" /\ UNCHANGED <<failed, budget>>
     \/ step' = "finish" /\ failed' = TRUE /\ Spend("faults")
  /\ UNCHANGED <<row, container, node, slot, left, reconciler, up>>

\* store.get finds no server that is deleted; then, and when the statement
\* fails, the job fails without a trace.
Load ==
  /\ step = "load"
  /\ \/ ~deleted /\ step' = "mark" /\ UNCHANGED <<failed, budget>>
     \/ deleted /\ step' = "finish" /\ failed' = TRUE /\ UNCHANGED budget
     \/ step' = "finish" /\ failed' = TRUE /\ Spend("faults")
  /\ UNCHANGED <<row, container, node, slot, left, reconciler, up>>

Transition ==
  CASE action \in {"provision", "update"} -> "installing"
    [] action = "start"                   -> "starting"
    [] action \in {"restart", "stop"}     -> "stopping"
    [] action = "delete"                  -> "deleting"
    [] OTHER                              -> observed

\* The state shown meanwhile, then the call of the agent, which refuses to
\* start a server whose disk is full.
Mark ==
  /\ step = "mark"
  /\ observed' = Transition
  /\ IF overDisk /\ action \in {"start", "restart"}
     THEN step' = "record" /\ failed' = TRUE /\ UNCHANGED left
     ELSE step' = "agent" /\ left' = Requests(action) /\ UNCHANGED failed
  /\ UNCHANGED <<desired, deleted, container, node, slot, reconciler, up, budget>>

\* The job waits for the game to be ready only if it starts it.
AfterAgent == IF action \in {"start", "restart"} THEN "await" ELSE "record"

AgentRequest ==
  /\ step = "agent"
  /\ left # <<>>
  /\ IF Refused(Head(left), container)
     THEN /\ left' = <<>> /\ failed' = TRUE /\ step' = "record"
          /\ UNCHANGED container
     ELSE /\ container' = Performed(Head(left), container)
          /\ left' = Tail(left)
          /\ step' = IF Tail(left) = <<>> THEN AfterAgent ELSE "agent"
          /\ UNCHANGED failed
  /\ UNCHANGED <<row, node, slot, reconciler, up, budget>>

\* The call goes on without its caller.
Orphaned ==
  /\ step = "agent" /\ IgnoresBody(action)
  /\ orphans' = [orphans EXCEPT ![left] = @ + 1]

\* A request fails, a deadline passes, the agent is not reached or its answer
\* is lost, or finalizeDelete fails: before or (the interleaving of the other
\* steps and this one) after the requests took effect.
AgentFault ==
  /\ step \in {"agent", "await", "record"}
  /\ ~failed
  /\ Spend("faults")
  /\ left' = <<>> /\ failed' = TRUE /\ step' = "record"
  /\ Orphaned \/ UNCHANGED orphans
  /\ UNCHANGED <<row, container, overDisk, slot, reconciler, up>>

\* The next request of an orphan; one that is refused is its last.
OrphanRequest ==
  /\ \E call \in OrphanCall :
       /\ orphans[call] > 0
       /\ container' = IF Refused(Head(call), container) THEN container
                       ELSE Performed(Head(call), container)
       /\ orphans' = [c \in OrphanCall |->
                        orphans[c] - (IF c = call THEN 1 ELSE 0)
                                   + (IF c = Tail(call) THEN 1 ELSE 0)]
  /\ UNCHANGED <<row, overDisk, slot, worker, reconciler, up, budget>>

\* waitForServerRunning: a container that is starting is polled again.
Await ==
  /\ step = "await"
  /\ container # "starting"
  /\ failed' = (container # "running")
  /\ step' = "record"
  /\ UNCHANGED <<row, container, node, slot, left, reconciler, up, budget>>

\* The row after the agent succeeded.  finalizeDelete is the only statement
\* that sets deleted_at.
Succeed ==
  CASE action \in {"provision", "update", "stop"} ->
         observed' = "offline" /\ UNCHANGED <<desired, deleted>>
    [] action \in {"start", "restart"} ->
         observed' = "running" /\ UNCHANGED <<desired, deleted>>
    [] action = "restore" ->
         observed' = "offline" /\ desired' = "offline" /\ UNCHANGED deleted
    [] action = "delete" ->
         desired' = "deleted" /\ deleted' = TRUE /\ UNCHANGED observed
    [] action = "task" ->
         UNCHANGED row

Record ==
  /\ step = "record"
  /\ IF failed THEN observed' = "error" /\ UNCHANGED <<desired, deleted>> ELSE Succeed
  /\ step' = "finish"
  /\ UNCHANGED <<container, node, slot, left, failed, reconciler, up, budget>>

Finish ==
  /\ step = "finish"
  /\ step' = "idle"
  /\ failed' = FALSE
  /\ action' = "none" /\ phase' = "free" /\ tries' = 0
  /\ UNCHANGED <<row, container, node, left, reconciler, up, budget>>

-----------------------------------------------------------------------------
(***************************************************************************)
(* The reconciler: store.list reads the row and, with another statement,   *)
(* the active job; then the agent is asked, which stops a server that is   *)
(* over its disk limit; then the observed state and a corrective job are   *)
(* written from what was read.                                             *)
(***************************************************************************)
RoundEnds == recon' = "idle" /\ seen' = NothingSeen

List ==
  /\ up /\ recon = "idle" /\ ~deleted
  /\ seen' = [seen EXCEPT !.desired = desired, !.observed = observed]
  /\ recon' = "listed"
  /\ UNCHANGED <<row, container, node, slot, worker, up, budget>>

CheckJob ==
  /\ recon = "listed"
  /\ IF phase = "free" THEN recon' = "probe" /\ UNCHANGED seen ELSE RoundEnds
  /\ UNCHANGED <<row, container, node, slot, worker, up, budget>>

\* The limit is in the server's metadata, which may be gone with the container.
Probe ==
  /\ recon = "probe"
  /\ \E limited \in IF container = "absent" THEN {overDisk, FALSE} ELSE {overDisk} :
       /\ container' = IF limited THEN Performed("stop", container) ELSE container
       /\ seen' = [seen EXCEPT !.report = IF limited THEN "error" ELSE ReportOf(container)]
  /\ recon' = "write"
  /\ UNCHANGED <<row, node, slot, worker, up, budget>>

ProbeFault ==
  /\ recon = "probe"
  /\ Spend("faults")
  /\ RoundEnds
  /\ UNCHANGED <<row, container, node, slot, worker, up>>

\* Mutant: only a reported error counts, not a server that is just off.
IsDownOnError == seen.desired = "running" /\ seen.report = "error"

\* A server that should run and does not.
IsDown == seen.desired = "running" /\ seen.report \in {"offline", "error"}

\* Mutant: the write also changes a deleted row.
WriteDeleted ==
  /\ recon = "write"
  /\ observed' = IF seen.report = seen.observed THEN observed
                 ELSE IF IsDown THEN "error" ELSE seen.report
  /\ recon' = "correct"
  /\ UNCHANGED <<desired, deleted, container, node, slot, worker, seen, up, budget>>

\* setObservedState changes nothing in a deleted row.
WriteObserved ==
  /\ recon = "write"
  /\ observed' = IF deleted \/ seen.report = seen.observed THEN observed
                 ELSE IF IsDown THEN "error" ELSE seen.report
  /\ recon' = "correct"
  /\ UNCHANGED <<desired, deleted, container, node, slot, worker, seen, up, budget>>

Corrective ==
  IF IsDown THEN "start"
  ELSE IF seen.desired = "offline" /\ seen.report = "running" THEN "stop"
  ELSE "none"

\* Mutant: the corrective job is inserted beside an active one.
CorrectBeside ==
  /\ recon = "correct"
  /\ RoundEnds
  /\ IF Corrective = "none" THEN UNCHANGED slot
     ELSE action' = Corrective /\ phase' = "queued" /\ tries' = 0
  /\ UNCHANGED <<row, container, node, worker, up, budget>>

\* createJob looks at nothing but the index of active jobs: neither at the
\* desired state of now nor at deleted_at.
Correct ==
  /\ recon = "correct"
  /\ RoundEnds
  /\ IF Corrective # "none" /\ phase = "free" THEN InsertJob(Corrective)
     ELSE UNCHANGED slot
  /\ UNCHANGED <<row, container, node, worker, up, budget>>

-----------------------------------------------------------------------------
(***************************************************************************)
(* The environment, and the controller's own life.                         *)
(***************************************************************************)
GameReady ==
  /\ container = "starting"
  /\ container' = "running"
  /\ UNCHANGED <<row, node, slot, worker, reconciler, up, budget>>

\* The process exits and Docker starts it again (unless-stopped).
GameExit ==
  /\ container = "running"
  /\ Spend("faults")
  /\ container' = "starting"
  /\ UNCHANGED <<row, node, slot, worker, reconciler, up>>

FillDisk ==
  /\ ~overDisk /\ container = "running"
  /\ Spend("faults")
  /\ overDisk' = TRUE
  /\ UNCHANGED <<row, container, orphans, slot, worker, reconciler, up>>

FreeDisk ==
  /\ overDisk
  /\ overDisk' = FALSE
  /\ UNCHANGED <<row, container, orphans, slot, worker, reconciler, up, budget>>

Crash ==
  /\ up
  /\ Spend("crashes")
  /\ up' = FALSE
  /\ step' = "idle" /\ left' = <<>> /\ failed' = FALSE
  /\ RoundEnds
  /\ Orphaned \/ UNCHANGED orphans
  /\ UNCHANGED <<row, container, overDisk, slot>>

\* Mutant: an interrupted job is always repeated.
RestartForever ==
  /\ ~up
  /\ up' = TRUE
  /\ phase' = IF phase = "running" THEN "queued" ELSE phase
  /\ UNCHANGED <<row, container, node, action, tries, worker, reconciler, budget>>

\* recoverJobs: the interrupted job is repeated from its beginning, or given
\* up without a word to the server.
Restart ==
  /\ ~up
  /\ up' = TRUE
  /\ IF phase = "running" /\ tries >= MaxAttempts
     THEN action' = "none" /\ phase' = "free" /\ tries' = 0
     ELSE /\ phase' = IF phase = "running" THEN "queued" ELSE phase
          /\ UNCHANGED <<action, tries>>
  /\ UNCHANGED <<row, container, node, worker, reconciler, budget>>

Work == Claim \/ Load \/ Mark \/ AgentRequest \/ Await \/ Record \/ Finish
Reconcile == List \/ CheckJob \/ Probe \/ WriteObserved \/ Correct
Fault == AgentFault \/ ProbeFault \/ GameExit \/ FillDisk \/ FreeDisk \/ Crash

Next ==
  \/ \E a \in Action : Request(a)
  \/ Work
  \/ Reconcile
  \/ OrphanRequest
  \/ GameReady
  \/ Restart
  \/ Fault

(***************************************************************************)
(* Both goroutines run on tickers, Docker answers the agent's requests and *)
(* restarts the controller, and a game that is starting becomes ready      *)
(* unless something happens to it.                                         *)
(***************************************************************************)
Fairness ==
  /\ WF_vars(Work)
  /\ WF_vars(Reconcile)
  /\ WF_vars(OrphanRequest)
  /\ WF_vars(GameReady)
  /\ WF_vars(Restart)

Spec == Init /\ [][Next]_vars /\ Fairness
-----------------------------------------------------------------------------
TypeOK ==
  /\ desired \in Desired
  /\ observed \in Observed
  /\ deleted \in BOOLEAN
  /\ container \in Container
  /\ overDisk \in BOOLEAN
  /\ orphans \in [OrphanCall -> Nat]
  /\ action \in Action \cup {"none"}
  /\ phase \in {"free", "queued", "running"}
  /\ tries \in 0..MaxAttempts
  /\ step \in {"idle", "load", "mark", "agent", "await", "record", "finish"}
  /\ left \in Seq(DockerRequest)
  /\ failed \in BOOLEAN
  /\ recon \in {"idle", "listed", "probe", "write", "correct"}
  /\ seen \in [desired : Desired, observed : Observed, report : Observed]
  /\ up \in BOOLEAN
  /\ budget \in [{"requests", "crashes", "faults"} -> Nat]

\* Once a server is deleted no operation on the node is under way for it and
\* its container is gone, although the reconciler may still insert a job for
\* it and a repeated delete may still be queued.
DeletedIsIdle ==
  deleted => container = "absent" /\ step \in {"idle", "load", "finish"}

\* Deleting is final: no late write of the worker or of the reconciler, which
\* both work from older reads, changes the row or brings the container back.
DeletedStaysGone ==
  [][deleted => UNCHANGED <<desired, observed, deleted, container>>]_vars

\* With requests, crashes and faults over, a server that still has its
\* container ends up, and stays, in the state that was last asked for, and
\* its row says so: however the worker and the reconciler interleaved.
Settled ==
  \/ desired = "running" /\ container = "running" /\ observed = "running"
  \/ desired = "offline" /\ container = "stopped" /\ observed = "offline"

Converges ==
  <>[](Settled \/ desired = "deleted" \/ container = "absent" \/ overDisk)

-----------------------------------------------------------------------------
\* The lifecycle of a server keeps the promise of the queue: one operation at
\* a time, accepted only when none is active, tried at most MaxAttempts times.
Slot == INSTANCE JobSlot

ImplementsSlot == Slot!Init /\ [][Slot!Next]_<<phase, tries>>
=============================================================================
