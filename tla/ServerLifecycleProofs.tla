------------------------ MODULE ServerLifecycleProofs ------------------------
(***************************************************************************)
(* What holds of a server's lifecycle for every number of attempts,        *)
(* requests, crashes and faults: deletion is final, and the slot of the    *)
(* server is the one JobSlot promises.                                     *)
(*                                                                         *)
(* The invariant says who may touch the container and the slot: while the  *)
(* worker is at work the controller is up and the job is the claimed one,  *)
(* and a delete that has not failed is on its way through its two requests *)
(* or has left no container.                                               *)
(***************************************************************************)
EXTENDS ServerLifecycle, TLAPS

\* The type invariant by parts, so that a step has to speak of those it
\* changes only.
RowType == desired \in Desired /\ observed \in Observed /\ deleted \in BOOLEAN
NodeType == container \in Container /\ overDisk \in BOOLEAN
OrphanType == orphans \in [OrphanCall -> Nat]
JobType ==
  /\ action \in Action \cup {"none"}
  /\ phase \in {"free", "queued", "running"}
  /\ tries \in 0..MaxAttempts
StepType ==
  /\ step \in {"idle", "load", "mark", "agent", "await", "record", "finish"}
  /\ failed \in BOOLEAN
LeftType == left \in Seq(DockerRequest)
ReconcilerType ==
  /\ recon \in {"idle", "listed", "probe", "write", "correct"}
  /\ seen \in [desired : Desired, observed : Observed, report : Observed]
ControllerType ==
  /\ up \in BOOLEAN
  /\ budget \in [{"requests", "crashes", "faults"} -> Nat]

\* The worker works on the claimed job of a running controller.
WorkerAtJob ==
  /\ step # "idle" => up /\ phase = "running"
  /\ phase # "free" => action \in Action

\* A job that waits has an attempt left.
AttemptLeft == phase = "queued" => tries < MaxAttempts

\* A delete stops, removes, and then there is nothing.
DeleteOnItsWay ==
  action = "delete" =>
    /\ step = "agent" => left \in {<<"stop", "remove">>, <<"remove">>}
    /\ step # "await"
    /\ step = "record" /\ ~failed => container = "absent"

\* The inductive invariant.
LifecycleInv ==
  /\ RowType /\ NodeType /\ OrphanType /\ JobType /\ StepType /\ LeftType
  /\ ReconcilerType /\ ControllerType
  /\ WorkerAtJob
  /\ AttemptLeft
  /\ DeleteOnItsWay
  /\ DeletedIsIdle

\* The parts are the type invariant.
LEMMA TypeParts == LifecycleInv => TypeOK
  BY DEF LifecycleInv, TypeOK, RowType, NodeType, OrphanType, JobType, StepType, LeftType,
         ReconcilerType, ControllerType

\* Whatever an operation consists of is a sequence of Docker requests.
LEMMA RequestsType ==
  ASSUME NEW a \in Action
  PROVE  Requests(a) \in Seq(DockerRequest)
<1>1. /\ <<"stop", "remove", "create">> \in Seq(DockerRequest)
      /\ <<"stop", "start">> \in Seq(DockerRequest)
      /\ <<"stop", "remove">> \in Seq(DockerRequest)
  BY DEF DockerRequest
<1>2. /\ <<"start">> \in Seq(DockerRequest)
      /\ <<"stop">> \in Seq(DockerRequest)
      /\ <<"nothing">> \in Seq(DockerRequest)
  BY DEF DockerRequest
<1>3. CASE a \in {"provision", "update"}
  BY <1>1, <1>3 DEF Requests
<1>4. CASE a \in {"start", "stop", "restore"}
  BY <1>2, <1>4 DEF Requests
<1>5. CASE a = "restart"
  BY <1>1, <1>5 DEF Requests
<1>6. CASE a = "delete"
  BY <1>1, <1>6 DEF Requests
<1>7. CASE a = "task"
  BY <1>2, <1>7 DEF Requests
<1> QED BY <1>3, <1>4, <1>5, <1>6, <1>7 DEF Action

\* A request turns a container into a container, and none of them but a
\* creation makes one where there is none.
LEMMA PerformedType ==
  ASSUME NEW r \in DockerRequest, NEW c \in Container
  PROVE  /\ Performed(r, c) \in Container
         /\ Performed("stop", c) \in Container
         /\ c = "absent" /\ r # "create" => Performed(r, c) = "absent"
         /\ Performed("remove", c) = "absent"
  BY DEF Performed, DockerRequest, Container

\* A delete is two requests.
LEMMA RequestsOfDelete == Requests("delete") = <<"stop", "remove">>
  BY DEF Requests

\* What is left of an operation after its next request.
LEMMA LeftAfter ==
  /\ \A s \in Seq(DockerRequest) :
       s # <<>> => Head(s) \in DockerRequest /\ Tail(s) \in Seq(DockerRequest)
  /\ Head(<<"stop", "remove">>) = "stop" /\ Tail(<<"stop", "remove">>) = <<"remove">>
  /\ Head(<<"remove">>) = "remove" /\ Tail(<<"remove">>) = <<>>
  OBVIOUS

\* A bound that is not exhausted can be spent, and stays a bound.
LEMMA SpendType ==
  ASSUME ControllerType, NEW kind \in {"requests", "crashes", "faults"}, Spend(kind)
  PROVE  budget' \in [{"requests", "crashes", "faults"} -> Nat]
  BY DEF ControllerType, Spend

\* The next request of a call without a caller stops or starts.
LEMMA OrphanHead == \A call \in OrphanCall : Head(call) \in {"start", "stop"}
  BY DEF OrphanCall

\* One more call without a caller.
LEMMA OrphanedType ==
  ASSUME OrphanType, Orphaned
  PROVE  OrphanType'
<1>1. orphans' = [orphans EXCEPT ![left] = @ + 1] /\ orphans \in [OrphanCall -> Nat]
  BY DEF OrphanType, Orphaned
<1>2. CASE left \in OrphanCall
  BY <1>1, <1>2 DEF OrphanType
<1>3. CASE left \notin OrphanCall
  BY <1>1, <1>3 DEF OrphanType
<1> QED BY <1>2, <1>3

\* A new server has no job, no container and is not deleted.
LEMMA InitLifecycleInv == Init => LifecycleInv
<1> SUFFICES ASSUME Init
             PROVE  LifecycleInv
  OBVIOUS
<1> USE LifecycleAssumption DEF Init
<1>1. RowType /\ NodeType /\ OrphanType
  BY DEF RowType, NodeType, OrphanType, Desired, Observed, Container
<1>2. JobType /\ StepType
  <2>1. tries \in 0..MaxAttempts
    OBVIOUS
  <2>2. action \in Action \cup {"none"}
    OBVIOUS
  <2> QED BY <2>1, <2>2 DEF JobType, StepType
<1>3. LeftType
  BY DEF LeftType
<1>4. ReconcilerType
  BY DEF ReconcilerType, NothingSeen, Desired, Observed
<1>5. ControllerType
  BY DEF ControllerType
<1>6. WorkerAtJob /\ AttemptLeft /\ DeleteOnItsWay /\ DeletedIsIdle
  BY DEF WorkerAtJob, AttemptLeft, DeleteOnItsWay, DeletedIsIdle
<1> QED BY <1>1, <1>2, <1>3, <1>4, <1>5, <1>6 DEF LifecycleInv

\* A request is accepted by a free slot, and touches nothing but the row.
LEMMA RequestKeepsInv ==
  ASSUME LifecycleInv, NEW a \in Action, Request(a)
  PROVE  LifecycleInv'
<1> USE LifecycleAssumption DEF LifecycleInv, row, node, slot, worker, reconciler, Request
<1>1. NodeType' /\ OrphanType' /\ StepType' /\ LeftType' /\ ReconcilerType'
  BY DEF NodeType, OrphanType, StepType, LeftType, ReconcilerType
<1>2. RowType'
  BY DEF RowType, DesiredAfter, Desired
<1>3. JobType'
  BY DEF JobType, InsertJob
<1>4. ControllerType'
  BY SpendType DEF ControllerType
<1>5. WorkerAtJob'
  BY DEF WorkerAtJob, InsertJob
<1>6. AttemptLeft'
  BY DEF AttemptLeft, InsertJob
<1>7. DeleteOnItsWay'
  BY DEF DeleteOnItsWay, InsertJob, WorkerAtJob
<1>8. DeletedIsIdle'
  BY DEF DeletedIsIdle
<1> QED BY <1>1, <1>2, <1>3, <1>4, <1>5, <1>6, <1>7, <1>8

\* A claim takes an attempt that is left.
LEMMA ClaimKeepsInv ==
  ASSUME LifecycleInv, Claim
  PROVE  LifecycleInv'
<1> USE LifecycleAssumption DEF LifecycleInv, row, node, slot, worker, reconciler, Claim
<1>1. RowType' /\ NodeType' /\ OrphanType' /\ LeftType' /\ ReconcilerType' /\ ControllerType'
  BY DEF RowType, NodeType, OrphanType, LeftType, ReconcilerType, ControllerType
<1>2. JobType'
  BY DEF JobType, AttemptLeft
<1>3. StepType'
  BY DEF StepType
<1>4. WorkerAtJob'
  BY DEF WorkerAtJob
<1>5. AttemptLeft'
  BY DEF AttemptLeft
<1>6. DeleteOnItsWay'
  BY DEF DeleteOnItsWay
<1>7. DeletedIsIdle'
  BY DEF DeletedIsIdle
<1> QED BY <1>1, <1>2, <1>3, <1>4, <1>5, <1>6, <1>7

\* A deleted server is not loaded.
LEMMA LoadKeepsInv ==
  ASSUME LifecycleInv, Load
  PROVE  LifecycleInv'
<1> USE LifecycleAssumption DEF LifecycleInv, row, node, slot, worker, reconciler, Load
<1>1. /\ RowType' /\ NodeType' /\ OrphanType' /\ JobType'
      /\ LeftType' /\ ReconcilerType'
  BY DEF RowType, NodeType, OrphanType, JobType, LeftType, ReconcilerType
<1>2. StepType'
  BY DEF StepType
<1>3. WorkerAtJob'
  BY DEF WorkerAtJob
<1>4. AttemptLeft'
  BY DEF AttemptLeft
<1>5. DeleteOnItsWay'
  BY DEF DeleteOnItsWay
<1>6. DeletedIsIdle'
  BY DEF DeletedIsIdle
<1>7. ControllerType'
  BY SpendType DEF ControllerType
<1> QED BY <1>1, <1>2, <1>3, <1>4, <1>5, <1>6, <1>7

\* The agent's operation begins with all its requests.
LEMMA MarkKeepsInv ==
  ASSUME LifecycleInv, Mark
  PROVE  LifecycleInv'
<1> USE LifecycleAssumption DEF LifecycleInv, row, node, slot, worker, reconciler, Mark
<1>0. step = "mark" /\ action \in Action
  BY DEF WorkerAtJob
<1>1. NodeType' /\ OrphanType' /\ JobType' /\ ReconcilerType' /\ ControllerType'
  BY DEF NodeType, OrphanType, JobType, ReconcilerType, ControllerType
<1>2. RowType'
  BY DEF RowType, Transition, Observed
<1>3. StepType'
  BY DEF StepType
<1>4. LeftType'
  BY <1>0, RequestsType DEF LeftType
<1>5. WorkerAtJob'
  BY DEF WorkerAtJob
<1>6. AttemptLeft'
  BY DEF AttemptLeft
<1>7. DeleteOnItsWay'
  BY <1>0, RequestsOfDelete DEF DeleteOnItsWay
<1>8. DeletedIsIdle'
  BY DEF DeletedIsIdle
<1> QED BY <1>1, <1>2, <1>3, <1>4, <1>5, <1>6, <1>7, <1>8

\* One Docker request: that of a delete never makes a container, and its last
\* one leaves none.
LEMMA AgentRequestKeepsInv ==
  ASSUME LifecycleInv, AgentRequest
  PROVE  LifecycleInv'
<1> USE LifecycleAssumption DEF LifecycleInv, row, node, slot, worker, reconciler, AgentRequest
<1>1. RowType' /\ JobType' /\ ReconcilerType' /\ ControllerType'
  BY DEF RowType, JobType, ReconcilerType, ControllerType
<1>2. NodeType' /\ OrphanType'
  BY PerformedType DEF NodeType, OrphanType, LeftType
<1>3. StepType'
  BY DEF StepType, AfterAgent
<1>4. LeftType'
  <2>1. <<>> \in Seq(DockerRequest)
    OBVIOUS
  <2> QED BY <2>1, LeftAfter DEF LeftType
<1>5. WorkerAtJob'
  BY DEF WorkerAtJob
<1>6. AttemptLeft'
  BY DEF AttemptLeft
<1>7. DeleteOnItsWay'
  <2> SUFFICES ASSUME action = "delete"
               PROVE  DeleteOnItsWay'
    BY DEF DeleteOnItsWay, slot
  <2>1. AfterAgent = "record"
    BY DEF AfterAgent
  <2>2. CASE Refused(Head(left), container)
    BY <2>1, <2>2 DEF DeleteOnItsWay
  <2>3. CASE ~Refused(Head(left), container) /\ left = <<"stop", "remove">>
    <3>1. left' = <<"remove">> /\ step' = "agent"
      BY <2>3, LeftAfter
    <3> QED BY <3>1 DEF DeleteOnItsWay
  <2>4. CASE ~Refused(Head(left), container) /\ left = <<"remove">>
    <3>1. container' = Performed("remove", container) /\ step' = "record"
      BY <2>1, <2>4, LeftAfter
    <3>2. container' = "absent"
      BY <3>1 DEF Performed
    <3> QED BY <3>1, <3>2 DEF DeleteOnItsWay
  <2> QED BY <2>2, <2>3, <2>4 DEF DeleteOnItsWay
<1>8. DeletedIsIdle'
  BY DEF DeletedIsIdle
<1> QED BY <1>1, <1>2, <1>3, <1>4, <1>5, <1>6, <1>7, <1>8

\* A fault ends the agent's operation as a failure.
LEMMA AgentFaultKeepsInv ==
  ASSUME LifecycleInv, AgentFault
  PROVE  LifecycleInv'
<1> USE LifecycleAssumption DEF LifecycleInv, row, node, slot, worker, reconciler, AgentFault
<1>1. RowType' /\ NodeType' /\ OrphanType' /\ JobType' /\ ReconcilerType'
  BY OrphanedType DEF RowType, NodeType, OrphanType, JobType, ReconcilerType
<1>2. StepType'
  BY DEF StepType
<1>3. LeftType'
  BY DEF LeftType
<1>4. ControllerType'
  BY SpendType DEF ControllerType
<1>5. WorkerAtJob'
  BY DEF WorkerAtJob
<1>6. AttemptLeft'
  BY DEF AttemptLeft
<1>7. DeleteOnItsWay'
  BY DEF DeleteOnItsWay
<1>8. DeletedIsIdle'
  BY DEF DeletedIsIdle
<1> QED BY <1>1, <1>2, <1>3, <1>4, <1>5, <1>6, <1>7, <1>8

\* An orphan never makes a container: none of its requests is a creation.
LEMMA OrphanRequestKeepsInv ==
  ASSUME LifecycleInv, OrphanRequest
  PROVE  LifecycleInv'
<1> USE LifecycleAssumption DEF LifecycleInv, row, slot, worker, reconciler, OrphanRequest
<1>0. PICK call \in OrphanCall :
        /\ orphans[call] > 0
        /\ container' = IF Refused(Head(call), container) THEN container
                        ELSE Performed(Head(call), container)
        /\ orphans' = [c \in OrphanCall |->
                         orphans[c] - (IF c = call THEN 1 ELSE 0)
                                    + (IF c = Tail(call) THEN 1 ELSE 0)]
  OBVIOUS
<1>1. RowType' /\ JobType' /\ StepType' /\ LeftType' /\ ReconcilerType' /\ ControllerType'
  BY DEF RowType, JobType, StepType, LeftType, ReconcilerType, ControllerType
<1>2. Head(call) \in {"start", "stop"}
  BY <1>0, OrphanHead
<1>3. container' \in Container /\ (container = "absent" => container' = "absent")
  BY <1>0, <1>2, PerformedType DEF NodeType, DockerRequest
<1>4. NodeType'
  BY <1>3 DEF NodeType
<1>5. OrphanType'
  <2>1. \A c \in OrphanCall : orphans[c] \in Nat
    BY DEF OrphanType
  <2>2. \A c \in OrphanCall :
          orphans[c] - (IF c = call THEN 1 ELSE 0) + (IF c = Tail(call) THEN 1 ELSE 0) \in Nat
    BY <1>0, <2>1
  <2> QED BY <1>0, <2>2 DEF OrphanType
<1>6. WorkerAtJob' /\ AttemptLeft'
  BY DEF WorkerAtJob, AttemptLeft
<1>7. DeleteOnItsWay'
  BY <1>3 DEF DeleteOnItsWay
<1>8. DeletedIsIdle'
  BY <1>3 DEF DeletedIsIdle
<1> QED BY <1>1, <1>4, <1>5, <1>6, <1>7, <1>8

\* Only a start or a restart awaits the game.
LEMMA AwaitKeepsInv ==
  ASSUME LifecycleInv, Await
  PROVE  LifecycleInv'
<1> USE LifecycleAssumption DEF LifecycleInv, row, node, slot, worker, reconciler, Await
<1>1. /\ RowType' /\ NodeType' /\ OrphanType' /\ JobType'
      /\ LeftType' /\ ReconcilerType' /\ ControllerType'
  BY DEF RowType, NodeType, OrphanType, JobType, LeftType, ReconcilerType, ControllerType
<1>2. StepType'
  BY DEF StepType
<1>3. WorkerAtJob'
  BY DEF WorkerAtJob
<1>4. AttemptLeft'
  BY DEF AttemptLeft
<1>5. DeleteOnItsWay'
  BY DEF DeleteOnItsWay
<1>6. DeletedIsIdle'
  BY DEF DeletedIsIdle
<1> QED BY <1>1, <1>2, <1>3, <1>4, <1>5, <1>6

\* A server is deleted only when its container is gone.
LEMMA RecordKeepsInv ==
  ASSUME LifecycleInv, Record
  PROVE  LifecycleInv'
<1> USE LifecycleAssumption DEF LifecycleInv, row, node, slot, worker, reconciler, Record
<1>1. NodeType' /\ OrphanType' /\ JobType' /\ LeftType' /\ ReconcilerType' /\ ControllerType'
  BY DEF NodeType, OrphanType, JobType, LeftType, ReconcilerType, ControllerType
<1>2. RowType'
  <2>1. CASE failed
    BY <2>1 DEF RowType, Observed
  <2>2. CASE ~failed /\ action \in {"provision", "update", "stop", "start", "restart"}
    BY <2>2 DEF RowType, Observed, Succeed
  <2>3. CASE ~failed /\ action \in {"restore", "delete", "task"}
    BY <2>3 DEF RowType, Observed, Desired, Succeed, row
  <2> QED BY <2>1, <2>2, <2>3 DEF WorkerAtJob, Action
<1>3. StepType'
  BY DEF StepType
<1>4. WorkerAtJob'
  BY DEF WorkerAtJob
<1>5. AttemptLeft'
  BY DEF AttemptLeft
<1>6. DeleteOnItsWay'
  BY DEF DeleteOnItsWay
<1>7. DeletedIsIdle'
  BY DEF DeletedIsIdle, Succeed, DeleteOnItsWay, WorkerAtJob, Action
<1> QED BY <1>1, <1>2, <1>3, <1>4, <1>5, <1>6, <1>7

\* The end of a job frees the slot.
LEMMA FinishKeepsInv ==
  ASSUME LifecycleInv, Finish
  PROVE  LifecycleInv'
<1> USE LifecycleAssumption DEF LifecycleInv, row, node, slot, worker, reconciler, Finish
<1>1. RowType' /\ NodeType' /\ OrphanType' /\ LeftType' /\ ReconcilerType' /\ ControllerType'
  BY DEF RowType, NodeType, OrphanType, LeftType, ReconcilerType, ControllerType
<1>2. JobType'
  BY DEF JobType
<1>3. StepType'
  BY DEF StepType
<1>4. WorkerAtJob'
  BY DEF WorkerAtJob
<1>5. AttemptLeft'
  BY DEF AttemptLeft
<1>6. DeleteOnItsWay'
  BY DEF DeleteOnItsWay
<1>7. DeletedIsIdle'
  BY DEF DeletedIsIdle
<1> QED BY <1>1, <1>2, <1>3, <1>4, <1>5, <1>6, <1>7

\* The reconciler reads the row, and then the slot.
LEMMA ReadKeepsInv ==
  ASSUME LifecycleInv, List \/ CheckJob
  PROVE  LifecycleInv'
<1> USE LifecycleAssumption DEF LifecycleInv, row, node, slot, worker, reconciler, List, CheckJob
<1>1. RowType' /\ NodeType' /\ OrphanType' /\ JobType' /\ StepType' /\ LeftType' /\ ControllerType'
  BY DEF RowType, NodeType, OrphanType, JobType, StepType, LeftType, ControllerType
<1>2. ReconcilerType'
  <2>1. CASE List
    BY <2>1 DEF ReconcilerType, RowType
  <2>2. CASE CheckJob
    BY <2>2 DEF ReconcilerType, RoundEnds, NothingSeen, Desired, Observed
  <2> QED BY <2>1, <2>2
<1>3. WorkerAtJob'
  BY DEF WorkerAtJob
<1>4. AttemptLeft'
  BY DEF AttemptLeft
<1>5. DeleteOnItsWay'
  BY DEF DeleteOnItsWay
<1>6. DeletedIsIdle'
  BY DEF DeletedIsIdle
<1> QED BY <1>1, <1>2, <1>3, <1>4, <1>5, <1>6

\* What the agent reports never creates a container.
LEMMA ProbeKeepsInv ==
  ASSUME LifecycleInv, Probe
  PROVE  LifecycleInv'
<1> USE LifecycleAssumption DEF LifecycleInv, row, node, slot, worker, reconciler, Probe
<1>1. RowType' /\ JobType' /\ StepType' /\ LeftType' /\ ControllerType'
  BY DEF RowType, JobType, StepType, LeftType, ControllerType
<1>2. NodeType' /\ OrphanType'
  BY PerformedType DEF NodeType, OrphanType, DockerRequest
<1>3. ReconcilerType'
  BY DEF ReconcilerType, NodeType, ReportOf, Container, Observed
<1>4. WorkerAtJob'
  BY DEF WorkerAtJob
<1>5. AttemptLeft'
  BY DEF AttemptLeft
<1>6. DeleteOnItsWay'
  BY PerformedType DEF DeleteOnItsWay, NodeType, DockerRequest
<1>7. DeletedIsIdle'
  BY PerformedType DEF DeletedIsIdle, NodeType, DockerRequest
<1> QED BY <1>1, <1>2, <1>3, <1>4, <1>5, <1>6, <1>7

\* A report that does not come ends the round.
LEMMA ProbeFaultKeepsInv ==
  ASSUME LifecycleInv, ProbeFault
  PROVE  LifecycleInv'
<1> USE LifecycleAssumption DEF LifecycleInv, row, node, slot, worker, reconciler, ProbeFault
<1>1. RowType' /\ NodeType' /\ OrphanType' /\ JobType' /\ StepType' /\ LeftType'
  BY DEF RowType, NodeType, OrphanType, JobType, StepType, LeftType
<1>2. ReconcilerType'
  BY DEF ReconcilerType, RoundEnds, NothingSeen, Desired, Observed
<1>3. ControllerType'
  BY SpendType DEF ControllerType
<1>4. WorkerAtJob'
  BY DEF WorkerAtJob
<1>5. AttemptLeft'
  BY DEF AttemptLeft
<1>6. DeleteOnItsWay'
  BY DEF DeleteOnItsWay
<1>7. DeletedIsIdle'
  BY DEF DeletedIsIdle
<1> QED BY <1>1, <1>2, <1>3, <1>4, <1>5, <1>6, <1>7

\* The observed state is the one reported, or an error.
LEMMA WriteObservedKeepsInv ==
  ASSUME LifecycleInv, WriteObserved
  PROVE  LifecycleInv'
<1> USE LifecycleAssumption DEF LifecycleInv, row, node, slot, worker, reconciler, WriteObserved
<1>1. NodeType' /\ OrphanType' /\ JobType' /\ StepType' /\ LeftType' /\ ControllerType'
  BY DEF NodeType, OrphanType, JobType, StepType, LeftType, ControllerType
<1>2. RowType'
  BY DEF RowType, ReconcilerType, Observed
<1>3. ReconcilerType'
  BY DEF ReconcilerType
<1>4. WorkerAtJob'
  BY DEF WorkerAtJob
<1>5. AttemptLeft'
  BY DEF AttemptLeft
<1>6. DeleteOnItsWay'
  BY DEF DeleteOnItsWay
<1>7. DeletedIsIdle'
  BY DEF DeletedIsIdle
<1> QED BY <1>1, <1>2, <1>3, <1>4, <1>5, <1>6, <1>7

\* A corrective job needs a free slot, like any other.
LEMMA CorrectKeepsInv ==
  ASSUME LifecycleInv, Correct
  PROVE  LifecycleInv'
<1> USE LifecycleAssumption DEF LifecycleInv, row, node, slot, worker, reconciler, Correct
<1>1. RowType' /\ NodeType' /\ OrphanType' /\ StepType' /\ LeftType' /\ ControllerType'
  BY DEF RowType, NodeType, OrphanType, StepType, LeftType, ControllerType
<1>2. JobType'
  BY DEF JobType, InsertJob, Corrective, Action
<1>3. ReconcilerType'
  BY DEF ReconcilerType, RoundEnds, NothingSeen, Desired, Observed
<1>4. WorkerAtJob'
  BY DEF WorkerAtJob, InsertJob, Corrective, Action
<1>5. AttemptLeft'
  BY DEF AttemptLeft, InsertJob
<1>6. DeleteOnItsWay'
  BY DEF DeleteOnItsWay, InsertJob, WorkerAtJob, Corrective
<1>7. DeletedIsIdle'
  BY DEF DeletedIsIdle
<1> QED BY <1>1, <1>2, <1>3, <1>4, <1>5, <1>6, <1>7

\* The game and its disk: nothing happens where there is no container.
LEMMA GameKeepsInv ==
  ASSUME LifecycleInv, GameReady \/ GameExit \/ FillDisk \/ FreeDisk
  PROVE  LifecycleInv'
<1> USE LifecycleAssumption DEF LifecycleInv, row, node, slot, worker, reconciler, GameReady, GameExit, FillDisk, FreeDisk
<1>1. RowType' /\ JobType' /\ StepType' /\ LeftType' /\ ReconcilerType'
  BY DEF RowType, JobType, StepType, LeftType, ReconcilerType
<1>2. NodeType' /\ OrphanType'
  BY DEF NodeType, OrphanType, Container
<1>3. ControllerType'
  BY SpendType DEF ControllerType
<1>4. WorkerAtJob'
  BY DEF WorkerAtJob
<1>5. AttemptLeft'
  BY DEF AttemptLeft
<1>6. DeleteOnItsWay'
  BY DEF DeleteOnItsWay
<1>7. DeletedIsIdle'
  BY DEF DeletedIsIdle
<1> QED BY <1>1, <1>2, <1>3, <1>4, <1>5, <1>6, <1>7

\* A crash leaves row, slot and container as they are.
LEMMA CrashKeepsInv ==
  ASSUME LifecycleInv, Crash
  PROVE  LifecycleInv'
<1> USE LifecycleAssumption DEF LifecycleInv, row, node, slot, worker, reconciler, Crash
<1>1. RowType' /\ NodeType' /\ OrphanType' /\ JobType'
  BY OrphanedType DEF RowType, NodeType, OrphanType, JobType
<1>2. StepType'
  BY DEF StepType
<1>3. LeftType'
  BY DEF LeftType
<1>4. ReconcilerType'
  BY DEF ReconcilerType, RoundEnds, NothingSeen, Desired, Observed
<1>5. ControllerType'
  BY SpendType DEF ControllerType
<1>6. WorkerAtJob'
  BY DEF WorkerAtJob
<1>7. AttemptLeft'
  BY DEF AttemptLeft
<1>8. DeleteOnItsWay'
  BY DEF DeleteOnItsWay
<1>9. DeletedIsIdle'
  BY DEF DeletedIsIdle
<1> QED BY <1>1, <1>2, <1>3, <1>4, <1>5, <1>6, <1>7, <1>8, <1>9

\* A recovered job has an attempt left.
LEMMA RestartKeepsInv ==
  ASSUME LifecycleInv, Restart
  PROVE  LifecycleInv'
<1> USE LifecycleAssumption DEF LifecycleInv, row, node, slot, worker, reconciler, Restart
<1>1. RowType' /\ NodeType' /\ OrphanType' /\ StepType' /\ LeftType' /\ ReconcilerType'
  BY DEF RowType, NodeType, OrphanType, StepType, LeftType, ReconcilerType
<1>2. JobType'
  BY DEF JobType
<1>3. ControllerType'
  BY DEF ControllerType
<1>4. WorkerAtJob'
  BY DEF WorkerAtJob
<1>5. AttemptLeft'
  BY DEF AttemptLeft, JobType
<1>6. DeleteOnItsWay'
  BY DEF DeleteOnItsWay
<1>7. DeletedIsIdle'
  BY DEF DeletedIsIdle
<1> QED BY <1>1, <1>2, <1>3, <1>4, <1>5, <1>6, <1>7

\* Nothing changes.
LEMMA StutterKeepsInv ==
  ASSUME LifecycleInv, UNCHANGED vars
  PROVE  LifecycleInv'
<1> USE LifecycleAssumption DEF LifecycleInv, row, node, slot, worker, reconciler, vars
<1>1. /\ RowType' /\ NodeType' /\ OrphanType' /\ JobType'
      /\ StepType' /\ LeftType' /\ ReconcilerType'
      /\ ControllerType'
  BY DEF RowType, NodeType, OrphanType, JobType, StepType, LeftType, ReconcilerType,
     ControllerType
<1>2. WorkerAtJob'
  BY DEF WorkerAtJob
<1>3. AttemptLeft'
  BY DEF AttemptLeft
<1>4. DeleteOnItsWay'
  BY DEF DeleteOnItsWay
<1>5. DeletedIsIdle'
  BY DEF DeletedIsIdle
<1> QED BY <1>1, <1>2, <1>3, <1>4, <1>5

\* The inductive step, one case per action.
LEMMA NextLifecycleInv == LifecycleInv /\ [Next]_vars => LifecycleInv'
<1> SUFFICES ASSUME LifecycleInv, [Next]_vars
             PROVE  LifecycleInv'
  OBVIOUS
<1>1. CASE \E a \in Action : Request(a)
  BY <1>1, RequestKeepsInv
<1>2. CASE Work
  BY <1>2, ClaimKeepsInv, LoadKeepsInv, MarkKeepsInv, AgentRequestKeepsInv,
     AwaitKeepsInv, RecordKeepsInv, FinishKeepsInv DEF Work
<1>3. CASE Reconcile
  BY <1>3, ReadKeepsInv, ProbeKeepsInv, WriteObservedKeepsInv,
     CorrectKeepsInv DEF Reconcile
<1>4. CASE Fault
  BY <1>4, AgentFaultKeepsInv, ProbeFaultKeepsInv, GameKeepsInv,
     CrashKeepsInv DEF Fault
<1>5. CASE OrphanRequest \/ GameReady \/ Restart \/ UNCHANGED vars
  BY <1>5, OrphanRequestKeepsInv, GameKeepsInv, RestartKeepsInv, StutterKeepsInv
<1> QED BY <1>1, <1>2, <1>3, <1>4, <1>5 DEF Next

\* Every state of every lifecycle satisfies the invariant (jobs.go, routes.go,
\* store.go of the controller).
THEOREM LifecycleInvariant == Spec => []LifecycleInv
  BY InitLifecycleInv, NextLifecycleInv, PTL DEF Spec

\* The rows, the job and the reconciler's snapshot keep their types.
THEOREM LifecycleTypeCorrect == Spec => []TypeOK
  BY LifecycleInvariant, TypeParts, PTL

\* Nothing runs for a deleted server, and its container is gone: the delete
\* that set deleted_at had stopped and removed it, and no later job is loaded.
THEOREM DeletionIsIdle == Spec => []DeletedIsIdle
<1>1. LifecycleInv => DeletedIsIdle
  BY DEF LifecycleInv
<1> QED BY <1>1, LifecycleInvariant, PTL

\* No step changes the row or the container of a deleted server: the worker
\* does not load it, the reconciler's write and Docker's requests miss it.
LEMMA DeletedStep ==
  ASSUME LifecycleInv, [Next]_vars, deleted
  PROVE  UNCHANGED <<desired, observed, deleted, container>>
<1> USE DEF LifecycleInv, row, node, slot, worker, reconciler
<1>0. container = "absent" /\ step \in {"idle", "load", "finish"}
  BY DEF DeletedIsIdle
<1>1. CASE \E a \in Action : Request(a)
  BY <1>1 DEF Request
<1>2. CASE Work
  BY <1>0, <1>2 DEF Work, Claim, Load, Mark, AgentRequest, Await, Record, Finish
<1>3. CASE Reconcile
  <2>1. CASE Probe
    BY <1>0, <2>1 DEF Probe, Performed
  <2>2. CASE List \/ CheckJob \/ WriteObserved \/ Correct
    BY <2>2 DEF List, CheckJob, WriteObserved, Correct
  <2> QED BY <1>3, <2>1, <2>2 DEF Reconcile
<1>4. CASE Fault
  BY <1>0, <1>4 DEF Fault, AgentFault, ProbeFault, GameExit, FillDisk, FreeDisk,
     Crash
<1>5. CASE GameReady \/ Restart \/ UNCHANGED vars
  BY <1>0, <1>5 DEF GameReady, Restart, vars
<1>6. CASE OrphanRequest
  BY <1>0, <1>6, OrphanHead DEF OrphanRequest, Refused, Performed
<1> QED BY <1>1, <1>2, <1>3, <1>4, <1>5, <1>6 DEF Next

\* Deleting is final.
THEOREM DeletionIsFinal == Spec => DeletedStaysGone
<1>1. LifecycleInv /\ [Next]_vars
        => [deleted => UNCHANGED <<desired, observed, deleted, container>>]_vars
  BY DeletedStep
<1> QED BY <1>1, LifecycleInvariant, PTL DEF Spec, DeletedStaysGone

\* A step of the lifecycle that changes the slot is a step of JobSlot.
LEMMA SlotStep ==
  ASSUME LifecycleInv, [Next]_vars
  PROVE  [Slot!Next]_<<phase, tries>>
<1> USE DEF LifecycleInv, row, node, slot, worker, reconciler
<1>1. CASE (\E a \in Action : Request(a)) \/ Correct
  BY <1>1 DEF Request, Correct, InsertJob, Slot!Next, Slot!Submit
<1>2. CASE Claim
  BY <1>2 DEF Claim, AttemptLeft, Slot!Next, Slot!Attempt
<1>3. CASE Finish
  BY <1>3 DEF Finish, WorkerAtJob, Slot!Next, Slot!Resolve
<1>4. CASE Restart
  <2>1. CASE phase = "running" /\ tries >= MaxAttempts
    BY <1>4, <2>1 DEF Restart, Slot!Next, Slot!Resolve
  <2>2. CASE phase = "running" /\ ~(tries >= MaxAttempts)
    <3>1. tries < MaxAttempts
      BY <2>2, LifecycleAssumption DEF JobType
    <3> QED BY <1>4, <2>2, <3>1 DEF Restart, Slot!Next, Slot!Requeue
  <2>3. CASE phase # "running"
    BY <1>4, <2>3 DEF Restart
  <2> QED BY <2>1, <2>2, <2>3
<1>5. CASE Load \/ Mark \/ AgentRequest \/ Await \/ Record
  BY <1>5 DEF Load, Mark, AgentRequest, Await, Record
<1>6. CASE List \/ CheckJob \/ Probe \/ WriteObserved
  BY <1>6 DEF List, CheckJob, Probe, WriteObserved
<1>7. CASE OrphanRequest \/ GameReady \/ Fault \/ UNCHANGED vars
  BY <1>7 DEF OrphanRequest, GameReady, Fault, AgentFault, ProbeFault, GameExit, FillDisk,
     FreeDisk, Crash, vars
<1> QED BY <1>1, <1>2, <1>3, <1>4, <1>5, <1>6, <1>7 DEF Next, Work, Reconcile

\* The lifecycle, with its reconciler, crashes and recovery, implements the
\* slot of one server.
THEOREM LifecycleImplementsSlot == Spec => ImplementsSlot
<1>1. Init => Slot!Init
  BY DEF Init, Slot!Init
<1>2. LifecycleInv /\ [Next]_vars => [Slot!Next]_<<phase, tries>>
  BY SlotStep
<1> QED BY <1>1, <1>2, LifecycleInvariant, PTL DEF Spec, ImplementsSlot
=============================================================================
