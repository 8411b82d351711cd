--------------------------- MODULE JobQueueProofs ---------------------------
(***************************************************************************)
(* What holds of the job queue for every number of jobs, servers and       *)
(* attempts: QueueInv is inductive, so each of its conjuncts is an         *)
(* invariant; from it follow the finality of outcomes and that the queue   *)
(* implements JobSlot for every server.                                    *)
(***************************************************************************)
EXTENDS JobQueue, TLAPS

\* The initial table is empty: QueueInv holds of it.
LEMMA InitQueueInv == Init => QueueInv
<1> SUFFICES ASSUME Init
             PROVE  QueueInv
  OBVIOUS
<1> USE JobQueueAssumption DEF Init
<1>1. TypeOK
  BY DEF TypeOK, Status
<1>2. \A j \in Job : ~IsActive(j)
  BY DEF IsActive
<1>3. WorkerHoldsRunning
  BY DEF WorkerHoldsRunning
<1>4. AttemptsBounded
  BY DEF AttemptsBounded, Outcome
<1> QED BY <1>1, <1>2, <1>3, <1>4 DEF QueueInv, OneActivePerServer, ActiveHasTarget

\* An insert respects the index, and its row has no attempt yet.
LEMMA InsertQueueInv ==
  ASSUME QueueInv, NEW j \in Job, NEW s \in Server, NEW t \in Stamp, Insert(j, s, t)
  PROVE  QueueInv'
<1> USE JobQueueAssumption DEF QueueInv, TypeOK, Insert
<1>1. TypeOK'
  BY DEF Status
<1>2. OneActivePerServer'
  <2> SUFFICES ASSUME NEW k \in Job, NEW l \in Job,
                      IsActive(k)', IsActive(l)', target'[k] = target'[l]
               PROVE  k = l
    BY DEF OneActivePerServer
  <2>1. CASE k # j /\ l # j
    BY <2>1 DEF OneActivePerServer, IsActive
  <2>2. CASE k = j \/ l = j
    BY <2>2 DEF IsActive
  <2> QED BY <2>1, <2>2
<1>3. WorkerHoldsRunning'
  BY DEF WorkerHoldsRunning
<1>4. AttemptsBounded'
  BY DEF AttemptsBounded, Outcome
<1>5. ActiveHasTarget'
  BY DEF ActiveHasTarget, IsActive
<1> QED BY <1>1, <1>2, <1>3, <1>4, <1>5

\* A claim, its reply received or lost, is one attempt of an active job.
LEMMA TakeRowQueueInv ==
  ASSUME QueueInv, NEW j \in Job, TakeRow(j), worker' \in {j, None},
         UNCHANGED <<target, created, up>>
  PROVE  QueueInv'
<1> USE JobQueueAssumption DEF QueueInv, TypeOK, TakeRow, IsOldest
<1>1. TypeOK'
  BY DEF Status
<1>2. OneActivePerServer'
  BY DEF OneActivePerServer, IsActive
<1>3. WorkerHoldsRunning'
  BY DEF WorkerHoldsRunning
<1>4. AttemptsBounded'
  <2>1. attempts[j] \in Nat /\ attempts[j] < MaxAttempts
    BY DEF AttemptsBounded
  <2>2. attempts'[j] \in 1..MaxAttempts /\ status'[j] = "running"
    BY <2>1
  <2>3. \A k \in Job \ {j} : attempts'[k] = attempts[k] /\ status'[k] = status[k]
    OBVIOUS
  <2> QED BY <2>2, <2>3 DEF AttemptsBounded, Outcome
<1>5. ActiveHasTarget'
  BY DEF ActiveHasTarget, IsActive
<1> QED BY <1>1, <1>2, <1>3, <1>4, <1>5

\* finishJob ends the job of the worker, or changes nothing.
LEMMA FinishQueueInv ==
  ASSUME QueueInv, NEW outcome \in Outcome, Finish(outcome)
  PROVE  QueueInv'
<1> USE JobQueueAssumption DEF QueueInv, TypeOK, Finish
<1>0. worker \in Job /\ status[worker] = "running"
  BY DEF WorkerHoldsRunning
<1>1. TypeOK'
  BY <1>0 DEF Status, Outcome
<1>2. OneActivePerServer'
  BY <1>0 DEF OneActivePerServer, IsActive, Outcome
<1>3. WorkerHoldsRunning'
  BY DEF WorkerHoldsRunning
<1>4. AttemptsBounded'
  BY <1>0 DEF AttemptsBounded, Outcome
<1>5. ActiveHasTarget'
  BY <1>0 DEF ActiveHasTarget, IsActive, Outcome
<1> QED BY <1>1, <1>2, <1>3, <1>4, <1>5

\* recoverJobs leaves no job running: none of the rows it requeues or gives
\* up is next to an active row of the same server.
LEMMA StartQueueInv ==
  ASSUME QueueInv, Start
  PROVE  QueueInv'
<1> USE JobQueueAssumption DEF QueueInv, TypeOK, Start, Recovered
<1>0. \A j \in Job : IsActive(j)' => IsActive(j)
  BY DEF IsActive
<1>1. TypeOK'
  BY DEF Status
<1>2. OneActivePerServer'
  BY <1>0 DEF OneActivePerServer
<1>3. WorkerHoldsRunning'
  BY DEF WorkerHoldsRunning
<1>4. AttemptsBounded'
  BY DEF AttemptsBounded, Outcome
<1>5. ActiveHasTarget'
  BY <1>0 DEF ActiveHasTarget
<1> QED BY <1>1, <1>2, <1>3, <1>4, <1>5

\* Losing the worker, with or without the process, changes no row.
LEMMA IdleQueueInv ==
  ASSUME QueueInv, FinishLost \/ Crash \/ UNCHANGED vars
  PROVE  QueueInv'
  BY JobQueueAssumption
  DEF QueueInv, TypeOK, OneActivePerServer, IsActive, WorkerHoldsRunning,
      AttemptsBounded, ActiveHasTarget, FinishLost, Crash, vars

\* The inductive step, one case per action.
LEMMA NextQueueInv == QueueInv /\ [Next]_vars => QueueInv'
<1> SUFFICES ASSUME QueueInv, [Next]_vars
             PROVE  QueueInv'
  OBVIOUS
<1>1. CASE \E j \in Job, s \in Server, t \in Stamp : Insert(j, s, t)
  BY <1>1, InsertQueueInv
<1>2. CASE ClaimSome
  BY <1>2, TakeRowQueueInv DEF ClaimSome, Claim
<1>3. CASE \E j \in Job : ClaimLost(j)
  BY <1>3, TakeRowQueueInv DEF ClaimLost, TakeRow
<1>4. CASE FinishSome
  BY <1>4, FinishQueueInv DEF FinishSome
<1>5. CASE Start
  BY <1>5, StartQueueInv
<1>6. CASE FinishLost \/ Crash \/ UNCHANGED vars
  BY <1>6, IdleQueueInv
<1> QED BY <1>1, <1>2, <1>3, <1>4, <1>5, <1>6 DEF Next

\* The type invariant, and with it every safety invariant of the queue, holds
\* in every reachable state of a queue of any size.
THEOREM QueueInvariant == Spec => []QueueInv
  BY InitQueueInv, NextQueueInv, PTL DEF Spec

\* The table and the worker keep their types (store.go, jobs.go).
THEOREM TypeCorrect == Spec => []TypeOK
<1>1. QueueInv => TypeOK
  BY DEF QueueInv
<1> QED BY <1>1, QueueInvariant, PTL

\* A server never has two active jobs, through crashes and recovery.
THEOREM SlotExclusive == Spec => []OneActivePerServer
<1>1. QueueInv => OneActivePerServer
  BY DEF QueueInv
<1> QED BY <1>1, QueueInvariant, PTL

\* The worker's job is the claimed row as long as the worker holds it, so the
\* unconditional UPDATE of finishJob only ever ends a running job.
THEOREM WorkerOwnsItsRow == Spec => []WorkerHoldsRunning
<1>1. QueueInv => WorkerHoldsRunning
  BY DEF QueueInv
<1> QED BY <1>1, QueueInvariant, PTL

\* A job is attempted at most MaxAttempts times and never ends unattempted.
THEOREM BoundedAttempts == Spec => []AttemptsBounded
<1>1. QueueInv => AttemptsBounded
  BY DEF QueueInv
<1> QED BY <1>1, QueueInvariant, PTL

\* One step never changes the outcome or the attempts of a finished job.
LEMMA StepKeepsOutcome ==
  ASSUME QueueInv, Next, NEW j \in Job, status[j] \in Outcome
  PROVE  status'[j] = status[j] /\ attempts'[j] = attempts[j]
<1> USE DEF QueueInv, TypeOK, Outcome
<1>1. CASE \E k \in Job, s \in Server, t \in Stamp : Insert(k, s, t)
  BY <1>1 DEF Insert
<1>2. CASE ClaimSome \/ \E k \in Job : ClaimLost(k)
  BY <1>2 DEF ClaimSome, Claim, ClaimLost, TakeRow, IsOldest
<1>3. CASE FinishSome
  BY <1>3, JobQueueAssumption DEF FinishSome, Finish, WorkerHoldsRunning
<1>4. CASE FinishLost \/ Crash
  BY <1>4 DEF FinishLost, Crash
<1>5. CASE Start
  BY <1>5 DEF Start, Recovered
<1> QED BY <1>1, <1>2, <1>3, <1>4, <1>5 DEF Next

\* An outcome, once written, stays: it is what the job page of the API shows
\* for ever, whatever crashes and restarts follow.
THEOREM OutcomesAreFinal == Spec => OutcomeIsFinal
<1>1. QueueInv /\ [Next]_vars =>
        [\A j \in Job : status[j] \in Outcome =>
           status'[j] = status[j] /\ attempts'[j] = attempts[j]]_vars
  BY StepKeepsOutcome
<1> QED BY <1>1, QueueInvariant, PTL DEF Spec, OutcomeIsFinal

-----------------------------------------------------------------------------
(***************************************************************************)
(* The refinement.                                                         *)
(***************************************************************************)

\* The slot of a server with an active job shows that job.
LEMMA SlotOfActive ==
  ASSUME QueueInv, NEW j \in Job, IsActive(j)
  PROVE  SlotPhase(target[j]) = status[j] /\ SlotTries(target[j]) = attempts[j]
<1> DEFINE s == target[j]
<1>1. ActiveOf(s) = {j}
  BY DEF ActiveOf, QueueInv, OneActivePerServer
<1>2. (CHOOSE k \in Job : k \in ActiveOf(s)) = j
  BY <1>1
<1> QED BY <1>1, <1>2 DEF SlotPhase, SlotTries

\* The slot of a server without one is free.
LEMMA SlotOfNone ==
  ASSUME NEW s \in Server, \A j \in Job : IsActive(j) => target[j] # s
  PROVE  SlotPhase(s) = "free" /\ SlotTries(s) = 0
<1>1. ActiveOf(s) = {}
  BY DEF ActiveOf
<1> QED BY <1>1 DEF SlotPhase, SlotTries

\* The same two facts of the next state.
LEMMA SlotOfActiveNext ==
  ASSUME QueueInv', NEW j \in Job, IsActive(j)', NEW s \in Server, target'[j] = s
  PROVE  SlotPhase(s)' = status'[j] /\ SlotTries(s)' = attempts'[j]
<1>1. ActiveOf(s)' = {j}
  BY DEF ActiveOf, QueueInv, OneActivePerServer
<1>2. (CHOOSE k \in Job : k \in ActiveOf(s)') = j
  BY <1>1
<1> QED BY <1>1, <1>2 DEF SlotPhase, SlotTries

LEMMA SlotOfNoneNext ==
  ASSUME NEW s \in Server, \A j \in Job : IsActive(j)' => target'[j] # s
  PROVE  SlotPhase(s)' = "free" /\ SlotTries(s)' = 0
<1>1. ActiveOf(s)' = {}
  BY DEF ActiveOf
<1> QED BY <1>1 DEF SlotPhase, SlotTries

\* A step that leaves the jobs of a server alone leaves its slot alone.
LEMMA SlotUntouched ==
  ASSUME NEW s \in Server,
         ActiveOf(s)' = ActiveOf(s),
         \A j \in ActiveOf(s) : status'[j] = status[j] /\ attempts'[j] = attempts[j]
  PROVE  SlotStep(s)
<1>1. CASE ActiveOf(s) = {}
  BY <1>1 DEF SlotStep, SlotPhase, SlotTries
<1>2. CASE ActiveOf(s) # {}
  <2> DEFINE k == CHOOSE j \in Job : j \in ActiveOf(s)
  <2>1. k \in ActiveOf(s)
    BY <1>2 DEF ActiveOf
  <2>2. SlotPhase(s) = status[k] /\ SlotTries(s) = attempts[k]
    BY <1>2 DEF SlotPhase, SlotTries
  <2>3. SlotPhase(s)' = status'[k] /\ SlotTries(s)' = attempts'[k]
    BY <1>2 DEF SlotPhase, SlotTries
  <2> QED BY <2>1, <2>2, <2>3 DEF SlotStep
<1> QED BY <1>1, <1>2

\* An insert fills the free slot of its server.
LEMMA InsertSlot ==
  ASSUME QueueInv, QueueInv', NEW j \in Job, NEW r \in Server, NEW t \in Stamp,
         Insert(j, r, t), NEW s \in Server
  PROVE  SlotStep(s)
<1> USE DEF Insert, QueueInv, TypeOK
<1>1. CASE s = r
  <2>1. SlotPhase(s) = "free" /\ SlotTries(s) = 0
    BY <1>1, SlotOfNone
  <2>2. IsActive(j)' /\ target'[j] = s /\ status'[j] = "queued" /\ attempts'[j] = 0
    BY <1>1 DEF IsActive, AttemptsBounded
  <2>3. SlotPhase(s)' = "queued" /\ SlotTries(s)' = 0
    BY <2>2, SlotOfActiveNext
  <2> QED BY <2>1, <2>3 DEF SlotStep, Slot!Next, Slot!Submit
<1>2. CASE s # r
  <2>1. ActiveOf(s)' = ActiveOf(s)
    BY <1>2 DEF ActiveOf, IsActive
  <2>2. \A k \in ActiveOf(s) : status'[k] = status[k] /\ attempts'[k] = attempts[k]
    BY DEF ActiveOf, IsActive
  <2> QED BY <2>1, <2>2, SlotUntouched
<1> QED BY <1>1, <1>2

\* A claim is an attempt in the slot of the claimed job's server.
LEMMA TakeRowSlot ==
  ASSUME QueueInv, QueueInv', NEW j \in Job, TakeRow(j), target' = target,
         NEW s \in Server
  PROVE  SlotStep(s)
<1> USE DEF TakeRow, IsOldest, QueueInv, TypeOK
<1>1. CASE s = target[j]
  <2>1. SlotPhase(s) = "queued" /\ SlotTries(s) = attempts[j]
    BY <1>1, SlotOfActive DEF IsActive
  <2>2. IsActive(j)' /\ status'[j] = "running" /\ attempts'[j] = attempts[j] + 1
    BY DEF IsActive
  <2>3. SlotPhase(s)' = "running" /\ SlotTries(s)' = attempts[j] + 1
    BY <1>1, <2>2, SlotOfActiveNext
  <2>4. attempts[j] < MaxAttempts
    BY DEF AttemptsBounded
  <2> QED BY <2>1, <2>3, <2>4 DEF SlotStep, Slot!Next, Slot!Attempt
<1>2. CASE s # target[j]
  <2>1. ActiveOf(s)' = ActiveOf(s)
    BY <1>2 DEF ActiveOf, IsActive
  <2>2. \A k \in ActiveOf(s) : status'[k] = status[k] /\ attempts'[k] = attempts[k]
    BY <1>2 DEF ActiveOf
  <2> QED BY <2>1, <2>2, SlotUntouched
<1> QED BY <1>1, <1>2

\* finishJob resolves the slot of the worker's job.
LEMMA FinishSlot ==
  ASSUME QueueInv, NEW outcome \in Outcome, Finish(outcome), NEW s \in Server
  PROVE  SlotStep(s)
<1> USE DEF Finish, QueueInv, TypeOK
<1>0. worker \in Job /\ status[worker] = "running" /\ IsActive(worker)
  BY DEF WorkerHoldsRunning, IsActive
<1>1. CASE s = target[worker]
  <2>1. SlotPhase(s) = "running"
    BY <1>0, <1>1, SlotOfActive
  <2>2. \A j \in Job : IsActive(j)' => target'[j] # s
    BY <1>0, <1>1 DEF IsActive, Outcome, OneActivePerServer
  <2>3. SlotPhase(s)' = "free" /\ SlotTries(s)' = 0
    BY <2>2, SlotOfNoneNext
  <2> QED BY <2>1, <2>3 DEF SlotStep, Slot!Next, Slot!Resolve
<1>2. CASE s # target[worker]
  <2>1. ActiveOf(s)' = ActiveOf(s)
    BY <1>0, <1>2 DEF ActiveOf, IsActive
  <2>2. \A k \in ActiveOf(s) : status'[k] = status[k] /\ attempts'[k] = attempts[k]
    BY <1>2 DEF ActiveOf
  <2> QED BY <2>1, <2>2, SlotUntouched
<1> QED BY <1>1, <1>2

\* Recovery requeues or resolves the slot of an interrupted job and leaves
\* every other slot alone.
LEMMA StartSlot ==
  ASSUME QueueInv, QueueInv', Start, NEW s \in Server
  PROVE  SlotStep(s)
<1> USE DEF Start, Recovered, QueueInv, TypeOK
<1>1. CASE \A j \in ActiveOf(s) : status[j] = "queued"
  <2>1. ActiveOf(s)' = ActiveOf(s)
    BY <1>1 DEF ActiveOf, IsActive
  <2>2. \A j \in ActiveOf(s) : status'[j] = status[j] /\ attempts'[j] = attempts[j]
    BY <1>1 DEF ActiveOf
  <2> QED BY <2>1, <2>2, SlotUntouched
<1>2. ASSUME NEW j \in ActiveOf(s), status[j] # "queued"
      PROVE  SlotStep(s)
  <2>1. j \in Job /\ IsActive(j) /\ target[j] = s /\ status[j] = "running"
    BY <1>2 DEF ActiveOf, IsActive
  <2>2. SlotPhase(s) = "running" /\ SlotTries(s) = attempts[j]
    BY <2>1, SlotOfActive
  <2>3. CASE attempts[j] >= MaxAttempts
    <3>1. \A k \in Job : IsActive(k)' => target'[k] # s
      BY <2>1, <2>3 DEF IsActive, OneActivePerServer
    <3>2. SlotPhase(s)' = "free" /\ SlotTries(s)' = 0
      BY <3>1, SlotOfNoneNext
    <3> QED BY <2>2, <3>2 DEF SlotStep, Slot!Next, Slot!Resolve
  <2>4. CASE attempts[j] < MaxAttempts
    <3>1. IsActive(j)' /\ status'[j] = "queued" /\ attempts'[j] = attempts[j]
      BY <2>1, <2>4, JobQueueAssumption DEF IsActive
    <3>2. SlotPhase(s)' = "queued" /\ SlotTries(s)' = attempts[j]
      BY <2>1, <3>1, SlotOfActiveNext
    <3> QED BY <2>2, <2>4, <3>2 DEF SlotStep, Slot!Next, Slot!Requeue
  <2>5. attempts[j] \in Nat /\ MaxAttempts \in Nat
    BY <2>1, JobQueueAssumption
  <2> QED BY <2>3, <2>4, <2>5
<1> QED BY <1>1, <1>2

\* A step that changes no row changes no slot.
LEMMA IdleSlot ==
  ASSUME FinishLost \/ Crash, NEW s \in Server
  PROVE  SlotStep(s)
<1>1. ActiveOf(s)' = ActiveOf(s)
  BY DEF FinishLost, Crash, ActiveOf, IsActive
<1>2. \A k \in ActiveOf(s) : status'[k] = status[k] /\ attempts'[k] = attempts[k]
  BY DEF FinishLost, Crash
<1> QED BY <1>1, <1>2, SlotUntouched

\* Every step of the queue is, for every server, a step of its slot or none.
LEMMA NextSlot ==
  ASSUME QueueInv, QueueInv', Next, NEW s \in Server
  PROVE  SlotStep(s)
<1>1. CASE \E j \in Job, r \in Server, t \in Stamp : Insert(j, r, t)
  BY <1>1, InsertSlot
<1>2. CASE ClaimSome \/ \E j \in Job : ClaimLost(j)
  BY <1>2, TakeRowSlot DEF ClaimSome, Claim, ClaimLost
<1>3. CASE FinishSome
  BY <1>3, FinishSlot DEF FinishSome
<1>4. CASE Start
  BY <1>4, StartSlot
<1>5. CASE FinishLost \/ Crash
  BY <1>5, IdleSlot
<1> QED BY <1>1, <1>2, <1>3, <1>4, <1>5 DEF Next

\* The queue implements JobSlot for every server: with any number of jobs
\* and servers, what the other servers' jobs do never shows in a slot.
THEOREM QueueImplementsSlot == Spec => ImplementsSlot
<1>1. Init => \A s \in Server : Slot(s)!Init
  <2> SUFFICES ASSUME Init, NEW s \in Server
               PROVE  Slot(s)!Init
    OBVIOUS
  <2>1. \A j \in Job : IsActive(j) => target[j] # s
    BY DEF Init, IsActive
  <2> QED BY <2>1, SlotOfNone DEF Slot!Init
<1>2. QueueInv /\ QueueInv' /\ [Next]_vars => [\A s \in Server : SlotStep(s)]_vars
  BY NextSlot
<1> QED BY <1>1, <1>2, QueueInvariant, PTL DEF Spec, ImplementsSlot
=============================================================================
