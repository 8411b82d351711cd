------------------------------ MODULE JobQueue ------------------------------
(***************************************************************************)
(* The durable job queue of the controller: the jobs table of PostgreSQL,  *)
(* the one worker goroutine that drains it, and the recovery a starting    *)
(* controller runs before it starts the worker.  What a job does is left   *)
(* to ServerLifecycle, Subscription and Restore: here a job has an outcome *)
(* and nothing else.                                                       *)
(*                                                                         *)
(* The controller has no graceful shutdown, so every stop of the process,  *)
(* wanted or not, is a Crash.  A statement whose reply is lost may have    *)
(* taken effect (ClaimLost) or not (FinishLost): the controller logs the   *)
(* error and goes on, and the row stays "running" without a worker.        *)
(***************************************************************************)
EXTENDS Naturals

CONSTANTS
  Job,          \* identifiers a job row may get (uuid.NewString)
  Server,       \* servers.id
  None,         \* no job, no server
  Stamp,        \* values of created_at
  MaxAttempts   \* the 3 of recoverJobs

ASSUME JobQueueAssumption ==
  /\ None \notin Job
  /\ None \notin Server
  /\ Stamp \subseteq Nat
  /\ MaxAttempts \in Nat \ {0}

VARIABLES
  status,    \* jobs.status, "unused" for an identifier without a row
  target,    \* jobs.server_id
  attempts,  \* jobs.attempts
  created,   \* jobs.created_at
  worker,    \* the job executeJob is working on
  up         \* the controller process is running

vars == <<status, target, attempts, created, worker, up>>

Status == {"unused", "queued", "running", "completed", "failed"}
Outcome == {"completed", "failed"}

\* The rows the partial unique index jobs_one_active_server_idx covers.
IsActive(j) == status[j] \in {"queued", "running"}

Init ==
  /\ status = [j \in Job |-> "unused"]
  /\ target = [j \in Job |-> None]
  /\ attempts = [j \in Job |-> 0]
  /\ created = [j \in Job |-> 0]
  /\ worker = None
  /\ up = FALSE

-----------------------------------------------------------------------------
\* Mutant: an index over the queued rows only.
InsertBesideRunning(j, s, t) ==
  /\ up
  /\ status[j] = "unused"
  /\ \A k \in Job : status[k] = "queued" => target[k] # s
  /\ status' = [status EXCEPT ![j] = "queued"]
  /\ target' = [target EXCEPT ![j] = s]
  /\ created' = [created EXCEPT ![j] = t]
  /\ UNCHANGED <<attempts, worker, up>>

(***************************************************************************)
(* Every enqueuing statement.  created_at is now(), the start of the       *)
(* inserting transaction, so a row may appear after rows that carry a      *)
(* later stamp: any stamp may be inserted at any time.  The index refuses  *)
(* a second active row of the server and the whole transaction with it.    *)
(***************************************************************************)
Insert(j, s, t) ==
  /\ up
  /\ status[j] = "unused"
  /\ \A k \in Job : IsActive(k) => target[k] # s
  /\ status' = [status EXCEPT ![j] = "queued"]
  /\ target' = [target EXCEPT ![j] = s]
  /\ created' = [created EXCEPT ![j] = t]
  /\ UNCHANGED <<attempts, worker, up>>

\* Mutant: the oldest row must be older than every other one.
IsStrictlyOldest(j) ==
  /\ status[j] = "queued"
  /\ \A k \in Job \ {j} : status[k] = "queued" => created[j] < created[k]

\* ORDER BY created_at LIMIT 1 among the queued rows.
IsOldest(j) ==
  /\ status[j] = "queued"
  /\ \A k \in Job : status[k] = "queued" => created[j] <= created[k]

\* Mutant: a claim that is not counted as an attempt.
TakeRowUncounted(j) ==
  /\ up
  /\ worker = None
  /\ IsOldest(j)
  /\ status' = [status EXCEPT ![j] = "running"]
  /\ UNCHANGED attempts

\* The UPDATE of claimJob.
TakeRow(j) ==
  /\ up
  /\ worker = None
  /\ IsOldest(j)
  /\ status' = [status EXCEPT ![j] = "running"]
  /\ attempts' = [attempts EXCEPT ![j] = @ + 1]

Claim(j) ==
  /\ TakeRow(j)
  /\ worker' = j
  /\ UNCHANGED <<target, created, up>>

\* The row is claimed and the worker sees an error: it goes back to waiting.
ClaimLost(j) ==
  /\ TakeRow(j)
  /\ UNCHANGED <<target, created, worker, up>>

\* The UPDATE of finishJob has no condition on the status it overwrites.
Finish(outcome) ==
  /\ worker # None
  /\ status' = [status EXCEPT ![worker] = outcome]
  /\ worker' = None
  /\ UNCHANGED <<target, attempts, created, up>>

\* finishJob fails: executeJob logs it and the worker takes the next job.
FinishLost ==
  /\ worker # None
  /\ worker' = None
  /\ UNCHANGED <<status, target, attempts, created, up>>

Crash ==
  /\ up
  /\ up' = FALSE
  /\ worker' = None
  /\ UNCHANGED <<status, target, attempts, created>>

\* Mutants: a status the other statements do not know; one attempt too many;
\* failed rows revived with the interrupted ones.
RecoveredMisspelt(j) ==
  IF status[j] # "running" THEN status[j]
  ELSE IF attempts[j] >= MaxAttempts THEN "failed" ELSE "pending"

RecoveredFailed(j) ==
  IF status[j] \notin {"running", "failed"} THEN status[j]
  ELSE IF attempts[j] >= MaxAttempts THEN "failed" ELSE "queued"

\* recoverJobs, before the worker goroutine is started.
Recovered(j) ==
  IF status[j] # "running" THEN status[j]
  ELSE IF attempts[j] >= MaxAttempts THEN "failed" ELSE "queued"

Start ==
  /\ ~up
  /\ up' = TRUE
  /\ status' = [j \in Job |-> Recovered(j)]
  /\ UNCHANGED <<target, attempts, created, worker>>

ClaimSome == \E j \in Job : Claim(j)
FinishSome == \E outcome \in Outcome : Finish(outcome)

Next ==
  \/ \E j \in Job, s \in Server, t \in Stamp : Insert(j, s, t)
  \/ ClaimSome
  \/ \E j \in Job : ClaimLost(j)
  \/ FinishSome
  \/ FinishLost
  \/ Crash
  \/ Start

(***************************************************************************)
(* The container restart policy starts a stopped controller again.  The    *)
(* worker ticks every 500 ms: a controller that is up for that long        *)
(* infinitely often claims infinitely often (strong fairness: a crash      *)
(* disables the claim), and every job ends by its context's deadline.      *)
(***************************************************************************)
Fairness ==
  /\ WF_vars(Start)
  /\ SF_vars(ClaimSome)
  /\ WF_vars(FinishSome)

Spec == Init /\ [][Next]_vars /\ Fairness
-----------------------------------------------------------------------------
TypeOK ==
  /\ status \in [Job -> Status]
  /\ target \in [Job -> Server \cup {None}]
  /\ attempts \in [Job -> Nat]
  /\ created \in [Job -> Nat]
  /\ worker \in Job \cup {None}
  /\ up \in BOOLEAN

\* At most one job of a server is queued or running, through crashes, lost
\* replies and recovery: recoverJobs never revives a job next to another one.
OneActivePerServer ==
  \A j, k \in Job :
    IsActive(j) /\ IsActive(k) /\ target[j] = target[k] => j = k

\* The job the worker holds is the claimed row, and only a live controller
\* holds one: finishJob never overwrites a row somebody else requeued.
WorkerHoldsRunning ==
  worker # None => up /\ status[worker] = "running"

\* No job is handed to the worker more than MaxAttempts times, an outcome is
\* never reached without an attempt, and a queued job has an attempt left.
AttemptsBounded ==
  \A j \in Job :
    /\ status[j] = "unused" => attempts[j] = 0
    /\ status[j] = "queued" => attempts[j] < MaxAttempts
    /\ status[j] \in {"running"} \cup Outcome => attempts[j] \in 1..MaxAttempts

\* Active rows belong to a server (jobs.server_id of the row is set).
ActiveHasTarget == \A j \in Job : IsActive(j) => target[j] \in Server

\* The inductive invariant.
QueueInv ==
  /\ TypeOK
  /\ OneActivePerServer
  /\ WorkerHoldsRunning
  /\ AttemptsBounded
  /\ ActiveHasTarget

\* A job that completed or failed keeps its outcome and its attempts: neither
\* a late finishJob, nor a claim, nor the recovery of a restart touches it.
OutcomeIsFinal ==
  [][\A j \in Job :
       status[j] \in Outcome =>
         status'[j] = status[j] /\ attempts'[j] = attempts[j]]_vars

\* A claimed row nobody works on: the controller is up, so no recovery comes.
IsOrphan(j) == up /\ status[j] = "running" /\ worker # j

\* Every accepted job reaches an outcome, however often the controller is
\* restarted, unless a lost reply leaves its row claimed without a worker.
QueuedJobResolves ==
  \A j \in Job : status[j] = "queued" ~> status[j] \in Outcome \/ IsOrphan(j)

-----------------------------------------------------------------------------
(***************************************************************************)
(* The refinement: the slot of a server is its active job.                 *)
(***************************************************************************)
ActiveOf(s) == {j \in Job : IsActive(j) /\ target[j] = s}

SlotPhase(s) ==
  IF ActiveOf(s) = {} THEN "free"
  ELSE status[CHOOSE j \in Job : j \in ActiveOf(s)]

SlotTries(s) ==
  IF ActiveOf(s) = {} THEN 0
  ELSE attempts[CHOOSE j \in Job : j \in ActiveOf(s)]

Slot(s) == INSTANCE JobSlot WITH phase <- SlotPhase(s), tries <- SlotTries(s)

\* What one step of the queue is to one server: a step of its slot, or none.
SlotStep(s) == Slot(s)!Next \/ UNCHANGED <<SlotPhase(s), SlotTries(s)>>

\* The jobs table, with its worker and its recovery, gives every server what
\* JobSlot promises: this is \A s \in Server : Slot(s)!Spec, with the
\* quantifier inside the box because one recovery moves several slots.
ImplementsSlot ==
  /\ \A s \in Server : Slot(s)!Init
  /\ [][\A s \in Server : SlotStep(s)]_vars
=============================================================================
