----------------------------- MODULE Subscription -----------------------------
(***************************************************************************)
(* One paid server: its subscription and latest order, its port, and the   *)
(* four things that change them without waiting for each other: requests   *)
(* of the customer (renew, retry), the job worker (provision, release,     *)
(* delete), the expiry worker, which checks and then enqueues, and the     *)
(* clock.                                                                  *)
(*                                                                         *)
(* Every other job of the server ("other") matters only because it holds   *)
(* the server's one job slot.  Capacity is in Capacity: a renewal that     *)
(* finds none changes nothing.                                             *)
(***************************************************************************)
EXTENDS Naturals

CONSTANTS
  ActionCheck,   \* the actions the CHECK constraint jobs_action_check allows
  MaxAttempts,   \* the 3 of recoverJobs
  MaxRequests,   \* bound: accepted requests
  MaxCrashes,    \* bound: crashes of the controller
  MaxFaults      \* bound: failed agent calls and database statements

Action == {"provision", "release", "delete", "other"}

ASSUME SubscriptionAssumption ==
  /\ ActionCheck \subseteq Action
  /\ MaxAttempts \in Nat \ {0}
  /\ MaxRequests \in Nat
  /\ MaxCrashes \in Nat
  /\ MaxFaults \in Nat

VARIABLES
  status,    \* subscriptions.status; resource_released_at is set iff "released"
  clock,     \* now, against current_period_end and grace_ends_at
  order,     \* orders.status of the server's latest order
  port,      \* the server has a row in allocations
  deleted,   \* servers.deleted_at IS NOT NULL
  action,    \* action of the server's active job, "none" without one
  phase,     \* "free", or the status of that job
  tries,     \* its attempts
  step,      \* where executeJob is
  failed,    \* executeJob has an error
  dropped,   \* a statement of this attempt has failed, and with it the answer
  expiry,    \* where processSubscriptionExpiry is
  up,        \* the controller is running
  budget     \* what is left of the three bounds

vars == <<status, clock, order, port, deleted, action, phase, tries, step,
          failed, dropped, expiry, up, budget>>

billing == <<status, order>>
server == <<port, deleted>>
slot == <<action, phase, tries>>
worker == <<step, failed, dropped>>

Status == {"provisioning", "active", "action_required", "grace", "released"}

\* What a checkout has committed.
Init ==
  /\ status = "provisioning" /\ clock = "paid" /\ order = "paid"
  /\ port = TRUE /\ deleted = FALSE
  /\ action = "provision" /\ phase = "queued" /\ tries = 0
  /\ step = "idle" /\ failed = FALSE /\ dropped = FALSE
  /\ expiry = "idle"
  /\ up = TRUE
  /\ budget = [requests |-> MaxRequests, crashes |-> MaxCrashes, faults |-> MaxFaults]

Spend(kind) ==
  /\ budget[kind] > 0
  /\ budget' = [budget EXCEPT ![kind] = @ - 1]

\* The row is refused by the unique index or by the action check.
CanInsert(a) == phase = "free" /\ a \in ActionCheck

InsertJob(a) ==
  /\ CanInsert(a)
  /\ action' = a /\ phase' = "queued" /\ tries' = 0

\* The insert is tried and its error is ignored.
TryInsertJob(a) == IF CanInsert(a) THEN InsertJob(a) ELSE UNCHANGED slot

-----------------------------------------------------------------------------
\* A period lasts 30 days, grace seven more.
Tick ==
  /\ clock # "lapsed"
  /\ clock' = IF clock = "paid" THEN "ended" ELSE "lapsed"
  /\ UNCHANGED <<billing, server, slot, worker, expiry, up, budget>>

\* store.renew: the new period starts now or when the current one ends.  A
\* released server gets a port and is provisioned again, or nothing happens.
\* The row of the server is never looked at, only that of the subscription.
Renew ==
  /\ up /\ Spend("requests")
  /\ status \in {"active", "grace", "released"}
  /\ clock' = "paid"
  /\ order' = "paid"
  /\ IF status = "released"
     THEN InsertJob("provision") /\ status' = "provisioning" /\ port' = TRUE
     ELSE status' = "active" /\ UNCHANGED <<port, slot>>
  /\ UNCHANGED <<deleted, worker, expiry, up>>

\* store.retrySubscription.
Retry ==
  /\ up /\ Spend("requests")
  /\ status = "action_required"
  /\ InsertJob("provision")
  /\ status' = "provisioning"
  /\ UNCHANGED <<clock, order, server, worker, expiry, up>>

\* Any other job, of the customer, a schedule, the reconciler or the owner of
\* the panel (who is not subject to the grace period), and the owner's delete.
Request(a) ==
  /\ up /\ ~deleted /\ Spend("requests")
  /\ InsertJob(a)
  /\ UNCHANGED <<billing, clock, server, worker, expiry, up>>

-----------------------------------------------------------------------------
(***************************************************************************)
(* The worker: executeJob as in ServerLifecycle, with what a provision, a  *)
(* release and a delete do to the subscription.                            *)
(***************************************************************************)
Claim ==
  /\ up /\ step = "idle" /\ phase = "queued"
  /\ phase' = "running" /\ tries' = tries + 1
  /\ step' = "load" /\ failed' = FALSE /\ dropped' = FALSE
  /\ UNCHANGED <<billing, clock, server, action, expiry, up, budget>>

\* A deleted server is not found, and any other error of get is taken for
\* that: the job ends here, a provision too.
Load ==
  /\ step = "load"
  /\ \/ /\ step' = IF deleted THEN "finish" ELSE "agent"
        /\ failed' = deleted /\ UNCHANGED <<dropped, budget>>
     \/ step' = "finish" /\ failed' = TRUE /\ dropped' = TRUE /\ Spend("faults")
  /\ UNCHANGED <<billing, clock, server, slot, expiry, up>>

AgentDone ==
  /\ step = "agent"
  /\ step' = "record"
  /\ UNCHANGED <<billing, clock, server, slot, failed, dropped, expiry, up, budget>>

\* The call fails, or getModpack before it, or finalizeRelease or
\* finalizeDelete after it, which then change nothing.
AgentFails ==
  /\ step = "agent" /\ Spend("faults")
  /\ step' = "record" /\ failed' = TRUE
  /\ UNCHANGED <<billing, clock, server, slot, dropped, expiry, up>>

\* Mutant: the subscription is released only if it is still in grace, but the
\* port goes in any case.
RecordHalfGuarded ==
  /\ step = "record"
  /\ CASE action = "release" /\ ~failed ->
            /\ port' = FALSE
            /\ status' = IF status = "grace" THEN "released" ELSE status
            /\ UNCHANGED deleted
       [] action = "delete" /\ ~failed -> port' = FALSE /\ deleted' = TRUE /\ UNCHANGED status
       [] OTHER -> UNCHANGED <<status, server>>
  /\ step' = "result"
  /\ UNCHANGED <<order, clock, slot, failed, dropped, expiry, up, budget>>

\* finalizeRelease and finalizeDelete; a release is finished whatever has
\* become of the subscription since it was enqueued.
Record ==
  /\ step = "record"
  /\ CASE action = "release" /\ ~failed ->
            port' = FALSE /\ status' = "released" /\ UNCHANGED deleted
       [] action = "delete" /\ ~failed ->
            port' = FALSE /\ deleted' = TRUE /\ UNCHANGED status
       [] OTHER -> UNCHANGED <<status, server>>
  /\ step' = "result"
  /\ UNCHANGED <<order, clock, slot, failed, dropped, expiry, up, budget>>

Outcome == IF failed THEN "action_required" ELSE "active"

\* Mutant: the result of a provision overwrites any status.
AnswerOverwrites ==
  /\ status' = Outcome
  /\ order' = IF failed THEN "action_required" ELSE "paid"

\* setSubscriptionProvisionResult: the latest order, whichever it is by now.
Answer ==
  /\ status' = IF status = "provisioning" THEN Outcome ELSE status
  /\ order' = IF failed THEN "action_required" ELSE "paid"

\* Mutant: an attempt that was repeated reports nothing.
ResultOfFirst ==
  /\ step = "result"
  /\ \/ action = "provision" /\ tries = 1 /\ Answer /\ UNCHANGED <<dropped, budget>>
     \/ action = "provision" /\ tries = 1 /\ dropped' = TRUE /\ Spend("faults") /\ UNCHANGED billing
     \/ (action # "provision" \/ tries # 1) /\ UNCHANGED <<billing, dropped, budget>>
  /\ step' = "finish"
  /\ UNCHANGED <<clock, server, slot, failed, expiry, up>>

\* The transaction of the answer may fail; its error is ignored, and the job
\* ends as if it had been written.
Result ==
  /\ step = "result"
  /\ \/ action = "provision" /\ Answer /\ UNCHANGED <<dropped, budget>>
     \/ action = "provision" /\ dropped' = TRUE /\ Spend("faults") /\ UNCHANGED billing
     \/ action # "provision" /\ UNCHANGED <<billing, dropped, budget>>
  /\ step' = "finish"
  /\ UNCHANGED <<clock, server, slot, failed, expiry, up>>

Finish ==
  /\ step = "finish"
  /\ step' = "idle" /\ failed' = FALSE /\ dropped' = FALSE
  /\ action' = "none" /\ phase' = "free" /\ tries' = 0
  /\ UNCHANGED <<billing, clock, server, expiry, up, budget>>

-----------------------------------------------------------------------------
(***************************************************************************)
(* The expiry worker: one statement puts what has ended into grace; those  *)
(* servers are stopped; what is past its grace is listed and released.     *)
(***************************************************************************)
Expire ==
  /\ up /\ expiry = "idle"
  /\ IF status \in {"active", "provisioning", "action_required"} /\ clock # "paid"
     THEN status' = "grace" /\ expiry' = "stop"
     ELSE expiry' = "list" /\ UNCHANGED status
  /\ UNCHANGED <<order, clock, server, slot, worker, up, budget>>

EnqueueStop ==
  /\ expiry = "stop"
  /\ IF ~deleted THEN TryInsertJob("other") ELSE UNCHANGED slot
  /\ expiry' = "list"
  /\ UNCHANGED <<billing, clock, server, worker, up, budget>>

\* Mutant: the comparison of grace_ends_at with now() is the wrong way round.
ListEnded ==
  /\ expiry = "list"
  /\ expiry' = IF status = "grace" /\ clock = "ended" THEN "get" ELSE "idle"
  /\ UNCHANGED <<billing, clock, server, slot, worker, up, budget>>

ListLapsed ==
  /\ expiry = "list"
  /\ expiry' = IF status = "grace" /\ clock = "lapsed" THEN "get" ELSE "idle"
  /\ UNCHANGED <<billing, clock, server, slot, worker, up, budget>>

GetServer ==
  /\ expiry = "get"
  /\ expiry' = IF ~deleted /\ phase = "free" THEN "release" ELSE "idle"
  /\ UNCHANGED <<billing, clock, server, slot, worker, up, budget>>

\* The subscription may have been renewed since it was listed.
EnqueueRelease ==
  /\ expiry = "release"
  /\ TryInsertJob("release")
  /\ expiry' = "idle"
  /\ UNCHANGED <<billing, clock, server, worker, up, budget>>

-----------------------------------------------------------------------------
Crash ==
  /\ up /\ Spend("crashes")
  /\ up' = FALSE
  /\ step' = "idle" /\ failed' = FALSE /\ dropped' = FALSE /\ expiry' = "idle"
  /\ UNCHANGED <<billing, clock, server, slot>>

\* Mutant: an interrupted job is always repeated.
RestartForever ==
  /\ ~up
  /\ up' = TRUE
  /\ phase' = IF phase = "running" THEN "queued" ELSE phase
  /\ UNCHANGED <<billing, clock, server, action, tries, worker, expiry, budget>>

\* recoverJobs touches the jobs table and nothing else: the subscription of a
\* provision that is given up is not told.
Restart ==
  /\ ~up
  /\ up' = TRUE
  /\ IF phase = "running" /\ tries >= MaxAttempts
     THEN action' = "none" /\ phase' = "free" /\ tries' = 0
     ELSE /\ phase' = IF phase = "running" THEN "queued" ELSE phase
          /\ UNCHANGED <<action, tries>>
  /\ UNCHANGED <<billing, clock, server, worker, expiry, budget>>

Work == Claim \/ Load \/ AgentDone \/ Record \/ Result \/ Finish
ExpiryRound == Expire \/ EnqueueStop \/ ListLapsed \/ GetServer \/ EnqueueRelease

Next ==
  \/ Tick
  \/ Renew
  \/ Retry
  \/ \E a \in {"other", "delete"} : Request(a)
  \/ Work
  \/ ExpiryRound
  \/ AgentFails
  \/ Crash
  \/ Restart

(***************************************************************************)
(* Both workers run on tickers and Docker restarts the controller.  Time   *)
(* needs no fairness: nothing is promised before a period has ended.       *)
(***************************************************************************)
Fairness ==
  /\ WF_vars(Work)
  /\ WF_vars(ExpiryRound)
  /\ WF_vars(Restart)

Spec == Init /\ [][Next]_vars /\ Fairness
-----------------------------------------------------------------------------
TypeOK ==
  /\ status \in Status
  /\ clock \in {"paid", "ended", "lapsed"}
  /\ order \in {"paid", "action_required"}
  /\ port \in BOOLEAN
  /\ deleted \in BOOLEAN
  /\ action \in Action \cup {"none"}
  /\ phase \in {"free", "queued", "running"}
  /\ tries \in 0..MaxAttempts
  /\ step \in {"idle", "load", "agent", "record", "result", "finish"}
  /\ failed \in BOOLEAN
  /\ dropped \in BOOLEAN
  /\ expiry \in {"idle", "stop", "list", "get", "release"}
  /\ up \in BOOLEAN
  /\ budget \in [{"requests", "crashes", "faults"} -> Nat]

\* The port and the subscription never disagree, whoever of the release, the
\* renewal and the deletion comes last: a released subscription holds no
\* port, and one that is not released does, unless its server is deleted.
PortFollowsStatus ==
  /\ status = "released" => ~port
  /\ status # "released" /\ ~deleted => port

\* Grace ends in two ways, by a renewal that is paid for and by the release:
\* a provision that ends late does not give the server back.
GraceIsNotUndone ==
  [][status = "grace" => status' \in {"grace", "released"} \/ clock' = "paid"]_vars

\* README.md:86: after seven days of grace the resources are released, unless
\* the subscription is renewed (or the server deleted) in the meantime.
GraceIsReleased ==
  clock = "lapsed" /\ status = "grace"
    ~> status = "released" \/ clock = "paid" \/ deleted

\* docs/plans/multi-tenant-hosting.md:28, durable jobs: while the controller
\* runs, the job of a subscription that is being provisioned does not end
\* without an answer, whoever else changes the subscription meanwhile and
\* however often the job is repeated, unless a database statement of its last
\* attempt failed: the loading of its server, or the answer itself, whose
\* error nobody looks at.  Recovery may give the job up, and tells nobody.
ProvisionIsAnswered ==
  [][ status = "provisioning" /\ action = "provision" /\ ~deleted /\ up /\ ~dropped
        => status' # "provisioning" \/ action' = "provision" ]_vars

-----------------------------------------------------------------------------
\* Renewals, retries, the expiry worker and the other operations share the
\* server's slot as the queue promises it, after the checkout's job has taken it.
Slot == INSTANCE JobSlot

ImplementsSlot ==
  /\ phase = "queued" /\ tries = 0
  /\ [][Slot!Next]_<<phase, tries>>
=============================================================================
