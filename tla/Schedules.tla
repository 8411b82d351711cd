------------------------------- MODULE Schedules -------------------------------
(***************************************************************************)
(* The schedules of one server: when they are due, the scheduler that      *)
(* claims them and then enqueues their jobs one by one, the server's job   *)
(* slot, and for scheduled backups the rows, the archives on the node and  *)
(* the pruning that keeps the newest Retain of them.                       *)
(*                                                                         *)
(* next_run_at is represented by the ticks left until then.  last_run_at   *)
(* and last_job_id are shown only, and left out.  How an archive is made,  *)
(* and goes on being made for a caller that is gone, is in Restore.        *)
(***************************************************************************)
EXTENDS Naturals, FiniteSets

CONSTANTS
  Schedule,      \* identifiers of schedules
  BackupOnly,    \* those whose action is backup; the others occupy the slot
  None,          \* no schedule, no backup
  NBackups,      \* bound: backups with a row or an archive at a time
  Interval,      \* ticks between two runs
  Retain,        \* the 7 of executeFeatureJob
  MaxAttempts,   \* the 3 of recoverJobs
  MaxEvents,     \* bound: schedules and the subscription changed, backups deleted
                 \* by the owner, statements and agent calls that fail, together
  MaxCrashes     \* bound: crashes of the controller

Backup == 1..NBackups

ASSUME SchedulesAssumption ==
  /\ BackupOnly \subseteq Schedule
  /\ None \notin Schedule \cup Backup
  /\ NBackups \in Nat /\ Interval \in Nat \ {0} /\ Retain \in Nat \ {0}
  /\ MaxAttempts \in Nat \ {0}
  /\ MaxEvents \in Nat /\ MaxCrashes \in Nat

VARIABLES
  sched,     \* schedules: "none", "on" or "off", and the ticks left
  active,    \* the subscription is active, or there is none
  claimed,   \* what the scheduler has claimed and not yet enqueued
  bk,        \* the rows of backups: status and schedule_id
  newer,     \* the pairs of backups of which the first has the later created_at
  archive,   \* the backups whose archive exists
  job,       \* the payload of the job in the slot
  phase, tries,
  pc,        \* the statement or agent call the worker is at
  prune,     \* the candidates it has still to delete
  victim,    \* the one whose archive it has deleted and whose row is next
  failed,    \* the job's error is not nil
  delete,    \* the owner's deletion of a backup in progress
  up,
  clean,     \* history: nothing failed and nobody was deleting a backup in this attempt
  raced,     \* history: backups deleted while their own job had the slot
  budget     \* what is left of the bounds

vars == <<sched, active, claimed, bk, newer, archive, job, phase, tries, pc, prune,
          victim, failed, delete, up, clean, raced, budget>>

slot == <<job, phase, tries>>
attempt == <<pc, prune, victim, failed>>
backups == <<bk, newer, archive>>
history == <<clean, raced>>

NoRow == [status |-> "none", by |-> None]
OtherJob == [kind |-> "other", backup |-> None, by |-> None]
NoJob == [kind |-> "none", backup |-> None, by |-> None]

Init ==
  /\ sched \in [Schedule -> [status : {"none", "on", "off"}, left : {Interval}]]
  /\ active = TRUE /\ claimed = {}
  /\ bk = [b \in Backup |-> NoRow] /\ newer = {} /\ archive = {}
  /\ job = NoJob /\ phase = "free" /\ tries = 0
  /\ pc = "idle" /\ prune = {} /\ victim = None /\ failed = FALSE
  /\ delete = [at |-> "none", backup |-> None]
  /\ up = TRUE /\ clean = TRUE /\ raced = {}
  /\ budget = [events |-> MaxEvents, crashes |-> MaxCrashes]

Spend(kind) ==
  /\ budget[kind] > 0
  /\ budget' = [budget EXCEPT ![kind] = @ - 1]

\* A row comes with the latest created_at and goes with its place in the order.
\* (created_at is the start of the inserting transaction, which the model takes
\* for its commit: the slot admits one scheduled backup at a time, so the next
\* one can be older only if its transaction began before the last one's.)
HasRow(b) == bk[b] # NoRow
CreateRow(b, row) ==
  /\ bk' = [bk EXCEPT ![b] = row]
  /\ newer' = newer \cup ({b} \X {c \in Backup : HasRow(c)})
DeleteRowOf(b) ==
  /\ bk' = [bk EXCEPT ![b] = NoRow]
  /\ newer' = {p \in newer : b \notin {p[1], p[2]}}

-----------------------------------------------------------------------------
\* The owner's changes to schedules.
Change(s, to) ==
  /\ up /\ Spend("events")
  /\ sched' = [sched EXCEPT ![s] = to]
  /\ UNCHANGED <<active, claimed, newer, archive, slot, attempt, delete, up, history>>

\* createSchedule, of a new identifier.
Create(s) ==
  /\ sched[s].status = "none" /\ s \notin claimed /\ job.by # s
  /\ Change(s, [status |-> "on", left |-> Interval])
  /\ UNCHANGED bk

\* updateSchedule: only enabling it again starts the interval anew.
Update(s, status) ==
  /\ sched[s].status \in {"on", "off"}
  /\ Change(s, [status |-> status,
                left |-> IF sched[s].status = "off" /\ status = "on" THEN Interval
                         ELSE sched[s].left])
  /\ UNCHANGED bk

\* deleteSchedule; the schedule_id of its backups becomes NULL.
Delete(s) ==
  /\ sched[s].status # "none"
  /\ Change(s, [status |-> "none", left |-> Interval])
  /\ bk' = [b \in Backup |-> IF bk[b].by = s THEN [bk[b] EXCEPT !.by = None] ELSE bk[b]]

-----------------------------------------------------------------------------
\* Inserting a job: createBackupJobKind with its row, or another job.  The
\* slot, or the foreign key of a backup whose schedule is gone, refuses it.
Fresh == {b \in Backup : bk[b] = NoRow /\ b \notin archive /\ delete.backup # b}

Refused(s) == phase # "free" \/ (s \in BackupOnly /\ sched[s].status = "none")

Insert(s) ==
  /\ ~Refused(s)
  /\ phase' = "queued" /\ tries' = 0
  /\ IF s \in BackupOnly
     THEN /\ Fresh # {}
          /\ LET b == CHOOSE x \in Fresh : TRUE
             IN  /\ job' = [kind |-> "backup", backup |-> b, by |-> s]
                 /\ CreateRow(b, [status |-> "queued", by |-> s])
                 /\ raced' = raced \ {b}
     ELSE job' = OtherJob /\ UNCHANGED <<bk, newer, raced>>

\* Run now: neither the clock nor the claim is involved.
RunNow(s) ==
  /\ up /\ sched[s].status # "none"
  /\ Insert(s)
  /\ UNCHANGED <<sched, active, claimed, archive, attempt, delete, up, clean, budget>>

\* Any other operation of the server.
Operate ==
  /\ up /\ phase = "free"
  /\ phase' = "queued" /\ tries' = 0
  /\ job' = OtherJob
  /\ UNCHANGED <<sched, active, claimed, backups, attempt, delete, up, history, budget>>

-----------------------------------------------------------------------------
(* The scheduler.                                                          *)

\* The next_run_at of a disabled schedule is not looked at again.
Waiting(s) == sched[s].status = "on" /\ sched[s].left > 0

Tick ==
  /\ \E s \in Schedule : Waiting(s)
  /\ sched' = [s \in Schedule |-> IF Waiting(s) THEN [sched[s] EXCEPT !.left = @ - 1]
                                  ELSE sched[s]]
  /\ UNCHANGED <<active, claimed, backups, slot, attempt, delete, up, history, budget>>

Due(s) == sched[s].status = "on" /\ sched[s].left = 0 /\ active

\* claimDueSchedules, one statement.
\* Mutant: of those that are due only one is claimed, always the same.
OneDue == {CHOOSE s \in Schedule : Due(s)}

AllDue == {s \in Schedule : Due(s)}

ClaimDue ==
  /\ up /\ claimed = {} /\ \E s \in Schedule : Due(s)
  /\ claimed' = AllDue
  /\ sched' = [s \in Schedule |-> IF s \in AllDue THEN [sched[s] EXCEPT !.left = Interval]
                                  ELSE sched[s]]
  /\ UNCHANGED <<active, backups, slot, attempt, delete, up, history, budget>>

\* enqueueSchedule; a refused job is not tried again.
Enqueue(s) ==
  /\ up /\ s \in claimed
  /\ claimed' = claimed \ {s}
  /\ \/ Insert(s)
     \/ Refused(s) /\ UNCHANGED <<slot, bk, newer, raced>>
  /\ UNCHANGED <<sched, active, archive, attempt, delete, up, clean, budget>>

\* processSubscriptionExpiry and renewal.
Subscribe ==
  /\ active' = ~active
  /\ Spend("events")
  /\ UNCHANGED <<sched, claimed, backups, slot, attempt, delete, up, history>>

-----------------------------------------------------------------------------
(* The worker: a scheduled backup, statement by statement.                 *)

Claim ==
  /\ up /\ phase = "queued"
  /\ phase' = "running" /\ tries' = tries + 1
  /\ pc' = IF job.kind = "backup" THEN "creating" ELSE "finish"
  /\ prune' = {} /\ victim' = None /\ failed' = FALSE /\ clean' = (delete.at = "none")
  /\ UNCHANGED <<sched, active, claimed, backups, job, delete, up, raced, budget>>

At(label) == up /\ phase = "running" /\ pc = label

Same == UNCHANGED <<sched, active, claimed, slot, delete, up, raced>>

Trouble == Spend("events") /\ clean' = FALSE
Smooth == UNCHANGED <<clean, budget>>

\* updateBackup changes a row that still exists; its error is not looked at.
Write(status) ==
  \/ /\ bk' = [bk EXCEPT ![job.backup] = IF @ = NoRow THEN @ ELSE [@ EXCEPT !.status = status]]
     /\ Smooth
  \/ UNCHANGED bk /\ Trouble

MarkCreating ==
  /\ At("creating")
  /\ Write("creating")
  /\ pc' = "archive"
  /\ UNCHANGED <<newer, archive, prune, victim, failed>> /\ Same

Archive ==
  /\ At("archive")
  /\ \/ archive' = archive \cup {job.backup} /\ failed' = FALSE /\ Smooth
     \/ archive' \in {archive, archive \cup {job.backup}} /\ failed' = TRUE /\ Trouble
  /\ pc' = "outcome"
  /\ UNCHANGED <<bk, newer, prune, victim>> /\ Same

MarkOutcome ==
  /\ At("outcome")
  /\ Write(IF failed THEN "failed" ELSE "ready")
  /\ pc' = IF failed THEN "finish" ELSE "list"
  /\ UNCHANGED <<newer, archive, prune, victim, failed>> /\ Same

\* scheduledBackupPruneCandidates: all but the newest Retain of the schedule.
IsSettled(b) == bk[b].status \in {"ready", "failed"}
Settled == {b \in Backup : bk[b].by = job.by /\ IsSettled(b)}
Newer(b, from) == {c \in from : <<c, b>> \in newer}

\* Mutants: one too many is kept; the oldest are kept.
ExcessLessOne == {b \in Settled : Cardinality(Newer(b, Settled)) >= Retain + 1}
ExcessOldestKept ==
  {b \in Settled : Cardinality({c \in Settled : b \in Newer(c, Settled)}) >= Retain}

Excess == {b \in Settled : Cardinality(Newer(b, Settled)) >= Retain}

List ==
  /\ At("list")
  /\ \/ prune' = Excess /\ Smooth
     \/ prune' = {} /\ Trouble
  /\ pc' = "prune"
  /\ UNCHANGED <<backups, victim, failed>> /\ Same

\* Mutant: whatever the agent has answered.
PruneArchiveUnchecked(b) ==
  /\ At("prune") /\ b \in prune /\ Newer(b, prune) = {}
  /\ \/ archive' = archive \ {b} /\ Smooth
     \/ archive' \in {archive, archive \ {b}} /\ Trouble
  /\ prune' = prune \ {b} /\ pc' = "row" /\ victim' = b
  /\ UNCHANGED <<bk, newer, failed>> /\ Same

\* The archive first; its row only after that has succeeded.  The newest
\* comes first; one that has lost its row since has lost its turn, too.
PruneArchive(b) ==
  /\ At("prune") /\ b \in prune /\ Newer(b, prune) = {}
  /\ \/ archive' = archive \ {b} /\ pc' = "row" /\ victim' = b /\ Smooth
     \/ archive' \in {archive, archive \ {b}} /\ UNCHANGED <<pc, victim>> /\ Trouble
  /\ prune' = prune \ {b}
  /\ UNCHANGED <<bk, newer, failed>> /\ Same

PruneRow ==
  /\ At("row")
  /\ \/ DeleteRowOf(victim) /\ Smooth
     \/ UNCHANGED <<bk, newer>> /\ Trouble
  /\ pc' = "prune" /\ victim' = None
  /\ UNCHANGED <<archive, prune, failed>> /\ Same

Pruned ==
  /\ At("prune") /\ prune = {}
  /\ pc' = "finish"
  /\ UNCHANGED <<backups, prune, victim, failed, clean, budget>> /\ Same

Free == phase' = "free" /\ tries' = 0 /\ job' = NoJob

Finish ==
  /\ At("finish")
  /\ Free /\ pc' = "idle" /\ failed' = FALSE /\ clean' = TRUE
  /\ UNCHANGED <<sched, active, claimed, backups, prune, victim, delete, up, raced, budget>>

-----------------------------------------------------------------------------
(* The owner deletes a backup: check, archive, row; nothing holds the slot.*)

DeleteCheck(b) ==
  /\ up /\ delete.at = "none" /\ bk[b].status \in {"ready", "failed"}
  /\ Spend("events")
  /\ delete' = [at |-> "archive", backup |-> b]
  /\ clean' = FALSE
  /\ raced' = IF job.backup = b THEN raced \cup {b} ELSE raced
  /\ UNCHANGED <<sched, active, claimed, backups, slot, attempt, up>>

DeleteArchive ==
  /\ delete.at = "archive"
  /\ archive' = archive \ {delete.backup}
  /\ delete' = [delete EXCEPT !.at = "row"]
  /\ UNCHANGED <<sched, active, claimed, bk, newer, slot, attempt, up, history, budget>>

DeleteRow ==
  /\ delete.at = "row"
  /\ DeleteRowOf(delete.backup)
  /\ delete' = [at |-> "none", backup |-> None]
  /\ UNCHANGED <<sched, active, claimed, archive, slot, attempt, up, history, budget>>

-----------------------------------------------------------------------------
\* A call whose caller is gone may have taken effect, or takes it later.
Abandoned ==
  CASE pc = "archive" -> {archive, archive \cup {job.backup}}
    [] pc = "prune" -> {archive} \cup {archive \ {b} : b \in {c \in prune : Newer(c, prune) = {}}}
    [] OTHER -> {archive}

\* The job's context expires, and no statement after it succeeds.
Deadline ==
  /\ up /\ phase = "running" /\ pc \in {"archive", "prune"}
  /\ Trouble
  /\ archive' \in Abandoned
  /\ pc' = "finish" /\ prune' = {} /\ failed' = (pc = "archive")
  /\ UNCHANGED <<bk, newer, victim>> /\ Same

\* What was claimed but not enqueued is forgotten, a deletion stops where it
\* is.
Crash ==
  /\ up /\ Spend("crashes")
  /\ up' = FALSE
  /\ archive' \in Abandoned
  /\ claimed' = {} /\ delete' = [at |-> "none", backup |-> None]
  /\ pc' = "idle" /\ prune' = {} /\ victim' = None /\ failed' = FALSE /\ clean' = TRUE
  /\ UNCHANGED <<sched, active, bk, newer, slot, raced>>

\* recoverJobs.
\* Mutant: one attempt too many.
GivenUpLate == tries > MaxAttempts
GivenUp == tries >= MaxAttempts

Recover ==
  /\ ~up /\ up' = TRUE
  /\ IF phase = "running" /\ GivenUp THEN Free
     ELSE phase' = (IF phase = "running" THEN "queued" ELSE phase) /\ UNCHANGED <<job, tries>>
  /\ UNCHANGED <<sched, active, claimed, backups, attempt, delete, history, budget>>

Work ==
  \/ Claim \/ MarkCreating \/ Archive \/ MarkOutcome \/ List
  \/ (\E b \in Backup : PruneArchive(b)) \/ PruneRow
  \/ Pruned \/ Finish \/ Deadline

Dispatch == ClaimDue \/ \E s \in Schedule : Enqueue(s)

Owner ==
  \/ \E s \in Schedule :
       \/ Create(s) \/ Delete(s) \/ RunNow(s)
       \/ \E status \in {"on", "off"} : Update(s, status)
  \/ Operate
  \/ \E b \in Backup : DeleteCheck(b)
  \/ DeleteArchive \/ DeleteRow

Next == Work \/ Dispatch \/ Owner \/ Tick \/ Subscribe \/ Crash \/ Recover

\* The worker and the scheduler are goroutines on tickers; the controller is
\* started again; time passes.
Fairness ==
  /\ WF_vars(Work) /\ WF_vars(ClaimDue) /\ WF_vars(\E s \in Schedule : Enqueue(s))
  /\ WF_vars(Recover) /\ WF_vars(Tick)

Spec == Init /\ [][Next]_vars /\ Fairness
-----------------------------------------------------------------------------
Sched == [status : {"none", "on", "off"}, left : 0..Interval]
Row == [status : {"none", "queued", "creating", "ready", "failed"}, by : Schedule \cup {None}]
Job == [kind : {"none", "backup", "other"}, backup : Backup \cup {None}, by : Schedule \cup {None}]

TypeOK ==
  /\ sched \in [Schedule -> Sched] /\ active \in BOOLEAN /\ claimed \subseteq Schedule
  /\ bk \in [Backup -> Row] /\ newer \subseteq Backup \X Backup /\ archive \subseteq Backup
  /\ job \in Job /\ phase \in {"free", "queued", "running"} /\ tries \in 0..MaxAttempts
  /\ pc \in {"idle", "creating", "archive", "outcome", "list", "prune", "row", "finish"}
  /\ prune \subseteq Backup /\ victim \in Backup \cup {None} /\ failed \in BOOLEAN
  /\ delete \in [at : {"none", "archive", "row"}, backup : Backup \cup {None}]
  /\ up \in BOOLEAN /\ clean \in BOOLEAN /\ raced \subseteq Backup
  /\ budget \in [events : Nat, crashes : Nat]

\* operational-polish.md:57, scheduled-backup retention: a scheduled backup
\* that succeeds in an attempt without failures leaves at most Retain
\* finished backups of its schedule, whatever earlier jobs and crashes have
\* left behind.
RetentionHolds ==
  At("finish") /\ job.kind = "backup" /\ ~failed /\ clean => Cardinality(Settled) <= Retain

\* What the worker prunes is older than Retain finished backups of the same
\* schedule, and the one it has just made is among them.
Kin(b) == {c \in Backup : bk[c].by = bk[b].by /\ IsSettled(c)}

PruningSparesTheNewest ==
  [][ \A b \in Backup :
        PruneArchive(b) /\ clean' /\ job.backup \notin raced /\ archive' # archive =>
          /\ Cardinality(Newer(b, Kin(b))) >= Retain
          /\ job.backup \in Newer(b, Kin(b)) /\ bk[job.backup].status = "ready"
          /\ job.backup \in archive ]_vars

\* An archive without a row would stay on the node for ever: there is none,
\* wherever a deletion stops, unless a backup was deleted while its own job
\* was repeated.
ArchivesHaveRows == \A b \in archive : bk[b] # NoRow \/ b \in raced

\* An enabled schedule that is due is claimed, whatever the other schedules
\* and the slot are doing.
DueIsClaimed == \A s \in Schedule : Due(s) ~> ~Due(s)

-----------------------------------------------------------------------------
\* Scheduled jobs, runs the owner asks for and jobs of others share the server's
\* slot as the queue promises it: what comes while it is taken is refused.
Slot == INSTANCE JobSlot

ImplementsSlot == Slot!Init /\ [][Slot!Next]_<<phase, tries>>
===============================================================================
