---------------------------- MODULE ModpackInstall ----------------------------
(***************************************************************************)
(* The installation of a CurseForge modpack on one server: a job of many   *)
(* steps over the database and the agent, with a compensation for each     *)
(* step that fails (executeModpackInstall, rollbackModpackRuntime).  The   *)
(* job may reach its deadline, be interrupted by a crash of the controller *)
(* and be executed again from its first step.                              *)
(*                                                                         *)
(* A definition (runtime, version, pack) is the pack's file, or Plain.     *)
(* The server's directory is represented by the definitions that have been *)
(* booted on it, which is what the compensation has to undo.  The agent's  *)
(* operations are NodeAgent's and Restore's, here in their visible stages. *)
(***************************************************************************)
EXTENDS Naturals, FiniteSets

CONSTANTS
  File,          \* files of modpacks
  Plain,         \* the definition without a modpack
  None,          \* no container, no archive
  MaxAttempts,   \* the 3 of recoverJobs
  MaxRequests,   \* bound: installations asked for
  MaxFaults,     \* bound: statements and agent calls that fail
  MaxCrashes,    \* bound: crashes of the controller
  MaxDeadlines,  \* bound: attempts that reach the job's 45 minutes
  MaxDeletes     \* bound: deletions of the pre-modpack backup

ASSUME ModpackAssumption ==
  /\ Plain \notin File /\ None \notin File \cup {Plain}
  /\ MaxAttempts \in Nat \ {0}
  /\ MaxRequests \in Nat /\ MaxFaults \in Nat /\ MaxCrashes \in Nat
  /\ MaxDeadlines \in Nat /\ MaxDeletes \in Nat

VARIABLES
  row,      \* servers: the definition and desired_state
  pack,     \* server_modpacks: file and status; Plain and "none" without a row
  bk,       \* backups.status of the job's backup, "none" without a row
  lapsed,   \* the subscription is in grace
  node,     \* container, game, directory, and the backup's archive
  job,      \* the payload of the last installation job
  phase, tries,
  target,   \* the definition this attempt has read
  pc,       \* the statement or agent call the worker is at
  expired,  \* the deadline of this attempt has passed
  undone,   \* no error of this attempt was left uncompensated
  failed,   \* executeModpackInstall returns an error
  up,
  was,      \* history: the container's definition and the directory at the request
  budget    \* what is left of the bounds

vars == <<row, pack, bk, lapsed, node, job, phase, tries, target, pc, expired, undone,
          failed, up, was, budget>>

slot == <<job, phase, tries>>
attempt == <<target, pc, expired, undone, failed>>
tables == <<row, pack, bk, lapsed>>

Def == File \cup {Plain}
NoPack == [file |-> Plain, status |-> "none"]
Desired == {"running", "offline"}

Init ==
  /\ row = [def |-> Plain, desired |-> "running"]
  /\ pack = NoPack /\ bk = "none" /\ lapsed = FALSE
  /\ node = [def |-> Plain, game |-> "ready", data |-> {Plain}, archive |-> None]
  /\ job = [old |-> Plain, pack |-> NoPack, desired |-> "offline"]
  /\ phase = "free" /\ tries = 0
  /\ target = Plain /\ pc = "idle" /\ expired = FALSE /\ undone = TRUE /\ failed = FALSE
  /\ up = TRUE
  /\ was = [def |-> Plain, data |-> {Plain}]
  /\ budget = [requests |-> MaxRequests, faults |-> MaxFaults, crashes |-> MaxCrashes,
               deadlines |-> MaxDeadlines, deletes |-> MaxDeletes]

Spend(kind) ==
  /\ budget[kind] > 0
  /\ budget' = [budget EXCEPT ![kind] = @ - 1]

-----------------------------------------------------------------------------
(* The agent.  Stages(at) is what a call made at pc = at can leave behind  *)
(* when it is abandoned or its answer is lost; Whole(at) is all of it.     *)

Stopped(n) == [n EXCEPT !.game = "stopped"]
Removed(n) == [Stopped(n) EXCEPT !.def = None]
Created(n, d) == [Stopped(n) EXCEPT !.def = d]
Archived(n) == [n EXCEPT !.archive = n.data]
Unpacked(n) == [Stopped(n) EXCEPT !.data = n.archive]
Booted(n) ==
  IF n.game \in {"starting", "ready"} THEN n
  ELSE [n EXCEPT !.game = "starting", !.data = @ \cup {n.def}]

Definition(at) == IF at = "provision" THEN target ELSE job.old

Possible(at) ==
  /\ at \in {"start", "restart"} => node.def # None
  /\ at = "restore" => node.archive # None

Whole(at) ==
  CASE at \in {"stop", "halt"}          -> Stopped(node)
    [] at = "backup"                    -> Archived(node)
    [] at \in {"provision", "recreate"} -> Created(node, Definition(at))
    [] at \in {"start", "restart"}      -> Booted(node)
    [] at = "restore"                   -> Unpacked(node)
    [] OTHER                            -> node

Stages(at) ==
  {node} \cup (IF Possible(at) THEN {Whole(at)} ELSE {})
         \cup (IF at = "restore" THEN {Stopped(node)} ELSE {})
         \cup (IF at \in {"provision", "recreate"} THEN {Stopped(node), Removed(node)} ELSE {})

-----------------------------------------------------------------------------
\* installModpack and createModpackInstallJob.  The owner of the panel may
\* ask also for a lapsed server.
Request(f) ==
  /\ up /\ phase = "free"
  /\ Spend("requests")
  /\ job' = [old |-> row.def, pack |-> pack, desired |-> row.desired]
  /\ pack' = [file |-> f, status |-> "installing"]
  /\ row' = [row EXCEPT !.def = f]
  /\ bk' = "queued"
  /\ node' = [node EXCEPT !.archive = None]      \* of a new identifier
  /\ phase' = "queued" /\ tries' = 0
  /\ was' = [def |-> node.def, data |-> node.data]
  /\ UNCHANGED <<lapsed, attempt, up>>

\* claimJob, and what executeJob reads before the first step.  Without a row
\* in server_modpacks the payload is invalid.
Claim ==
  /\ up /\ phase = "queued"
  /\ phase' = "running" /\ tries' = tries + 1
  /\ target' = pack.file
  /\ pc' = IF pack = NoPack THEN "end" ELSE "stop"
  /\ expired' = FALSE /\ failed' = (pack = NoPack) /\ undone' = (pack # NoPack)
  /\ UNCHANGED <<tables, node, job, up, was, budget>>

\* The deadline or a fault; after the deadline everything fails at once.
Trouble ==
  IF expired THEN UNCHANGED <<expired, budget>>
  ELSE \/ Spend("faults") /\ UNCHANGED expired
       \/ Spend("deadlines") /\ expired' = TRUE

At(label) == phase = "running" /\ pc = label

Same == UNCHANGED <<slot, target, up, was, lapsed>>

Succeed(at, next) ==
  /\ At(at) /\ ~expired /\ Possible(at)
  /\ node' = Whole(at)
  /\ pc' = next
  /\ UNCHANGED <<expired, budget>>
  /\ Same

Fail(at, next) ==
  /\ At(at)
  /\ IF Possible(at) THEN Trouble ELSE Trouble \/ UNCHANGED <<expired, budget>>
  /\ node' \in IF expired THEN {node} ELSE Stages(at)
  /\ pc' = next
  /\ Same

\* A statement that fails, or whose answer is lost.
Lost(effect, nothing) == nothing \/ (~expired /\ effect)

\* updateBackup changes a row that still exists.
Mark(status) == bk' = IF bk = "none" THEN bk ELSE status

\* rollbackModpackInstall, one transaction.  A pack that was there before is
\* written back as "installed".
OldPack == IF job.pack = NoPack THEN NoPack ELSE [job.pack EXCEPT !.status = "installed"]

\* Mutant: the new pack's row stays when there was none before.
RollBackRowsKeepingPack ==
  /\ row' = [def |-> job.old, desired |-> job.desired]
  /\ pack' = IF job.pack = NoPack THEN pack ELSE OldPack

RollBackRows ==
  /\ row' = [def |-> job.old, desired |-> job.desired]
  /\ pack' = OldPack

-----------------------------------------------------------------------------
\* executeModpackInstall, step by step.

Stop ==
  \/ Succeed("stop", "mark") /\ UNCHANGED <<row, pack, bk, undone, failed>>
  \/ Fail("stop", "abandon") /\ failed' = TRUE /\ UNCHANGED <<row, pack, bk, undone>>

\* The server could not be stopped: its rows only.
Abandon ==
  \/ Succeed("abandon", "end") /\ RollBackRows /\ Mark("failed") /\ UNCHANGED <<undone, failed>>
  \/ /\ Fail("abandon", "end") /\ undone' = FALSE
     /\ Lost(RollBackRows, UNCHANGED <<row, pack>>)
     /\ UNCHANGED <<bk, failed>>

MarkCreating ==
  \/ Succeed("mark", "backup") /\ Mark("creating") /\ UNCHANGED <<row, pack, undone, failed>>
  \/ Fail("mark", "rows") /\ failed' = TRUE /\ UNCHANGED <<row, pack, bk, undone>>

\* Mutant: a backup that could not be made does not stop the installation.
BackupOrNot ==
  \/ Succeed("backup", "ready") /\ UNCHANGED <<row, pack, bk, undone, failed>>
  \/ Fail("backup", "ready") /\ UNCHANGED <<row, pack, bk, undone, failed>>

Backup ==
  \/ Succeed("backup", "ready") /\ UNCHANGED <<row, pack, bk, undone, failed>>
  \/ /\ Fail("backup", "rows") /\ failed' = TRUE
     /\ IF expired' THEN UNCHANGED bk ELSE Mark("failed")
     /\ UNCHANGED <<row, pack, undone>>

MarkReady ==
  \/ Succeed("ready", "provision") /\ Mark("ready") /\ UNCHANGED <<row, pack, undone, failed>>
  \/ Fail("ready", "rows") /\ failed' = TRUE /\ UNCHANGED <<row, pack, bk, undone>>

\* From here on the directory and the container have to be put back, too.
\* Mutant: the directory is not.
ProvisionWithoutRestore ==
  \/ Succeed("provision", "start") /\ UNCHANGED <<row, pack, bk, undone, failed>>
  \/ Succeed("start", "wait") /\ UNCHANGED <<row, pack, bk, undone, failed>>
  \/ \E at \in {"provision", "start"} :
       Fail(at, "rowsToo") /\ failed' = TRUE /\ UNCHANGED <<row, pack, bk, undone>>

Provision ==
  \/ Succeed("provision", "start") /\ UNCHANGED <<row, pack, bk, undone, failed>>
  \/ Succeed("start", "wait") /\ UNCHANGED <<row, pack, bk, undone, failed>>
  \/ \E at \in {"provision", "start"} :
       Fail(at, "restore") /\ failed' = TRUE /\ UNCHANGED <<row, pack, bk, undone>>

\* waitForServerRunningWithin: ready, or ended, or not ready in time, with or
\* without the deadline of the job.
Wait ==
  \/ /\ node.game = "ready"
     /\ Succeed("wait", "finish")
     /\ UNCHANGED <<row, pack, bk, undone, failed>>
  \/ /\ At("wait") /\ node.game # "ready"
     /\ \/ UNCHANGED <<expired, budget>>
        \/ Trouble
     /\ pc' = "restore" /\ failed' = TRUE
     /\ UNCHANGED <<row, pack, bk, node, undone>> /\ Same

\* finishModpackInstall: an error, also that no row was updated, ends the job
\* without a compensation.
Installing == pack = [file |-> target, status |-> "installing"]

Finish ==
  \/ /\ Installing
     /\ Succeed("finish", IF job.desired = "running" THEN "end" ELSE "halt")
     /\ pack' = [pack EXCEPT !.status = "installed"]
     /\ UNCHANGED <<row, bk, undone, failed>>
  \/ /\ \/ ~Installing /\ Succeed("finish", "end") /\ UNCHANGED pack
        \/ /\ Fail("finish", "end")
           /\ Lost(Installing /\ pack' = [pack EXCEPT !.status = "installed"], UNCHANGED pack)
     /\ failed' = TRUE /\ undone' = FALSE
     /\ UNCHANGED <<row, bk>>

\* A failure is a warning only; the reconciler will stop the server.
Halt ==
  /\ Succeed("halt", "end") \/ Fail("halt", "end")
  /\ UNCHANGED <<row, pack, bk, undone, failed>>

-----------------------------------------------------------------------------
\* rollbackModpackRuntime: an error does not keep it from going on.

Undo(at, next) ==
  \/ Succeed(at, next) /\ UNCHANGED undone
  \/ Fail(at, next) /\ undone' = FALSE

AfterRows == IF job.desired = "running" THEN "restart" ELSE "end"

RestoreData == Undo("restore", "rowsToo") /\ UNCHANGED <<row, pack, bk, failed>>

RestoreRows ==
  \/ /\ Succeed("rows", AfterRows) \/ Succeed("rowsToo", "recreate")
     /\ RollBackRows /\ UNCHANGED <<bk, undone, failed>>
  \/ /\ Fail("rows", AfterRows) \/ Fail("rowsToo", "recreate")
     /\ undone' = FALSE
     /\ Lost(RollBackRows, UNCHANGED <<row, pack>>)
     /\ UNCHANGED <<bk, failed>>

Recreate == Undo("recreate", AfterRows) /\ UNCHANGED <<row, pack, bk, failed>>

\* A previous server that does not come up again is an error of the job, too.
Restart ==
  /\ Succeed("restart", "rewait") \/ Fail("restart", "end")
  /\ UNCHANGED <<row, pack, bk, undone, failed>>

Rewait ==
  /\ At("rewait") /\ pc' = "end"
  /\ Trouble \/ UNCHANGED <<expired, budget>>
  /\ UNCHANGED <<row, pack, bk, node, undone, failed>> /\ Same

\* finishJob, on a context of its own.
End ==
  /\ At("end")
  /\ phase' = "free" /\ pc' = "idle"
  /\ UNCHANGED <<tables, node, job, tries, target, expired, undone, failed, up, was, budget>>

Worker ==
  \/ Claim \/ Stop \/ Abandon \/ MarkCreating \/ Backup \/ MarkReady \/ Provision
  \/ Wait \/ Finish \/ Halt
  \/ RestoreData \/ RestoreRows \/ Recreate \/ Restart \/ Rewait
  \/ End

-----------------------------------------------------------------------------
\* The controller stops; the agent's call gets as far as it gets.
Crash ==
  /\ up /\ Spend("crashes")
  /\ up' = FALSE
  /\ node' \in IF phase = "running" /\ ~expired THEN Stages(pc) ELSE {node}
  /\ pc' = "idle"
  /\ UNCHANGED <<tables, slot, target, expired, undone, failed, was>>

\* Mutant: an interrupted installation is executed until it succeeds.
RecoverForever ==
  /\ ~up
  /\ up' = TRUE
  /\ phase' = IF phase = "running" THEN "queued" ELSE phase
  /\ UNCHANGED <<tables, node, job, tries, attempt, was, budget>>

\* recoverJobs: giving up compensates nothing.
Recover ==
  /\ ~up
  /\ up' = TRUE
  /\ phase' = IF phase # "running" THEN phase
              ELSE IF tries >= MaxAttempts THEN "free" ELSE "queued"
  /\ UNCHANGED <<tables, node, job, tries, attempt, was, budget>>

\* A start or stop, of the owner or of the reconciler, as one step: while it
\* has the slot nothing else here can happen but a lapse.
Operate(d) ==
  /\ up /\ phase = "free"
  /\ row' = [row EXCEPT !.desired = d]
  /\ node' = IF d = "offline" THEN Stopped(node)
             ELSE IF node.def = None THEN node ELSE Booted(node)
  /\ UNCHANGED <<pack, bk, lapsed, slot, attempt, up, was, budget>>

\* processSubscriptionExpiry does not look at the slot for this part.
Lapse ==
  /\ up /\ ~lapsed
  /\ lapsed' = TRUE
  /\ row' = [row EXCEPT !.desired = "offline"]
  /\ UNCHANGED <<pack, bk, node, slot, attempt, up, was, budget>>

\* The API deletes any backup that is ready or failed, also this one.
DeleteBackup ==
  /\ up /\ bk \in {"ready", "failed"}
  /\ Spend("deletes")
  /\ bk' = "none" /\ node' = [node EXCEPT !.archive = None]
  /\ UNCHANGED <<row, pack, lapsed, slot, attempt, up, was>>

GameReady ==
  /\ node.game = "starting"
  /\ node' = [node EXCEPT !.game = "ready"]
  /\ UNCHANGED <<tables, slot, attempt, up, was, budget>>

GameEnds ==
  /\ node.game \in {"starting", "ready"}
  /\ node' = [node EXCEPT !.game = "dead"]
  /\ UNCHANGED <<tables, slot, attempt, up, was, budget>>

\* The container's policy is unless-stopped.
GameRestarts ==
  /\ node.game = "dead"
  /\ node' = [node EXCEPT !.game = "starting"]
  /\ UNCHANGED <<tables, slot, attempt, up, was, budget>>

Next ==
  \/ Worker
  \/ \E f \in File : Request(f)
  \/ \E d \in Desired : Operate(d)
  \/ Crash \/ Recover \/ Lapse \/ DeleteBackup \/ GameReady \/ GameEnds \/ GameRestarts

Spec == Init /\ [][Next]_vars
-----------------------------------------------------------------------------
Node == [def : Def \cup {None}, game : {"stopped", "starting", "ready", "dead"},
         data : SUBSET Def, archive : (SUBSET Def) \cup {None}]
Pack == {NoPack} \cup [file : File, status : {"installing", "installed"}]

Step == {"idle", "stop", "abandon", "mark", "backup", "ready", "provision", "start", "wait",
         "finish", "halt", "restore", "rowsToo", "recreate", "rows", "restart", "rewait", "end"}

Budget == [requests : Nat, faults : Nat, crashes : Nat, deadlines : Nat, deletes : Nat]

TypeOK ==
  /\ row \in [def : Def, desired : Desired]
  /\ pack \in Pack
  /\ bk \in {"none", "queued", "creating", "ready", "failed"}
  /\ lapsed \in BOOLEAN
  /\ node \in Node
  /\ job \in [old : Def, pack : Pack, desired : Desired]
  /\ phase \in {"free", "queued", "running"}
  /\ tries \in 0..MaxAttempts
  /\ target \in Def
  /\ pc \in Step
  /\ expired \in BOOLEAN /\ undone \in BOOLEAN /\ failed \in BOOLEAN /\ up \in BOOLEAN
  /\ was \in [def : Def \cup {None}, data : SUBSET Def]
  /\ budget \in Budget

\* The two tables that name a server's pack agree, through requests, partial
\* rollbacks, crashes and repetitions: a container is made from the one and
\* shown to the user from the other.
RowsAgree == row.def = pack.file

\* The directory as it was at the request, which the previous server may
\* have been booted on again.
AsBefore(data) == data \in {was.data, was.data \cup {was.def}, was.data \cup {job.old}}

\* An attempt that was not interrupted and met no error it could not
\* compensate leaves the new server whole or the old one whole: rows,
\* container and directory.
AllOrNothing ==
  At("end") /\ tries = 1 /\ undone =>
    IF failed
    THEN /\ row.def = job.old /\ pack = OldPack
         /\ AsBefore(node.data) /\ node.def \in {was.def, job.old}
    ELSE /\ pack = [file |-> target, status |-> "installed"] /\ row.def = target
         /\ node.def = target /\ node.data = was.data \cup {target}

\* The directory as it was at the request is in place or in the archive as
\* long as the first attempt lasts, whatever fails, unless its backup is
\* deleted.
WorldIsKept ==
  phase # "free" /\ tries <= 1 /\ bk # "none" => \E data \in {node.data, node.archive} : AsBefore(data)

-----------------------------------------------------------------------------
\* An installation uses the server's slot as the queue promises it.  A job that
\* has its outcome keeps its attempts here; the slot does not.
Slot == INSTANCE JobSlot WITH tries <- IF phase = "free" THEN 0 ELSE tries

ImplementsSlot == Slot!Init /\ [][Slot!Next]_<<phase, tries>>
=============================================================================
