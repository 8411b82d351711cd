------------------------------- MODULE Restore -------------------------------
(***************************************************************************)
(* Backups and restores of one server: the rows of the backups table, the  *)
(* archives on the node, and the directory of the server (live) with the   *)
(* two directories a restore works in, next to it.                         *)
(*                                                                         *)
(* A world is the set of its files, two of them, so that it can be read    *)
(* while it changes, and be half extracted.  An archive holds what its     *)
(* call has read, and its SHA-256 stands for that.                         *)
(*                                                                         *)
(* The game runs and saves during a backup and the snapshot of a restore   *)
(* (save-off is tried, and its failure ignored); a restore stops it.       *)
(*                                                                         *)
(* The agent does not watch its caller while it archives or extracts: when *)
(* the controller crashes, or the job's 15 minutes are over, the call it   *)
(* was waiting for goes on, beside the calls of the next job or of the     *)
(* same one repeated ("orphan" beside "own").                              *)
(***************************************************************************)
EXTENDS Naturals

CONSTANTS
  Backup,            \* identifiers of backups
  None,              \* no backup
  MaxAttempts,       \* the 3 of recoverJobs
  MaxWorlds,         \* bound: worlds that have ever been played
  MaxRequests,       \* bound: accepted requests
  MaxMishaps         \* bound: crashes of the controller, alone or with the agent, jobs
                     \* that reach their deadline, and statements of the worker that fail

ASSUME RestoreAssumption ==
  /\ None \notin Backup
  /\ MaxAttempts \in Nat \ {0}
  /\ MaxWorlds \in Nat \ {0}
  /\ MaxRequests \in Nat /\ MaxMishaps \in Nat

VARIABLES
  game,      \* the game runs, in that directory
  live,      \* the directory of the server
  staged,    \* <server>.restore-<backup>
  previous,  \* <server>.previous-<backup>
  archive,   \* <backup>.tar.gz
  writing,   \* the call whose file is <backup>.tar.gz.tmp
  row,       \* backups.status, "none" without a row
  sum,       \* backups.checksum_sha256
  job,       \* the active job: action and payload
  phase, tries, step, failed,   \* as in ServerLifecycle
  call,      \* the agent's calls: of the worker, and of a dead one
  delete,    \* the API's deletion of a backup in progress
  up,
  asked,     \* history: the world the active job was asked for, until it is played on
  promised,  \* history: the world the last restore has delivered, if it was alone
  alone,     \* history: no orphan was at work when the attempt began
  torn,      \* history: what archives have read of two worlds, one changing to the other
  unsaid,    \* history: the statement on the attempt's snapshot has failed
  budget     \* what is left of the bounds

vars == <<game, live, staged, previous, archive, writing, row, sum, job, phase, tries, step,
          failed, call, delete, up, asked, promised, alone, torn, unsaid, budget>>

disk == <<game, live, staged, previous, archive, writing>>
rows == <<row, sum>>
slot == <<job, phase, tries>>
history == <<asked, promised, alone, torn, unsaid>>

File == {1, 2}
Absent == {}
Empty == {<<0, 0>>}                          \* a directory without files
World(v) == Empty \cup {<<v, i>> : i \in File}
Holds(directory, i) == \E f \in directory : f[2] = i
Directory == SUBSET (Empty \cup (1..MaxWorlds) \X File)
Partial == {<<0, 1>>}                        \* an archive still being written

\* The files of one directory.
Worlds(directory) == {f[1] : f \in directory \ Empty}

NoJob == [action |-> "none", backup |-> None, pre |-> None, sum |-> Absent]
NoCall == [at |-> "none", backup |-> None, sum |-> Absent]
Caller == {"own", "orphan"}

Init ==
  /\ game = TRUE /\ live = World(1)
  /\ staged = [b \in Backup |-> Absent]
  /\ previous = [b \in Backup |-> Absent]
  /\ archive = [b \in Backup |-> Absent]
  /\ writing = [b \in Backup |-> "none"]
  /\ row = [b \in Backup |-> "none"]
  /\ sum = [b \in Backup |-> Absent]
  /\ job = NoJob /\ phase = "free" /\ tries = 0 /\ step = "idle" /\ failed = FALSE
  /\ call = [c \in Caller |-> NoCall]
  /\ delete = [at |-> "none", backup |-> None]
  /\ up = TRUE
  /\ asked = World(1) /\ promised = Absent /\ alone = TRUE /\ torn = {} /\ unsaid = FALSE
  /\ budget = [worlds |-> MaxWorlds - 1, requests |-> MaxRequests, mishaps |-> MaxMishaps]

Spend(kind) ==
  /\ budget[kind] > 0
  /\ budget' = [budget EXCEPT ![kind] = @ - 1]

\* The game goes on to a world nobody has seen yet and saves it.
Play ==
  /\ game /\ live # Absent
  /\ Spend("worlds")
  /\ live' = World(MaxWorlds + 1 - budget.worlds)
  /\ promised' = Absent
  /\ asked' = IF phase = "free" THEN asked ELSE Absent
  /\ UNCHANGED <<game, staged, previous, archive, writing, rows, slot, step, failed, call,
                 delete, up, alone, torn, unsaid>>

\* A start job, which no other job is beside.
StartGame ==
  /\ phase = "free" /\ ~game /\ live # Absent
  /\ game' = TRUE
  /\ UNCHANGED <<live, staged, previous, archive, writing, rows, slot, step, failed, call,
                 delete, up, history, budget>>

-----------------------------------------------------------------------------
\* createBackupJobKind and createRestoreJob: the row of the new backup and
\* the job are inserted together.
Request(j, new) ==
  /\ up /\ phase = "free" /\ row[new] = "none"
  /\ Spend("requests")
  /\ row' = [row EXCEPT ![new] = "queued"]
  /\ job' = j /\ phase' = "queued" /\ tries' = 0
  /\ asked' = live /\ promised' = Absent
  /\ UNCHANGED <<disk, sum, step, failed, call, delete, up, alone, torn, unsaid>>

RequestBackup(b) == Request([NoJob EXCEPT !.action = "backup", !.backup = b], b)

RequestRestore(b, pre) ==
  /\ row[b] = "ready" /\ sum[b] # Absent
  /\ Request([action |-> "restore", backup |-> b, pre |-> pre, sum |-> sum[b]], pre)

\* DELETE of a backup: status check, archive, row; nothing holds the slot.
DeleteCheck(b) ==
  /\ up /\ delete.at = "none" /\ row[b] \in {"ready", "failed"}
  /\ Spend("requests")
  /\ delete' = [at |-> "archive", backup |-> b]
  /\ UNCHANGED <<disk, rows, slot, step, failed, call, up, history>>

DeleteArchive ==
  /\ delete.at = "archive"
  /\ archive' = [archive EXCEPT ![delete.backup] = Absent]
  /\ delete' = [delete EXCEPT !.at = "row"]
  /\ UNCHANGED <<game, live, staged, previous, writing, rows, slot, step, failed, call, up,
                 history, budget>>

DeleteRow ==
  /\ delete.at = "row"
  /\ row' = [row EXCEPT ![delete.backup] = "deleted"]
  /\ sum' = [sum EXCEPT ![delete.backup] = Absent]
  /\ delete' = [at |-> "none", backup |-> None]
  /\ UNCHANGED <<disk, slot, step, failed, call, up, history, budget>>

-----------------------------------------------------------------------------
(***************************************************************************)
(* The worker: executeJob and executeFeatureJob.                           *)
(***************************************************************************)
\* updateBackup changes nothing without a row.
Update(b, status, checksum) ==
  IF row[b] \in {"none", "deleted"} THEN UNCHANGED rows
  ELSE row' = [row EXCEPT ![b] = status] /\ sum' = [sum EXCEPT ![b] = checksum]

\* A statement fails, and its error is ignored.
Ignored == Spend("mishaps") /\ UNCHANGED rows

TryUpdate(b, status, checksum) ==
  (Update(b, status, checksum) /\ UNCHANGED budget) \/ Ignored

Ask(at, b, checksum) ==
  call' = [call EXCEPT !.own = [at |-> at, backup |-> b, sum |-> checksum]]

Claim ==
  /\ up /\ step = "idle" /\ phase = "queued"
  /\ phase' = "running" /\ tries' = tries + 1
  /\ step' = "begin" /\ failed' = FALSE
  /\ alone' = (call.orphan = NoCall) /\ unsaid' = FALSE
  /\ UNCHANGED <<disk, rows, job, call, delete, up, asked, promised, torn, budget>>

\* get, getModpack or getBackup fails, and the job with it.
LoadFails ==
  /\ step = "begin" /\ Spend("mishaps")
  /\ step' = "finish" /\ failed' = TRUE
  /\ UNCHANGED <<disk, rows, slot, call, delete, up, history>>

BeginBackup ==
  /\ step = "begin" /\ job.action = "backup"
  /\ TryUpdate(job.backup, "creating", Absent)
  /\ Ask("backup", job.backup, Absent)
  /\ step' = "backup"
  /\ UNCHANGED <<disk, slot, failed, delete, up, history>>

\* A restore fails if its backup has been deleted; else it begins with a
\* backup of the world as it is now.
BeginRestore ==
  /\ step = "begin" /\ job.action = "restore"
  /\ IF row[job.backup] = "deleted"
     THEN step' = "finish" /\ failed' = TRUE /\ UNCHANGED <<rows, call, budget>>
     ELSE /\ TryUpdate(job.backup, "restoring", sum[job.backup])
          /\ Ask("backup", job.pre, Absent)
          /\ step' = "pre" /\ UNCHANGED failed
  /\ UNCHANGED <<disk, slot, delete, up, history>>

Answered == call.own.at \in {"done", "failed"}
Failure == call.own.at = "failed"

\* What is written of a backup the agent has answered.
Recorded(b) ==
  Update(b, IF Failure THEN "failed" ELSE "ready", IF Failure THEN Absent ELSE call.own.sum)

BackupAnswered ==
  /\ step = "backup" /\ Answered
  /\ (Recorded(job.backup) /\ UNCHANGED budget) \/ Ignored
  /\ call' = [call EXCEPT !.own = NoCall]
  /\ step' = "finish" /\ failed' = Failure
  /\ UNCHANGED <<disk, slot, delete, up, history>>

\* The row of the snapshot may not get its answer; the restore goes on.
SnapshotAnswered ==
  \/ Recorded(job.pre) /\ UNCHANGED <<unsaid, budget>>
  \/ Ignored /\ unsaid' = TRUE

\* Mutant: the restore goes on without its snapshot.
PreIgnored ==
  /\ step = "pre" /\ Answered
  /\ SnapshotAnswered
  /\ Ask("verify", job.backup, job.sum)
  /\ step' = "restore"
  /\ UNCHANGED <<disk, slot, failed, delete, up, asked, promised, alone, torn>>

\* The checksum the restore is checked against is in the job's payload since
\* the request.
PreAnswered ==
  /\ step = "pre" /\ Answered
  /\ SnapshotAnswered
  /\ IF Failure
     THEN call' = [call EXCEPT !.own = NoCall] /\ step' = "settle" /\ failed' = TRUE
     ELSE Ask("verify", job.backup, job.sum) /\ step' = "restore" /\ UNCHANGED failed
  /\ UNCHANGED <<disk, slot, delete, up, asked, promised, alone, torn>>

RestoreAnswered ==
  /\ step = "restore" /\ Answered
  /\ call' = [call EXCEPT !.own = NoCall]
  /\ step' = "settle" /\ failed' = Failure
  /\ UNCHANGED <<disk, rows, slot, delete, up, history, budget>>

\* The backup is ready again, whatever became of the restore.
Settle ==
  /\ step = "settle"
  /\ TryUpdate(job.backup, "ready", sum[job.backup])
  /\ step' = "finish"
  /\ UNCHANGED <<disk, slot, failed, call, delete, up, history>>

Finish ==
  /\ step = "finish"
  /\ promised' = IF job.action = "restore" /\ ~failed /\ alone
                 THEN job.sum ELSE Absent
  /\ job' = NoJob /\ phase' = "free" /\ tries' = 0
  /\ step' = "idle" /\ failed' = FALSE
  /\ UNCHANGED <<disk, rows, call, delete, up, asked, alone, torn, unsaid, budget>>

-----------------------------------------------------------------------------
(***************************************************************************)
(* The agent, one step per change of the file system.                      *)
(***************************************************************************)
Move(c, at) == call' = [call EXCEPT ![c].at = at]

B(c) == call[c].backup

Unheard == UNCHANGED <<rows, slot, step, failed, delete, up, asked, promised, alone, unsaid, budget>>
Quiet == Unheard /\ UNCHANGED <<game, torn>>

\* agent.backup: a temporary file of the call's own takes the place of any
\* other call's, which writes on without a name.  A server without a directory
\* cannot be archived.  The directory is listed and its files are opened one
\* by one, by their path: here the first file.
Archive(c) ==
  /\ call[c].at = "backup"
  /\ IF live = Absent
     THEN writing' = [writing EXCEPT ![B(c)] = "none"] /\ Move(c, "failed")
     ELSE /\ writing' = [writing EXCEPT ![B(c)] = c]
          /\ call' = [call EXCEPT ![c].at = IF Holds(live, 2) THEN "archive" ELSE "publish",
                                  ![c].sum = Empty \cup {f \in live : f[2] = 1}]
  /\ UNCHANGED <<live, staged, previous, archive>> /\ Quiet

\* The second, of whatever is there by now: the game may have saved, and a
\* restore replaced the directory.  A file that was listed and is gone is an
\* error.
ArchiveRest(c) ==
  /\ call[c].at = "archive"
  /\ LET read == call[c].sum \cup {f \in live : f[2] = 2} IN
       IF Holds(live, 2)
       THEN /\ call' = [call EXCEPT ![c].at = "publish", ![c].sum = read]
            /\ torn' = IF \A v, w \in Worlds(read) : v = w THEN torn ELSE torn \cup {read}
            /\ UNCHANGED writing
       ELSE /\ writing' = [writing EXCEPT ![B(c)] = "none"]
            /\ Move(c, "failed") /\ UNCHANGED torn
  /\ UNCHANGED <<game, live, staged, previous, archive>> /\ Unheard

\* The temporary file, whoever is writing it, is renamed over the archive; the
\* answer has the checksum of what this call has written.  A call whose file
\* has been renamed by another one ends it, and fails.
Publish(c) ==
  /\ call[c].at = "publish"
  /\ IF writing[B(c)] = "none"
     THEN /\ archive' = [archive EXCEPT ![B(c)] = IF @ = Partial THEN call[c].sum ELSE @]
          /\ Move(c, "failed")
          /\ UNCHANGED writing
     ELSE /\ archive' = [archive EXCEPT ![B(c)] =
                           IF writing[B(c)] = c THEN call[c].sum ELSE Partial]
          /\ writing' = [writing EXCEPT ![B(c)] = "none"]
          /\ Move(c, "done")
  /\ UNCHANGED <<live, staged, previous>> /\ Quiet

\* A file cannot be read or written.
ArchiveFails(c) ==
  /\ call[c].at \in {"archive", "publish"}
  /\ writing' = [writing EXCEPT ![B(c)] = "none"]
  /\ Move(c, "failed")
  /\ UNCHANGED <<live, staged, previous, archive>> /\ Quiet

\* The game is stopped first.
Verify(c) ==
  /\ call[c].at = "verify"
  /\ game' = FALSE
  /\ Move(c, IF archive[B(c)] # Absent /\ archive[B(c)] = call[c].sum THEN "clear" ELSE "failed")
  /\ UNCHANGED <<live, staged, previous, archive, writing, torn>> /\ Unheard

Clear(c) ==
  /\ call[c].at = "clear"
  /\ staged' = [staged EXCEPT ![B(c)] = Empty]
  /\ Move(c, "extract1")
  /\ UNCHANGED <<live, previous, archive, writing>> /\ Quiet

\* Mutant: one staging directory for all restores, and files of the same
\* name are skipped.
ExtractShared(c, i, next) ==
  /\ call[c].at = IF i = 1 THEN "extract1" ELSE "extract2"
  /\ staged' = [b \in Backup |->
       IF Holds(staged[b], i) THEN staged[b]
       ELSE staged[b] \cup Empty \cup {f \in call[c].sum : f[2] = i}]
  /\ Move(c, next)
  /\ UNCHANGED <<live, previous, archive, writing>> /\ Quiet

\* A file of that name (of another call) makes the extraction fail; a missing
\* directory is made again, with what is left of the archive.
Extract(c, i, next) ==
  /\ call[c].at = IF i = 1 THEN "extract1" ELSE "extract2"
  /\ IF Holds(staged[B(c)], i)
     THEN /\ staged' = [staged EXCEPT ![B(c)] = Absent]
          /\ Move(c, "failed")
     ELSE /\ staged' = [staged EXCEPT ![B(c)] =
                          @ \cup Empty \cup {f \in call[c].sum : f[2] = i}]
          /\ Move(c, next)
  /\ UNCHANGED <<live, previous, archive, writing>> /\ Quiet

\* Mutant: the error is lost, and what there is takes the place of the world.
ExtractFailsQuietly(c) ==
  /\ call[c].at \in {"extract1", "extract2"}
  /\ Move(c, "prepare")
  /\ UNCHANGED <<live, staged, previous, archive, writing>> /\ Quiet

ExtractFails(c) ==
  /\ call[c].at \in {"extract1", "extract2"}
  /\ staged' = [staged EXCEPT ![B(c)] = Absent]
  /\ Move(c, "failed")
  /\ UNCHANGED <<live, previous, archive, writing>> /\ Quiet

DropPrevious(c, at, next) ==
  /\ call[c].at = at
  /\ previous' = [previous EXCEPT ![B(c)] = Absent]
  /\ Move(c, next)
  /\ UNCHANGED <<live, staged, archive, writing>> /\ Quiet

\* os.Rename refuses a target that is a directory; a missing live directory
\* is no error.  A game that was started again since (the call is an orphan)
\* goes on in the directory it has, and saves nothing in the one that follows.
MoveOut(c) ==
  /\ call[c].at = "moveOut"
  /\ IF live = Absent
     THEN Move(c, "moveIn") /\ UNCHANGED <<game, live, staged, previous>>
     ELSE IF previous[B(c)] # Absent
     THEN /\ staged' = [staged EXCEPT ![B(c)] = Absent]
          /\ Move(c, "failed") /\ UNCHANGED <<game, live, previous>>
     ELSE /\ previous' = [previous EXCEPT ![B(c)] = live]
          /\ live' = Absent /\ game' = FALSE
          /\ Move(c, "moveIn") /\ UNCHANGED staged
  /\ UNCHANGED <<archive, writing, torn>> /\ Unheard

MoveIn(c) ==
  /\ call[c].at = "moveIn"
  /\ IF live = Absent /\ staged[B(c)] # Absent
     THEN /\ live' = staged[B(c)]
          /\ staged' = [staged EXCEPT ![B(c)] = Absent]
          /\ Move(c, "clean")
     ELSE Move(c, "moveBack") /\ UNCHANGED <<live, staged>>
  /\ UNCHANGED <<previous, archive, writing>> /\ Quiet

MoveBack(c) ==
  /\ call[c].at = "moveBack"
  /\ IF live = Absent /\ previous[B(c)] # Absent
     THEN live' = previous[B(c)] /\ previous' = [previous EXCEPT ![B(c)] = Absent]
     ELSE UNCHANGED <<live, previous>>
  /\ Move(c, "failed")
  /\ UNCHANGED <<staged, archive, writing>> /\ Quiet

\* The answer of an orphan goes nowhere.
OrphanEnds ==
  /\ call.orphan.at \in {"done", "failed"}
  /\ call' = [call EXCEPT !.orphan = NoCall]
  /\ UNCHANGED disk /\ Quiet

AgentStep(c) ==
  \/ Archive(c) \/ ArchiveRest(c) \/ Publish(c) \/ ArchiveFails(c)
  \/ Verify(c) \/ Clear(c)
  \/ Extract(c, 1, "extract2") \/ Extract(c, 2, "prepare") \/ ExtractFails(c)
  \/ DropPrevious(c, "prepare", "moveOut") \/ MoveOut(c) \/ MoveIn(c) \/ MoveBack(c)
  \/ DropPrevious(c, "clean", "done")

-----------------------------------------------------------------------------
\* The deadline of the job: the call is abandoned, and so is what executeJob
\* would have written to the backups, with the same context; the job fails.
TimeOut ==
  /\ step \in {"backup", "pre", "restore"} /\ ~Answered
  /\ call.orphan = NoCall
  /\ Spend("mishaps")
  /\ call' = [own |-> NoCall, orphan |-> call.own]
  /\ step' = "finish" /\ failed' = TRUE
  /\ UNCHANGED <<disk, rows, slot, delete, up, history>>

\* The API's deletion ends with the process that serves it.
ControllerGone ==
  /\ up /\ up' = FALSE
  /\ step' = "idle" /\ failed' = FALSE
  /\ delete' = [at |-> "none", backup |-> None]
  /\ UNCHANGED <<disk, rows, slot, history>>

\* One orphan at a time is enough to disturb a restore.
Crash ==
  /\ call.orphan = NoCall
  /\ Spend("mishaps")
  /\ ControllerGone
  /\ call' = [own |-> NoCall, orphan |-> call.own]

HostCrash ==
  /\ Spend("mishaps")
  /\ ControllerGone
  /\ call' = [c \in Caller |-> NoCall]

\* Mutant: an interrupted job is always repeated.
RestartForever ==
  /\ ~up
  /\ up' = TRUE
  /\ phase' = IF phase = "running" THEN "queued" ELSE phase
  /\ UNCHANGED <<disk, rows, job, tries, step, failed, call, delete, history, budget>>

\* recoverJobs.
Restart ==
  /\ ~up
  /\ up' = TRUE
  /\ IF phase = "running" /\ tries >= MaxAttempts
     THEN job' = NoJob /\ phase' = "free" /\ tries' = 0
     ELSE /\ phase' = IF phase = "running" THEN "queued" ELSE phase
          /\ UNCHANGED <<job, tries>>
  /\ UNCHANGED <<disk, rows, step, failed, call, delete, history, budget>>

Next ==
  \/ Play \/ StartGame
  \/ \E b \in Backup : RequestBackup(b) \/ DeleteCheck(b)
  \/ \E b, pre \in Backup : RequestRestore(b, pre)
  \/ DeleteArchive \/ DeleteRow
  \/ Claim \/ LoadFails \/ BeginBackup \/ BeginRestore
  \/ BackupAnswered \/ PreAnswered \/ RestoreAnswered \/ Settle \/ Finish
  \/ \E c \in Caller : AgentStep(c)
  \/ OrphanEnds \/ TimeOut
  \/ Crash \/ HostCrash \/ Restart

Spec == Init /\ [][Next]_vars
-----------------------------------------------------------------------------
TypeOK ==
  /\ {live, asked, promised} \subseteq Directory
  /\ {staged, previous, sum} \subseteq [Backup -> Directory]
  /\ archive \in [Backup -> Directory \cup {Partial}]
  /\ writing \in [Backup -> Caller \cup {"none"}]
  /\ row \in [Backup -> {"none", "queued", "creating", "restoring", "ready", "failed", "deleted"}]
  /\ job \in [action : {"none", "backup", "restore"}, backup : Backup \cup {None},
              pre : Backup \cup {None}, sum : Directory]
  /\ phase \in {"free", "queued", "running"}
  /\ tries \in 0..MaxAttempts
  /\ step \in {"idle", "begin", "backup", "pre", "restore", "settle", "finish"}
  /\ failed \in BOOLEAN
  /\ call \in [Caller -> [at : {"none", "backup", "archive", "publish", "verify", "clear", "extract1",
                                "extract2", "prepare", "moveOut", "moveIn", "moveBack", "clean",
                                "done", "failed"},
                          backup : Backup \cup {None}, sum : Directory]]
  /\ delete \in [at : {"none", "archive", "row"}, backup : Backup \cup {None}]
  /\ {up, alone, unsaid, game} \subseteq BOOLEAN
  /\ torn \subseteq Directory

\* A restore never mixes anything: the server's directory and every archive
\* are of one world, or part of what a single archive has read while the world
\* changed, although an orphaned restore and its repetition extract side by
\* side.
NeverMixed ==
  \A d \in {live} \cup {archive[b] : b \in Backup} :
    \/ \A v, w \in Worlds(d) : v = w
    \/ \E t \in torn : d \subseteq t

Replacing == {"clear", "extract1", "extract2", "prepare", "moveOut", "moveIn", "moveBack", "clean"}

\* The worker never lets the agent touch the directory of a server before a
\* snapshot of it is on the node, and the customer can see it, on no attempt:
\* unless the customer deletes it meanwhile, or the statement that makes its
\* row ready has failed.  The archive may be one that an orphan is still
\* writing.
SnapshotFirst ==
  call.own.at \in Replacing
    => \/ archive[job.pre] # Absent /\ (row[job.pre] = "ready" \/ unsaid)
       \/ row[job.pre] = "deleted" \/ delete.backup = job.pre

Restored == step = "finish" /\ ~failed /\ job.action = "restore"

\* docs/api.md:87: a restore takes an automatic snapshot.  When the restore
\* has completed, the snapshot is the world there was when it was asked for,
\* if nobody has played on since and no orphan was beside the last attempt.
SnapshotKeepsTheWorld == Restored /\ alone /\ asked # Absent => archive[job.pre] = asked

\* docs/api.md:87: the server is restored from the verified archive: when a
\* restore has completed the world is the archived one, whatever earlier
\* attempts, orphans and host crashes have left next to it, and whatever is
\* archived or deleted afterwards.  Beside an orphan that is not so.
RestoreDelivers == promised # Absent => live = promised

-----------------------------------------------------------------------------
\* Backups and restores use the server's slot as the queue promises it, also
\* where an orphan of the agent works on for a job that has lost it.
Slot == INSTANCE JobSlot

ImplementsSlot == Slot!Init /\ [][Slot!Next]_<<phase, tries>>
=============================================================================
