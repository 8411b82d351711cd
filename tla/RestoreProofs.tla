----------------------------- MODULE RestoreProofs -----------------------------
(***************************************************************************)
(* What holds of backups and restores for any number of backups, worlds,   *)
(* requests, crashes, deadlines and lost statements, with an abandoned     *)
(* call at work beside the worker's: a restore mixes nothing, nothing is   *)
(* replaced before there is a snapshot, and a restore that ran alone       *)
(* delivers.                                                               *)
(*                                                                         *)
(* The argument for the first: two calls may extract into the same         *)
(* directory only for the same backup, and the checksum of a backup that   *)
(* can be restored does not change any more, so both have the same         *)
(* archive.  What an archive has read of two worlds is torn from then on,  *)
(* and so is every part of it.                                             *)
(***************************************************************************)
EXTENDS Restore, TLAPS

\* A directory or a checksum of one world, or of part of one or of what is
\* known to be torn.
Pure(d) == \A v, w \in Worlds(d) : v = w
Fits(d, T) == Pure(d) \/ \E t \in T : d \subseteq t
Sound(T) == {d \in Directory : (d = Absent \/ Empty \subseteq d) /\ Fits(d, T)}
Torn == {t \in Directory : Empty \subseteq t}

Reading == {"verify", "clear", "extract1", "extract2"}
Ended == {"done", "failed"}

DiskSound ==
  /\ live \in Sound(torn) /\ staged \in [Backup -> Sound(torn)]
  /\ previous \in [Backup -> Sound(torn)] /\ archive \in [Backup -> Sound(torn) \cup {Partial}]
  /\ writing \in [Backup -> Caller \cup {"none"}] /\ game \in BOOLEAN
RowsSound ==
  /\ row \in [Backup -> {"none", "queued", "creating", "restoring", "ready", "failed", "deleted"}]
  /\ sum \in [Backup -> Sound(torn)]
HistoryType ==
  /\ asked \in Directory /\ promised \in Directory /\ alone \in BOOLEAN /\ unsaid \in BOOLEAN
  /\ torn \subseteq Torn
BudgetType ==
  /\ budget \in [worlds : Nat, requests : Nat, mishaps : Nat]
  /\ budget["worlds"] <= MaxWorlds - 1
DeleteType ==
  \/ delete = [at |-> "none", backup |-> None]
  \/ delete \in [at : {"archive", "row"}, backup : Backup]

Settled(s, t) == s = t \/ s = Absent \/ t = Absent

\* The job in the slot; New is the backup whose row it has brought.  The
\* checksum in its payload is the one of the backup's row, unless that is
\* deleted.
BackupJob == [action : {"backup"}, backup : Backup, pre : {None}, sum : {Absent}]
RestoreJob(T) == [action : {"restore"}, backup : Backup, pre : Backup, sum : Sound(T)]
New == IF job.action = "backup" THEN job.backup ELSE job.pre
SlotInv ==
  /\ phase \in {"free", "queued", "running"} /\ tries \in 0..MaxAttempts
  /\ phase = "queued" => tries < MaxAttempts
  /\ IF phase = "free" THEN job = NoJob
     ELSE /\ job \in BackupJob \cup RestoreJob(torn) /\ row[New] # "none"
          /\ job.action = "restore" => /\ job.backup # job.pre /\ row[job.backup] # "none"
                                       /\ Settled(job.sum, sum[job.backup])
WorkerInv ==
  /\ step \in {"idle", "begin", "backup", "pre", "restore", "settle", "finish"}
  /\ failed \in BOOLEAN /\ up \in BOOLEAN
  /\ step # "idle" => up /\ phase = "running"
  /\ step = "backup" => job.action = "backup"
  /\ step \in {"pre", "restore", "settle"} => job.action = "restore"

\* The calls: what each of them may be at, with which backup.
CallState(T) == [at : {"none", "backup", "archive", "publish", "verify"} \cup Replacing \cup Ended,
                 backup : Backup \cup {None}, sum : Sound(T)]
CallType ==
  /\ call \in [Caller -> CallState(torn)]
  /\ \A c \in Caller :
       /\ call[c].at # "none" => call[c].backup \in Backup
       /\ call[c].at \in {"archive", "publish"} \cup Replacing => call[c].sum # Absent
OwnCall ==
  /\ step \in {"backup", "pre"} =>
       call["own"].at \in {"backup", "archive", "publish"} \cup Ended /\ call["own"].backup = New
  /\ step = "restore" =>
       /\ call["own"].at \in {"verify"} \cup Replacing \cup Ended
       /\ call["own"].backup = job.backup /\ call["own"].sum = job.sum
  /\ step \notin {"backup", "pre", "restore"} => call["own"] = NoCall

\* A call that reads an archive has the checksum of the backup's row, unless
\* the row is deleted, and that of a job for the same backup; so two calls for
\* one backup have the same.
Aim ==
  /\ \A c \in Caller : call[c].at \in Reading =>
       /\ row[call[c].backup] # "none" /\ call[c].backup # New
       /\ Settled(call[c].sum, sum[call[c].backup])
       /\ job.action = "restore" /\ call[c].backup = job.backup => Settled(call[c].sum, job.sum)
  /\ \A c, d \in Caller :
       call[c].at \in Reading /\ call[d].at \in Reading /\ call[c].backup = call[d].backup
         => Settled(call[c].sum, call[d].sum)
StagedInv ==
  \A c \in Caller :
    call[c].at \in {"extract1", "extract2"} => staged[call[c].backup] \subseteq Empty \cup call[c].sum

\* The snapshot of a restore, from its answer on.
Gone(b) == row[b] = "deleted" \/ delete.backup = b
Snapshot ==
  /\ step = "pre" /\ call["own"].at = "done" => archive[job.pre] # Absent \/ Gone(job.pre)
  /\ step = "restore" =>
       (archive[job.pre] # Absent /\ (row[job.pre] = "ready" \/ unsaid)) \/ Gone(job.pre)

\* The game does not run from the moment the restore has stopped it until the
\* job is over.
Stopped ==
  /\ step = "restore" /\ call["own"].at \in Replacing \cup {"done"} => ~game
  /\ step \in {"settle", "finish"} /\ ~failed /\ job.action = "restore" => ~game

\* A restore without another call beside it, stage by stage.
Lone == alone /\ step # "idle" /\ ~(step = "finish" /\ failed)
Stages ==
  LET at == call["own"].at  s == call["own"].sum  d == staged[job.backup]
  IN  /\ at = "extract1" => d = Empty
      /\ at = "extract2" => d = Empty \cup {f \in s : f[2] = 1}
      /\ at \in {"prepare", "moveOut", "moveIn"} => d = s
      /\ at = "moveIn" => live = Absent
      /\ at \in {"clean", "done"} => live = s
      /\ at # "moveBack"
Delivery ==
  /\ Lone => call["orphan"] = NoCall
  /\ Lone /\ step = "restore" => Stages
  /\ Lone /\ step \in {"settle", "finish"} /\ ~failed /\ job.action = "restore" => live = job.sum
  /\ promised # Absent => phase = "free" /\ call["orphan"] = NoCall /\ live = promised

\* The inductive invariant.
RestoreInv ==
  /\ DiskSound /\ RowsSound /\ HistoryType /\ BudgetType /\ DeleteType
  /\ SlotInv /\ WorkerInv /\ CallType /\ OwnCall
  /\ Aim /\ StagedInv /\ Snapshot /\ Stopped /\ Delivery

-----------------------------------------------------------------------------
\* Directories.
LEMMA SoundSmall == \A T : Absent \in Sound(T) /\ Empty \in Sound(T)
  BY DEF Sound, Fits, Directory, Absent, Empty, Pure, Worlds

LEMMA SoundWorld == \A v \in 1..MaxWorlds : \A T : World(v) \in Sound(T)
<1> SUFFICES ASSUME NEW v \in 1..MaxWorlds, NEW T
             PROVE  World(v) \in Sound(T)
  OBVIOUS
<1>1. World(v) \in Directory
  BY DEF World, File, Directory
<1>2. Pure(World(v))
  BY DEF World, Pure, Worlds
<1> QED BY <1>1, <1>2 DEF Sound, Fits, World

\* More that is torn, more that is sound.
LEMMA SoundGrows ==
  ASSUME NEW T, NEW U, T \subseteq U
  PROVE  Sound(T) \subseteq Sound(U)
BY DEF Sound, Fits

\* Some files of a directory, with what has been extracted from it before.
LEMMA SoundPart ==
  ASSUME NEW T \in SUBSET Torn, NEW s \in Sound(T), NEW d, d \subseteq Empty \cup s, NEW i \in File
  PROVE  /\ (d \cup Empty \cup {f \in s : f[2] = i}) \in Sound(T)
         /\ (d \cup Empty \cup {f \in s : f[2] = i}) \subseteq Empty \cup s
<1> DEFINE e == d \cup Empty \cup {f \in s : f[2] = i}
<1>1. e \subseteq Empty \cup s
  OBVIOUS
<1>2. e \in Directory
  BY <1>1 DEF Sound, Directory
<1>3. Fits(e, T)
  <2>1. CASE Pure(s)
    <3>1. \A v \in Worlds(e) : v \in Worlds(s)
      BY <1>1 DEF Worlds
    <3> QED BY <2>1, <3>1 DEF Pure, Fits
  <2>2. CASE ~Pure(s)
    <3>1. PICK t \in T : s \subseteq t
      BY <2>2 DEF Sound, Fits
    <3>2. e \subseteq t
      BY <1>1, <3>1 DEF Torn
    <3> QED BY <3>2 DEF Fits
  <2> QED BY <2>1, <2>2
<1> QED BY <1>1, <1>2, <1>3 DEF Sound

LEMMA BothParts ==
  ASSUME NEW T, NEW s \in Sound(T), s # Absent
  PROVE  (Empty \cup {f \in s : f[2] = 1}) \cup Empty \cup {f \in s : f[2] = 2} = s
<1>1. Empty \subseteq s
  BY DEF Sound
<1>2. \A f \in s : f \in Empty \/ f[2] = 1 \/ f[2] = 2
  BY DEF Sound, Directory, File
<1> QED BY <1>1, <1>2

-----------------------------------------------------------------------------
\* The invariant gives the properties.
LEMMA RestoreTypeParts == RestoreInv => TypeOK
<1> SUFFICES ASSUME RestoreInv
             PROVE  TypeOK
  OBVIOUS
<1> USE DEF RestoreInv
<1>1. Sound(torn) \subseteq Directory /\ torn \subseteq Directory
  BY DEF Sound, HistoryType, Torn
<1>2. /\ live \in Directory /\ asked \in Directory /\ promised \in Directory
      /\ staged \in [Backup -> Directory] /\ previous \in [Backup -> Directory]
      /\ sum \in [Backup -> Directory] /\ archive \in [Backup -> Directory \cup {Partial}]
  BY <1>1 DEF DiskSound, RowsSound, HistoryType
<1>3. job \in [action : {"none", "backup", "restore"}, backup : Backup \cup {None},
              pre : Backup \cup {None}, sum : Directory]
  <2>1. Absent \in Directory
    BY DEF Absent, Directory
  <2> QED BY <1>1, <2>1 DEF SlotInv, BackupJob, RestoreJob, NoJob
<1>4. call \in [Caller -> [at : {"none", "backup", "archive", "publish", "verify", "clear", "extract1",
                                "extract2", "prepare", "moveOut", "moveIn", "moveBack", "clean",
                                "done", "failed"},
                          backup : Backup \cup {None}, sum : Directory]]
  BY <1>1 DEF CallType, CallState, Replacing, Ended
<1>5. delete \in [at : {"none", "archive", "row"}, backup : Backup \cup {None}]
  BY DEF DeleteType
<1> QED BY <1>1, <1>2, <1>3, <1>4, <1>5
        DEF TypeOK, DiskSound, RowsSound, SlotInv, WorkerInv, HistoryType

LEMMA RestoreProperties == RestoreInv => NeverMixed /\ SnapshotFirst /\ RestoreDelivers
<1> SUFFICES ASSUME RestoreInv
             PROVE  NeverMixed /\ SnapshotFirst /\ RestoreDelivers
  OBVIOUS
<1> USE DEF RestoreInv
<1>1. NeverMixed
  <2>1. Pure(Partial)
    BY DEF Pure, Worlds, Partial
  <2>2. \A d \in {live} \cup {archive[b] : b \in Backup} : d \in Sound(torn) \cup {Partial}
    BY DEF DiskSound
  <2>3. \A d \in Sound(torn) : Fits(d, torn)
    BY DEF Sound
  <2> QED BY <2>1, <2>2, <2>3 DEF NeverMixed, Pure, Fits
<1>2. SnapshotFirst
  <2>1. call["own"].at \in Replacing => step = "restore"
    BY DEF OwnCall, Replacing, Ended, NoCall, WorkerInv
  <2> QED BY <2>1 DEF SnapshotFirst, Snapshot, Gone, Replacing
<1>3. RestoreDelivers
  BY DEF RestoreDelivers, Delivery
<1> QED BY <1>1, <1>2, <1>3

\* At first there is a world and nothing else.
LEMMA InitRestoreInv == Init => RestoreInv
<1> SUFFICES ASSUME Init
             PROVE  RestoreInv
  OBVIOUS
<1> USE RestoreAssumption DEF Init
<1>1. World(1) \in Sound(torn) /\ Absent \in Sound(torn)
      /\ World(1) \in Directory /\ Absent \in Directory
  <2>1. World(1) \in Sound(torn) /\ Absent \in Sound(torn)
    BY SoundWorld, SoundSmall
  <2> QED BY <2>1 DEF Sound
<1>2. DiskSound /\ RowsSound /\ HistoryType
  BY <1>1 DEF DiskSound, RowsSound, HistoryType
<1>3. BudgetType
  BY DEF BudgetType
<1>4. DeleteType /\ SlotInv /\ WorkerInv
  <2>1. DeleteType
    BY DEF DeleteType
  <2>2. SlotInv
    BY DEF SlotInv
  <2>3. WorkerInv
    BY DEF WorkerInv
  <2> QED BY <2>1, <2>2, <2>3
<1>5. CallType
  BY <1>1 DEF CallType, CallState, NoCall, Replacing
<1>6. OwnCall /\ Aim /\ StagedInv /\ Snapshot /\ Stopped /\ Delivery
  BY DEF OwnCall, Aim, StagedInv, Snapshot, Stopped, Delivery, Lone, NoCall, Reading, Caller
<1> QED BY <1>2, <1>3, <1>4, <1>5, <1>6 DEF RestoreInv

-----------------------------------------------------------------------------
\* The owner: the game, requests, deletions.
LEMMA SpendStep ==
  ASSUME BudgetType, NEW kind \in {"worlds", "requests", "mishaps"}, Spend(kind)
  PROVE  BudgetType'
  BY RestoreAssumption DEF BudgetType, Spend

\* Who plays has not stopped the game, and there is a directory: no restore is
\* between its first change and its end.
LEMMA PlayKeepsInv == RestoreInv /\ Play => RestoreInv'
<1> SUFFICES ASSUME RestoreInv, Play
             PROVE  RestoreInv'
  OBVIOUS
<1> USE DEF RestoreInv, Play, rows, slot
<1>1. BudgetType'
  BY SpendStep
<1>2. World(MaxWorlds + 1 - budget.worlds) \in Sound(torn)
  BY SoundWorld, RestoreAssumption DEF BudgetType, Spend
<1>3. DiskSound' /\ RowsSound'
  BY <1>2 DEF DiskSound, RowsSound
<1>4. HistoryType' /\ DeleteType'
  BY SoundSmall DEF HistoryType, DeleteType, Sound
<1>5. SlotInv' /\ WorkerInv' /\ CallType' /\ OwnCall'
  BY DEF SlotInv, WorkerInv, CallType, OwnCall, New
<1>6. Aim' /\ StagedInv' /\ Snapshot' /\ Stopped'
  BY DEF Aim, StagedInv, Snapshot, Stopped, New, Gone
<1>7. Delivery'
  <2>1. Lone' = Lone
    BY DEF Lone
  <2>2. Lone /\ step = "restore" => Stages'
    BY DEF Delivery, Stages, Stopped, Replacing
  <2> QED BY <2>1, <2>2 DEF Delivery, Stopped
<1> QED BY <1>1, <1>3, <1>4, <1>5, <1>6, <1>7

LEMMA StartGameKeepsInv == RestoreInv /\ StartGame => RestoreInv'
<1> SUFFICES ASSUME RestoreInv, StartGame
             PROVE  RestoreInv'
  OBVIOUS
<1> USE DEF RestoreInv, StartGame, rows, slot, history
<1>1. step = "idle"
  BY DEF WorkerInv
<1>2. DiskSound' /\ RowsSound' /\ HistoryType' /\ BudgetType' /\ DeleteType'
  BY DEF DiskSound, RowsSound, HistoryType, BudgetType, DeleteType
<1>3. SlotInv' /\ WorkerInv' /\ CallType' /\ OwnCall'
  BY DEF SlotInv, WorkerInv, CallType, OwnCall, New
<1>4. Aim' /\ StagedInv' /\ Snapshot' /\ Stopped'
  BY <1>1 DEF Aim, StagedInv, Snapshot, Stopped, New, Gone
<1>5. Delivery'
  BY <1>1 DEF Delivery, Lone
<1> QED BY <1>2, <1>3, <1>4, <1>5

LEMMA RequestKeepsInv ==
  ASSUME RestoreInv, NEW new \in Backup, NEW j \in BackupJob \cup RestoreJob(torn), Request(j, new),
         new = IF j.action = "backup" THEN j.backup ELSE j.pre,
         j.action = "restore" => row[j.backup] = "ready" /\ j.sum = sum[j.backup] /\ j.sum # Absent
  PROVE  RestoreInv'
<1> USE DEF RestoreInv, Request, disk
<1>1. BudgetType'
  BY SpendStep
<1>2. DiskSound' /\ RowsSound' /\ HistoryType' /\ DeleteType'
  <2>1. live \in Directory /\ Absent \in Directory
    BY SoundSmall DEF DiskSound, Sound
  <2> QED BY <2>1 DEF DiskSound, RowsSound, HistoryType, DeleteType
<1>3. step = "idle" /\ row'[new] = "queued" /\ \A b \in Backup \ {new} : row'[b] = row[b]
  BY DEF WorkerInv, RowsSound
<1>4. New' = new /\ torn' = torn
  BY DEF New
<1>5. SlotInv'
  <2>1. j.action = "restore" => j.backup \in Backup /\ j.backup # new
    BY DEF RestoreJob, BackupJob
  <2>2. j \in (BackupJob \cup RestoreJob(torn))'
    BY <1>4 DEF BackupJob, RestoreJob
  <2> QED BY <1>3, <1>4, <2>1, <2>2, RestoreAssumption DEF SlotInv, RestoreJob, BackupJob, Settled
<1>6. WorkerInv' /\ CallType' /\ OwnCall' /\ StagedInv' /\ Stopped'
  BY <1>3 DEF WorkerInv, CallType, OwnCall, StagedInv, Stopped
<1>7. Aim'
  BY <1>3, <1>4 DEF Aim, CallType, Reading, Settled
<1>8. Snapshot' /\ Delivery'
  BY <1>3 DEF Snapshot, Delivery, Lone
<1> QED BY <1>1, <1>2, <1>5, <1>6, <1>7, <1>8

LEMMA RequestsKeepInv ==
  ASSUME RestoreInv,
         \/ \E b \in Backup : RequestBackup(b)
         \/ \E b, pre \in Backup : RequestRestore(b, pre)
  PROVE  RestoreInv'
<1>1. ASSUME NEW b \in Backup, RequestBackup(b)
      PROVE  RestoreInv'
  <2> DEFINE j == [NoJob EXCEPT !.action = "backup", !.backup = b]
  <2>1. j \in BackupJob /\ j.action = "backup" /\ j.backup = b
    BY DEF BackupJob, NoJob
  <2>2. Request(j, b)
    BY <1>1 DEF RequestBackup
  <2> HIDE DEF j
  <2> QED BY <2>1, <2>2, RequestKeepsInv
<1>2. ASSUME NEW b \in Backup, NEW pre \in Backup, RequestRestore(b, pre)
      PROVE  RestoreInv'
  <2> DEFINE j == [action |-> "restore", backup |-> b, pre |-> pre, sum |-> sum[b]]
  <2>1. j \in RestoreJob(torn) /\ j.action = "restore" /\ j.backup = b /\ j.pre = pre
        /\ j.sum = sum[b]
    BY DEF RestoreJob, RestoreInv, RowsSound
  <2>2. Request(j, pre) /\ row[b] = "ready" /\ sum[b] # Absent
    BY <1>2 DEF RequestRestore
  <2> HIDE DEF j
  <2> QED BY <2>1, <2>2, RequestKeepsInv
<1> QED BY <1>1, <1>2

LEMMA DeletionKeepsInv ==
  ASSUME RestoreInv, (\E b \in Backup : DeleteCheck(b)) \/ DeleteArchive \/ DeleteRow
  PROVE  RestoreInv'
<1> USE DEF RestoreInv, disk, rows, slot, history
<1>1. ASSUME NEW b \in Backup, DeleteCheck(b)
      PROVE  RestoreInv'
  <2> USE <1>1 DEF DeleteCheck
  <2>1. BudgetType'
    BY SpendStep
  <2>2. DiskSound' /\ RowsSound' /\ HistoryType' /\ DeleteType'
    BY DEF DiskSound, RowsSound, HistoryType, DeleteType
  <2>3. SlotInv' /\ WorkerInv' /\ CallType' /\ OwnCall'
    BY DEF SlotInv, WorkerInv, CallType, OwnCall, New
  <2>4. Aim' /\ StagedInv' /\ Stopped' /\ Delivery'
    BY DEF Aim, StagedInv, Stopped, Delivery, Lone, Stages, New
  <2>5. Snapshot'
    <3>1. delete.backup = None
      BY DEF DeleteType
    <3>2. step \in {"pre", "restore"} => job.pre # None
      BY RestoreAssumption DEF WorkerInv, SlotInv, BackupJob, RestoreJob
    <3> QED BY <3>1, <3>2 DEF Snapshot, Gone
  <2> QED BY <2>1, <2>2, <2>3, <2>4, <2>5
<1>2. CASE DeleteArchive
  <2> USE <1>2 DEF DeleteArchive
  <2>1. DiskSound' /\ RowsSound' /\ HistoryType' /\ DeleteType' /\ BudgetType'
    BY SoundSmall DEF DiskSound, RowsSound, HistoryType, DeleteType, BudgetType
  <2>2. SlotInv' /\ WorkerInv' /\ CallType' /\ OwnCall'
    BY DEF SlotInv, WorkerInv, CallType, OwnCall, New
  <2>3. Aim' /\ StagedInv' /\ Stopped' /\ Delivery'
    BY DEF Aim, StagedInv, Stopped, Delivery, Lone, Stages, New
  <2>4. Snapshot'
    <3>1. delete'.backup = delete.backup
      BY DEF DeleteType
    <3>2. step \in {"pre", "restore"} => job.pre \in Backup
      BY DEF WorkerInv, SlotInv, BackupJob, RestoreJob
    <3> QED BY <3>1, <3>2 DEF Snapshot, Gone, DiskSound
  <2> QED BY <2>1, <2>2, <2>3, <2>4
<1>3. CASE DeleteRow
  <2> USE <1>3 DEF DeleteRow
  <2>0. delete.backup \in Backup
    BY DEF DeleteType
  <2>1. DiskSound' /\ RowsSound' /\ HistoryType' /\ DeleteType' /\ BudgetType'
    BY SoundSmall DEF DiskSound, RowsSound, HistoryType, DeleteType, BudgetType
  <2>2. \A b \in Backup : /\ row'[b] = IF b = delete.backup THEN "deleted" ELSE row[b]
                         /\ sum'[b] = IF b = delete.backup THEN Absent ELSE sum[b]
    BY DEF RowsSound
  <2>3. phase # "free" => job.backup \in Backup /\ New \in Backup
                          /\ (job.action = "restore" => job.pre \in Backup)
    BY DEF SlotInv, BackupJob, RestoreJob, New
  <2>4. SlotInv' /\ WorkerInv' /\ CallType' /\ OwnCall' /\ StagedInv' /\ Stopped'
    BY <2>2, <2>3 DEF SlotInv, WorkerInv, CallType, OwnCall, New, StagedInv, Stopped, Settled
  <2>5. Aim'
    BY <2>2 DEF Aim, New, CallType, Settled, Reading
  <2>6. Snapshot'
    BY <2>2, <2>3 DEF Snapshot, Gone, WorkerInv
  <2>7. Delivery'
    BY <2>2, <2>3 DEF Delivery, Lone, Stages, Settled, WorkerInv
  <2> QED BY <2>1, <2>4, <2>5, <2>6, <2>7
<1> QED BY <1>1, <1>2, <1>3

-----------------------------------------------------------------------------
(* The worker.                                                             *)

\* A statement about the job's backups changes no other row.
LEMMA UpdateStep ==
  ASSUME RowsSound, NEW b \in Backup, NEW s \in Sound(torn), UNCHANGED torn,
         NEW status \in {"creating", "restoring", "ready", "failed"}, Update(b, status, s)
  PROVE  /\ RowsSound'
         /\ \A d \in Backup \ {b} : row'[d] = row[d] /\ sum'[d] = sum[d]
         /\ IF row[b] \in {"none", "deleted"} THEN row'[b] = row[b] /\ sum'[b] = sum[b]
            ELSE row'[b] = status /\ sum'[b] = s
  BY DEF RowsSound, Update, rows

\* What is written of a backup, if anything is.
Wrote(b, s) ==
  /\ RowsSound' /\ BudgetType'
  /\ \A d \in Backup \ {b} : row'[d] = row[d] /\ sum'[d] = sum[d]
  /\ sum'[b] = s \/ sum'[b] = sum[b]
  /\ \A d \in Backup : row[d] # "none" => row'[d] # "none"

LEMMA IgnoredStep ==
  ASSUME RowsSound, BudgetType, NEW b \in Backup, NEW s, UNCHANGED torn, Ignored
  PROVE  Wrote(b, s)
<1>1. BudgetType'
  BY SpendStep DEF Ignored
<1> QED BY <1>1 DEF Wrote, Ignored, rows, RowsSound

LEMMA TryUpdateStep ==
  ASSUME RowsSound, BudgetType, NEW b \in Backup, NEW s \in Sound(torn), UNCHANGED torn,
         NEW status \in {"creating", "restoring", "ready", "failed"}, TryUpdate(b, status, s)
  PROVE  Wrote(b, s)
<1>1. CASE Update(b, status, s) /\ UNCHANGED budget
  <2>1. BudgetType'
    BY <1>1 DEF BudgetType
  <2> QED BY <1>1, <2>1, UpdateStep DEF Wrote
<1>2. CASE Ignored
  BY <1>2, IgnoredStep
<1> QED BY <1>1, <1>2 DEF TryUpdate

\* An answer writes the outcome, and the checksum of what the call has read.
LEMMA RecordedStep ==
  ASSUME RowsSound, BudgetType, CallType, NEW b \in Backup, UNCHANGED torn,
         (Recorded(b) /\ UNCHANGED budget) \/ Ignored
  PROVE  /\ \E s \in Sound(torn) : Wrote(b, s)
         /\ Recorded(b) /\ ~Failure /\ row[b] # "none" => row'[b] = "ready" \/ row'[b] = "deleted"
<1> DEFINE s == IF Failure THEN Absent ELSE call["own"].sum
           status == IF Failure THEN "failed" ELSE "ready"
<1>1. s \in Sound(torn)
  BY SoundSmall DEF CallType, CallState, Caller
<1>2. CASE Recorded(b) /\ UNCHANGED budget
  <2>1. Update(b, status, s) /\ status \in {"creating", "restoring", "ready", "failed"}
    BY <1>2 DEF Recorded
  <2>2. BudgetType'
    BY <1>2 DEF BudgetType
  <2>3. ~Failure => status = "ready"
    OBVIOUS
  <2> HIDE DEF s, status
  <2>4. Wrote(b, s)
    BY <1>1, <2>1, <2>2, UpdateStep DEF Wrote
  <2>5. ~Failure /\ row[b] # "none" => row'[b] = "ready" \/ row'[b] = "deleted"
    BY <1>1, <2>1, <2>3, UpdateStep
  <2> QED BY <1>1, <2>4, <2>5
<1>3. CASE Ignored
  <2>1. Wrote(b, s)
    BY <1>3, IgnoredStep
  <2>2. Recorded(b) /\ ~Failure /\ row[b] # "none" => row'[b] = "ready" \/ row'[b] = "deleted"
    <3> SUFFICES ASSUME Recorded(b), ~Failure, row[b] # "none"
                 PROVE  row'[b] = "ready" \/ row'[b] = "deleted"
      OBVIOUS
    <3> QED BY <1>1, UpdateStep DEF Recorded
  <2> QED BY <1>1, <2>1, <2>2
<1> QED BY <1>2, <1>3

\* What the job's payload says while the worker is at it.
LEMMA WorkersJob ==
  ASSUME RestoreInv, step # "idle"
  PROVE  /\ job \in BackupJob \cup RestoreJob(torn) /\ job.backup \in Backup /\ New \in Backup
         /\ job.action = "backup" => New = job.backup
         /\ job.action = "restore" => New = job.pre /\ job.pre \in Backup /\ job.backup # job.pre
                                      /\ row[job.backup] # "none" /\ job.sum \in Sound(torn)
                                      /\ Settled(job.sum, sum[job.backup])
         /\ row[New] # "none" /\ phase = "running" /\ up /\ job.action \in {"backup", "restore"}
  BY DEF RestoreInv, WorkerInv, SlotInv, BackupJob, RestoreJob, New

\* The parts that a step of the worker leaves alone, when rows keep existing and
\* no checksum changes but that of the job's new backup.
LEMMA WorkerStep ==
  ASSUME RestoreInv, UNCHANGED <<disk, delete, asked, torn>>, RowsSound',
         \A b \in Backup : row[b] # "none" => row'[b] # "none",
         \A b \in Backup \ {New} : sum'[b] = sum[b]
  PROVE  /\ DiskSound' /\ DeleteType'
         /\ UNCHANGED <<job, phase, tries>> => SlotInv' /\ New' = New
<1> USE DEF RestoreInv
<1>1. DiskSound' /\ DeleteType'
  BY DEF disk, DiskSound, DeleteType
<1>2. ASSUME UNCHANGED <<job, phase, tries>>
      PROVE  SlotInv' /\ New' = New
  <2>1. New' = New
    BY <1>2 DEF New
  <2>2. phase # "free" => job' \in (BackupJob \cup RestoreJob(torn))'
    BY <1>2 DEF SlotInv, BackupJob, RestoreJob
  <2>3. phase # "free" => New \in Backup /\ row'[New] # "none"
    BY DEF SlotInv, BackupJob, RestoreJob, New
  <2>4. phase # "free" /\ job.action = "restore" =>
          job.backup \in Backup \ {New} /\ row'[job.backup] # "none" /\ sum'[job.backup] = sum[job.backup]
    BY DEF SlotInv, BackupJob, RestoreJob, New
  <2> QED BY <1>2, <2>1, <2>2, <2>3, <2>4 DEF SlotInv
<1> QED BY <1>1, <1>2

LEMMA ClaimKeepsInv == RestoreInv /\ Claim => RestoreInv'
<1> SUFFICES ASSUME RestoreInv, Claim
             PROVE  RestoreInv'
  OBVIOUS
<1> USE DEF RestoreInv, Claim, rows
<1>1. DiskSound' /\ BudgetType' /\ DeleteType' /\ RowsSound'
  BY DEF disk, DiskSound, BudgetType, DeleteType, RowsSound
<1>2. SlotInv' /\ New' = New
  BY RestoreAssumption DEF SlotInv, New, BackupJob, RestoreJob
<1>3. HistoryType' /\ WorkerInv' /\ CallType' /\ OwnCall'
  BY DEF HistoryType, WorkerInv, CallType, CallState, OwnCall
<1>4. Aim' /\ StagedInv' /\ Snapshot' /\ Stopped'
  BY <1>2 DEF Aim, StagedInv, Snapshot, Stopped, disk
<1>5. Delivery'
  <2>1. Lone' => call["orphan"] = NoCall
    BY DEF Lone
  <2> QED BY <2>1 DEF Delivery, Lone, disk
<1> QED BY <1>1, <1>2, <1>3, <1>4, <1>5

LEMMA LoadFailsKeepsInv == RestoreInv /\ LoadFails => RestoreInv'
<1> SUFFICES ASSUME RestoreInv, LoadFails
             PROVE  RestoreInv'
  OBVIOUS
<1> USE DEF RestoreInv, LoadFails, rows, slot, history, disk
<1>1. BudgetType'
  BY SpendStep
<1>2. DiskSound' /\ RowsSound' /\ HistoryType' /\ DeleteType'
  BY DEF DiskSound, RowsSound, HistoryType, DeleteType
<1>3. SlotInv' /\ WorkerInv' /\ CallType' /\ OwnCall'
  BY DEF SlotInv, WorkerInv, CallType, OwnCall, New
<1>4. Aim' /\ StagedInv' /\ Snapshot' /\ Stopped'
  BY DEF Aim, StagedInv, Snapshot, Stopped, New, Gone
<1>5. phase = "running" /\ ~Lone'
  BY DEF WorkerInv, Lone
<1>6. Delivery'
  BY <1>5 DEF Delivery
<1> QED BY <1>1, <1>2, <1>3, <1>4, <1>6

LEMMA BeginBackupKeepsInv == RestoreInv /\ BeginBackup => RestoreInv'
<1> SUFFICES ASSUME RestoreInv, BeginBackup
             PROVE  RestoreInv'
  OBVIOUS
<1> USE DEF RestoreInv, BeginBackup, history, slot
<1>0. step = "begin" /\ job.action = "backup" /\ job.backup \in Backup /\ New = job.backup
      /\ Absent \in Sound(torn)
  BY WorkersJob, SoundSmall
<1>1. Wrote(job.backup, Absent)
  BY <1>0, TryUpdateStep
<1>2. BudgetType' /\ RowsSound' /\ DiskSound' /\ DeleteType' /\ SlotInv' /\ New' = New
  BY <1>0, <1>1, WorkerStep DEF Wrote
<1>3. call' = [call EXCEPT !.own = [at |-> "backup", backup |-> job.backup, sum |-> Absent]]
  BY DEF Ask
<1>4. /\ call'["own"] = [at |-> "backup", backup |-> job.backup, sum |-> Absent]
      /\ call'["orphan"] = call["orphan"]
  BY <1>3 DEF CallType, Caller
<1>5. CallType'
  BY <1>0, <1>3, <1>4 DEF CallType, CallState, Caller, Replacing
<1>6. HistoryType' /\ WorkerInv' /\ OwnCall'
  BY <1>0, <1>2, <1>4 DEF HistoryType, WorkerInv, OwnCall
<1>7. Aim' /\ StagedInv'
  BY <1>0, <1>1, <1>2, <1>4 DEF Aim, StagedInv, CallType, Caller, Reading, disk, Wrote
<1>8. Snapshot' /\ Stopped' /\ Delivery'
  BY <1>0, <1>4 DEF Snapshot, Stopped, Delivery, Lone, SlotInv, WorkerInv, disk
<1> QED BY <1>2, <1>5, <1>6, <1>7, <1>8

LEMMA BeginRestoreKeepsInv == RestoreInv /\ BeginRestore => RestoreInv'
<1> SUFFICES ASSUME RestoreInv, BeginRestore
             PROVE  RestoreInv'
  OBVIOUS
<1> USE DEF RestoreInv, BeginRestore, history, slot
<1>0. step = "begin" /\ job.action = "restore" /\ job.backup \in Backup /\ job.pre \in Backup
      /\ New = job.pre /\ Absent \in Sound(torn) /\ phase = "running" /\ up
  BY WorkersJob, SoundSmall
<1>1. CASE row[job.backup] = "deleted" /\ step' = "finish" /\ failed' = TRUE
           /\ UNCHANGED <<rows, call, budget>>
  <2> USE <1>1 DEF rows
  <2>1. RowsSound' /\ BudgetType'
    BY DEF RowsSound, BudgetType
  <2>2. DiskSound' /\ DeleteType' /\ SlotInv' /\ New' = New
    BY <2>1, WorkerStep
  <2>3. HistoryType' /\ WorkerInv' /\ OwnCall' /\ CallType'
    BY <1>0 DEF HistoryType, WorkerInv, OwnCall, CallType
  <2>4. Aim' /\ StagedInv' /\ Snapshot' /\ Stopped' /\ Delivery'
    BY <1>0, <2>2 DEF Aim, StagedInv, Snapshot, Stopped, Delivery, Lone, disk
  <2> QED BY <2>1, <2>2, <2>3, <2>4
<1>2. CASE /\ TryUpdate(job.backup, "restoring", sum[job.backup])
           /\ Ask("backup", job.pre, Absent)
           /\ step' = "pre" /\ UNCHANGED failed
  <2>0. sum[job.backup] \in Sound(torn)
    BY <1>0 DEF RowsSound
  <2>1. Wrote(job.backup, sum[job.backup])
    BY <1>0, <1>2, <2>0, TryUpdateStep
  <2>2. /\ RowsSound' /\ BudgetType'
        /\ \A d \in Backup : sum'[d] = sum[d]
        /\ \A b \in Backup : row[b] # "none" => row'[b] # "none"
    BY <1>0, <2>1 DEF Wrote
  <2>3. DiskSound' /\ DeleteType' /\ SlotInv' /\ New' = New
    BY <2>2, WorkerStep
  <2>4. call' = [call EXCEPT !.own = [at |-> "backup", backup |-> job.pre, sum |-> Absent]]
    BY <1>2 DEF Ask
  <2>5. /\ call'["own"] = [at |-> "backup", backup |-> job.pre, sum |-> Absent]
        /\ call'["orphan"] = call["orphan"]
    BY <2>4 DEF CallType, Caller
  <2>6. CallType'
    BY <1>0, <2>4, <2>5 DEF CallType, CallState, Caller, Replacing
  <2>7. HistoryType' /\ WorkerInv' /\ OwnCall'
    BY <1>0, <1>2, <2>3, <2>5 DEF HistoryType, WorkerInv, OwnCall
  <2>8. Aim' /\ StagedInv'
    BY <1>0, <2>2, <2>3, <2>5 DEF Aim, StagedInv, CallType, Caller, Reading, disk
  <2>9. Snapshot' /\ Stopped' /\ Delivery'
    BY <1>0, <1>2, <2>5 DEF Snapshot, Stopped, Delivery, Lone, disk
  <2> QED BY <2>2, <2>3, <2>6, <2>7, <2>8, <2>9
<1> QED BY <1>1, <1>2

\* The answer to a backup settles the row the job has brought, which no call reads.
LEMMA BackupAnsweredKeepsInv == RestoreInv /\ BackupAnswered => RestoreInv'
<1> SUFFICES ASSUME RestoreInv, BackupAnswered
             PROVE  RestoreInv'
  OBVIOUS
<1> USE DEF RestoreInv, BackupAnswered, history, slot
<1>0. step = "backup" /\ job.action = "backup" /\ job.backup \in Backup /\ New = job.backup
      /\ phase = "running" /\ up
  BY WorkersJob DEF WorkerInv
<1>1. PICK s \in Sound(torn) : Wrote(job.backup, s)
  BY <1>0, RecordedStep
<1>2. BudgetType' /\ RowsSound' /\ DiskSound' /\ DeleteType' /\ SlotInv' /\ New' = New
  BY <1>0, <1>1, WorkerStep DEF Wrote
<1>4. /\ call'["own"] = NoCall /\ call'["orphan"] = call["orphan"]
  BY DEF CallType, Caller
<1>5. CallType'
  BY <1>4, SoundSmall DEF CallType, CallState, Caller, Replacing, NoCall
<1>6. HistoryType' /\ WorkerInv' /\ OwnCall'
  BY <1>0, <1>2, <1>4 DEF HistoryType, WorkerInv, OwnCall, Failure
<1>7. Aim' /\ StagedInv'
  BY <1>0, <1>1, <1>2, <1>4 DEF Aim, StagedInv, CallType, Caller, Reading, NoCall, disk, Wrote
<1>8. Snapshot' /\ Stopped' /\ Delivery'
  BY <1>0, <1>4 DEF Snapshot, Stopped, Delivery, Lone, disk
<1> QED BY <1>2, <1>5, <1>6, <1>7, <1>8

\* The answer to the snapshot: the restore goes on with the payload's checksum
\* only when there is an archive, and only a lost statement leaves its row behind.
LEMMA PreAnsweredKeepsInv == RestoreInv /\ PreAnswered => RestoreInv'
<1> SUFFICES ASSUME RestoreInv, PreAnswered
             PROVE  RestoreInv'
  OBVIOUS
<1> USE DEF RestoreInv, PreAnswered, slot
<1>0. /\ step = "pre" /\ job.action = "restore" /\ job.backup \in Backup /\ job.pre \in Backup
      /\ job.backup # job.pre /\ row[job.backup] # "none" /\ row[job.pre] # "none"
      /\ New = job.pre /\ job.sum \in Sound(torn) /\ Settled(job.sum, sum[job.backup])
      /\ phase = "running" /\ up
  BY WorkersJob DEF WorkerInv
<1>1. PICK s \in Sound(torn) : Wrote(job.pre, s)
  BY <1>0, RecordedStep DEF SnapshotAnswered
<1>2. BudgetType' /\ RowsSound' /\ DiskSound' /\ DeleteType' /\ SlotInv' /\ New' = New
  BY <1>0, <1>1, WorkerStep DEF Wrote
<1>3. HistoryType'
  BY DEF HistoryType, SnapshotAnswered
<1>4. CASE Failure
  <2>1. call' = [call EXCEPT !.own = NoCall] /\ step' = "settle" /\ failed' = TRUE
    BY <1>4
  <2>2. /\ call'["own"] = NoCall /\ call'["orphan"] = call["orphan"]
    BY <2>1 DEF CallType, Caller
  <2>3. CallType'
    BY <2>1, <2>2, SoundSmall DEF CallType, CallState, Caller, Replacing, NoCall
  <2>4. WorkerInv' /\ OwnCall'
    BY <1>0, <2>1, <2>2 DEF WorkerInv, OwnCall
  <2>5. Aim' /\ StagedInv'
    BY <1>0, <1>1, <1>2, <2>2 DEF Aim, StagedInv, CallType, Caller, Reading, NoCall, disk, Wrote
  <2>6. Snapshot' /\ Stopped' /\ Delivery'
    BY <1>0, <2>1, <2>2 DEF Snapshot, Stopped, Delivery, Lone, disk
  <2> QED BY <1>2, <1>3, <2>3, <2>4, <2>5, <2>6
<1>5. CASE ~Failure
  <2>1. /\ call' = [call EXCEPT !.own = [at |-> "verify", backup |-> job.backup, sum |-> job.sum]]
        /\ step' = "restore" /\ failed' = failed
    BY <1>5 DEF Ask
  <2>2. /\ call'["own"] = [at |-> "verify", backup |-> job.backup, sum |-> job.sum]
        /\ call'["orphan"] = call["orphan"]
    BY <2>1 DEF CallType, Caller
  <2>3. CallType'
    BY <1>0, <2>1, <2>2 DEF CallType, CallState, Caller, Replacing
  <2>4. WorkerInv' /\ OwnCall'
    BY <1>0, <2>1, <2>2 DEF WorkerInv, OwnCall
  <2>5. Aim'
    BY <1>0, <1>1, <1>2, <2>2 DEF Aim, CallType, Caller, Reading, Settled, Wrote
  <2>6. StagedInv'
    BY <2>2 DEF StagedInv, Caller, disk
  <2>7. row'[job.pre] = "ready" \/ row'[job.pre] = "deleted" \/ unsaid'
    BY <1>0, <1>5, RecordedStep DEF SnapshotAnswered
  <2>8. archive'[job.pre] # Absent \/ row'[job.pre] = "deleted" \/ delete'.backup = job.pre
    <3>1. row[job.pre] = "deleted" => row'[job.pre] = "deleted"
      BY <1>0 DEF SnapshotAnswered, Recorded, Update, Ignored, rows
    <3>2. call["own"].at = "done"
      BY <1>5 DEF Answered, Failure
    <3> QED BY <1>0, <3>1, <3>2 DEF Snapshot, Gone, disk
  <2>9. Snapshot' /\ Stopped'
    BY <2>1, <2>2, <2>7, <2>8 DEF Snapshot, Stopped, Gone, Replacing
  <2>10. Delivery'
    BY <1>0, <2>1, <2>2 DEF Delivery, Lone, Stages, disk
  <2> QED BY <1>2, <1>3, <2>3, <2>4, <2>5, <2>6, <2>9, <2>10
<1> QED BY <1>4, <1>5

LEMMA RestoreAnsweredKeepsInv == RestoreInv /\ RestoreAnswered => RestoreInv'
<1> SUFFICES ASSUME RestoreInv, RestoreAnswered
             PROVE  RestoreInv'
  OBVIOUS
<1> USE DEF RestoreInv, RestoreAnswered, history, slot, rows
<1>0. step = "restore" /\ job.action = "restore" /\ phase = "running" /\ up
  BY WorkersJob DEF WorkerInv
<1>1. RowsSound' /\ BudgetType'
  BY DEF RowsSound, BudgetType
<1>2. DiskSound' /\ DeleteType' /\ SlotInv' /\ New' = New /\ HistoryType'
  BY <1>1, WorkerStep DEF HistoryType
<1>3. call'["own"] = NoCall /\ call'["orphan"] = call["orphan"]
  BY DEF CallType, Caller
<1>4. CallType'
  BY <1>3, SoundSmall DEF CallType, CallState, Caller, Replacing, NoCall
<1>5. WorkerInv' /\ OwnCall'
  BY <1>0, <1>3 DEF WorkerInv, OwnCall, Failure
<1>6. Aim' /\ StagedInv' /\ Snapshot'
  BY <1>2, <1>3 DEF Aim, StagedInv, Snapshot, Caller, Reading, NoCall, disk
<1>7. Stopped'
  BY <1>0 DEF Stopped, Answered, Failure, disk
<1>8. Delivery'
  BY <1>0, <1>3 DEF Delivery, Lone, Stages, OwnCall, Answered, Failure, disk
<1> QED BY <1>1, <1>2, <1>4, <1>5, <1>6, <1>7, <1>8

LEMMA SettleKeepsInv == RestoreInv /\ Settle => RestoreInv'
<1> SUFFICES ASSUME RestoreInv, Settle
             PROVE  RestoreInv'
  OBVIOUS
<1> USE DEF RestoreInv, Settle, history, slot
<1>0. /\ step = "settle" /\ job.action = "restore" /\ phase = "running" /\ up
      /\ job.backup \in Backup /\ sum[job.backup] \in Sound(torn)
  BY WorkersJob DEF WorkerInv, RowsSound
<1>1. Wrote(job.backup, sum[job.backup])
  BY <1>0, TryUpdateStep
<1>2. RowsSound' /\ BudgetType' /\ (\A d \in Backup : sum'[d] = sum[d])
      /\ \A b \in Backup : row[b] # "none" => row'[b] # "none"
  BY <1>0, <1>1 DEF Wrote
<1>3. DiskSound' /\ DeleteType' /\ SlotInv' /\ New' = New /\ HistoryType'
  BY <1>2, WorkerStep DEF HistoryType
<1>4. CallType' /\ WorkerInv' /\ OwnCall'
  BY <1>0 DEF CallType, CallState, WorkerInv, OwnCall
<1>5. Aim' /\ StagedInv' /\ Snapshot' /\ Stopped'
  BY <1>0, <1>2, <1>3 DEF Aim, StagedInv, Snapshot, Stopped, CallType, Reading, disk
<1>6. Delivery'
  BY <1>0, <1>2 DEF Delivery, Lone, disk
<1> QED BY <1>2, <1>3, <1>4, <1>5, <1>6

LEMMA FinishKeepsInv == RestoreInv /\ Finish => RestoreInv'
<1> SUFFICES ASSUME RestoreInv, Finish
             PROVE  RestoreInv'
  OBVIOUS
<1> USE DEF RestoreInv, Finish, rows
<1>0. /\ step = "finish" /\ Absent \in Directory
      /\ job.action = "restore" => job.sum \in Directory
  BY WorkersJob, SoundSmall DEF Sound
<1>1. RowsSound' /\ BudgetType'
  BY DEF RowsSound, BudgetType
<1>2. DiskSound' /\ DeleteType'
  BY DEF DiskSound, DeleteType, disk
<1>3. HistoryType' /\ WorkerInv' /\ CallType' /\ OwnCall'
  BY <1>0 DEF HistoryType, WorkerInv, CallType, CallState, OwnCall
<1>4. SlotInv' /\ New' = None
  BY RestoreAssumption DEF SlotInv, New, NoJob
<1>5. Aim'
  BY <1>4, RestoreAssumption DEF Aim, CallType, Reading, NoJob
<1>6. StagedInv' /\ Snapshot' /\ Stopped'
  BY DEF StagedInv, Snapshot, Stopped, disk
<1>7. Delivery'
  BY <1>0 DEF Delivery, Lone, disk
<1> QED BY <1>1, <1>2, <1>3, <1>4, <1>5, <1>6, <1>7

-----------------------------------------------------------------------------
(* The agent.                                                              *)

\* A step of one call: what it may do to itself and to the disk, and what
\* has to be shown of it.
AgentMove(c) ==
  /\ Unheard /\ torn \subseteq torn' /\ torn' \subseteq Torn /\ (game' => game)
  /\ DiskSound' /\ CallType'
  /\ call[c].at \notin {"none"} \cup Ended
  /\ call'[c].backup = call[c].backup
  /\ \A d \in Caller \ {c} : call'[d] = call[d]
  /\ call[c].at \in {"backup", "archive", "publish"} => call'[c].at \in {"archive", "publish"} \cup Ended
  /\ call[c].at \in {"verify"} \cup Replacing =>
       /\ call'[c].at \in Replacing \cup Ended
       /\ call'[c].at \in Reading => call[c].at \in Reading
       /\ call'[c].sum = call[c].sum
       /\ call[c].at = "verify" => ~game'
  /\ StagedInv'

LEMMA MoveKeepsInv ==
  ASSUME RestoreInv, NEW c \in Caller, AgentMove(c), Snapshot',
         Lone /\ step = "restore" /\ c = "own" => Stages'
  PROVE  RestoreInv'
<1> USE DEF RestoreInv, AgentMove, Unheard, rows, slot
<1>0. Sound(torn) \subseteq Sound(torn')
  BY SoundGrows
<1>1. RowsSound' /\ HistoryType' /\ BudgetType' /\ DeleteType'
  BY <1>0 DEF RowsSound, HistoryType, BudgetType, DeleteType
<1>2. SlotInv' /\ WorkerInv' /\ New' = New
  <2>1. RestoreJob(torn) \subseteq RestoreJob(torn')
    BY <1>0 DEF RestoreJob
  <2>2. job \in BackupJob \cup RestoreJob(torn) => job' \in BackupJob \cup RestoreJob(torn')
    BY <2>1
  <2>3. New' = New
    BY DEF New
  <2>4. SlotInv'
    BY <2>2, <2>3 DEF SlotInv
  <2> QED BY <2>3, <2>4 DEF WorkerInv
<1>3. call[c].at \in {"backup", "archive", "publish", "verify"} \cup Replacing
  BY DEF CallType, CallState
<1>4. OwnCall' /\ Stopped'
  <2>1. CASE c = "own"
    <3>1. OwnCall'
      BY <1>2, <1>3, <2>1 DEF OwnCall, NoCall, Replacing, Ended
    <3>2. step = "restore" => call["own"].at \in {"verify"} \cup Replacing
      BY <1>3, <2>1 DEF OwnCall, Ended
    <3> QED BY <2>1, <3>1, <3>2 DEF Stopped
  <2>2. CASE c # "own"
    BY <1>2, <2>2 DEF OwnCall, Stopped, Caller
  <2> QED BY <2>1, <2>2
<1>5. Aim'
  <2>1. call'[c].at \in Reading =>
          call[c].at \in Reading /\ call'[c].sum = call[c].sum /\ call'[c].backup = call[c].backup
    BY <1>3 DEF Reading, Ended
  <2>2. \A d \in Caller : call'[d].at \in Reading =>
          call[d].at \in Reading /\ call'[d].sum = call[d].sum /\ call'[d].backup = call[d].backup
    BY <2>1
  <2>3. row' = row /\ sum' = sum /\ job' = job
    OBVIOUS
  <2> QED BY <1>2, <2>2, <2>3 DEF Aim, Settled
<1>6. Delivery'
  <2>1. promised = Absent
    BY <1>3 DEF Delivery, OwnCall, NoCall, SlotInv, WorkerInv, Caller, Replacing
  <2>2. Lone => c = "own" /\ step \in {"backup", "pre", "restore"}
    BY <1>3 DEF Delivery, OwnCall, NoCall, Caller, Replacing
  <2>3. Lone' = Lone
    BY DEF Lone
  <2>4. Lone => call'["orphan"] = NoCall
    BY <2>2 DEF Delivery, Caller
  <2> QED BY <2>1, <2>2, <2>3, <2>4 DEF Delivery
<1> QED BY <1>1, <1>2, <1>4, <1>5, <1>6

\* A call that only goes on to its next label.
LEMMA LabelStep ==
  ASSUME RestoreInv, NEW c \in Caller, NEW l \in Replacing \cup Ended, Move(c, l), UNCHANGED torn,
         call[c].at # "none", l \in Replacing => call[c].sum # Absent
  PROVE  /\ CallType' /\ call'[c].at = l
         /\ call'[c].backup = call[c].backup /\ call'[c].sum = call[c].sum
         /\ \A d \in Caller \ {c} : call'[d] = call[d]
         /\ call[c].backup \in Backup /\ call[c].sum \in Sound(torn)
  BY DEF RestoreInv, CallType, CallState, Move, Replacing, Ended

\* The snapshot is still there: no archive is lost, and a call that has made
\* the snapshot leaves one.
LEMMA SnapshotStep ==
  ASSUME RestoreInv, NEW c \in Caller, AgentMove(c),
         \A b \in Backup : archive[b] # Absent => archive'[b] # Absent,
         call[c].at \in {"backup", "archive", "publish"} /\ call'[c].at = "done"
           => archive'[call[c].backup] # Absent
  PROVE  Snapshot'
<1> USE DEF RestoreInv, AgentMove, Unheard, rows, slot
<1>1. step \in {"pre", "restore"} => New = job.pre /\ job.pre \in Backup
  BY WorkersJob DEF WorkerInv
<1>2. step = "pre" /\ call'["own"].at = "done" => archive'[job.pre] # Absent \/ Gone(job.pre)
  <2>1. CASE c = "own"
    <3>1. step = "pre" => call["own"].at \in {"backup", "archive", "publish"} /\ call["own"].backup = job.pre
      BY <1>1, <2>1 DEF OwnCall
    <3> QED BY <2>1, <3>1
  <2>2. CASE c # "own"
    <3>1. call'["own"] = call["own"]
      BY <2>2 DEF Caller
    <3> QED BY <1>1, <3>1 DEF Snapshot
  <2> QED BY <2>1, <2>2
<1>3. step = "restore" =>
        (archive'[job.pre] # Absent /\ (row[job.pre] = "ready" \/ unsaid)) \/ Gone(job.pre)
  BY <1>1 DEF Snapshot
<1> QED BY <1>2, <1>3 DEF Snapshot, Gone

\* What is known of a call that makes a backup.
LEMMA ArchivingCall ==
  ASSUME RestoreInv, NEW c \in Caller, call[c].at \in {"backup", "archive", "publish"}
  PROVE  /\ call[c].backup \in Backup /\ call[c].sum \in Sound(torn)
         /\ call[c].at # "backup" => call[c].sum # Absent
         /\ ~(step = "restore" /\ c = "own")
  BY DEF RestoreInv, CallType, CallState, OwnCall, Replacing, Ended

\* It reads files, which harms nothing.
LEMMA ReadStep ==
  ASSUME RestoreInv, NEW c \in Caller, call[c].at \in {"backup", "archive"},
         NEW l \in {"archive", "publish"}, NEW read \in Directory, Empty \subseteq read,
         call' = [call EXCEPT ![c].at = l, ![c].sum = read],
         Unheard, UNCHANGED <<game, live, staged, previous, archive>>,
         NEW w \in Caller \cup {"none"},
         writing' = [writing EXCEPT ![call[c].backup] = w] \/ UNCHANGED writing,
         torn \subseteq torn', torn' \subseteq Torn, read \in Sound(torn')
  PROVE  RestoreInv'
<1>0. Sound(torn) \subseteq Sound(torn') /\ read # Absent
  BY SoundGrows DEF Absent, Empty
<1>1. /\ call'[c].at = l /\ call'[c].backup = call[c].backup /\ call'[c].sum = read
      /\ \A d \in Caller \ {c} : call'[d] = call[d]
  BY DEF RestoreInv, CallType
<1>2. CallType'
  <2>1. call' \in [Caller -> CallState(torn')]
    <3>1. CallState(torn) \subseteq CallState(torn')
      BY <1>0 DEF CallState
    <3>2. [call[c] EXCEPT !.at = l, !.sum = read] \in CallState(torn')
      BY DEF RestoreInv, CallType, CallState
    <3>3. call' = [call EXCEPT ![c] = [call[c] EXCEPT !.at = l, !.sum = read]]
      BY DEF RestoreInv, CallType
    <3> QED BY <3>1, <3>2, <3>3 DEF RestoreInv, CallType
  <2>2. call[c].backup \in Backup
    BY ArchivingCall
  <2> QED BY <1>0, <1>1, <2>1, <2>2 DEF RestoreInv, CallType, Replacing
<1>3. DiskSound'
  BY <1>0 DEF RestoreInv, DiskSound
<1>4. StagedInv'
  BY <1>1 DEF RestoreInv, StagedInv
<1>5. AgentMove(c)
  BY <1>1, <1>2, <1>3, <1>4 DEF AgentMove, Ended, Replacing
<1>6. Snapshot'
  BY <1>1, <1>5, SnapshotStep
<1> QED BY <1>5, <1>6, ArchivingCall, MoveKeepsInv

\* It ends, and may leave an archive.
LEMMA ArchivedStep ==
  ASSUME RestoreInv, NEW c \in Caller, NEW l \in Ended, call[c].at \in {"backup", "archive", "publish"},
         Move(c, l), UNCHANGED <<live, staged, previous>>, Quiet,
         writing' = [writing EXCEPT ![call[c].backup] = "none"] \/ UNCHANGED writing,
         NEW a \in Sound(torn) \cup {Partial}, archive' = [archive EXCEPT ![call[c].backup] = a],
         a # Absent \/ (l = "failed" /\ a = archive[call[c].backup])
  PROVE  RestoreInv'
<1>0. call[c].backup \in Backup /\ torn' = torn /\ l \notin Replacing
  BY ArchivingCall DEF Quiet, Ended, Replacing
<1>1. CallType' /\ call'[c].at = l /\ call'[c].backup = call[c].backup
      /\ \A d \in Caller \ {c} : call'[d] = call[d]
  BY <1>0, LabelStep
<1>2. DiskSound'
  BY <1>0 DEF RestoreInv, DiskSound, Quiet
<1>3. StagedInv'
  BY <1>1 DEF RestoreInv, StagedInv, Ended
<1>4. AgentMove(c)
  BY <1>0, <1>1, <1>2, <1>3 DEF AgentMove, Ended, Replacing, Quiet, RestoreInv, HistoryType
<1>5. \A b \in Backup : archive'[b] = IF b = call[c].backup THEN a ELSE archive[b]
  BY DEF RestoreInv, DiskSound
<1>6. Snapshot'
  BY <1>0, <1>1, <1>4, <1>5, SnapshotStep DEF Ended
<1> QED BY <1>4, <1>6, ArchivingCall, MoveKeepsInv

\* An archive that stays as it is.
LEMMA SameArchive ==
  ASSUME RestoreInv, NEW b \in Backup
  PROVE  /\ archive[b] \in Sound(torn) \cup {Partial} /\ Partial # Absent
         /\ archive = [archive EXCEPT ![b] = archive[b]]
  BY DEF RestoreInv, DiskSound, Partial, Absent

LEMMA ArchiveKeepsInv == \A c \in Caller : RestoreInv /\ Archive(c) => RestoreInv'
<1> SUFFICES ASSUME NEW c \in Caller, RestoreInv, Archive(c)
             PROVE  RestoreInv'
  OBVIOUS
<1> USE DEF Archive, B
<1>0. call[c].at = "backup" /\ call[c].backup \in Backup
  BY ArchivingCall
<1>1. CASE live = Absent
  <2>1. Move(c, "failed") /\ UNCHANGED <<live, staged, previous, archive>> /\ Quiet
    BY <1>1
  <2>2. archive' = [archive EXCEPT ![call[c].backup] = archive[call[c].backup]]
    BY <1>0, <2>1, SameArchive
  <2> QED BY <1>0, <1>1, <2>1, <2>2, SameArchive, ArchivedStep DEF Ended
<1>2. CASE live # Absent
  <2> DEFINE read == Empty \cup {f \in live : f[2] = 1}
             l == IF Holds(live, 2) THEN "archive" ELSE "publish"
  <2>1. live \in Sound(torn) /\ torn \in SUBSET Torn /\ Absent \cup Empty = Empty
    BY DEF RestoreInv, DiskSound, HistoryType, Absent
  <2>2. (Absent \cup Empty \cup {f \in live : f[2] = 1}) \in Sound(torn)
    BY <2>1, SoundPart DEF Absent, File
  <2>3. read \in Sound(torn) /\ read \in Directory /\ Empty \subseteq read
    BY <2>1, <2>2 DEF Sound
  <2>4. /\ call' = [call EXCEPT ![c].at = l, ![c].sum = read]
        /\ writing' = [writing EXCEPT ![call[c].backup] = c]
        /\ Unheard /\ UNCHANGED <<game, live, staged, previous, archive, torn>>
    BY <1>2 DEF Quiet
  <2>5. l \in {"archive", "publish"}
    OBVIOUS
  <2> HIDE DEF l, read
  <2> QED BY <1>0, <2>1, <2>3, <2>4, <2>5, ReadStep
<1> QED BY <1>1, <1>2

\* What it has read of two worlds is torn.
LEMMA ArchiveRestKeepsInv == \A c \in Caller : RestoreInv /\ ArchiveRest(c) => RestoreInv'
<1> SUFFICES ASSUME NEW c \in Caller, RestoreInv, ArchiveRest(c)
             PROVE  RestoreInv'
  OBVIOUS
<1> DEFINE read == call[c].sum \cup {f \in live : f[2] = 2}
<1>0. call[c].at = "archive" /\ call[c].backup \in Backup /\ call[c].sum \in Sound(torn)
      /\ call[c].sum # Absent
  BY ArchivingCall DEF ArchiveRest
<1>1. CASE Holds(live, 2)
  <2>1. read \in Directory /\ Empty \subseteq read
    BY <1>0 DEF Sound, RestoreInv, DiskSound, Directory
  <2>2. /\ call' = [call EXCEPT ![c].at = "publish", ![c].sum = read]
        /\ torn' = IF Pure(read) THEN torn ELSE torn \cup {read}
        /\ Unheard /\ UNCHANGED <<game, live, staged, previous, archive, writing>>
    BY <1>1 DEF ArchiveRest, Pure
  <2>3. torn \subseteq torn' /\ torn' \subseteq Torn
    BY <2>1, <2>2 DEF RestoreInv, HistoryType, Torn
  <2>4. read \in Sound(torn')
    BY <2>1, <2>2 DEF Sound, Fits
  <2> HIDE DEF read
  <2> QED BY <1>0, <2>1, <2>2, <2>3, <2>4, ReadStep
<1>2. CASE ~Holds(live, 2)
  <2>1. /\ Move(c, "failed") /\ UNCHANGED <<live, staged, previous, archive>> /\ Quiet
        /\ writing' = [writing EXCEPT ![call[c].backup] = "none"]
    BY <1>2 DEF ArchiveRest, Quiet, B
  <2>2. archive' = [archive EXCEPT ![call[c].backup] = archive[call[c].backup]]
    BY <1>0, <2>1, SameArchive
  <2> QED BY <1>0, <2>1, <2>2, SameArchive, ArchivedStep DEF Ended
<1> QED BY <1>1, <1>2

LEMMA PublishKeepsInv == \A c \in Caller : RestoreInv /\ Publish(c) => RestoreInv'
<1> SUFFICES ASSUME NEW c \in Caller, RestoreInv, Publish(c)
             PROVE  RestoreInv'
  OBVIOUS
<1>0. call[c].at = "publish" /\ call[c].backup \in Backup /\ call[c].sum \in Sound(torn)
      /\ call[c].sum # Absent /\ UNCHANGED <<live, staged, previous>> /\ Quiet
  BY ArchivingCall DEF Publish
<1>1. CASE writing[call[c].backup] = "none"
  <2> DEFINE a == IF archive[call[c].backup] = Partial THEN call[c].sum ELSE archive[call[c].backup]
  <2>1. archive' = [archive EXCEPT ![call[c].backup] = a]
        /\ Move(c, "failed") /\ UNCHANGED writing
    BY <1>1 DEF Publish, B
  <2>2. a \in Sound(torn) \cup {Partial} /\ (a # Absent \/ a = archive[call[c].backup])
    BY <1>0, SameArchive
  <2> HIDE DEF a
  <2> QED BY <1>0, <2>1, <2>2, ArchivedStep DEF Ended
<1>2. CASE writing[call[c].backup] # "none"
  <2> DEFINE a == IF writing[call[c].backup] = c THEN call[c].sum ELSE Partial
  <2>1. archive' = [archive EXCEPT ![call[c].backup] = a] /\ Move(c, "done")
        /\ writing' = [writing EXCEPT ![call[c].backup] = "none"]
    BY <1>2 DEF Publish, B
  <2>2. a \in Sound(torn) \cup {Partial} /\ a # Absent
    BY <1>0, SameArchive
  <2> HIDE DEF a
  <2> QED BY <1>0, <2>1, <2>2, ArchivedStep DEF Ended
<1> QED BY <1>1, <1>2

LEMMA ArchiveFailsKeepsInv == \A c \in Caller : RestoreInv /\ ArchiveFails(c) => RestoreInv'
<1> SUFFICES ASSUME NEW c \in Caller, RestoreInv, ArchiveFails(c)
             PROVE  RestoreInv'
  OBVIOUS
<1>0. call[c].at \in {"archive", "publish"} /\ call[c].backup \in Backup
  BY ArchivingCall DEF ArchiveFails
<1>1. archive' = [archive EXCEPT ![call[c].backup] = archive[call[c].backup]]
  BY <1>0, SameArchive DEF ArchiveFails
<1> QED BY <1>0, <1>1, SameArchive, ArchivedStep DEF ArchiveFails, B, Ended

\* The calls that restore one: another label, and a change of directories.
LEMMA RestoringStep ==
  ASSUME RestoreInv, NEW c \in Caller, NEW l \in Replacing \cup Ended,
         call[c].at \in {"verify"} \cup Replacing, Move(c, l), Unheard,
         UNCHANGED <<archive, writing, torn>>, game' \in {game, FALSE}, call[c].at = "verify" => ~game',
         live' \in Sound(torn), staged' \in [Backup -> Sound(torn)],
         previous' \in [Backup -> Sound(torn)],
         call[c].at = "verify" => call[c].sum # Absent \/ l = "failed",
         l \in Reading => call[c].at \in Reading,
         StagedInv', Lone /\ step = "restore" /\ c = "own" => Stages'
  PROVE  RestoreInv'
<1>1. call[c].at # "none" /\ (l \in Replacing => call[c].sum # Absent)
  BY DEF RestoreInv, CallType, Replacing
<1>2. CallType' /\ call'[c].at = l /\ call'[c].backup = call[c].backup /\ call'[c].sum = call[c].sum
      /\ \A d \in Caller \ {c} : call'[d] = call[d]
  BY <1>1, LabelStep
<1>3. DiskSound'
  BY DEF RestoreInv, DiskSound
<1>4. AgentMove(c)
  BY <1>2, <1>3 DEF AgentMove, Replacing, Ended, RestoreInv, HistoryType, DiskSound
<1>5. Snapshot'
  BY <1>4, SnapshotStep DEF Replacing
<1> QED BY <1>4, <1>5, MoveKeepsInv

\* What is known of such a call.
LEMMA RestoringCall ==
  ASSUME RestoreInv, NEW c \in Caller, call[c].at \in {"verify"} \cup Replacing
  PROVE  /\ call[c].backup \in Backup /\ call[c].sum \in Sound(torn)
         /\ call[c].at # "verify" => call[c].sum # Absent
         /\ step = "restore" /\ c = "own" => call["own"].backup = job.backup
         /\ Lone /\ step = "restore" /\ c = "own" => Stages
         /\ live \in Sound(torn) /\ staged \in [Backup -> Sound(torn)]
         /\ previous \in [Backup -> Sound(torn)]
         /\ Absent \in Sound(torn) /\ Empty \in Sound(torn)
<1> USE DEF RestoreInv
<1>1. call[c].at # "none" /\ call[c].backup \in Backup /\ call[c].sum \in Sound(torn)
  BY DEF CallType, CallState, Replacing
<1>2. call[c].at # "verify" => call[c].sum # Absent
  BY DEF CallType
<1>3. step = "restore" /\ c = "own" => call["own"].backup = job.backup
  BY DEF OwnCall
<1>4. Lone /\ step = "restore" /\ c = "own" => Stages
  BY DEF Delivery
<1> QED BY <1>1, <1>2, <1>3, <1>4, SoundSmall DEF DiskSound

\* Where a step leaves the staging directories alone, or removes one.
LEMMA StagedSame ==
  ASSUME RestoreInv, NEW c \in Caller, NEW l \in (Replacing \cup Ended) \ {"extract1", "extract2"},
         Move(c, l), call[c].at # "none",
         \A b \in Backup : staged'[b] = staged[b] \/ staged'[b] = Absent
  PROVE  StagedInv'
<1>1. call'[c].at = l /\ \A d \in Caller \ {c} : call'[d] = call[d]
  BY DEF RestoreInv, CallType, Move
<1>2. ASSUME NEW d \in Caller, call'[d].at \in {"extract1", "extract2"}
      PROVE  staged'[call'[d].backup] \subseteq Empty \cup call'[d].sum
  <2>1. call'[d] = call[d]
    BY <1>1, <1>2
  <2>2. call[d].backup \in Backup /\ staged[call[d].backup] \subseteq Empty \cup call[d].sum
    BY <1>2, <2>1 DEF RestoreInv, CallType, StagedInv
  <2> QED BY <2>1, <2>2 DEF Absent
<1> QED BY <1>2 DEF StagedInv

LEMMA VerifyKeepsInv == \A c \in Caller : RestoreInv /\ Verify(c) => RestoreInv'
<1> SUFFICES ASSUME NEW c \in Caller, RestoreInv, Verify(c)
             PROVE  RestoreInv'
  OBVIOUS
<1>0. call[c].at = "verify" /\ ~game' /\ game' \in {game, FALSE} /\ Unheard
      /\ UNCHANGED <<live, staged, previous, archive, writing, torn>>
  BY DEF Verify
<1> DEFINE l == IF archive[B(c)] # Absent /\ archive[B(c)] = call[c].sum THEN "clear" ELSE "failed"
<1>1. Move(c, l) /\ l \in {"clear", "failed"} /\ (l = "clear" => call[c].sum # Absent)
  <2>1. Move(c, l)
    BY Zenon DEF Verify
  <2>2. l \in {"clear", "failed"}
    OBVIOUS
  <2>3. l = "clear" => call[c].sum # Absent
    OBVIOUS
  <2> QED BY <2>1, <2>2, <2>3
<1> HIDE DEF l
<1>2. call'[c].at = l /\ call'[c].sum = call[c].sum
  BY <1>1 DEF RestoreInv, CallType, Move
<1>3. StagedInv'
  BY <1>0, <1>1, StagedSame DEF Replacing, Ended
<1>4. Lone /\ step = "restore" /\ c = "own" => Stages'
  BY <1>0, <1>1, <1>2, RestoringCall DEF Stages, Unheard, slot
<1>5. live' \in Sound(torn) /\ staged' \in [Backup -> Sound(torn)] /\ previous' \in [Backup -> Sound(torn)]
  BY <1>0, RestoringCall
<1> QED BY <1>0, <1>1, <1>3, <1>4, <1>5, RestoringStep DEF Replacing, Ended, Reading

LEMMA ClearKeepsInv == \A c \in Caller : RestoreInv /\ Clear(c) => RestoreInv'
<1> SUFFICES ASSUME NEW c \in Caller, RestoreInv, Clear(c)
             PROVE  RestoreInv'
  OBVIOUS
<1> USE DEF Clear, B, Quiet
<1>0. call[c].at = "clear" /\ Move(c, "extract1") /\ call[c].at \in Replacing
  BY DEF Replacing
<1>1. /\ call'[c].at = "extract1" /\ call'[c].sum = call[c].sum /\ call'[c].backup = call[c].backup
      /\ \A d \in Caller \ {c} : call'[d] = call[d]
  BY DEF RestoreInv, CallType, Move
<1>2. \A b \in Backup : staged'[b] = IF b = call[c].backup THEN Empty ELSE staged[b]
  BY <1>0, RestoringCall
<1>3. StagedInv'
  <2>1. ASSUME NEW d \in Caller, call'[d].at \in {"extract1", "extract2"}
        PROVE  staged'[call'[d].backup] \subseteq Empty \cup call'[d].sum
    <3>1. CASE d = c
      BY <1>0, <1>1, <1>2, <3>1, RestoringCall
    <3>2. CASE d # c
      <4>1. call'[d] = call[d] /\ call[d].backup \in Backup
        BY <1>1, <2>1, <3>2 DEF RestoreInv, CallType
      <4>2. staged[call[d].backup] \subseteq Empty \cup call[d].sum
        BY <2>1, <4>1 DEF RestoreInv, StagedInv
      <4> QED BY <1>2, <4>1, <4>2
    <3> QED BY <3>1, <3>2
  <2> QED BY <2>1 DEF StagedInv
<1>4. Lone /\ step = "restore" /\ c = "own" => Stages'
  BY <1>0, <1>1, <1>2, RestoringCall DEF Stages, Unheard, slot
<1>5. live' \in Sound(torn) /\ staged' \in [Backup -> Sound(torn)] /\ previous' \in [Backup -> Sound(torn)]
  BY <1>0, RestoringCall
<1> QED BY <1>0, <1>3, <1>4, <1>5, RestoringStep DEF Replacing, Ended, Reading

\* What is extracted is of the call's own world, and of the other call's too
\* if that one is extracting the same backup.
LEMMA ExtractKeepsInv ==
  ASSUME RestoreInv, NEW c \in Caller, NEW i \in File, Extract(c, i, IF i = 1 THEN "extract2" ELSE "prepare")
  PROVE  RestoreInv'
<1> DEFINE b == call[c].backup  s == call[c].sum
           e == staged[b] \cup Empty \cup {f \in s : f[2] = i}
<1>0. /\ call[c].at = (IF i = 1 THEN "extract1" ELSE "extract2") /\ call[c].at \in Replacing
      /\ b \in Backup /\ s \in Sound(torn) /\ s # Absent
      /\ UNCHANGED <<live, previous, archive, writing, game, torn>> /\ Unheard
  BY RestoringCall DEF Extract, Replacing, Quiet
<1>1. CASE Holds(staged[b], i)
  <2>1. staged' = [staged EXCEPT ![b] = Absent] /\ Move(c, "failed")
    BY <1>1 DEF Extract, B
  <2>2. \A x \in Backup : staged'[x] = staged[x] \/ staged'[x] = Absent
    BY <1>0, <2>1, RestoringCall
  <2>3. StagedInv'
    BY <1>0, <2>1, <2>2, StagedSame DEF Replacing, Ended
  <2>4. call'[c].at = "failed"
    BY <2>1 DEF RestoreInv, CallType, Move
  <2>5. c = "own" => Stages'
    BY <2>4 DEF Stages
  <2>6. live' \in Sound(torn) /\ staged' \in [Backup -> Sound(torn)] /\ previous' \in [Backup -> Sound(torn)]
    BY <1>0, <2>1, RestoringCall
  <2> QED BY <1>0, <2>1, <2>3, <2>5, <2>6, RestoringStep DEF Replacing, Ended, Reading
<1>2. CASE ~Holds(staged[b], i)
  <2> DEFINE l == IF i = 1 THEN "extract2" ELSE "prepare"
  <2>1. staged' = [staged EXCEPT ![b] = e] /\ Move(c, l)
    BY <1>2 DEF Extract, B
  <2>2. e \in Sound(torn) /\ e \subseteq Empty \cup s
    <3>1. torn \in SUBSET Torn /\ staged[b] \subseteq Empty \cup s
      BY <1>0 DEF RestoreInv, StagedInv, HistoryType
    <3> QED BY <1>0, <3>1, SoundPart
  <2>3. /\ call'[c].at = l /\ call'[c].sum = s /\ call'[c].backup = b
        /\ \A d \in Caller \ {c} : call'[d] = call[d]
    BY <2>1 DEF RestoreInv, CallType, Move
  <2>4. \A x \in Backup : staged'[x] = IF x = b THEN e ELSE staged[x]
    BY <2>1, RestoringCall, <1>0
  <2>5. StagedInv'
    <3>1. ASSUME NEW d \in Caller, call'[d].at \in {"extract1", "extract2"}
          PROVE  staged'[call'[d].backup] \subseteq Empty \cup call'[d].sum
      <4>1. CASE d = c
        BY <1>0, <2>2, <2>3, <2>4, <4>1
      <4>2. CASE d # c
        <5>1. call'[d] = call[d] /\ call[d].backup \in Backup /\ call[d].sum # Absent
          BY <2>3, <3>1, <4>2 DEF RestoreInv, CallType, Replacing
        <5>2. staged[call[d].backup] \subseteq Empty \cup call[d].sum
          BY <3>1, <5>1 DEF RestoreInv, StagedInv
        <5>3. call[d].backup = b => call[d].sum = s
          BY <1>0, <3>1, <5>1 DEF RestoreInv, Aim, Settled, Reading
        <5> QED BY <2>2, <2>4, <5>1, <5>2, <5>3
      <4> QED BY <4>1, <4>2
    <3> QED BY <3>1 DEF StagedInv
  <2>6. Lone /\ step = "restore" /\ c = "own" => Stages'
    <3> SUFFICES ASSUME Lone, step = "restore", c = "own"
                 PROVE  Stages'
      OBVIOUS
    <3>1. Stages /\ b = job.backup /\ job' = job
      BY <1>0, RestoringCall DEF Unheard, slot
    <3>2. CASE i = 1
      <4>1. staged'[b] = Empty \cup {f \in s : f[2] = 1}
        BY <1>0, <2>4, <3>1, <3>2 DEF Stages
      <4> QED BY <1>0, <2>3, <3>1, <3>2, <4>1 DEF Stages
    <3>3. CASE i = 2
      <4>1. call["own"].at = "extract2" /\ staged[b] = Empty \cup {f \in s : f[2] = 1}
        BY <1>0, <3>1, <3>3 DEF Stages
      <4>2. staged'[b] = staged[b] \cup Empty \cup {f \in s : f[2] = 2}
        BY <1>0, <2>4, <3>3
      <4>3. staged'[b] = s
        BY <1>0, <4>1, <4>2, BothParts
      <4> QED BY <1>0, <2>3, <3>1, <3>3, <4>3 DEF Stages
    <3> QED BY <3>2, <3>3 DEF File
  <2>7. live' \in Sound(torn) /\ staged' \in [Backup -> Sound(torn)] /\ previous' \in [Backup -> Sound(torn)]
    BY <1>0, <2>1, <2>2, RestoringCall
  <2>8. l \in Replacing /\ (l \in Reading => call[c].at \in Reading) /\ call[c].at # "verify"
    BY <1>0 DEF Replacing, Reading, File
  <2> HIDE DEF l
  <2> QED BY <1>0, <2>1, <2>5, <2>6, <2>7, <2>8, RestoringStep
<1> QED BY <1>1, <1>2

LEMMA ExtractFailsKeepsInv == \A c \in Caller : RestoreInv /\ ExtractFails(c) => RestoreInv'
<1> SUFFICES ASSUME NEW c \in Caller, RestoreInv, ExtractFails(c)
             PROVE  RestoreInv'
  OBVIOUS
<1> USE DEF ExtractFails, B, Quiet
<1>0. call[c].at \in {"extract1", "extract2"} /\ call[c].at \in Replacing /\ Move(c, "failed")
  BY DEF Replacing
<1>1. call'[c].at = "failed"
  BY DEF RestoreInv, CallType, Move
<1>2. \A b \in Backup : staged'[b] = staged[b] \/ staged'[b] = Absent
  BY <1>0, RestoringCall
<1>3. StagedInv'
  BY <1>0, <1>2, StagedSame DEF Replacing, Ended
<1>4. c = "own" => Stages'
  BY <1>1 DEF Stages
<1>5. live' \in Sound(torn) /\ staged' \in [Backup -> Sound(torn)] /\ previous' \in [Backup -> Sound(torn)]
  BY <1>0, RestoringCall
<1> QED BY <1>0, <1>3, <1>4, <1>5, RestoringStep DEF Replacing, Ended, Reading

LEMMA DropPreviousKeepsInv ==
  ASSUME RestoreInv, NEW c \in Caller,
         DropPrevious(c, "prepare", "moveOut") \/ DropPrevious(c, "clean", "done")
  PROVE  RestoreInv'
<1> USE DEF DropPrevious, B, Quiet
<1>1. PICK at \in {"prepare", "clean"}, l \in {"moveOut", "done"} :
        DropPrevious(c, at, l) /\ (at = "prepare" <=> l = "moveOut")
  OBVIOUS
<1>2. call[c].at = at /\ Move(c, l) /\ call[c].at \in Replacing
      /\ UNCHANGED <<live, staged, archive, writing>> /\ Quiet
  BY <1>1 DEF Replacing
<1>3. call'[c].at = l /\ call'[c].sum = call[c].sum /\ call'[c].backup = call[c].backup
  BY <1>2 DEF RestoreInv, CallType, Move
<1>4. StagedInv'
  BY <1>2, StagedSame DEF Replacing, Ended
<1>5. Lone /\ step = "restore" /\ c = "own" => Stages'
  BY <1>1, <1>2, <1>3, RestoringCall DEF Stages, Unheard, slot
<1>6. live' \in Sound(torn) /\ staged' \in [Backup -> Sound(torn)] /\ previous' \in [Backup -> Sound(torn)]
  BY <1>1, <1>2, RestoringCall
<1> QED BY <1>2, <1>4, <1>5, <1>6, RestoringStep DEF Replacing, Ended, Reading

LEMMA MoveOutKeepsInv == \A c \in Caller : RestoreInv /\ MoveOut(c) => RestoreInv'
<1> SUFFICES ASSUME NEW c \in Caller, RestoreInv, MoveOut(c)
             PROVE  RestoreInv'
  OBVIOUS
<1> USE DEF MoveOut, B
<1>0. call[c].at = "moveOut" /\ call[c].at \in Replacing
  BY DEF Replacing
<1>1. PICK l \in {"moveIn", "failed"} :
        Move(c, l) /\ (l = "moveIn" => live' = Absent /\ staged' = staged)
  OBVIOUS
<1>2. call'[c].at = l /\ call'[c].sum = call[c].sum /\ call'[c].backup = call[c].backup
  BY <1>1 DEF RestoreInv, CallType, Move
<1>3. \A b \in Backup : staged'[b] = staged[b] \/ staged'[b] = Absent
  BY <1>0, RestoringCall
<1>4. StagedInv'
  BY <1>0, <1>1, <1>3, StagedSame DEF Replacing, Ended
<1>5. Lone /\ step = "restore" /\ c = "own" => Stages'
  BY <1>0, <1>1, <1>2, RestoringCall DEF Stages, Unheard, slot
<1>6. live' \in Sound(torn) /\ staged' \in [Backup -> Sound(torn)] /\ previous' \in [Backup -> Sound(torn)]
  BY <1>0, RestoringCall
<1> QED BY <1>0, <1>1, <1>4, <1>5, <1>6, RestoringStep DEF Replacing, Ended, Reading

LEMMA MoveInKeepsInv == \A c \in Caller : RestoreInv /\ MoveIn(c) => RestoreInv'
<1> SUFFICES ASSUME NEW c \in Caller, RestoreInv, MoveIn(c)
             PROVE  RestoreInv'
  OBVIOUS
<1> USE DEF MoveIn, B, Quiet
<1>0. call[c].at = "moveIn" /\ call[c].at \in Replacing
  BY DEF Replacing
<1>1. PICK l \in {"clean", "moveBack"} :
        /\ Move(c, l)
        /\ l = "clean" => live' = staged[call[c].backup]
        /\ l = "moveBack" => live # Absent \/ staged[call[c].backup] = Absent
  OBVIOUS
<1>2. call'[c].at = l /\ call'[c].sum = call[c].sum /\ call'[c].backup = call[c].backup
  BY <1>1 DEF RestoreInv, CallType, Move
<1>3. \A b \in Backup : staged'[b] = staged[b] \/ staged'[b] = Absent
  BY <1>0, RestoringCall
<1>4. StagedInv'
  BY <1>0, <1>1, <1>3, StagedSame DEF Replacing, Ended
<1>5. Lone /\ step = "restore" /\ c = "own" => Stages'
  BY <1>0, <1>1, <1>2, RestoringCall DEF Stages, Unheard, slot
<1>6. live' \in Sound(torn) /\ staged' \in [Backup -> Sound(torn)] /\ previous' \in [Backup -> Sound(torn)]
  BY <1>0, RestoringCall
<1> QED BY <1>0, <1>1, <1>4, <1>5, <1>6, RestoringStep DEF Replacing, Ended, Reading

LEMMA MoveBackKeepsInv == \A c \in Caller : RestoreInv /\ MoveBack(c) => RestoreInv'
<1> SUFFICES ASSUME NEW c \in Caller, RestoreInv, MoveBack(c)
             PROVE  RestoreInv'
  OBVIOUS
<1> USE DEF MoveBack, B, Quiet
<1>0. call[c].at = "moveBack" /\ call[c].at \in Replacing /\ Move(c, "failed")
  BY DEF Replacing
<1>1. call'[c].at = "failed"
  BY DEF RestoreInv, CallType, Move
<1>2. StagedInv'
  BY <1>0, StagedSame DEF Replacing, Ended
<1>3. c = "own" => Stages'
  BY <1>1 DEF Stages
<1>4. live' \in Sound(torn) /\ staged' \in [Backup -> Sound(torn)] /\ previous' \in [Backup -> Sound(torn)]
  BY <1>0, RestoringCall
<1> QED BY <1>0, <1>2, <1>3, <1>4, RestoringStep DEF Replacing, Ended, Reading

LEMMA AgentKeepsInv == \A c \in Caller : RestoreInv /\ AgentStep(c) => RestoreInv'
<1> SUFFICES ASSUME NEW c \in Caller, RestoreInv, AgentStep(c)
             PROVE  RestoreInv'
  OBVIOUS
<1>1. Extract(c, 1, "extract2") => RestoreInv'
  BY ExtractKeepsInv DEF File
<1>2. Extract(c, 2, "prepare") => RestoreInv'
  BY ExtractKeepsInv DEF File
<1>3. Archive(c) \/ ArchiveRest(c) \/ Publish(c) \/ ArchiveFails(c) => RestoreInv'
  BY ArchiveKeepsInv, ArchiveRestKeepsInv, PublishKeepsInv, ArchiveFailsKeepsInv
<1> QED BY <1>1, <1>2, <1>3, VerifyKeepsInv, ClearKeepsInv, ExtractFailsKeepsInv,
           DropPreviousKeepsInv, MoveOutKeepsInv, MoveInKeepsInv, MoveBackKeepsInv DEF AgentStep

-----------------------------------------------------------------------------
\* Calls that end or change hands: an orphan's answer, a deadline, a crash.
LEMMA CallsOver ==
  ASSUME RestoreInv, UNCHANGED <<disk, rows, slot, torn>>,
         call' \in [Caller -> {NoCall, call["own"], call["orphan"]}]
  PROVE  DiskSound' /\ RowsSound' /\ SlotInv' /\ CallType' /\ Aim' /\ StagedInv'
<1> USE DEF RestoreInv, disk, rows, slot
<1>1. DiskSound' /\ RowsSound'
  BY DEF DiskSound, RowsSound
<1>2. SlotInv' /\ New' = New
  BY DEF SlotInv, New, BackupJob, RestoreJob
<1>3. \A c \in Caller : call'[c] = NoCall \/ \E d \in Caller : call'[c] = call[d]
  BY DEF Caller
<1>4. CallType'
  <2>1. NoCall \in CallState(torn)
    BY SoundSmall DEF NoCall, CallState
  <2>2. call' \in [Caller -> CallState(torn')]
    BY <2>1 DEF CallType, Caller
  <2>3. \A c \in Caller : /\ call'[c].at # "none" => call'[c].backup \in Backup
                          /\ call'[c].at \in {"archive", "publish"} \cup Replacing => call'[c].sum # Absent
    BY <1>3 DEF CallType, NoCall, Replacing
  <2> QED BY <2>2, <2>3 DEF CallType
<1>5. \A c \in Caller : call'[c].at \in Reading => \E d \in Caller : call'[c] = call[d]
  BY <1>3 DEF NoCall, Reading
<1>6. Aim'
  BY <1>2, <1>5 DEF Aim, Settled
<1>7. StagedInv'
  BY <1>3 DEF StagedInv, NoCall
<1> QED BY <1>1, <1>2, <1>4, <1>6, <1>7

\* Between attempts the worker has no call.
LEMMA IdleCall == RestoreInv /\ phase = "free" => step = "idle" /\ call["own"] = NoCall
  BY DEF RestoreInv, WorkerInv, OwnCall

LEMMA OrphanEndsKeepsInv == RestoreInv /\ OrphanEnds => RestoreInv'
<1> SUFFICES ASSUME RestoreInv, OrphanEnds
             PROVE  RestoreInv'
  OBVIOUS
<1> USE DEF OrphanEnds, Quiet, Unheard
<1>1. call'["own"] = call["own"] /\ call'["orphan"] = NoCall
  BY DEF RestoreInv, CallType, Caller
<1>2. call' \in [Caller -> {NoCall, call["own"], call["orphan"]}]
  BY DEF RestoreInv, CallType, Caller
<1>3. DiskSound' /\ RowsSound' /\ SlotInv' /\ CallType' /\ Aim' /\ StagedInv'
  BY <1>2, CallsOver
<1>4. HistoryType' /\ BudgetType' /\ DeleteType' /\ WorkerInv'
  BY DEF RestoreInv, HistoryType, BudgetType, DeleteType, WorkerInv, slot
<1>5. OwnCall' /\ Snapshot' /\ Stopped'
  BY <1>1 DEF RestoreInv, OwnCall, Snapshot, Stopped, Gone, New, disk, rows, slot
<1>6. Delivery'
  BY <1>1 DEF RestoreInv, Delivery, Lone, Stages, disk, rows, slot
<1> QED BY <1>3, <1>4, <1>5, <1>6 DEF RestoreInv

\* The deadline of a job fails it, so it promises nothing.
LEMMA TimeOutKeepsInv == RestoreInv /\ TimeOut => RestoreInv'
<1> SUFFICES ASSUME RestoreInv, TimeOut
             PROVE  RestoreInv'
  OBVIOUS
<1> USE DEF TimeOut
<1>1. call'["own"] = NoCall /\ call'["orphan"] = call["own"]
  OBVIOUS
<1>2. call' \in [Caller -> {NoCall, call["own"], call["orphan"]}]
  BY DEF Caller
<1>3. DiskSound' /\ RowsSound' /\ SlotInv' /\ CallType' /\ Aim' /\ StagedInv'
  BY <1>2, CallsOver DEF history
<1>4. BudgetType'
  BY SpendStep DEF RestoreInv
<1>5. HistoryType' /\ DeleteType' /\ WorkerInv'
  BY DEF RestoreInv, HistoryType, DeleteType, WorkerInv, history, slot
<1>6. OwnCall' /\ Snapshot' /\ Stopped'
  BY <1>1 DEF OwnCall, Snapshot, Stopped
<1>7. phase = "running" /\ phase' = phase /\ promised' = promised
  BY DEF RestoreInv, WorkerInv, slot, history
<1>8. Delivery'
  BY <1>7 DEF RestoreInv, Delivery, Lone
<1> QED BY <1>3, <1>4, <1>5, <1>6, <1>8 DEF RestoreInv

\* After a crash nothing runs in the controller; what it has promised stays true,
\* for a finished restore leaves no call behind.
LEMMA CrashKeepsInv ==
  ASSUME RestoreInv, ControllerGone, BudgetType', call'["own"] = NoCall,
         call' \in [Caller -> {NoCall, call["own"], call["orphan"]}],
         call'["orphan"] \in {NoCall, call["own"]}
  PROVE  RestoreInv'
<1> USE DEF ControllerGone
<1>1. DiskSound' /\ RowsSound' /\ SlotInv' /\ CallType' /\ Aim' /\ StagedInv'
  BY CallsOver DEF history
<1>2. HistoryType' /\ DeleteType' /\ WorkerInv'
  BY DEF RestoreInv, HistoryType, DeleteType, WorkerInv, history
<1>3. OwnCall' /\ Snapshot' /\ Stopped'
  BY DEF OwnCall, Snapshot, Stopped
<1>4. Delivery'
  <2>1. promised' # Absent => phase = "free" /\ live = promised
    BY DEF RestoreInv, Delivery, history
  <2>2. promised' # Absent => call'["orphan"] = NoCall
    BY <2>1, IdleCall
  <2> QED BY <2>1, <2>2 DEF Delivery, Lone, slot, disk, history
<1> QED BY <1>1, <1>2, <1>3, <1>4 DEF RestoreInv

LEMMA CrashesKeepInv == RestoreInv /\ (Crash \/ HostCrash) => RestoreInv'
<1>1. ASSUME RestoreInv, Crash
      PROVE  RestoreInv'
  <2>1. BudgetType'
    BY <1>1, SpendStep DEF Crash, RestoreInv
  <2>2. call' \in [Caller -> {NoCall, call["own"], call["orphan"]}]
        /\ call'["own"] = NoCall /\ call'["orphan"] = call["own"]
    BY <1>1 DEF Crash, Caller
  <2> QED BY <1>1, <2>1, <2>2, CrashKeepsInv DEF Crash
<1>2. ASSUME RestoreInv, HostCrash
      PROVE  RestoreInv'
  <2>1. BudgetType'
    BY <1>2, SpendStep DEF HostCrash, RestoreInv
  <2>2. call' \in [Caller -> {NoCall, call["own"], call["orphan"]}]
        /\ call'["own"] = NoCall /\ call'["orphan"] = NoCall
    BY <1>2 DEF HostCrash, Caller
  <2> QED BY <1>2, <2>1, <2>2, CrashKeepsInv DEF HostCrash
<1> QED BY <1>1, <1>2

\* recoverJobs gives a job up or queues it again; the calls go on.
LEMMA RestartKeepsInv == RestoreInv /\ Restart => RestoreInv'
<1> SUFFICES ASSUME RestoreInv, Restart
             PROVE  RestoreInv'
  OBVIOUS
<1> USE DEF Restart, disk, rows, history
<1>0. step = "idle" /\ step' = "idle" /\ call' = call
  BY DEF RestoreInv, WorkerInv
<1>1. DiskSound' /\ RowsSound' /\ HistoryType' /\ BudgetType' /\ DeleteType'
  BY DEF RestoreInv, DiskSound, RowsSound, HistoryType, BudgetType, DeleteType
<1>2. WorkerInv' /\ CallType' /\ OwnCall' /\ StagedInv' /\ Snapshot' /\ Stopped'
  <2>1. WorkerInv'
    BY <1>0 DEF RestoreInv, WorkerInv
  <2>2. CallType' /\ StagedInv'
    BY <1>0 DEF RestoreInv, CallType, StagedInv
  <2>3. OwnCall' /\ Snapshot' /\ Stopped'
    BY <1>0 DEF RestoreInv, OwnCall, Snapshot, Stopped
  <2> QED BY <2>1, <2>2, <2>3
<1>3. Delivery'
  BY <1>0 DEF RestoreInv, Delivery, Lone
<1>4. SlotInv' /\ (New' = New \/ New' = None)
  <2>1. CASE phase = "running" /\ tries >= MaxAttempts
    BY <2>1, RestoreAssumption DEF RestoreInv, SlotInv, New, NoJob
  <2>2. CASE ~(phase = "running" /\ tries >= MaxAttempts)
    <3>1. UNCHANGED <<job, tries>> /\ New' = New
          /\ phase' = IF phase = "running" THEN "queued" ELSE phase
      BY <2>2 DEF New
    <3>2. phase' \in {"free", "queued", "running"} /\ (phase' = "queued" => tries < MaxAttempts)
          /\ (phase' = "free" <=> phase = "free")
      BY <2>2, <3>1, RestoreAssumption DEF RestoreInv, SlotInv
    <3>3. phase # "free" => job' \in BackupJob \cup RestoreJob(torn')
      BY <3>1 DEF RestoreInv, SlotInv
    <3> QED BY <3>1, <3>2, <3>3 DEF RestoreInv, SlotInv
  <2> QED BY <2>1, <2>2
<1>5. Aim'
  <2>1. \A c \in Caller : call[c].at \in Reading => call[c].backup # None
    BY RestoreAssumption DEF RestoreInv, CallType, Reading
  <2>2. job' = job \/ job'.action # "restore"
    BY DEF NoJob
  <2> QED BY <1>0, <1>4, <2>1, <2>2 DEF RestoreInv, Aim
<1> QED BY <1>1, <1>2, <1>3, <1>4, <1>5 DEF RestoreInv

-----------------------------------------------------------------------------
LEMMA NextRestoreInv == RestoreInv /\ [Next]_vars => RestoreInv'
<1> SUFFICES ASSUME RestoreInv, [Next]_vars
             PROVE  RestoreInv'
  OBVIOUS
<1>1. CASE \/ Play \/ StartGame
           \/ \E b \in Backup : RequestBackup(b) \/ DeleteCheck(b)
           \/ \E b, pre \in Backup : RequestRestore(b, pre)
           \/ DeleteArchive \/ DeleteRow
  <2>1. CASE Play \/ StartGame
    BY <2>1, PlayKeepsInv, StartGameKeepsInv
  <2>2. CASE (\E b \in Backup : RequestBackup(b)) \/ \E b, pre \in Backup : RequestRestore(b, pre)
    BY <2>2, RequestsKeepInv
  <2>3. CASE (\E b \in Backup : DeleteCheck(b)) \/ DeleteArchive \/ DeleteRow
    BY <2>3, DeletionKeepsInv
  <2> QED BY <1>1, <2>1, <2>2, <2>3
<1>2. CASE Claim \/ LoadFails \/ BeginBackup \/ BeginRestore \/ BackupAnswered \/ PreAnswered
           \/ RestoreAnswered \/ Settle \/ Finish
  BY <1>2, ClaimKeepsInv, LoadFailsKeepsInv, BeginBackupKeepsInv, BeginRestoreKeepsInv, BackupAnsweredKeepsInv,
     PreAnsweredKeepsInv, RestoreAnsweredKeepsInv, SettleKeepsInv, FinishKeepsInv
<1>3. CASE \E c \in Caller : AgentStep(c)
  BY <1>3, AgentKeepsInv
<1>4. CASE OrphanEnds \/ TimeOut \/ Crash \/ HostCrash \/ Restart
  BY <1>4, OrphanEndsKeepsInv, TimeOutKeepsInv, CrashesKeepInv, RestartKeepsInv
<1>5. CASE UNCHANGED vars
  BY <1>5 DEF vars, RestoreInv, DiskSound, RowsSound, HistoryType, BudgetType, DeleteType, SlotInv,
     WorkerInv, CallType, CallState, OwnCall, Aim, StagedInv, Snapshot, Stopped, Delivery, Lone, Stages,
     New, Gone, BackupJob, RestoreJob
<1> QED BY <1>1, <1>2, <1>3, <1>4, <1>5 DEF Next

\* The invariant of backups and restores holds always, whatever the calls of
\* agent.backup and agent.restore interleave with.
THEOREM RestoreInvariant == Spec => []RestoreInv
<1>1. Init => RestoreInv
  BY InitRestoreInv
<1>2. RestoreInv /\ [Next]_vars => RestoreInv'
  BY NextRestoreInv
<1> QED BY <1>1, <1>2, PTL DEF Spec

\* Every variable keeps its type: every value a row, a job, a call or a
\* directory takes is one the code has a name for.
THEOREM RestoreTypeCorrect == Spec => []TypeOK
<1>1. RestoreInv => TypeOK
  BY RestoreTypeParts
<1> QED BY <1>1, RestoreInvariant, PTL

\* restore and its orphan extract side by side into one staging directory, and
\* yet the server's directory and every archive hold files of one world, or
\* some of what a single archive has read while the world changed.
THEOREM WorldsNeverMixed == Spec => []NeverMixed
<1>1. RestoreInv => NeverMixed
  BY RestoreProperties
<1> QED BY <1>1, RestoreInvariant, PTL

\* executeFeatureJob lets the agent touch the server's directory only after
\* the pre-restore backup is on the node, on every attempt, and ready, unless
\* the statement that makes it so was lost or the customer deletes it.
THEOREM SnapshotsFirst == Spec => []SnapshotFirst
<1>1. RestoreInv => SnapshotFirst
  BY RestoreProperties
<1> QED BY <1>1, RestoreInvariant, PTL

\* A restore reported completed, with no abandoned call beside it, has left
\* the archived world in the server's directory, and it stays there.
THEOREM RestoresDeliver == Spec => []RestoreDelivers
<1>1. RestoreInv => RestoreDelivers
  BY RestoreProperties
<1> QED BY <1>1, RestoreInvariant, PTL

\* A step that changes the slot is a step of JobSlot.
LEMMA SlotStep ==
  ASSUME RestoreInv, [Next]_vars
  PROVE  [Slot!Next]_<<phase, tries>>
<1> USE DEF slot, Quiet, Unheard
<1>1. CASE (\E b \in Backup : RequestBackup(b)) \/ \E b, pre \in Backup : RequestRestore(b, pre)
  BY <1>1 DEF RequestBackup, RequestRestore, Request, Slot!Next, Slot!Submit
<1>2. CASE Claim
  BY <1>2 DEF Claim, RestoreInv, SlotInv, Slot!Next, Slot!Attempt
<1>3. CASE Finish
  BY <1>3 DEF Finish, RestoreInv, WorkerInv, Slot!Next, Slot!Resolve
<1>4. CASE Restart
  <2>1. CASE phase = "running" /\ tries >= MaxAttempts
    BY <1>4, <2>1 DEF Restart, Slot!Next, Slot!Resolve
  <2>2. CASE phase = "running" /\ ~(tries >= MaxAttempts)
    <3>1. tries < MaxAttempts
      BY <2>2, RestoreAssumption DEF RestoreInv, SlotInv
    <3> QED BY <1>4, <2>2, <3>1 DEF Restart, Slot!Next, Slot!Requeue
  <2>3. CASE phase # "running"
    BY <1>4, <2>3 DEF Restart
  <2> QED BY <2>1, <2>2, <2>3
<1>5. CASE Play \/ StartGame \/ (\E b \in Backup : DeleteCheck(b)) \/ DeleteArchive \/ DeleteRow
  BY <1>5 DEF Play, StartGame, DeleteCheck, DeleteArchive, DeleteRow
<1>6. CASE \/ LoadFails \/ BeginBackup \/ BeginRestore \/ BackupAnswered \/ PreAnswered
           \/ RestoreAnswered \/ Settle
  BY <1>6 DEF LoadFails, BeginBackup, BeginRestore, BackupAnswered, PreAnswered, RestoreAnswered, Settle
<1>7. ASSUME NEW c \in Caller, AgentStep(c)
      PROVE  UNCHANGED <<phase, tries>>
  BY <1>7 DEF AgentStep, Archive, ArchiveRest, Publish, ArchiveFails, Verify, Clear, Extract, ExtractFails,
              DropPrevious, MoveOut, MoveIn, MoveBack
<1>8. CASE OrphanEnds \/ TimeOut \/ Crash \/ HostCrash \/ UNCHANGED vars
  BY <1>8 DEF OrphanEnds, TimeOut, Crash, HostCrash, ControllerGone, vars
<1> QED BY <1>1, <1>2, <1>3, <1>4, <1>5, <1>6, <1>7, <1>8 DEF Next

\* Backups, restores and deletions, with orphans, deadlines and crashes,
\* implement the slot of one server.
THEOREM RestoreImplementsSlot == Spec => ImplementsSlot
<1>1. Init => Slot!Init
  BY DEF Init, Slot!Init
<1>2. RestoreInv /\ [Next]_vars => [Slot!Next]_<<phase, tries>>
  BY SlotStep
<1> QED BY <1>1, <1>2, RestoreInvariant, PTL DEF Spec, ImplementsSlot
===================================================================================
