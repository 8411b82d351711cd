-------------------------------- MODULE Addons --------------------------------
(***************************************************************************)
(* The managed add-ons of one server: the rows of server_addons, which the *)
(* user sees as the inventory, and the files in plugins/ or mods/, which   *)
(* the game loads.  Row and job are written in one transaction; the job's  *)
(* agent calls change the files one by one; the row gets its outcome in a  *)
(* statement after that, whose error nobody looks at.                      *)
(*                                                                         *)
(* The provider's catalogue is constant: a release has a file name (with   *)
(* the version in it, or not) and the releases it requires.                *)
(* The content of a file is represented by the release it is.              *)
(***************************************************************************)
EXTENDS Naturals, Sequences, FiniteSets

CONSTANTS
  Addon,             \* identifiers of rows
  Release,           \* what the provider offers for this server
  NameOf,            \* [Release -> file name]
  Requires,          \* [Release -> Seq(Release)], as the provider lists them
  None,              \* no release, no file
  MaxDepth,          \* the 4 of resolveModrinthDepth
  MaxFiles,          \* its 16
  MaxAttempts,       \* the 3 of recoverJobs
  MaxRequests,       \* bound: accepted requests
  MaxFaults,         \* bound: statements, downloads and agent calls that fail,
                     \* or reach the job's 15 minutes
  MaxCrashes,        \* bound: crashes of the controller
  MaxAgentCrashes    \* bound: crashes of the agent

FileName == {NameOf[r] : r \in Release}

ASSUME AddonsAssumption ==
  /\ None \notin Release \cup FileName
  /\ NameOf \in [Release -> FileName]
  /\ Requires \in [Release -> Seq(Release)]
  /\ MaxDepth \in Nat /\ MaxFiles \in Nat \ {0} /\ MaxAttempts \in Nat \ {0}
  /\ MaxRequests \in Nat /\ MaxFaults \in Nat /\ MaxCrashes \in Nat
  /\ MaxAgentCrashes \in Nat

VARIABLES
  row,       \* server_addons
  restart,   \* servers.restart_required
  disk,      \* the file of each name, None without one
  temp,      \* names whose temporary file exists
  job,       \* the payload of the add-on job in the slot
  phase, tries,
  pc,        \* what the worker is at: an agent call, or a statement
  todo,      \* releases the install call has not got to yet
  now,       \* the one it is writing to its temporary file
  failed,    \* the job's error is not nil
  up,
  stale,     \* history: names whose file has changed since the game loaded it
  missed,    \* history: those of them whose restart a start has cleared
  sure,      \* history: the add-ons whose last attempt has been recorded
  budget     \* what is left of the bounds

vars == <<row, restart, disk, temp, job, phase, tries, pc, todo, now, failed, up,
          stale, missed, sure, budget>>

slot == <<job, phase, tries>>
files == <<disk, temp, stale, missed>>
call == <<todo, now>>
tables == <<row, restart>>

NoRow == [release |-> None, status |-> "none"]
NoJob == [kind |-> "none", addon |-> None, release |-> None, old |-> None]

Init ==
  /\ row = [a \in Addon |-> NoRow] /\ restart = FALSE
  /\ disk = [n \in FileName |-> None] /\ temp = {}
  /\ job = NoJob /\ phase = "free" /\ tries = 0
  /\ pc = "idle" /\ todo = {} /\ now = None /\ failed = FALSE
  /\ up = TRUE
  /\ stale = {} /\ missed = {}
  /\ sure = {}
  /\ budget = [requests |-> MaxRequests, faults |-> MaxFaults, crashes |-> MaxCrashes,
               agent |-> MaxAgentCrashes]

Spend(kind) ==
  /\ budget[kind] > 0
  /\ budget' = [budget EXCEPT ![kind] = @ - 1]

-----------------------------------------------------------------------------
(* Requests: the provider is asked first, then row and job are written.    *)

\* Once a release has MaxFiles files, its own included, the requirements that
\* are left are not looked at.
Followed(r) == {Requires[r][i] : i \in {j \in DOMAIN Requires[r] : j < MaxFiles}}

\* The requirements of a release are followed to the end, so that a cycle or
\* a chain of more than MaxDepth requirements is refused.
Chain[n \in 0..MaxDepth + 1] ==
  [r \in Release |-> n = 0 \/ \E q \in Followed(r) : Chain[n - 1][q]]

Resolves(r) == ~Chain[MaxDepth + 1][r]

\* Of what was followed only the direct requirements are kept.
Resolved(r) == {r} \cup Followed(r)

NameIsFree(a, n) == \A b \in Addon \ {a} : row[b] # NoRow => NameOf[row[b].release] # n

Submit(j) ==
  /\ up /\ phase = "free"
  /\ Spend("requests")
  /\ job' = j /\ phase' = "queued" /\ tries' = 0
  /\ UNCHANGED <<restart, files, pc, call, failed, up, sure>>

\* createAddonJob.
Create(a, r) ==
  /\ row[a] = NoRow /\ Resolves(r) /\ NameIsFree(a, NameOf[r])
  /\ Submit([kind |-> "install", addon |-> a, release |-> r, old |-> None])
  /\ row' = [row EXCEPT ![a] = [release |-> r, status |-> "installing"]]

\* updateAddonJob: the name changes now, the old one goes into the payload.
\* The release may be one of another project.
Update(a, r) ==
  /\ row[a] # NoRow /\ Resolves(r) /\ NameIsFree(a, NameOf[r])
  /\ Submit([kind |-> "install", addon |-> a, release |-> r, old |-> NameOf[row[a].release]])
  /\ row' = [row EXCEPT ![a] = [release |-> r, status |-> "installing"]]

\* createAddonRemoveJob: the row does not change.
Remove(a) ==
  /\ row[a] # NoRow
  /\ Submit([kind |-> "remove", addon |-> a, release |-> None, old |-> NameOf[row[a].release]])
  /\ UNCHANGED row

-----------------------------------------------------------------------------
(* The worker, and the agent's call while the worker waits for it.         *)

Claim ==
  /\ up /\ phase = "queued"
  /\ phase' = "running" /\ tries' = tries + 1
  /\ \/ /\ pc' = job.kind /\ failed' = FALSE
        /\ todo' = IF job.kind = "install" THEN Resolved(job.release) ELSE {}
        /\ UNCHANGED budget
     \/ /\ pc' = "finish" /\ failed' = TRUE         \* the server cannot be read
        /\ todo' = {} /\ Spend("faults")
  /\ now' = None
  /\ sure' = sure \ {job.addon}
  /\ UNCHANGED <<tables, files, job, up>>

At(label) == up /\ phase = "running" /\ pc = label

Same == UNCHANGED <<slot, up, sure>>

\* The primary file comes first, then what it requires.
Upcoming == IF job.release \in todo THEN {job.release} ELSE todo

\* The download has begun: O_EXCL refuses a temporary file that exists.
Open ==
  /\ At("install") /\ now = None
  /\ \E r \in Upcoming :
       /\ NameOf[r] \notin temp
       /\ temp' = temp \cup {NameOf[r]}
       /\ now' = r
  /\ UNCHANGED <<tables, disk, stale, missed, pc, todo, failed, budget>> /\ Same

SetDisk(d) ==
  LET changed == {n \in FileName : d[n] # disk[n]}
  IN  disk' = d /\ stale' = stale \cup changed /\ missed' = missed \ changed

\* Copied, checksum verified, the target removed and the file renamed.
Swapped == [disk EXCEPT ![NameOf[now]] = now]
Dropped == [disk EXCEPT ![NameOf[now]] = None]

Place ==
  /\ At("install") /\ now # None
  /\ SetDisk(Swapped) /\ temp' = temp \ {NameOf[now]}
  /\ todo' = todo \ {now} /\ now' = None
  /\ UNCHANGED <<tables, pc, failed, budget>> /\ Same

\* Mutants: an add-on that keeps its file name loses the file; the old file
\* is only removed by the first attempt.
AfterInstallAlways == IF job.old # None THEN "remove" ELSE "record"
AfterInstallOnce ==
  IF job.old \notin {None, NameOf[job.release]} /\ tries = 1 THEN "remove" ELSE "record"

AfterInstall == IF job.old \notin {None, NameOf[job.release]} THEN "remove" ELSE "record"

Installed ==
  /\ At("install") /\ now = None /\ todo = {}
  /\ pc' = AfterInstall
  /\ UNCHANGED <<tables, files, call, failed, budget>> /\ Same

Fails ==
  /\ pc' = "record" /\ failed' = TRUE
  /\ todo' = {} /\ now' = None
  /\ UNCHANGED tables /\ Same

\* What is left of the temporary files when a download or its check fails.
\* Mutant: all of them.
LeftTemp == temp

CleanedTemp == temp \ {NameOf[now]}

InstallFails ==
  /\ At("install")
  /\ \/ /\ now = None /\ \E r \in Upcoming : NameOf[r] \in temp
        /\ UNCHANGED <<files, budget>>
     \/ now = None /\ Spend("faults") /\ UNCHANGED files
     \/ /\ now # None /\ Spend("faults")
        /\ temp' = CleanedTemp
        /\ \E d \in {disk, Dropped} : SetDisk(d)     \* Dropped: the rename failed
  /\ Fails

Deleted == [disk EXCEPT ![job.old] = None]

Delete ==
  /\ At("remove")
  /\ SetDisk(Deleted)
  /\ pc' = "record"
  /\ UNCHANGED <<tables, temp, call, failed, budget>> /\ Same

DeleteFails ==
  /\ At("remove") /\ Spend("faults")
  /\ \E d \in {disk, Deleted} : SetDisk(d)
  /\ UNCHANGED temp
  /\ Fails

\* finishAddon.
\* Mutant: only a removal asks for a restart.
RecordWithoutRestart ==
  /\ row' = [row EXCEPT ![job.addon] =
               IF @ = NoRow THEN NoRow
               ELSE IF failed THEN [@ EXCEPT !.status = "failed"]
               ELSE IF job.kind = "remove" THEN NoRow ELSE [@ EXCEPT !.status = "installed"]]
  /\ restart' = (restart \/ (~failed /\ job.kind = "remove"))

RecordOutcome ==
  /\ row' = [row EXCEPT ![job.addon] =
               IF @ = NoRow THEN NoRow
               ELSE IF failed THEN [@ EXCEPT !.status = "failed"]
               ELSE IF job.kind = "remove" THEN NoRow ELSE [@ EXCEPT !.status = "installed"]]
  /\ restart' = (restart \/ (~failed /\ job.kind = "install" /\ row[job.addon] # NoRow))

Record ==
  /\ At("record")
  /\ \/ RecordOutcome /\ sure' = sure \cup {job.addon} /\ UNCHANGED budget
     \/ Spend("faults") /\ UNCHANGED <<tables, sure>>
  /\ pc' = "finish"
  /\ UNCHANGED <<files, slot, call, failed, up>>

\* finishJob: the slot is free.
Free == phase' = "free" /\ tries' = 0 /\ job' = NoJob

Finish ==
  /\ At("finish")
  /\ Free /\ pc' = "idle" /\ failed' = FALSE
  /\ UNCHANGED <<tables, files, call, up, sure, budget>>

-----------------------------------------------------------------------------
(* A call whose caller is gone ends with its next read from the network;   *)
(* a file that has arrived is still put in its place.                      *)

Abandoned ==
  \/ now # None /\ temp' = CleanedTemp /\ \E d \in {disk, Swapped} : SetDisk(d)
  \/ pc = "remove" /\ SetDisk(Deleted) /\ UNCHANGED temp
  \/ now = None /\ UNCHANGED files

\* The job's context has expired, also for finishAddon.
Deadline ==
  /\ up /\ phase = "running" /\ pc \in {"install", "remove"}
  /\ Spend("faults")
  /\ Abandoned
  /\ pc' = "finish" /\ failed' = TRUE /\ todo' = {} /\ now' = None
  /\ UNCHANGED tables /\ Same

Crash ==
  /\ up /\ Spend("crashes")
  /\ up' = FALSE
  /\ Abandoned
  /\ pc' = "idle" /\ todo' = {} /\ now' = None /\ failed' = FALSE
  /\ UNCHANGED <<tables, slot, sure>>

\* recoverJobs: giving up a job tells its add-on nothing.
\* Mutant: one attempt too many.
GivenUpLate == tries > MaxAttempts

GivenUp == tries >= MaxAttempts

Recover ==
  /\ ~up /\ up' = TRUE
  /\ IF phase = "running" /\ GivenUp THEN Free
     ELSE phase' = (IF phase = "running" THEN "queued" ELSE phase) /\ UNCHANGED <<job, tries>>
  /\ UNCHANGED <<tables, files, pc, call, failed, sure, budget>>

\* The agent stops: the worker gets an error, and nobody removes the
\* temporary file.
AgentCrash ==
  /\ At("install") /\ Spend("agent")
  /\ UNCHANGED temp
  /\ \E d \in IF now = None THEN {disk} ELSE {disk, Dropped} : SetDisk(d)
  /\ Fails

\* The game loads its files.
Load ==
  /\ stale' = {} /\ missed' = {}
  /\ UNCHANGED <<row, disk, temp, slot, pc, call, failed, up, sure, budget>>

\* A restart as one step; it has the slot.
Restart ==
  /\ up /\ phase = "free"
  /\ restart' = FALSE                          \* clearRestartRequired
  /\ Load

\* So does a start, unless the game runs already: that is answered as if it had
\* been started (Docker's 304), and the request for a restart is cleared as well.
StartOfRunning ==
  /\ up /\ phase = "free"
  /\ restart' = FALSE /\ missed' = IF restart THEN stale ELSE missed
  /\ UNCHANGED <<row, disk, temp, stale, slot, pc, call, failed, up, sure, budget>>

Start == Restart \/ StartOfRunning

\* The container's policy is unless-stopped.
GameRestarts == Load /\ UNCHANGED restart

Next ==
  \/ \E a \in Addon : Remove(a) \/ \E r \in Release : Create(a, r) \/ Update(a, r)
  \/ Claim \/ Open \/ Place \/ Installed \/ InstallFails \/ Delete \/ DeleteFails
  \/ Record \/ Finish
  \/ Deadline \/ Crash \/ Recover \/ AgentCrash
  \/ Start \/ GameRestarts

Spec == Init /\ [][Next]_vars
-----------------------------------------------------------------------------
Row == [release : Release \cup {None}, status : {"none", "installing", "installed", "failed"}]
Job == [kind : {"none", "install", "remove"}, addon : Addon \cup {None},
        release : Release \cup {None}, old : FileName \cup {None}]
Budget == [{"requests", "faults", "crashes", "agent"} -> Nat]

TypeOK ==
  /\ row \in [Addon -> Row] /\ restart \in BOOLEAN
  /\ disk \in [FileName -> Release \cup {None}] /\ temp \subseteq FileName
  /\ job \in Job /\ phase \in {"free", "queued", "running"} /\ tries \in 0..MaxAttempts
  /\ pc \in {"idle", "install", "remove", "record", "finish"}
  /\ todo \subseteq Release /\ now \in Release \cup {None}
  /\ failed \in BOOLEAN /\ up \in BOOLEAN
  /\ missed \subseteq stale /\ stale \subseteq FileName
  /\ sure \subseteq Addon
  /\ budget \in Budget

\* A name that only the add-on whose file it is has to do with.
Shared(n) == \E r \in Release : \E q \in Followed(r) : NameOf[q] = n

\* The inventory tells the truth while no operation runs.  Once an add-on is
\* recorded as installed, its file is the release shown, and the game has
\* loaded it or the panel asks for a restart, until an attempt on this add-on
\* begins: whatever other add-ons, failures, crashes and restarts do.  Only a
\* start of the running server, which loads nothing, takes the question back.
InventoryIsTrue ==
  phase = "free" =>
    \A a \in sure :
      row[a].status = "installed" =>
        LET n == NameOf[row[a].release]
        IN  ~Shared(n) =>
              /\ disk[n] = row[a].release
              /\ n \notin stale \/ restart \/ n \in missed

\* A job that reports success has done all of it, also when earlier attempts
\* were interrupted anywhere: the release and its direct requirements, as far
\* as they are among the first MaxFiles files, are in place, and the file they
\* supersede is not, even where it is the file of a requirement (an update to
\* a release of another project).
Superseded(n) == n = job.old /\ (job.kind = "install" => n # NameOf[job.release])

SuccessIsWhole ==
  At("record") /\ ~failed =>
    /\ job.kind = "install" =>
         \A i \in 0..MaxFiles - 1 :
           LET r == (<<job.release>> \o Requires[job.release])[i + 1]
           IN  i <= Len(Requires[job.release]) => Superseded(NameOf[r]) \/ disk[NameOf[r]] = r
    /\ \A n \in FileName : Superseded(n) => disk[n] = None

\* A temporary file blocks every later installation of its name, so none may
\* outlive its call, unless the agent crashed.
NoLitter == temp # {} => now # None \/ budget.agent < MaxAgentCrashes

\* A file that no row names and no release requires is left over only when a
\* call failed or a job was given up: interruptions alone leave none.
Untroubled ==
  /\ budget.faults = MaxFaults /\ budget.agent = MaxAgentCrashes
  /\ MaxCrashes - budget.crashes < MaxAttempts

NothingIsLeftOver ==
  phase = "free" /\ Untroubled =>
    \A n \in FileName :
      disk[n] # None /\ ~Shared(n) =>
        \E a \in Addon : row[a] # NoRow /\ NameOf[row[a].release] = n

-----------------------------------------------------------------------------
\* The jobs of all add-ons share the server's slot as the queue promises it.
Slot == INSTANCE JobSlot

ImplementsSlot == Slot!Init /\ [][Slot!Next]_<<phase, tries>>
=============================================================================
