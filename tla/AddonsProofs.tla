----------------------------- MODULE AddonsProofs -----------------------------
(***************************************************************************)
(* What holds of the add-ons of a server for every catalogue, any number   *)
(* of add-ons, requests, failures and crashes: the inventory tells the     *)
(* truth, no temporary file outlives its call, interruptions leave no file *)
(* without a row, and a job that reports success has done all of it.       *)
(*                                                                         *)
(* The argument for the inventory: an add-on whose outcome is recorded     *)
(* loses its place in sure as soon as a job of its own begins, and the job *)
(* of another one has other names to write and to remove.                  *)
(***************************************************************************)
EXTENDS Addons, TLAPS

\* The type invariant by parts; a row that exists names a release.
RowType ==
  /\ row \in [Addon -> {NoRow} \cup [release : Release,
                                     status : {"installing", "installed", "failed"}]]
  /\ restart \in BOOLEAN
FilesType ==
  /\ disk \in [FileName -> Release \cup {None}]
  /\ temp \subseteq FileName /\ missed \subseteq stale /\ stale \subseteq FileName
SlotType ==
  /\ phase \in {"free", "queued", "running"} /\ tries \in 0..MaxAttempts
  /\ phase = "queued" => tries < MaxAttempts
Install == [kind : {"install"}, addon : Addon, release : Release, old : FileName \cup {None}]
Removal == [kind : {"remove"}, addon : Addon, release : {None}, old : FileName]
JobType == IF phase = "free" THEN job = NoJob ELSE job \in Install \cup Removal
CallType ==
  /\ todo \subseteq Release /\ now \in Release \cup {None}
  /\ failed \in BOOLEAN /\ up \in BOOLEAN /\ sure \subseteq Addon
BudgetType == budget \in Budget /\ budget["agent"] <= MaxAgentCrashes

\* What the worker is at, and what it has still to install.
WorkerInv ==
  /\ pc \in {"idle", "install", "remove", "record", "finish"}
  /\ pc # "idle" => up /\ phase = "running"
  /\ pc = "install" => job.kind = "install" /\ ~failed
  /\ pc = "remove" => ~failed /\ job.old # None
                       /\ (job.kind = "install" => job.old # NameOf[job.release])
  /\ IF pc = "install" THEN todo \subseteq {job.release} \cup Followed(job.release) ELSE todo = {}
  /\ now # None => pc = "install" /\ now \in todo

Types == RowType /\ FilesType /\ SlotType /\ JobType /\ CallType /\ BudgetType /\ WorkerInv

\* Between two calls there is no temporary file.
TempInv ==
  budget["agent"] = MaxAgentCrashes => temp \subseteq IF now = None THEN {} ELSE {NameOf[now]}

\* No two rows have a name in common (the table's unique constraint), and the
\* job's row is the one its payload speaks of.
NamesApart ==
  \A a, b \in Addon :
    a # b /\ row[a] # NoRow /\ row[b] # NoRow => NameOf[row[a].release] # NameOf[row[b].release]
JobsRow ==
  phase # "free" =>
    /\ job.kind = "install" => row[job.addon] # NoRow /\ row[job.addon].release = job.release
    /\ \A b \in Addon \ {job.addon} : row[b] # NoRow => NameOf[row[b].release] # job.old

\* The primary file is in its place once it is not to be installed any more.
Placed ==
  pc \in {"install", "remove", "record"} /\ job.kind = "install" /\ ~failed
    /\ job.release \notin todo /\ ~Shared(NameOf[job.release])
      => disk[NameOf[job.release]] = job.release

\* An add-on whose job is at work is not vouched for.
Unsure == pc \in {"install", "remove", "record"} => job.addon \notin sure

\* InventoryIsTrue at every moment, also while a job of another add-on runs.
Good(a) ==
  row[a].status = "installed" /\ ~Shared(NameOf[row[a].release]) =>
    /\ disk[NameOf[row[a].release]] = row[a].release
    /\ \/ NameOf[row[a].release] \notin stale \/ restart
       \/ NameOf[row[a].release] \in missed
SureIsGood == \A a \in sure : Good(a)

\* The inductive invariant.
AddonsInv == Types /\ TempInv /\ NamesApart /\ JobsRow /\ Placed /\ Unsure /\ SureIsGood

-----------------------------------------------------------------------------
\* The parts are the type invariant, and give the two properties.
LEMMA AddonTypeParts == AddonsInv => TypeOK
<1> SUFFICES ASSUME AddonsInv
             PROVE  TypeOK
  OBVIOUS
<1> USE AddonsAssumption DEF AddonsInv, Types
<1>1. row \in [Addon -> Row] /\ restart \in BOOLEAN
  BY DEF RowType, Row, NoRow
<1>2. job \in Job
  BY DEF JobType, Install, Removal, Job, NoJob
<1> QED BY <1>1, <1>2 DEF TypeOK, FilesType, SlotType, WorkerInv, CallType, BudgetType

\* What is followed of a release's requirements are releases.
LEMMA FollowedType == \A r \in Release : Followed(r) \subseteq Release
  BY AddonsAssumption DEF Followed

LEMMA NameType == \A r \in Release : NameOf[r] \in FileName /\ NameOf[r] # None
  BY AddonsAssumption

\* Nothing is installed and nothing asked at first.
LEMMA InitAddonsInv == Init => AddonsInv
<1> SUFFICES ASSUME Init
             PROVE  AddonsInv
  OBVIOUS
<1> USE AddonsAssumption DEF Init
<1>1. RowType /\ FilesType
  BY DEF RowType, FilesType
<1>2. SlotType /\ JobType /\ CallType
  <2>1. SlotType
    BY DEF SlotType
  <2>2. JobType
    BY DEF JobType
  <2>3. CallType
    BY DEF CallType
  <2> QED BY <2>1, <2>2, <2>3
<1>3. BudgetType
  BY DEF BudgetType, Budget
<1>4. WorkerInv
  BY DEF WorkerInv
<1>5. TempInv /\ NamesApart /\ JobsRow /\ Placed /\ Unsure /\ SureIsGood
  BY DEF TempInv, NamesApart, JobsRow, Placed, Unsure, SureIsGood
<1> QED BY <1>1, <1>2, <1>3, <1>4, <1>5 DEF AddonsInv, Types

LEMMA SpendStep ==
  ASSUME BudgetType, NEW kind \in {"requests", "faults", "crashes"}, Spend(kind)
  PROVE  BudgetType' /\ budget'["agent"] = budget["agent"]
  BY AddonsAssumption DEF BudgetType, Budget, Spend

\* Names that no add-on we vouch for depends on.
Own(n) == \A a \in sure : row[a] # NoRow /\ ~Shared(n) => NameOf[row[a].release] # n

\* What a call writes or removes is its own.
LEMMA CallsOwn ==
  ASSUME AddonsInv
  PROVE  /\ now # None => Own(NameOf[now]) /\ now \in Release
         /\ pc = "remove" => Own(job.old) /\ job.old \in FileName
<1> USE DEF AddonsInv, Types
<1>1. ASSUME pc \in {"install", "remove"}
      PROVE  /\ phase # "free" /\ job \in Install \cup Removal /\ job.addon \notin sure
             /\ \A b \in sure : b \in Addon \ {job.addon}
  BY <1>1 DEF WorkerInv, JobType, Unsure, CallType
<1>2. ASSUME now # None
      PROVE  Own(NameOf[now]) /\ now \in Release
  <2>1. pc = "install" /\ now \in {job.release} \cup Followed(job.release) /\ now \in Release
    BY <1>2 DEF WorkerInv, CallType
  <2>2. CASE now \in Followed(job.release)
    <3>1. job.release \in Release
      BY <1>1, <2>1 DEF WorkerInv, Install, Removal
    <3>2. Shared(NameOf[now])
      BY <2>2, <3>1 DEF Shared
    <3> QED BY <2>1, <3>2 DEF Own
  <2>3. CASE now = job.release
    <3>1. row[job.addon] # NoRow /\ row[job.addon].release = now /\ job.addon \in Addon
      BY <1>1, <2>1, <2>3 DEF WorkerInv, JobsRow, Install, Removal
    <3> QED BY <1>1, <2>1, <3>1 DEF NamesApart, Own
  <2> QED BY <2>1, <2>2, <2>3
<1>3. ASSUME pc = "remove"
      PROVE  Own(job.old) /\ job.old \in FileName
  <2>1. job.old \in FileName
    BY <1>1, <1>3 DEF WorkerInv, Install, Removal
  <2> QED BY <1>1, <1>3, <2>1 DEF JobsRow, Own
<1> QED BY <1>2, <1>3

\* A change of an own name, or none, disturbs nobody.
LEMMA FilesStep ==
  ASSUME AddonsInv, UNCHANGED <<tables, sure>>, temp' \subseteq FileName,
         \/ UNCHANGED <<disk, stale, missed>>
         \/ \E d \in {disk} \cup {[disk EXCEPT ![n] = v] : n \in {m \in FileName : Own(m)},
                                                            v \in Release \cup {None}} : SetDisk(d)
  PROVE  FilesType' /\ SureIsGood'
<1> USE DEF AddonsInv, Types, tables
<1>1. CASE UNCHANGED <<disk, stale, missed>>
  BY <1>1 DEF FilesType, SureIsGood, Good
<1>2. CASE SetDisk(disk)
  <2>1. disk' = disk /\ stale' = stale /\ missed' = missed
    BY <1>2 DEF SetDisk, FilesType
  <2> QED BY <2>1 DEF FilesType, SureIsGood, Good
<1>3. ASSUME NEW n \in FileName, NEW v \in Release \cup {None}, Own(n),
             SetDisk([disk EXCEPT ![n] = v])
      PROVE  FilesType' /\ SureIsGood'
  <2>1. /\ disk' = [disk EXCEPT ![n] = v]
        /\ stale \subseteq stale' /\ stale' \subseteq stale \cup {n}
        /\ missed \ {n} \subseteq missed' /\ missed' \subseteq missed
    BY <1>3 DEF SetDisk, FilesType
  <2>2. FilesType'
    BY <1>3, <2>1 DEF FilesType
  <2>3. ASSUME NEW a \in sure, row[a].status = "installed", ~Shared(NameOf[row[a].release])
        PROVE  /\ disk'[NameOf[row[a].release]] = row[a].release
               /\ \/ NameOf[row[a].release] \notin stale' \/ restart
                  \/ NameOf[row[a].release] \in missed'
    <3>1. a \in Addon /\ row[a] # NoRow /\ row[a].release \in Release
      BY <2>3 DEF CallType, RowType, NoRow
    <3>2. NameOf[row[a].release] \in FileName /\ NameOf[row[a].release] # n
      BY <1>3, <2>3, <3>1, NameType DEF Own
    <3>3. Good(a)
      BY DEF SureIsGood
    <3> QED BY <2>1, <2>3, <3>2, <3>3 DEF Good, FilesType
  <2> QED BY <2>2, <2>3 DEF SureIsGood, Good
<1> QED BY <1>1, <1>2, <1>3

LEMMA ChangeStep ==
  ASSUME AddonsInv, UNCHANGED <<tables, sure>>, temp' \subseteq FileName,
         NEW n \in FileName, Own(n), NEW v \in Release \cup {None},
         SetDisk([disk EXCEPT ![n] = v])
  PROVE  FilesType' /\ SureIsGood'
<1> DEFINE e == [disk EXCEPT ![n] = v]
           D == {disk} \cup {[disk EXCEPT ![m] = w] : m \in {k \in FileName : Own(k)},
                                                  w \in Release \cup {None}}
<1>1. e \in D /\ SetDisk(e)
  OBVIOUS
<1>2. \E d \in D : SetDisk(d)
  <2> HIDE DEF e, D
  <2> QED BY <1>1
<1> QED BY ONLY <1>2, FilesStep, AddonsInv, UNCHANGED <<tables, sure>>, temp' \subseteq FileName

LEMMA NoChangeStep ==
  ASSUME AddonsInv, UNCHANGED <<tables, sure>>, temp' \subseteq FileName,
         UNCHANGED <<disk, stale, missed>> \/ SetDisk(disk)
  PROVE  FilesType' /\ SureIsGood'
  BY FilesStep

-----------------------------------------------------------------------------
\* A request changes one row, to a name that is free, and brings its job.
LEMMA SubmitStep ==
  ASSUME AddonsInv, NEW j \in Install \cup Removal, Submit(j)
  PROVE  /\ FilesType' /\ SlotType' /\ JobType' /\ CallType' /\ BudgetType' /\ WorkerInv'
         /\ TempInv' /\ Placed' /\ Unsure'
         /\ phase = "free" /\ phase' = "queued" /\ job' = j
<1> USE AddonsAssumption DEF AddonsInv, Types, Submit, files, call
<1>1. FilesType' /\ CallType'
  BY DEF FilesType, CallType
<1>2. SlotType'
  BY DEF SlotType
<1>3. JobType'
  BY DEF JobType
<1>4. BudgetType' /\ budget'["agent"] = budget["agent"]
  BY SpendStep
<1>5. pc = "idle"
  BY DEF WorkerInv
<1>6. WorkerInv' /\ Placed' /\ Unsure'
  BY <1>5 DEF WorkerInv, Placed, Unsure
<1>7. TempInv'
  BY <1>4 DEF TempInv
<1> QED BY <1>1, <1>2, <1>3, <1>4, <1>6, <1>7

LEMMA RequestKeepsInv ==
  ASSUME AddonsInv, NEW a \in Addon,
         Remove(a) \/ \E r \in Release : Create(a, r) \/ Update(a, r)
  PROVE  AddonsInv'
<1> USE DEF AddonsInv, Types
<1>0. row \in [Addon -> {NoRow} \cup [release : Release, status : {"installing", "installed", "failed"}]]
  BY DEF RowType
<1>1. CASE Remove(a)
  <2> DEFINE j == [kind |-> "remove", addon |-> a, release |-> None, old |-> NameOf[row[a].release]]
  <2>1. row[a].release \in Release
    BY <1>0, <1>1 DEF Remove
  <2>2. j \in Install \cup Removal
    BY <2>1, NameType DEF Removal
  <2>3. Submit(j) /\ UNCHANGED row
    BY <1>1 DEF Remove
  <2>4. UNCHANGED <<disk, stale, missed, restart, sure>>
    BY <2>3 DEF Submit, files
  <2>5. RowType' /\ NamesApart' /\ SureIsGood'
    BY <2>3, <2>4 DEF RowType, NamesApart, SureIsGood, Good
  <2>6. JobsRow'
    BY <1>1, <2>3 DEF Remove, Submit, NamesApart, JobsRow
  <2> HIDE DEF j
  <2> QED BY <2>2, <2>3, <2>5, <2>6, SubmitStep
<1>2. ASSUME NEW r \in Release, NameIsFree(a, NameOf[r]), NEW old \in FileName \cup {None},
             \A b \in Addon \ {a} : row[b] # NoRow => NameOf[row[b].release] # old,
             Submit([kind |-> "install", addon |-> a, release |-> r, old |-> old]),
             row' = [row EXCEPT ![a] = [release |-> r, status |-> "installing"]]
      PROVE  AddonsInv'
  <2> DEFINE j == [kind |-> "install", addon |-> a, release |-> r, old |-> old]
  <2>1. j \in Install \cup Removal
    BY <1>2 DEF Install
  <2>2. Submit(j) /\ UNCHANGED <<disk, stale, missed, restart, sure>>
    BY <1>2 DEF Submit, files
  <2>3. RowType'
    BY <1>0, <1>2, <2>2 DEF RowType
  <2>4. row'[a] = [release |-> r, status |-> "installing"] /\ row'[a] # NoRow
    BY <1>0, <1>2 DEF NoRow
  <2>5. \A b \in Addon \ {a} : row'[b] = row[b]
    BY <1>0, <1>2
  <2>6. NamesApart'
    BY <1>2, <2>4, <2>5 DEF NamesApart, NameIsFree
  <2>7. JobsRow'
    <3>1. job' = j
      BY <2>2 DEF Submit
    <3> QED BY <1>2, <2>4, <2>5, <3>1 DEF JobsRow
  <2>8. SureIsGood'
    BY <2>2, <2>4, <2>5 DEF SureIsGood, Good, CallType
  <2> HIDE DEF j
  <2> QED BY <2>1, <2>2, <2>3, <2>6, <2>7, <2>8, SubmitStep
<1>3. ASSUME NEW r \in Release, Create(a, r)
      PROVE  AddonsInv'
  <2>1. \A b \in Addon \ {a} : row[b] # NoRow => NameOf[row[b].release] # None
    BY <1>0, NameType
  <2> QED BY <1>2, <1>3, <2>1 DEF Create
<1>4. ASSUME NEW r \in Release, Update(a, r)
      PROVE  AddonsInv'
  <2>1. row[a].release \in Release
    BY <1>0, <1>4 DEF Update
  <2>2. \A b \in Addon \ {a} : row[b] # NoRow => NameOf[row[b].release] # NameOf[row[a].release]
    BY <1>4 DEF NamesApart, Update
  <2> QED BY <1>2, <1>4, <2>1, <2>2, NameType DEF Update
<1> QED BY <1>1, <1>3, <1>4

-----------------------------------------------------------------------------
\* What the worker does to its call and its files, without touching rows,
\* slot or controller: the parts that need no argument.
LEMMA CallStep ==
  ASSUME AddonsInv, UNCHANGED <<tables, slot, up, sure>>
  PROVE  /\ RowType' /\ SlotType' /\ JobType' /\ NamesApart' /\ JobsRow'
         /\ \A n : Shared(n)' = Shared(n)
  BY DEF AddonsInv, Types, tables, slot, RowType, SlotType, JobType, NamesApart, JobsRow, Shared

\* A running job has its payload.
LEMMA RunningJob ==
  ASSUME AddonsInv, phase = "running"
  PROVE  /\ job.addon \in Addon /\ job.kind \in {"install", "remove"}
         /\ job.kind = "install" => job.release \in Release
         /\ job.old \in FileName \cup {None} /\ (job.kind = "remove" => job.old \in FileName)
  BY DEF AddonsInv, Types, JobType, Install, Removal

LEMMA OpenKeepsInv == AddonsInv /\ Open => AddonsInv'
<1> SUFFICES ASSUME AddonsInv, Open
             PROVE  AddonsInv'
  OBVIOUS
<1> USE DEF AddonsInv, Types, Open, Same, At
<1>1. PICK r \in Upcoming : temp' = temp \cup {NameOf[r]} /\ now' = r
  OBVIOUS
<1>2. r \in todo /\ r \in Release /\ r # None
  BY <1>1, AddonsAssumption DEF Upcoming, CallType
<1>3. FilesType' /\ SureIsGood'
  BY <1>1, <1>2, FilesStep, NameType DEF FilesType, tables
<1>4. CallType' /\ BudgetType'
  BY <1>1, <1>2 DEF CallType, BudgetType
<1>5. WorkerInv'
  BY <1>1, <1>2 DEF WorkerInv, slot
<1>6. TempInv'
  BY <1>1, <1>2 DEF TempInv
<1>7. Placed' /\ Unsure'
  BY DEF Placed, Unsure, slot, Shared
<1> QED BY <1>3, <1>4, <1>5, <1>6, <1>7, CallStep

LEMMA PlaceKeepsInv == AddonsInv /\ Place => AddonsInv'
<1> SUFFICES ASSUME AddonsInv, Place
             PROVE  AddonsInv'
  OBVIOUS
<1> USE DEF AddonsInv, Types, Place, Same, At
<1>1. now \in Release /\ Own(NameOf[now]) /\ NameOf[now] \in FileName
  BY CallsOwn, NameType
<1>2. FilesType' /\ SureIsGood'
  <2>1. temp' \subseteq FileName /\ UNCHANGED <<tables, sure>> /\ SetDisk(Swapped)
    BY DEF FilesType
  <2> QED BY <1>1, <2>1, ChangeStep DEF Swapped
<1>3. CallType' /\ BudgetType'
  BY DEF CallType, BudgetType
<1>4. WorkerInv'
  BY DEF WorkerInv, slot
<1>5. TempInv'
  BY DEF TempInv
<1>6. Unsure'
  BY DEF Unsure, slot
<1>7. Placed'
  <2>1. disk' = [disk EXCEPT ![NameOf[now]] = now]
    BY DEF SetDisk, Swapped
  <2>2. job.release \in Release /\ job' = job /\ pc = "install"
    BY RunningJob DEF WorkerInv, slot
  <2>3. CASE now = job.release
    BY <1>1, <2>1, <2>2, <2>3 DEF Placed, FilesType
  <2>4. CASE now # job.release
    <3>1. Shared(NameOf[now])
      BY <1>1, <2>2, <2>4 DEF Shared, WorkerInv
    <3>2. ~Shared(NameOf[job.release]) => disk'[NameOf[job.release]] = disk[NameOf[job.release]]
      BY <2>1, <2>2, <3>1, NameType DEF FilesType
    <3> QED BY <2>2, <2>4, <3>2 DEF Placed, Shared
  <2> QED BY <2>3, <2>4
<1> QED BY <1>2, <1>3, <1>4, <1>5, <1>6, <1>7, CallStep

LEMMA InstalledKeepsInv == AddonsInv /\ Installed => AddonsInv'
<1> SUFFICES ASSUME AddonsInv, Installed
             PROVE  AddonsInv'
  OBVIOUS
<1> USE DEF AddonsInv, Types, Installed, Same, At, files, call
<1>1. FilesType' /\ SureIsGood'
  BY FilesStep DEF FilesType, tables
<1>2. CallType' /\ BudgetType' /\ TempInv'
  BY DEF CallType, BudgetType, TempInv
<1>3. WorkerInv'
  BY DEF WorkerInv, slot, AfterInstall
<1>4. Placed' /\ Unsure'
  BY DEF Placed, Unsure, slot, Shared, AfterInstall, WorkerInv
<1> QED BY <1>1, <1>2, <1>3, <1>4, CallStep

LEMMA DeleteKeepsInv == AddonsInv /\ Delete => AddonsInv'
<1> SUFFICES ASSUME AddonsInv, Delete
             PROVE  AddonsInv'
  OBVIOUS
<1> USE DEF AddonsInv, Types, Delete, Same, At, call
<1>1. Own(job.old) /\ job.old \in FileName
  BY CallsOwn
<1>2. FilesType' /\ SureIsGood'
  <2>1. temp' \subseteq FileName /\ UNCHANGED <<tables, sure>> /\ SetDisk(Deleted)
    BY DEF FilesType
  <2> QED BY <1>1, <2>1, ChangeStep DEF Deleted
<1>3. CallType' /\ BudgetType' /\ TempInv'
  BY DEF CallType, BudgetType, TempInv
<1>4. WorkerInv' /\ Unsure'
  BY DEF WorkerInv, Unsure, slot
<1>5. Placed'
  <2>1. disk' = [disk EXCEPT ![job.old] = None]
    BY DEF SetDisk, Deleted
  <2>2. job.kind = "install" => disk'[NameOf[job.release]] = disk[NameOf[job.release]]
    BY <2>1, RunningJob, NameType DEF FilesType, WorkerInv
  <2> QED BY <2>2 DEF Placed, slot, Shared
<1> QED BY <1>2, <1>3, <1>4, <1>5, CallStep

-----------------------------------------------------------------------------
\* An error leaves no call behind, and the row's outcome to be written.
LEMMA FailsStep ==
  ASSUME AddonsInv, Fails, At("install") \/ At("remove"),
         FilesType', SureIsGood', BudgetType', TempInv'
  PROVE  AddonsInv'
<1> USE DEF AddonsInv, Types, Fails, Same, At
<1>1. CallType'
  BY DEF CallType
<1>2. WorkerInv'
  BY DEF WorkerInv, slot
<1>3. Placed' /\ Unsure'
  BY DEF Placed, Unsure, slot
<1> QED BY <1>1, <1>2, <1>3, CallStep

LEMMA InstallFailsKeepsInv == AddonsInv /\ InstallFails => AddonsInv'
<1> SUFFICES ASSUME AddonsInv, InstallFails
             PROVE  AddonsInv'
  OBVIOUS
<1>0. At("install") /\ Fails /\ now' = None /\ UNCHANGED <<tables, sure>>
  BY DEF InstallFails, Fails, Same
<1>1. CASE now = None /\ UNCHANGED files /\ (UNCHANGED budget \/ Spend("faults"))
  <2>1. FilesType' /\ SureIsGood'
    <3>1. temp' \subseteq FileName /\ UNCHANGED <<disk, stale, missed>>
      BY <1>1 DEF files, AddonsInv, Types, FilesType
    <3> QED BY <1>0, <3>1, NoChangeStep
  <2>2. BudgetType' /\ budget'["agent"] = budget["agent"]
    BY <1>1, SpendStep DEF AddonsInv, Types, BudgetType
  <2>3. TempInv'
    BY <1>0, <1>1, <2>2 DEF AddonsInv, TempInv, files
  <2> QED BY <1>0, <2>1, <2>2, <2>3, FailsStep
<1>2. CASE /\ now # None /\ Spend("faults") /\ temp' = CleanedTemp
           /\ \E d \in {disk, Dropped} : SetDisk(d)
  <2>1. temp' \subseteq FileName
    BY <1>2 DEF CleanedTemp, AddonsInv, Types, FilesType
  <2>2. Own(NameOf[now]) /\ NameOf[now] \in FileName
    BY <1>2, CallsOwn, NameType
  <2>3. FilesType' /\ SureIsGood'
    BY <1>0, <1>2, <2>1, <2>2, ChangeStep, NoChangeStep DEF Dropped
  <2>4. BudgetType' /\ budget'["agent"] = budget["agent"]
    BY <1>2, SpendStep DEF AddonsInv, Types
  <2>5. TempInv'
    BY <1>0, <1>2, <2>4 DEF AddonsInv, TempInv, CleanedTemp
  <2> QED BY <1>0, <2>3, <2>4, <2>5, FailsStep
<1> QED BY <1>1, <1>2 DEF InstallFails

LEMMA DeleteFailsKeepsInv == AddonsInv /\ DeleteFails => AddonsInv'
<1> SUFFICES ASSUME AddonsInv, DeleteFails
             PROVE  AddonsInv'
  OBVIOUS
<1>1. /\ At("remove") /\ Fails /\ Spend("faults") /\ UNCHANGED temp
      /\ \E d \in {disk, Deleted} : SetDisk(d)
  BY DEF DeleteFails
<1>2. now' = None /\ now = None /\ temp' \subseteq FileName /\ UNCHANGED <<tables, sure>>
  BY <1>1 DEF Fails, Same, At, AddonsInv, Types, WorkerInv, FilesType
<1>3. Own(job.old) /\ job.old \in FileName
  BY <1>1, CallsOwn DEF At
<1>4. FilesType' /\ SureIsGood'
  BY <1>1, <1>2, <1>3, ChangeStep, NoChangeStep DEF Deleted
<1>5. BudgetType' /\ budget'["agent"] = budget["agent"]
  BY <1>1, SpendStep DEF AddonsInv, Types
<1>6. TempInv'
  BY <1>1, <1>2, <1>5 DEF AddonsInv, TempInv
<1> QED BY <1>1, <1>4, <1>5, <1>6, FailsStep

\* After a crash of the agent a temporary file may stay.
LEMMA AgentCrashKeepsInv == AddonsInv /\ AgentCrash => AddonsInv'
<1> SUFFICES ASSUME AddonsInv, AgentCrash
             PROVE  AddonsInv'
  OBVIOUS
<1>1. At("install") /\ Fails /\ Spend("agent") /\ UNCHANGED <<temp, tables, sure>>
  BY DEF AgentCrash, Fails, Same
<1>2. temp' \subseteq FileName
  BY <1>1 DEF AddonsInv, Types, FilesType
<1>3. FilesType' /\ SureIsGood'
  <2>1. CASE now = None
    BY <1>1, <1>2, <2>1, NoChangeStep DEF AgentCrash
  <2>2. CASE now # None
    <3>1. Own(NameOf[now]) /\ NameOf[now] \in FileName
      BY <2>2, CallsOwn, NameType
    <3> QED BY <1>1, <1>2, <2>2, <3>1, ChangeStep, NoChangeStep DEF AgentCrash, Dropped
  <2> QED BY <2>1, <2>2
<1>4. BudgetType' /\ budget'["agent"] # MaxAgentCrashes
  BY <1>1, AddonsAssumption DEF Spend, AddonsInv, Types, BudgetType, Budget
<1>5. TempInv'
  BY <1>4 DEF TempInv
<1> QED BY <1>1, <1>3, <1>4, <1>5, FailsStep

\* A call without its caller ends without a temporary file.
LEMMA AbandonedStep ==
  ASSUME AddonsInv, Abandoned, UNCHANGED <<tables, sure>>, now' = None,
         budget'["agent"] = budget["agent"]
  PROVE  FilesType' /\ SureIsGood' /\ TempInv'
<1>1. CASE now # None /\ temp' = CleanedTemp /\ \E d \in {disk, Swapped} : SetDisk(d)
  <2>1. temp' \subseteq FileName
    BY <1>1 DEF CleanedTemp, AddonsInv, Types, FilesType
  <2>2. Own(NameOf[now]) /\ NameOf[now] \in FileName /\ now \in Release
    BY <1>1, CallsOwn, NameType
  <2>3. FilesType' /\ SureIsGood'
    BY <1>1, <2>1, <2>2, ChangeStep, NoChangeStep DEF Swapped
  <2> QED BY <1>1, <2>3 DEF AddonsInv, TempInv, CleanedTemp
<1>2. CASE pc = "remove" /\ SetDisk(Deleted) /\ UNCHANGED temp
  <2>1. temp' \subseteq FileName /\ now = None
    BY <1>2 DEF AddonsInv, Types, FilesType, WorkerInv
  <2>2. FilesType' /\ SureIsGood'
    BY <1>2, <2>1, CallsOwn, ChangeStep DEF Deleted
  <2> QED BY <1>2, <2>1, <2>2 DEF AddonsInv, TempInv
<1>3. CASE now = None /\ UNCHANGED files
  <2>1. temp' \subseteq FileName /\ UNCHANGED <<disk, stale, missed, temp>>
    BY <1>3 DEF files, AddonsInv, Types, FilesType
  <2> QED BY <1>3, <2>1, NoChangeStep DEF AddonsInv, TempInv
<1> QED BY <1>1, <1>2, <1>3 DEF Abandoned

LEMMA DeadlineKeepsInv == AddonsInv /\ Deadline => AddonsInv'
<1> SUFFICES ASSUME AddonsInv, Deadline
             PROVE  AddonsInv'
  OBVIOUS
<1> USE DEF AddonsInv, Types, Deadline, Same
<1>1. BudgetType' /\ budget'["agent"] = budget["agent"]
  BY SpendStep
<1>2. FilesType' /\ SureIsGood' /\ TempInv'
  <2> HIDE DEF AddonsInv, Types
  <2> QED BY <1>1, AbandonedStep
<1>3. CallType'
  BY DEF CallType
<1>4. WorkerInv'
  BY DEF WorkerInv, slot
<1>5. Placed' /\ Unsure'
  BY DEF Placed, Unsure
<1> QED BY <1>1, <1>2, <1>3, <1>4, <1>5, CallStep

LEMMA CrashKeepsInv == AddonsInv /\ Crash => AddonsInv'
<1> SUFFICES ASSUME AddonsInv, Crash
             PROVE  AddonsInv'
  OBVIOUS
<1> USE DEF AddonsInv, Types, Crash
<1>1. BudgetType' /\ budget'["agent"] = budget["agent"]
  BY SpendStep
<1>2. FilesType' /\ SureIsGood' /\ TempInv'
  <2> HIDE DEF AddonsInv, Types
  <2> QED BY <1>1, AbandonedStep
<1>3. CallType' /\ WorkerInv' /\ Placed' /\ Unsure'
  BY DEF CallType, WorkerInv, Placed, Unsure
<1>4. RowType' /\ SlotType' /\ JobType' /\ NamesApart' /\ JobsRow'
  BY DEF tables, slot, RowType, SlotType, JobType, NamesApart, JobsRow
<1> QED BY <1>1, <1>2, <1>3, <1>4

-----------------------------------------------------------------------------
\* An attempt begins: its add-on is not vouched for any more.
LEMMA ClaimKeepsInv == AddonsInv /\ Claim => AddonsInv'
<1> SUFFICES ASSUME AddonsInv, Claim
             PROVE  AddonsInv'
  OBVIOUS
<1> USE DEF AddonsInv, Types, Claim, tables, files
<1>1. job \in Install \cup Removal /\ pc = "idle" /\ now = None /\ phase' = "running"
  BY DEF JobType, WorkerInv
<1>2. BudgetType' /\ budget'["agent"] = budget["agent"]
  <2>1. CASE UNCHANGED budget
    BY <2>1 DEF BudgetType
  <2>2. CASE Spend("faults")
    BY <2>2, SpendStep
  <2> QED BY <2>1, <2>2
<1>3. RowType' /\ FilesType' /\ NamesApart'
  BY DEF RowType, FilesType, NamesApart
<1>4. SlotType' /\ JobType' /\ JobsRow'
  BY <1>1, AddonsAssumption DEF SlotType, JobType, JobsRow
<1>5. todo' \subseteq (IF pc' = "install" THEN {job.release} \cup Followed(job.release) ELSE {})
      /\ todo' \subseteq Release
  BY <1>1, FollowedType DEF Resolved, Install, Removal
<1>6. CallType'
  BY <1>5 DEF CallType
<1>7. WorkerInv'
  BY <1>1, <1>5, AddonsAssumption DEF WorkerInv, Install, Removal
<1>8. TempInv' /\ Unsure'
  BY <1>1, <1>2 DEF TempInv, Unsure
<1>9. Placed'
  BY <1>1 DEF Placed, Install, Removal, Resolved
<1>10. SureIsGood'
  BY DEF SureIsGood, Good
<1> QED BY <1>2, <1>3, <1>4, <1>6, <1>7, <1>8, <1>9, <1>10

\* The outcome: an installation that has succeeded is in its place, and the
\* panel asks for the restart.
LEMMA RecordKeepsInv == AddonsInv /\ Record => AddonsInv'
<1> SUFFICES ASSUME AddonsInv, Record
             PROVE  AddonsInv'
  OBVIOUS
<1> USE DEF AddonsInv, Types, Record, At, files, slot, call
<1>1. FilesType' /\ SlotType' /\ JobType' /\ WorkerInv' /\ Placed' /\ Unsure'
  <2>1. FilesType' /\ SlotType' /\ JobType'
    BY DEF FilesType, SlotType, JobType
  <2>2. WorkerInv' /\ Placed' /\ Unsure'
    BY DEF WorkerInv, Placed, Unsure
  <2> QED BY <2>1, <2>2
<1>2. job.addon \in Addon /\ job.kind \in {"install", "remove"}
  BY RunningJob
<1>3. CASE Spend("faults") /\ UNCHANGED <<tables, sure>>
  <2>1. BudgetType' /\ budget'["agent"] = budget["agent"]
    BY <1>3, SpendStep
  <2>2. CallType' /\ TempInv'
    BY <1>3, <2>1 DEF CallType, TempInv
  <2>3. RowType' /\ NamesApart' /\ JobsRow' /\ SureIsGood'
    BY <1>3 DEF tables, RowType, NamesApart, JobsRow, SureIsGood, Good
  <2> QED BY <1>1, <2>1, <2>2, <2>3
<1>4. CASE RecordOutcome /\ sure' = sure \cup {job.addon} /\ UNCHANGED budget
  <2> DEFINE a == job.addon
  <2>0. row \in [Addon -> {NoRow} \cup [release : Release,
                                        status : {"installing", "installed", "failed"}]]
        /\ restart \in BOOLEAN /\ failed \in BOOLEAN
    BY DEF RowType, CallType
  <2>1. \A b \in Addon \ {a} : row'[b] = row[b]
    BY <1>4, <2>0 DEF RecordOutcome
  <2>2. row'[a] = IF row[a] = NoRow THEN NoRow
                  ELSE IF failed THEN [row[a] EXCEPT !.status = "failed"]
                  ELSE IF job.kind = "remove" THEN NoRow
                  ELSE [row[a] EXCEPT !.status = "installed"]
    BY <1>2, <1>4, <2>0 DEF RecordOutcome
  <2>3. /\ row'[a] # NoRow => row[a] # NoRow /\ row'[a].release = row[a].release
        /\ row'[a] \in {NoRow} \cup [release : Release,
                                     status : {"installing", "installed", "failed"}]
        /\ row[a] # NoRow /\ job.kind = "install" => row'[a] # NoRow
        /\ row'[a].status = "installed" => row[a] # NoRow /\ ~failed /\ job.kind = "install"
    <3>1. CASE row[a] = NoRow
      BY <2>2, <3>1 DEF NoRow
    <3>2. CASE row[a] # NoRow
      <4>1. row[a] \in [release : Release, status : {"installing", "installed", "failed"}]
        BY <1>2, <2>0, <3>2
      <4>2. row[a].release # None
        BY <4>1, AddonsAssumption
      <4> QED BY <1>2, <2>2, <3>2, <4>1, <4>2 DEF NoRow
    <3> QED BY <3>1, <3>2
  <2>4. row' = [row EXCEPT ![a] = row'[a]]
    BY <1>2, <1>4, <2>0, <2>2 DEF RecordOutcome
  <2>5. RowType'
    <3>1. restart' \in BOOLEAN
      BY <1>4, <2>0 DEF RecordOutcome
    <3> QED BY <1>2, <2>0, <2>3, <2>4, <3>1 DEF RowType
  <2>6. CallType' /\ BudgetType' /\ TempInv'
    BY <1>2, <1>4 DEF CallType, BudgetType, TempInv
  <2>7. NamesApart'
    BY <1>2, <2>1, <2>3 DEF NamesApart
  <2>8. JobsRow'
    BY <1>2, <2>1, <2>3 DEF JobsRow
  <2>9. SureIsGood'
    <3>1. ASSUME NEW b \in sure, b # a
          PROVE  Good(b)'
      <4>1. row'[b] = row[b] /\ Good(b) /\ (restart => restart')
        BY <1>4, <2>1, <3>1 DEF CallType, SureIsGood, RecordOutcome
      <4> QED BY <4>1 DEF Good, Shared
    <3>2. Good(a)'
      <4> SUFFICES ASSUME row'[a].status = "installed", ~Shared(NameOf[row'[a].release])
                   PROVE  disk[NameOf[row'[a].release]] = row'[a].release /\ restart'
        BY DEF Good, Shared
      <4>1. row[a] # NoRow /\ ~failed /\ job.kind = "install"
        BY <2>3
      <4>2. row'[a].release = job.release
        BY <1>2, <2>3, <4>1 DEF JobsRow
      <4>3. disk[NameOf[job.release]] = job.release
        BY <4>1, <4>2 DEF Placed, WorkerInv
      <4> QED BY <1>4, <4>1, <4>2, <4>3 DEF RecordOutcome
    <3>3. \A b \in sure' : Good(b)'
      BY <1>4, <3>1, <3>2
    <3> QED BY <3>3 DEF SureIsGood
  <2> QED BY <1>1, <2>5, <2>6, <2>7, <2>8, <2>9
<1> QED BY <1>3, <1>4

-----------------------------------------------------------------------------
LEMMA FinishKeepsInv == AddonsInv /\ Finish => AddonsInv'
<1> SUFFICES ASSUME AddonsInv, Finish
             PROVE  AddonsInv'
  OBVIOUS
<1> USE DEF AddonsInv, Types, Finish, Free, At, tables, files, call
<1>1. RowType' /\ FilesType' /\ NamesApart' /\ BudgetType' /\ TempInv'
  BY DEF RowType, FilesType, NamesApart, BudgetType, TempInv
<1>2. SlotType' /\ JobType' /\ JobsRow' /\ CallType'
  <2>1. SlotType'
    BY AddonsAssumption DEF SlotType
  <2>2. JobType' /\ JobsRow'
    BY DEF JobType, JobsRow
  <2>3. CallType'
    BY DEF CallType
  <2> QED BY <2>1, <2>2, <2>3
<1>3. WorkerInv' /\ Placed' /\ Unsure'
  BY DEF WorkerInv, Placed, Unsure
<1>4. SureIsGood'
  BY DEF SureIsGood, Good, Shared
<1> QED BY <1>1, <1>2, <1>3, <1>4

LEMMA RecoverKeepsInv == AddonsInv /\ Recover => AddonsInv'
<1> SUFFICES ASSUME AddonsInv, Recover
             PROVE  AddonsInv'
  OBVIOUS
<1> USE DEF AddonsInv, Types, Recover, tables, files, call
<1>0. pc = "idle" /\ tries \in Nat /\ MaxAttempts \in Nat
  BY AddonsAssumption DEF WorkerInv, SlotType
<1>1. RowType' /\ FilesType' /\ NamesApart' /\ BudgetType' /\ TempInv' /\ CallType'
  BY DEF RowType, FilesType, NamesApart, BudgetType, TempInv, CallType
<1>2. WorkerInv' /\ Placed' /\ Unsure'
  BY <1>0 DEF WorkerInv, Placed, Unsure
<1>3. SureIsGood'
  BY DEF SureIsGood, Good, Shared
<1>4. SlotType' /\ JobType' /\ JobsRow'
  <2>1. CASE phase = "running" /\ GivenUp
    BY <2>1, AddonsAssumption DEF Free, SlotType, JobType, JobsRow
  <2>2. CASE phase = "running" /\ ~GivenUp
    BY <1>0, <2>2 DEF GivenUp, SlotType, JobType, JobsRow
  <2>3. CASE phase # "running"
    BY <2>3 DEF SlotType, JobType, JobsRow
  <2> QED BY <2>1, <2>2, <2>3
<1> QED BY <1>1, <1>2, <1>3, <1>4

\* The game loads every file; a start clears the request for a restart, of
\* which every changed name is told; or nothing at all happens.
LEMMA LoadedKeepsInv ==
  ASSUME AddonsInv, UNCHANGED <<row, disk, temp, slot, pc, call, failed, up, sure, budget>>,
         restart' \in BOOLEAN,
         \/ stale' = {} /\ missed' = {}
         \/ UNCHANGED stale /\ missed' = IF restart THEN stale ELSE missed
         \/ UNCHANGED <<stale, missed, restart>>
  PROVE  AddonsInv'
<1> USE DEF AddonsInv, Types, slot, call
<1>1. RowType' /\ FilesType' /\ NamesApart' /\ BudgetType' /\ TempInv' /\ CallType'
  BY DEF RowType, FilesType, NamesApart, BudgetType, TempInv, CallType
<1>2. WorkerInv' /\ Placed' /\ Unsure'
  BY DEF WorkerInv, Placed, Unsure, Shared
<1>3. SureIsGood'
  BY DEF SureIsGood, Good, Shared
<1>4. SlotType' /\ JobType' /\ JobsRow'
  BY DEF SlotType, JobType, JobsRow
<1> QED BY <1>1, <1>2, <1>3, <1>4

LEMMA NextAddonsInv == AddonsInv /\ [Next]_vars => AddonsInv'
<1> SUFFICES ASSUME AddonsInv, [Next]_vars
             PROVE  AddonsInv'
  OBVIOUS
<1>1. ASSUME NEW a \in Addon, Remove(a) \/ \E r \in Release : Create(a, r) \/ Update(a, r)
      PROVE  AddonsInv'
  BY <1>1, RequestKeepsInv
<1>2. CASE Claim
  BY <1>2, ClaimKeepsInv
<1>3. CASE Open
  BY <1>3, OpenKeepsInv
<1>4. CASE Place
  BY <1>4, PlaceKeepsInv
<1>5. CASE Installed
  BY <1>5, InstalledKeepsInv
<1>6. CASE InstallFails
  BY <1>6, InstallFailsKeepsInv
<1>7. CASE Delete
  BY <1>7, DeleteKeepsInv
<1>8. CASE DeleteFails
  BY <1>8, DeleteFailsKeepsInv
<1>9. CASE Record
  BY <1>9, RecordKeepsInv
<1>10. CASE Finish
  BY <1>10, FinishKeepsInv
<1>11. CASE Deadline
  BY <1>11, DeadlineKeepsInv
<1>12. CASE Crash
  BY <1>12, CrashKeepsInv
<1>13. CASE Recover
  BY <1>13, RecoverKeepsInv
<1>14. CASE AgentCrash
  BY <1>14, AgentCrashKeepsInv
<1>0. restart \in BOOLEAN
  BY DEF AddonsInv, Types, RowType
<1>15. CASE Start
  BY <1>15, LoadedKeepsInv DEF Start, Restart, StartOfRunning, Load
<1>16. CASE GameRestarts
  BY <1>0, <1>16, LoadedKeepsInv DEF GameRestarts, Load
<1>17. CASE UNCHANGED vars
  BY <1>0, <1>17, LoadedKeepsInv DEF vars, slot, call
<1> QED BY <1>1, <1>2, <1>3, <1>4, <1>5, <1>6, <1>7, <1>8, <1>9, <1>10, <1>11, <1>12,
           <1>13, <1>14, <1>15, <1>16, <1>17 DEF Next

-----------------------------------------------------------------------------
\* Whatever is requested, fails or crashes: rows, job and files stay in step.
THEOREM AddonsInvariant == Spec => []AddonsInv
<1>1. Init => AddonsInv
  BY InitAddonsInv
<1>2. AddonsInv /\ [Next]_vars => AddonsInv'
  BY NextAddonsInv
<1> QED BY <1>1, <1>2, PTL DEF Spec

\* Every variable has its type; no add-on job has more attempts than recoverJobs allows.
THEOREM AddonsTypeCorrect == Spec => []TypeOK
  BY AddonsInvariant, AddonTypeParts, PTL

\* An add-on recorded as installed is in its place, and loaded or due to be
\* loaded, whatever jobs of other add-ons, failures and crashes have done since.
THEOREM InventoryHolds == Spec => []InventoryIsTrue
<1>1. AddonsInv => InventoryIsTrue
  <2> SUFFICES ASSUME AddonsInv, NEW a \in sure, row[a].status = "installed",
                      ~Shared(NameOf[row[a].release])
               PROVE  /\ disk[NameOf[row[a].release]] = row[a].release
                      /\ \/ NameOf[row[a].release] \notin stale \/ restart
                         \/ NameOf[row[a].release] \in missed
    BY DEF InventoryIsTrue
  <2> QED BY DEF AddonsInv, SureIsGood, Good
<1> QED BY <1>1, AddonsInvariant, PTL

\* A temporary file outlives its call only when the agent has crashed.
THEOREM NothingLittered == Spec => []NoLitter
<1>1. AddonsInv => NoLitter
  <2>1. AddonsInv => budget["agent"] \in Nat /\ budget["agent"] <= MaxAgentCrashes
    BY DEF AddonsInv, Types, BudgetType, Budget
  <2> QED BY <2>1, AddonsAssumption DEF AddonsInv, TempInv, NoLitter
<1> QED BY <1>1, AddonsInvariant, PTL

-----------------------------------------------------------------------------
(***************************************************************************)
(* What is left on the disk.  A file that no row names is the old file of  *)
(* the job in the slot, until the job has removed it; that ends with the   *)
(* job unless the job fails or is given up, which takes a fault, a crash   *)
(* of the agent, or as many crashes as a job has attempts.                 *)
(***************************************************************************)
Counts == budget["faults"] <= MaxFaults /\ budget["crashes"] <= MaxCrashes
OldName ==
  phase # "free" /\ job.kind = "remove"
    => row[job.addon] = NoRow \/ NameOf[row[job.addon].release] = job.old
Removed == pc = "record" /\ ~failed => \A n \in FileName : Superseded(n) => disk[n] = None

Named(n) == \E a \in Addon : row[a] # NoRow /\ NameOf[row[a].release] = n
Kept(n) == Named(n) \/ (phase # "free" /\ pc # "finish" /\ n = job.old)
Attempts == tries <= MaxCrashes - budget["crashes"] + (IF phase = "running" /\ up THEN 1 ELSE 0)
Left ==
  Untroubled =>
    /\ ~failed
    /\ phase # "free" => Attempts
    /\ \A n \in FileName : disk[n] # None /\ ~Shared(n) => Kept(n)

Ledger == Counts /\ OldName /\ Removed /\ Left

LEMMA SpendLedger ==
  ASSUME BudgetType, Counts, NEW kind \in {"requests", "faults", "crashes", "agent"}, Spend(kind)
  PROVE  /\ Counts' /\ (Untroubled' => Untroubled)
         /\ kind \in {"faults", "agent"} => ~Untroubled'
         /\ budget'["crashes"] = budget["crashes"] - (IF kind = "crashes" THEN 1 ELSE 0)
<1> USE AddonsAssumption DEF BudgetType, Budget, Counts, Spend
<1>1. \A k \in {"requests", "faults", "crashes", "agent"} :
        /\ budget[k] \in Nat
        /\ budget'[k] = IF k = kind THEN budget[k] - 1 ELSE budget[k]
  OBVIOUS
<1>2. budget[kind] > 0
  OBVIOUS
<1>3. Counts'
  BY <1>1
<1>4. Untroubled' => Untroubled
  BY <1>1, <1>2 DEF Untroubled
<1>5. kind \in {"faults", "agent"} => ~Untroubled'
  BY <1>1, <1>2 DEF Untroubled
<1> QED BY <1>1, <1>3, <1>4, <1>5

\* A step that costs a fault, with the outcome still to be written or not.
LEMMA FaultKeepsLedger ==
  ASSUME AddonsInv, Ledger, NEW kind \in {"faults", "agent"}, Spend(kind),
         UNCHANGED <<row, job>>, phase' # "free" => phase # "free",
         pc' = "record" => failed'
  PROVE  Ledger'
<1>1. Counts' /\ ~Untroubled'
  BY SpendLedger DEF Ledger, AddonsInv, Types
<1>2. OldName' /\ Removed'
  BY DEF Ledger, OldName, Removed
<1> QED BY <1>1, <1>2 DEF Ledger, Left

\* Steps that change neither rows nor files: the only one that matters is the
\* end of an installation, which passes by the removal of an old file.
LEMMA QuietKeepsLedger ==
  ASSUME AddonsInv, Ledger, UNCHANGED <<row, disk, job, phase, tries, failed, up, budget>>,
         pc' = pc \/ (pc = "install" /\ pc' = AfterInstall)
  PROVE  Ledger'
<1> USE DEF Ledger
<1>1. Counts' /\ OldName'
  BY DEF Counts, OldName
<1>2. Removed'
  <2>1. CASE pc' = pc
    BY <2>1 DEF Removed, Superseded
  <2>2. CASE pc = "install" /\ pc' = AfterInstall
    <3>1. job.kind = "install" /\ None \notin FileName
      BY <2>2, AddonsAssumption DEF AddonsInv, Types, WorkerInv
    <3>2. pc' = "record" => \A n \in FileName : ~Superseded(n)'
      BY <2>2, <3>1 DEF AfterInstall, Superseded
    <3> QED BY <3>2 DEF Removed
  <2> QED BY <2>1, <2>2
<1>3. pc' = "finish" => pc = "finish"
  BY DEF AfterInstall
<1>4. Left'
  BY <1>3 DEF Left, Untroubled, Attempts, Kept, Named, Shared
<1> QED BY <1>1, <1>2, <1>4

\* What an installation puts into its place is named by its row, or shared.
LEMMA SwappedKept ==
  ASSUME AddonsInv, now # None
  PROVE  Shared(NameOf[now]) \/ Named(NameOf[now])
<1> USE DEF AddonsInv, Types
<1>1. pc = "install" /\ phase = "running" /\ now \in {job.release} \cup Followed(job.release)
      /\ job.kind = "install"
  BY DEF WorkerInv
<1>2. job.release \in Release /\ job.addon \in Addon
  BY <1>1, RunningJob
<1>3. CASE now = job.release
  <2>1. row[job.addon] # NoRow /\ row[job.addon].release = now
    BY <1>1, <1>3 DEF JobsRow
  <2> QED BY <1>2, <2>1 DEF Named
<1>4. CASE now \in Followed(job.release)
  BY <1>2, <1>4 DEF Shared
<1> QED BY <1>1, <1>3, <1>4

LEMMA PlaceKeepsLedger == AddonsInv /\ Ledger /\ Place => Ledger'
<1> SUFFICES ASSUME AddonsInv, Ledger, Place
             PROVE  Ledger'
  OBVIOUS
<1> USE DEF Ledger, Place, Same, At, tables, slot
<1>1. Counts' /\ OldName' /\ Removed'
  BY DEF Counts, OldName, Removed
<1>2. disk' = [disk EXCEPT ![NameOf[now]] = now] /\ disk \in [FileName -> Release \cup {None}]
  BY DEF SetDisk, Swapped, AddonsInv, Types, FilesType
<1>3. Shared(NameOf[now]) \/ Named(NameOf[now])
  BY SwappedKept
<1>4. Left'
  BY <1>2, <1>3 DEF Left, Untroubled, Attempts, Kept, Named, Shared
<1> QED BY <1>1, <1>4

LEMMA DeleteKeepsLedger == AddonsInv /\ Ledger /\ Delete => Ledger'
<1> SUFFICES ASSUME AddonsInv, Ledger, Delete
             PROVE  Ledger'
  OBVIOUS
<1> USE DEF Ledger, Delete, Same, At, tables, slot
<1>1. Counts' /\ OldName'
  BY DEF Counts, OldName
<1>2. disk' = [disk EXCEPT ![job.old] = None] /\ disk \in [FileName -> Release \cup {None}]
  BY DEF SetDisk, Deleted, AddonsInv, Types, FilesType
<1>3. Removed'
  BY <1>2 DEF Removed, Superseded
<1>4. Left'
  BY <1>2 DEF Left, Untroubled, Attempts, Kept, Named, Shared
<1> QED BY <1>1, <1>3, <1>4

\* The worker's calls that fail cost a fault; a temporary file in the way is
\* one that a crash of the agent has left.
LEMMA FailingKeepsLedger ==
  ASSUME AddonsInv, Ledger, InstallFails \/ DeleteFails \/ Deadline \/ AgentCrash
  PROVE  Ledger'
<1>1. UNCHANGED <<row, job, phase>> /\ (pc' = "record" => failed')
  BY DEF InstallFails, DeleteFails, Deadline, AgentCrash, Fails, Same, tables, slot
<1>2. CASE Spend("faults") \/ Spend("agent")
  BY <1>1, <1>2, FaultKeepsLedger
<1>3. CASE /\ now = None /\ \E r \in Upcoming : NameOf[r] \in temp
           /\ UNCHANGED <<files, budget>>
  <2>1. budget["agent"] # MaxAgentCrashes
    BY <1>3 DEF AddonsInv, TempInv
  <2>2. ~Untroubled' /\ Counts'
    BY <1>3, <2>1 DEF Untroubled, Counts, Ledger
  <2>3. OldName' /\ Removed'
    BY <1>1 DEF Ledger, OldName, Removed
  <2> QED BY <2>2, <2>3 DEF Ledger, Left
<1> QED BY <1>2, <1>3 DEF InstallFails, DeleteFails, Deadline, AgentCrash

LEMMA ClaimKeepsLedger == AddonsInv /\ Ledger /\ Claim => Ledger'
<1> SUFFICES ASSUME AddonsInv, Ledger, Claim
             PROVE  Ledger'
  OBVIOUS
<1> USE DEF Claim, tables, files
<1>1. CASE Spend("faults")
  <2>1. UNCHANGED <<row, job>> /\ phase # "free" /\ (pc' = "record" => failed')
    BY <1>1 DEF AddonsInv, Types, JobType, Install, Removal
  <2> QED BY <1>1, <2>1, FaultKeepsLedger
<1>2. CASE pc' = job.kind /\ failed' = FALSE /\ UNCHANGED budget
  <2>1. job.kind \in {"install", "remove"}
    BY DEF AddonsInv, Types, JobType, Install, Removal
  <2>2. Counts' /\ OldName' /\ Removed'
    BY <1>2, <2>1 DEF Ledger, Counts, OldName, Removed
  <2>3. Untroubled' => Attempts'
    <3>1. tries \in Nat /\ budget["crashes"] \in Nat /\ MaxCrashes \in Nat
      BY AddonsAssumption DEF AddonsInv, Types, SlotType, BudgetType, Budget
    <3> QED BY <1>2, <3>1 DEF Ledger, Left, Untroubled, Attempts
  <2>4. Left'
    BY <1>2, <2>1, <2>3 DEF Ledger, Left, Untroubled, Kept, Named, Shared
  <2> QED BY <2>2, <2>4 DEF Ledger
<1> QED BY <1>1, <1>2

\* The outcome is written: an old file is gone by now, unless it is the new one.
LEMMA RecordKeepsLedger == AddonsInv /\ Ledger /\ Record => Ledger'
<1> SUFFICES ASSUME AddonsInv, Ledger, Record
             PROVE  Ledger'
  OBVIOUS
<1> USE DEF Record, At, files, slot
<1>1. CASE Spend("faults") /\ UNCHANGED <<tables, sure>>
  <2>1. UNCHANGED <<row, job>> /\ phase' = phase /\ pc' = "finish"
    BY <1>1 DEF tables
  <2> QED BY <1>1, <2>1, FaultKeepsLedger
<1>2. CASE RecordOutcome /\ UNCHANGED budget
  <2> DEFINE a == job.addon
  <2>1. a \in Addon /\ job.kind \in {"install", "remove"}
    BY RunningJob
  <2>2. row \in [Addon -> {NoRow} \cup [release : Release,
                                        status : {"installing", "installed", "failed"}]]
        /\ failed \in BOOLEAN
    BY DEF AddonsInv, Types, RowType, CallType
  <2>3. \A b \in Addon \ {a} : row'[b] = row[b]
    BY <1>2, <2>2 DEF RecordOutcome
  <2>4. row'[a] = IF row[a] = NoRow THEN NoRow
                  ELSE IF failed THEN [row[a] EXCEPT !.status = "failed"]
                  ELSE IF job.kind = "remove" THEN NoRow
                  ELSE [row[a] EXCEPT !.status = "installed"]
    BY <1>2, <2>1, <2>2 DEF RecordOutcome
  <2>5. row'[a] = NoRow \/ (row[a] # NoRow /\ row'[a].release = row[a].release)
    BY <2>1, <2>2, <2>4 DEF NoRow
  <2>6. job.kind = "install" => row[a] # NoRow /\ row'[a] # NoRow /\ row[a].release = job.release
                                /\ row'[a].release = job.release
    <3>1. ASSUME job.kind = "install"
          PROVE  row[a] # NoRow /\ row[a].release = job.release /\ job.release \in Release
      BY <3>1, RunningJob DEF AddonsInv, JobsRow
    <3>2. ASSUME job.kind = "install"
          PROVE  row'[a].release = job.release
      BY <2>1, <2>2, <2>4, <3>1, <3>2
    <3> QED BY <3>1, <3>2, AddonsAssumption DEF NoRow
  <2>7. Counts' /\ OldName' /\ Removed'
    <3>1. OldName'
      BY <2>5 DEF Ledger, OldName
    <3> QED BY <1>2, <3>1 DEF Ledger, Counts, Removed
  <2>8. ASSUME Untroubled, NEW n \in FileName, disk[n] # None, ~Shared(n)
        PROVE  Named(n)'
    <3>1. ~failed /\ Kept(n)
      BY <2>8 DEF Ledger, Left
    <3>2. n = job.old => job.kind = "install" /\ n = NameOf[job.release]
      BY <2>1, <2>8, <3>1 DEF Ledger, Removed, Superseded
    <3>3. CASE n = job.old
      BY <2>1, <2>6, <3>2, <3>3 DEF Named
    <3>4. CASE n # job.old
      <4>1. PICK b \in Addon : row[b] # NoRow /\ NameOf[row[b].release] = n
        BY <3>1, <3>4 DEF Kept, Named
      <4>2. CASE b # a
        BY <2>3, <4>1, <4>2 DEF Named
      <4>3. CASE b = a
        <5>1. job.kind = "install"
          BY <2>1, <3>4, <4>1, <4>3 DEF Ledger, OldName
        <5> QED BY <2>1, <2>6, <4>1, <4>3, <5>1 DEF Named
      <4> QED BY <4>2, <4>3
    <3> QED BY <3>3, <3>4
  <2>9. Left'
    <3>1. Untroubled' => Untroubled
      BY <1>2 DEF Untroubled
    <3>2. Untroubled' => Attempts' /\ ~failed'
      BY <1>2, <3>1 DEF Ledger, Left, Attempts
    <3> QED BY <2>8, <3>1, <3>2 DEF Left, Kept, Shared
  <2> QED BY <2>7, <2>9 DEF Ledger
<1> QED BY <1>1, <1>2

\* A job that ends has no old file left; one that is given up has met as many
\* crashes as it had attempts.
LEMMA EndsKeepLedger == AddonsInv /\ Ledger /\ (Finish \/ Recover) => Ledger'
<1> SUFFICES ASSUME AddonsInv, Ledger, Finish \/ Recover
             PROVE  Ledger'
  OBVIOUS
<1> USE DEF Free, tables, files
<1>1. CASE Finish
  <2> USE <1>1 DEF Finish, At
  <2>1. Counts' /\ OldName' /\ Removed'
    BY DEF Ledger, Counts, OldName, Removed
  <2>2. Left'
    BY DEF Ledger, Left, Untroubled, Kept, Named, Shared
  <2> QED BY <2>1, <2>2 DEF Ledger
<1>2. CASE Recover
  <2> USE <1>2 DEF Recover
  <2>0. /\ pc = "idle" /\ tries \in Nat /\ MaxAttempts \in Nat /\ MaxCrashes \in Nat
        /\ budget["crashes"] \in Nat
    BY AddonsAssumption DEF AddonsInv, Types, WorkerInv, SlotType, BudgetType, Budget
  <2>1. CASE phase = "running" /\ GivenUp
    <3>1. Counts' /\ OldName' /\ Removed'
      BY <2>0, <2>1 DEF Ledger, Counts, OldName, Removed
    <3>2. ~Untroubled
      BY <2>0, <2>1 DEF Ledger, Left, Attempts, Untroubled, GivenUp
    <3> QED BY <3>1, <3>2 DEF Ledger, Left, Untroubled
  <2>2. CASE ~(phase = "running" /\ GivenUp)
    <3>1. phase' = (IF phase = "running" THEN "queued" ELSE phase) /\ UNCHANGED <<job, tries>>
      BY <2>2
    <3>2. (phase' = "free" <=> phase = "free") /\ phase' # "running"
      BY <3>1 DEF AddonsInv, Types, SlotType
    <3>3. Counts' /\ OldName' /\ Removed'
      BY <2>0, <3>1, <3>2 DEF Ledger, Counts, OldName, Removed
    <3>4. Untroubled' => Untroubled
      BY DEF Untroubled
    <3>5. Untroubled /\ phase # "free" => Attempts'
      BY <2>0, <3>1, <3>2 DEF Ledger, Left, Attempts
    <3>6. Left'
      BY <3>1, <3>2, <3>4, <3>5 DEF Ledger, Left, Kept, Named, Shared
    <3> QED BY <3>3, <3>6 DEF Ledger
  <2> QED BY <2>1, <2>2
<1> QED BY <1>1, <1>2

\* A crash: the file that has arrived may still be put in its place.
LEMMA CrashKeepsLedger == AddonsInv /\ Ledger /\ Crash => Ledger'
<1> SUFFICES ASSUME AddonsInv, Ledger, Crash
             PROVE  Ledger'
  OBVIOUS
<1> USE DEF Crash, tables, slot
<1>1. /\ Counts' /\ (Untroubled' => Untroubled) /\ budget'["crashes"] = budget["crashes"] - 1
      /\ budget["crashes"] \in Nat /\ tries \in Nat /\ MaxCrashes \in Nat
  BY SpendLedger, AddonsAssumption DEF AddonsInv, Types, SlotType, BudgetType, Budget, Ledger
<1>2. OldName' /\ Removed'
  BY DEF Ledger, OldName, Removed
<1>3. \A n \in FileName : disk'[n] = disk[n] \/ disk'[n] = None \/ Shared(n) \/ Named(n)
  <2>1. disk \in [FileName -> Release \cup {None}]
    BY DEF AddonsInv, Types, FilesType
  <2>2. CASE now # None /\ \E d \in {disk, Swapped} : SetDisk(d)
    BY <2>1, <2>2, SwappedKept DEF SetDisk, Swapped
  <2>3. CASE SetDisk(Deleted)
    BY <2>1, <2>3 DEF SetDisk, Deleted
  <2>4. CASE UNCHANGED files
    BY <2>4 DEF files
  <2> QED BY <2>2, <2>3, <2>4 DEF Abandoned
<1>4. Untroubled /\ phase # "free" => Attempts'
  BY <1>1 DEF Ledger, Left, Attempts
<1>5. \A n : Shared(n)' = Shared(n) /\ Named(n)' = Named(n)
  BY DEF Shared, Named
<1>6. \A n : Kept(n) => Kept(n)'
  BY <1>5 DEF Kept
<1>7. Left'
  <2>1. ASSUME Untroubled', NEW n \in FileName, disk'[n] # None, ~Shared(n)
        PROVE  Kept(n)'
    <3>1. disk[n] # None => Kept(n)
      BY <1>1, <2>1 DEF Ledger, Left
    <3>2. Named(n) => Kept(n)
      BY DEF Kept
    <3> QED BY <1>3, <1>6, <2>1, <3>1, <3>2
  <2> QED BY <1>1, <1>4, <1>5, <2>1 DEF Ledger, Left
<1> QED BY <1>1, <1>2, <1>7 DEF Ledger

\* An update leaves its old name to the job; other names keep their rows.
LEMMA RequestKeepsLedger ==
  ASSUME AddonsInv, Ledger, NEW a \in Addon,
         Remove(a) \/ \E r \in Release : Create(a, r) \/ Update(a, r)
  PROVE  Ledger'
<1>0. PICK j \in [kind : {"install", "remove"}, addon : {a}, release : Release \cup {None},
                  old : FileName \cup {None}] :
        /\ Submit(j)
        /\ \A b \in Addon \ {a} : row'[b] = row[b]
        /\ row[a] # NoRow => j.old = NameOf[row[a].release]
        /\ row'[a] = row[a] \/ j.kind = "install"
  <2>0. row \in [Addon -> {NoRow} \cup [release : Release,
                                        status : {"installing", "installed", "failed"}]]
    BY DEF AddonsInv, Types, RowType
  <2>1. row[a] # NoRow => NameOf[row[a].release] \in FileName
    BY <2>0, NameType
  <2>2. CASE Remove(a)
    BY <2>0, <2>1, <2>2 DEF Remove
  <2>3. ASSUME NEW r \in Release, Create(a, r) \/ Update(a, r)
        PROVE  \E old \in FileName \cup {None} :
                 /\ Submit([kind |-> "install", addon |-> a, release |-> r, old |-> old])
                 /\ row[a] # NoRow => old = NameOf[row[a].release]
                 /\ \A b \in Addon \ {a} : row'[b] = row[b]
    BY <2>0, <2>1, <2>3 DEF Create, Update
  <2>4. ASSUME NEW r \in Release, Create(a, r) \/ Update(a, r)
        PROVE  \E k \in [kind : {"install", "remove"}, addon : {a}, release : Release \cup {None},
                         old : FileName \cup {None}] :
                 /\ Submit(k) /\ (row[a] # NoRow => k.old = NameOf[row[a].release])
                 /\ (\A b \in Addon \ {a} : row'[b] = row[b]) /\ k.kind = "install"
    <3>1. PICK old \in FileName \cup {None} :
            /\ Submit([kind |-> "install", addon |-> a, release |-> r, old |-> old])
            /\ row[a] # NoRow => old = NameOf[row[a].release]
            /\ \A b \in Addon \ {a} : row'[b] = row[b]
      BY <2>3, <2>4
    <3> QED BY <3>1
  <2> QED BY <2>2, <2>4
<1> USE DEF Submit, files
<1>1. Counts' /\ (Untroubled' => Untroubled) /\ budget'["crashes"] = budget["crashes"]
      /\ budget["crashes"] \in Nat /\ MaxCrashes \in Nat
  BY <1>0, SpendLedger, AddonsAssumption DEF AddonsInv, Types, BudgetType, Budget, Ledger
<1>2. pc = "idle"
  BY <1>0 DEF AddonsInv, Types, WorkerInv
<1>3. OldName' /\ Removed'
  BY <1>0, <1>2 DEF OldName, Removed
<1>4. Untroubled' => Attempts'
  BY <1>0, <1>1 DEF Attempts, Counts
<1>5. \A n \in FileName : Named(n) => Kept(n)'
  BY <1>0, <1>2 DEF Named, Kept
<1>6. Left'
  BY <1>0, <1>1, <1>2, <1>4, <1>5 DEF Ledger, Left, Kept, Shared
<1> QED BY <1>1, <1>3, <1>6 DEF Ledger

LEMMA NextLedger == AddonsInv /\ Ledger /\ [Next]_vars => Ledger'
<1> SUFFICES ASSUME AddonsInv, Ledger, [Next]_vars
             PROVE  Ledger'
  OBVIOUS
<1>1. CASE \E a \in Addon : Remove(a) \/ \E r \in Release : Create(a, r) \/ Update(a, r)
  BY <1>1, RequestKeepsLedger
<1>2. CASE Open \/ Installed \/ Start \/ GameRestarts
  BY <1>2, QuietKeepsLedger DEF Open, Installed, Start, Restart, StartOfRunning,
                                GameRestarts, Load, Same, At, tables, slot, files
<1>3. CASE Claim \/ Place \/ Delete \/ Record \/ Finish \/ Recover \/ Crash
  BY <1>3, ClaimKeepsLedger, PlaceKeepsLedger, DeleteKeepsLedger, RecordKeepsLedger,
     EndsKeepLedger, CrashKeepsLedger
<1>4. CASE InstallFails \/ DeleteFails \/ Deadline \/ AgentCrash
  BY <1>4, FailingKeepsLedger
<1>5. CASE UNCHANGED vars
  BY <1>5, QuietKeepsLedger DEF vars
<1> QED BY <1>1, <1>2, <1>3, <1>4, <1>5 DEF Next

LEMMA InitLedger == Init => Ledger
  BY AddonsAssumption DEF Init, Ledger, Counts, OldName, Removed, Left

\* Interruptions alone leave no file behind that no row names: whatever is
\* left over has met a failed call, a crash of the agent, or a job given up.
THEOREM NothingLeftOver == Spec => []NothingIsLeftOver
<1>1. AddonsInv /\ Ledger => NothingIsLeftOver
  BY DEF NothingIsLeftOver, Ledger, Left, Kept, Named
<1> QED BY <1>1, InitLedger, NextLedger, AddonsInvariant, PTL DEF Spec

-----------------------------------------------------------------------------
(***************************************************************************)
(* What a job has done when it reports success.  Where a release and one   *)
(* of its requirements have the same file name, the second of the two      *)
(* replaces the first; no catalogue the code checks excludes that, so it   *)
(* is assumed.                                                             *)
(***************************************************************************)
NamesDiffer == \A r \in Release : \A p, q \in Resolved(r) : p # q => NameOf[p] # NameOf[q]

\* A file stays in its place until the old file is removed, at the end.
Whole ==
  /\ pc \in {"install", "remove"} /\ job.kind = "install" =>
       \A r \in Resolved(job.release) \ todo : disk[NameOf[r]] = r
  /\ pc = "record" /\ ~failed /\ job.kind = "install" =>
       \A r \in Resolved(job.release) : Superseded(NameOf[r]) \/ disk[NameOf[r]] = r

\* The release and its requirements, as the provider lists them, up to
\* MaxFiles files: they are what is installed.
LEMMA FirstOfRequires ==
  ASSUME NEW r \in Release, NEW i \in 0..MaxFiles - 1, i <= Len(Requires[r])
  PROVE  (<<r>> \o Requires[r])[i + 1] \in Resolved(r)
<1>1. Requires[r] \in Seq(Release) /\ MaxFiles \in Nat /\ i \in Nat
  BY AddonsAssumption
<1>2. CASE i = 0
  BY <1>1, <1>2 DEF Resolved
<1>3. CASE i # 0
  <2>1. i \in DOMAIN Requires[r] /\ i < MaxFiles
    BY <1>1, <1>3
  <2>2. (<<r>> \o Requires[r])[i + 1] = Requires[r][i]
    BY <1>1, <1>3
  <2> QED BY <2>1, <2>2 DEF Resolved, Followed
<1> QED BY <1>2, <1>3

LEMMA NextWhole ==
  ASSUME NamesDiffer, AddonsInv, Whole, [Next]_vars
  PROVE  Whole'
<1>0. /\ pc \in {"install", "remove"} /\ job.kind = "install" => job.release \in Release
      /\ disk \in [FileName -> Release \cup {None}]
  BY RunningJob DEF AddonsInv, Types, WorkerInv, FilesType
<1>1. CASE \/ \E a \in Addon : Remove(a) \/ \E r \in Release : Create(a, r) \/ Update(a, r)
           \/ Finish \/ Crash \/ Recover \/ Record \/ Start
  <2>0. phase = "free" \/ ~up => pc = "idle"
    BY DEF AddonsInv, Types, WorkerInv
  <2>1. CASE \/ \E a \in Addon : Remove(a) \/ \E r \in Release : Create(a, r) \/ Update(a, r)
             \/ Start \/ Recover
    <3>1. pc = "idle" /\ pc' = pc
      BY <2>0, <2>1 DEF Remove, Create, Update, Submit, Start, Restart, StartOfRunning, Load,
                        Recover
    <3> QED BY <3>1 DEF Whole
  <2>2. CASE Finish \/ Crash \/ Record
    BY <2>2 DEF Finish, Crash, Record, Whole
  <2> QED BY <1>1, <2>1, <2>2
<1>2. CASE InstallFails \/ DeleteFails \/ Deadline \/ AgentCrash
  BY <1>2 DEF Whole, InstallFails, DeleteFails, Deadline, AgentCrash, Fails
<1>3. CASE Claim
  <2>1. pc' \in {"install", "remove"} /\ job'.kind = "install" => todo' = Resolved(job'.release)
    BY <1>3 DEF Claim, AddonsInv, Types, JobType, Install, Removal
  <2>2. pc' = "record" => FALSE
    BY <1>3 DEF Claim, AddonsInv, Types, JobType, Install, Removal
  <2> QED BY <2>1, <2>2 DEF Whole
<1>4. CASE Open \/ GameRestarts \/ UNCHANGED vars
  <2>1. UNCHANGED <<pc, job, todo, disk, failed>>
    BY <1>4 DEF Open, GameRestarts, Load, Same, slot, call, vars
  <2> QED BY <2>1 DEF Whole, Superseded
<1>5. CASE Place
  <2>1. /\ pc = "install" /\ pc' = pc /\ job' = job /\ job.kind = "install"
        /\ todo' = todo \ {now} /\ now \in Resolved(job.release)
        /\ disk' = [disk EXCEPT ![NameOf[now]] = now]
    BY <1>5 DEF Place, At, Same, slot, SetDisk, Swapped, Resolved, AddonsInv, Types, WorkerInv
  <2>2. Resolved(job.release) \subseteq Release
    BY <1>0, <2>1, FollowedType DEF Resolved
  <2>3. ASSUME NEW r \in Resolved(job.release) \ todo'
        PROVE  disk'[NameOf[r]] = r
    <3>1. CASE r = now
      BY <1>0, <2>1, <2>2, <3>1, NameType
    <3>2. CASE r # now
      <4>1. disk[NameOf[r]] = r /\ NameOf[r] # NameOf[now]
        BY <1>0, <2>1, <2>3, <3>2 DEF Whole, NamesDiffer
      <4> QED BY <1>0, <2>1, <2>2, <4>1, NameType
    <3> QED BY <3>1, <3>2
  <2> QED BY <2>1, <2>3 DEF Whole
<1>6. CASE Installed
  <2>1. /\ pc = "install" /\ todo = {} /\ job.kind = "install" /\ pc' = AfterInstall
        /\ UNCHANGED <<job, todo, disk, failed>>
    BY <1>6 DEF Installed, At, Same, slot, files, call, AddonsInv, Types, WorkerInv
  <2> QED BY <2>1 DEF Whole
<1>7. CASE Delete
  <2>1. /\ pc = "remove" /\ pc' = "record" /\ job' = job /\ todo = {}
        /\ disk' = [disk EXCEPT ![job.old] = None]
        /\ job.kind = "install" => job.old # NameOf[job.release]
    BY <1>7 DEF Delete, At, Same, slot, SetDisk, Deleted, AddonsInv, Types, WorkerInv
  <2>2. ASSUME job.kind = "install", NEW r \in Resolved(job.release)
        PROVE  Superseded(NameOf[r]) \/ disk'[NameOf[r]] = r
    <3>1. disk[NameOf[r]] = r
      BY <2>1, <2>2 DEF Whole
    <3>2. CASE NameOf[r] = job.old
      BY <2>1, <3>2 DEF Superseded
    <3>3. CASE NameOf[r] # job.old
      <4>1. r \in Release
        BY <1>0, <2>1, <2>2, FollowedType DEF Resolved
      <4> QED BY <1>0, <2>1, <3>1, <3>3, <4>1, NameType
    <3> QED BY <3>2, <3>3
  <2> QED BY <2>1, <2>2 DEF Whole, Superseded
<1> QED BY <1>1, <1>2, <1>3, <1>4, <1>5, <1>6, <1>7 DEF Next

\* A job that reports success has every file of its release in place and the
\* superseded one removed, however often it was interrupted and repeated.
THEOREM SuccessesWhole == NamesDiffer => (Spec => []SuccessIsWhole)
<1> SUFFICES ASSUME NamesDiffer
             PROVE  Spec => []SuccessIsWhole
  OBVIOUS
<1>1. Init => Whole
  BY DEF Init, Whole
<1>2. AddonsInv /\ Whole /\ [Next]_vars => Whole'
  BY NextWhole
<1>3. AddonsInv /\ Ledger /\ Whole => SuccessIsWhole
  <2> SUFFICES ASSUME AddonsInv, Ledger, Whole, At("record"), ~failed
               PROVE  SuccessIsWhole
    BY DEF SuccessIsWhole
  <2>1. \A n \in FileName : Superseded(n) => disk[n] = None
    BY DEF At, Ledger, Removed
  <2>2. ASSUME job.kind = "install", NEW i \in 0..MaxFiles - 1,
               i <= Len(Requires[job.release])
        PROVE  (<<job.release>> \o Requires[job.release])[i + 1] \in Resolved(job.release)
    <3>1. job.release \in Release
      BY <2>2, RunningJob DEF At
    <3>2. QED
      BY <2>2, <3>1, FirstOfRequires
  <2>3. job.kind = "install" =>
          \A r \in Resolved(job.release) : Superseded(NameOf[r]) \/ disk[NameOf[r]] = r
    BY DEF At, Whole
  <2> QED BY <2>1, <2>2, <2>3 DEF SuccessIsWhole
<1> QED BY <1>1, <1>2, <1>3, InitLedger, NextLedger, AddonsInvariant, PTL DEF Spec
-----------------------------------------------------------------------------
\* A step that changes the slot is a step of JobSlot.
LEMMA SlotStep ==
  ASSUME AddonsInv, [Next]_vars
  PROVE  [Slot!Next]_<<phase, tries>>
<1> USE DEF slot, Same
<1>0. /\ tries \in 0..MaxAttempts /\ MaxAttempts \in Nat
      /\ phase = "queued" => tries < MaxAttempts
  <2>1. MaxAttempts \in Nat
    BY AddonsAssumption
  <2>2. Types
    BY DEF AddonsInv
  <2> QED BY <2>1, <2>2 DEF Types, SlotType
<1>1. ASSUME NEW a \in Addon, Remove(a) \/ \E r \in Release : Create(a, r) \/ Update(a, r)
      PROVE  Slot!Submit
  BY <1>1 DEF Remove, Create, Update, Submit, Slot!Submit
<1>2. CASE Claim
  BY <1>0, <1>2 DEF Claim, Slot!Next, Slot!Attempt
<1>3. CASE Finish
  BY <1>3 DEF Finish, Free, At, Slot!Next, Slot!Resolve
<1>4. CASE Recover
  <2>1. CASE phase = "running" /\ GivenUp
    BY <1>4, <2>1 DEF Recover, Free, Slot!Next, Slot!Resolve
  <2>2. CASE phase = "running" /\ ~GivenUp
    <3>1. tries < MaxAttempts
      BY <1>0, <2>2 DEF GivenUp
    <3> QED BY <1>4, <2>2, <3>1 DEF Recover, Slot!Next, Slot!Requeue
  <2>3. CASE phase # "running"
    BY <1>4, <2>3 DEF Recover
  <2> QED BY <2>1, <2>2, <2>3
<1>5. CASE Open \/ Place \/ Installed \/ InstallFails \/ Delete \/ DeleteFails \/ Record
  BY <1>5 DEF Open, Place, Installed, InstallFails, Delete, DeleteFails, Record, Fails
<1>6. CASE Deadline \/ Crash \/ AgentCrash \/ Start \/ GameRestarts \/ UNCHANGED vars
  BY <1>6 DEF Deadline, Crash, AgentCrash, Start, Restart, StartOfRunning, GameRestarts,
              Load, Fails, vars
<1> QED BY <1>1, <1>2, <1>3, <1>4, <1>5, <1>6 DEF Next, Slot!Next

\* The jobs of all add-ons of a server, with failures, deadlines and crashes,
\* implement its one slot.
THEOREM AddonsImplementSlot == Spec => ImplementsSlot
<1>1. Init => Slot!Init
  BY DEF Init, Slot!Init
<1>2. AddonsInv /\ [Next]_vars => [Slot!Next]_<<phase, tries>>
  BY SlotStep
<1> QED BY <1>1, <1>2, AddonsInvariant, PTL DEF Spec, ImplementsSlot
===============================================================================
