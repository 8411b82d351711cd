---------------------------- MODULE ModpackProofs ----------------------------
(***************************************************************************)
(* Proofs about ModpackInstall: types, the agreement of the two tables, and *)
(* that an uninterrupted attempt leaves the new server or the old one.      *)
(***************************************************************************)
EXTENDS ModpackInstall, TLAPS

Untouched == node.data = was.data /\ node.def = was.def
Safe == node.archive \in {was.data, None}
Wanted == pack = [file |-> target, status |-> "installing"]
Put == /\ pack = [file |-> target, status |-> "installed"]
       /\ node.def = target /\ node.data = was.data \cup {target}
Back == row.def = job.old /\ pack = OldPack
Again == AsBefore(node.data) /\ node.def \in {was.def, job.old}

\* Where the first attempt stands at each of its steps.
FirstAttempt ==
  /\ pc \in {"stop", "mark", "backup", "ready", "provision"} => Untouched
  /\ pc \in {"stop", "mark", "backup", "ready", "provision", "start", "wait", "finish"}
       => Wanted /\ ~failed
  /\ pc \in {"ready", "provision", "start", "wait", "restore"} => Safe
  /\ pc = "start" => /\ node.data = was.data /\ node.def = target
                     /\ node.game = "stopped"
  /\ pc \in {"wait", "finish"} => node.def = target /\ node.data = was.data \cup {target}
  /\ pc = "halt" => ~failed /\ Put
  /\ pc \in {"abandon", "rows"} => Untouched
  /\ pc \in {"rowsToo", "recreate", "restart"} => node.data = was.data
  /\ pc \in {"recreate", "restart", "rewait"} => Back
  /\ pc = "restart" => node.def \in {was.def, job.old}
  /\ pc = "rewait" => Again
  /\ pc \in {"abandon", "rows", "restore", "rowsToo", "recreate", "restart", "rewait"} => failed
  /\ pc = "end" => IF failed THEN Back /\ Again ELSE Put

Saga ==
  /\ phase = "queued" /\ tries = 0 => Untouched /\ pack.status = "installing"
  /\ phase = "running" /\ up /\ tries = 1 /\ undone => FirstAttempt

Frame ==
  /\ RowsAgree
  /\ job.old = job.pack.file
  /\ phase = "running" => tries > 0
  /\ phase = "queued" => tries < MaxAttempts
  /\ pc # "idle" => phase = "running" /\ up

\* The inductive invariant.
ModpackInv == TypeOK /\ Frame /\ Saga

-----------------------------------------------------------------------------
\* What a call may leave on the node is a node.
LEMMA StagesType ==
  ASSUME TypeOK, NEW at
  PROVE  /\ Possible(at) => Whole(at) \in Node
         /\ Stages(at) \subseteq Node
<1> USE DEF TypeOK, Node, Possible, Stopped, Removed, Created, Archived, Unpacked, Booted,
            Definition, Def
<1>1. ASSUME Possible(at)
      PROVE  Whole(at) \in Node
  <2>1. CASE at \in {"stop", "halt"}
    BY <2>1 DEF Whole
  <2>2. CASE at = "backup"
    BY <2>2 DEF Whole
  <2>3. CASE at \in {"provision", "recreate"}
    BY <2>3 DEF Whole
  <2>4. CASE at \in {"start", "restart"}
    BY <1>1, <2>4 DEF Whole
  <2>5. CASE at = "restore"
    BY <1>1, <2>5 DEF Whole
  <2>6. CASE at \notin {"stop", "halt", "backup", "provision", "recreate", "start", "restart",
                        "restore"}
    BY <2>6 DEF Whole
  <2> QED BY <2>1, <2>2, <2>3, <2>4, <2>5, <2>6
<1>2. {node, Stopped(node), Removed(node)} \subseteq Node
  OBVIOUS
<1> HIDE DEF Possible, Stopped, Removed, Created, Archived, Unpacked, Booted, Definition, Def, Node, TypeOK
<1> QED BY <1>1, <1>2, node \in Node DEF Stages, TypeOK

\* The initial state: an old server and no job.
LEMMA InitModpackInv == Init => ModpackInv
<1> SUFFICES ASSUME Init
             PROVE  ModpackInv
  OBVIOUS
<1> USE ModpackAssumption DEF Init, Def, NoPack
<1>1. TypeOK
  <2>1. node \in Node
    BY DEF Node
  <2>2. pack \in Pack /\ job \in [old : Def, pack : Pack, desired : Desired]
    BY DEF Pack, Desired
  <2>3. row \in [def : Def, desired : Desired] /\ was \in [def : Def \cup {None}, data : SUBSET Def]
    BY DEF Desired
  <2>4. budget \in Budget
    BY DEF Budget
  <2>5. /\ expired \in BOOLEAN /\ undone \in BOOLEAN /\ failed \in BOOLEAN /\ up \in BOOLEAN
        /\ lapsed \in BOOLEAN
    BY Zenon
  <2>6. /\ phase \in {"free", "queued", "running"} /\ tries \in 0..MaxAttempts
        /\ target \in Def /\ pc \in Step
        /\ bk \in {"none", "queued", "creating", "ready", "failed"}
    BY DEF Step
  <2> HIDE DEF Init, Def, NoPack
  <2> QED BY <2>1, <2>2, <2>3, <2>4, <2>5, <2>6 DEF TypeOK
<1>2. Frame /\ Saga
  BY DEF Frame, Saga, RowsAgree
<1> QED BY <1>1, <1>2 DEF ModpackInv

\* A budget that is spent is still one.
LEMMA SpendType ==
  ASSUME TypeOK,
         NEW kind \in {"requests", "faults", "crashes", "deadlines", "deletes"}, Spend(kind)
  PROVE  budget' \in Budget
BY DEF TypeOK, Spend, Budget

\* Steps of the environment, of the owner and of the queue.
LEMMA CrashKeepsInv == ModpackInv /\ Crash => ModpackInv'
<1> SUFFICES ASSUME ModpackInv, Crash
             PROVE  ModpackInv'
  OBVIOUS
<1> USE DEF ModpackInv, Crash, tables, slot
<1>1. node' \in Node
  BY StagesType DEF TypeOK
<1>2. TypeOK'
  BY <1>1, SpendType DEF TypeOK, Step
<1>3. Frame'
  BY DEF Frame, RowsAgree
<1>4. Saga'
  <2>1. CASE phase = "queued"
    BY <2>1 DEF Saga, Untouched
  <2>2. CASE phase # "queued"
    BY <2>2 DEF Saga
  <2> QED BY <2>1, <2>2
<1> QED BY <1>2, <1>3, <1>4

LEMMA RecoverKeepsInv == ModpackInv /\ Recover => ModpackInv'
<1> SUFFICES ASSUME ModpackInv, Recover
             PROVE  ModpackInv'
  OBVIOUS
<1> USE ModpackAssumption DEF ModpackInv, Recover, tables, attempt
<1>1. TypeOK'
  BY DEF TypeOK
<1>2. Frame'
  BY DEF Frame, RowsAgree, TypeOK
<1>3. Saga'
  BY DEF Saga, Frame, FirstAttempt, Untouched, TypeOK
<1> QED BY <1>1, <1>2, <1>3

LEMMA LapseKeepsInv == ModpackInv /\ Lapse => ModpackInv'
<1> SUFFICES ASSUME ModpackInv, Lapse
             PROVE  ModpackInv'
  OBVIOUS
<1> USE DEF ModpackInv, Lapse, slot, attempt
<1>1. TypeOK'
  BY DEF TypeOK, Desired
<1>2. Frame'
  BY DEF Frame, RowsAgree, TypeOK
<1>3. row'.def = row.def
  BY DEF TypeOK
<1>4. Saga'
  BY <1>3 DEF Saga, FirstAttempt, Untouched, Wanted, Safe, Put, Back, Again, AsBefore, OldPack
<1> QED BY <1>1, <1>2, <1>4

\* The game and the deletion of the backup leave the directory alone.
LEMMA NodeKeepsInv == ModpackInv /\ (DeleteBackup \/ GameReady \/ GameEnds \/ GameRestarts) => ModpackInv'
<1> SUFFICES ASSUME ModpackInv, DeleteBackup \/ GameReady \/ GameEnds \/ GameRestarts
             PROVE  ModpackInv'
  OBVIOUS
<1> USE DEF ModpackInv, tables, slot, attempt
<1>1. /\ UNCHANGED <<row, pack, lapsed, job, phase, tries, target, pc, expired, undone, failed, up, was>>
      /\ node'.data = node.data /\ node'.def = node.def
      /\ node'.archive \in {node.archive, None}
      /\ node.game = "stopped" => node'.game = "stopped"
  BY DEF DeleteBackup, GameReady, GameEnds, GameRestarts, TypeOK, Node
<1>2. node' \in Node
  BY DEF DeleteBackup, GameReady, GameEnds, GameRestarts, TypeOK, Node
<1>3. /\ bk' \in {"none", "queued", "creating", "ready", "failed"}
      /\ budget' \in Budget
  BY SpendType DEF DeleteBackup, GameReady, GameEnds, GameRestarts, TypeOK
<1>4. TypeOK'
  BY <1>1, <1>2, <1>3 DEF TypeOK
<1>5. Frame'
  BY <1>1 DEF Frame, RowsAgree
<1>6. Saga'
  BY <1>1 DEF Saga, FirstAttempt, Untouched, Wanted, Safe, Put, Back, Again, AsBefore, OldPack
<1> QED BY <1>4, <1>5, <1>6

LEMMA OperateKeepsInv ==
  ASSUME ModpackInv, NEW d \in Desired, Operate(d)
  PROVE  ModpackInv'
<1> USE DEF ModpackInv, Operate, slot, attempt
<1>1. node' \in Node
  BY DEF TypeOK, Node, Stopped, Booted
<1>2. TypeOK'
  BY <1>1 DEF TypeOK
<1>3. Frame'
  BY DEF Frame, RowsAgree, TypeOK
<1>4. Saga'
  BY DEF Saga
<1> QED BY <1>2, <1>3, <1>4

-----------------------------------------------------------------------------
\* A request remembers the definition it replaces.
LEMMA RequestKeepsInv ==
  ASSUME ModpackInv, NEW f \in File, Request(f)
  PROVE  ModpackInv'
<1> USE ModpackAssumption DEF ModpackInv, Request, attempt
<1>1. node' \in Node /\ node'.data = node.data /\ node'.def = node.def
  BY DEF TypeOK, Node
<1>2. pack' \in Pack /\ row' \in [def : Def, desired : Desired]
  BY DEF TypeOK, Pack, Def
<1>3. job' \in [old : Def, pack : Pack, desired : Desired]
  BY DEF TypeOK
<1>4. was' \in [def : Def \cup {None}, data : SUBSET Def]
  BY DEF TypeOK, Node
<1>5. TypeOK'
  BY <1>1, <1>2, <1>3, <1>4, SpendType DEF TypeOK
<1>6. Frame'
  BY DEF Frame, RowsAgree, TypeOK
<1>7. Saga'
  BY <1>1 DEF Saga, Untouched
<1> QED BY <1>5, <1>6, <1>7

\* The first attempt finds everything as the request left it.
LEMMA ClaimKeepsInv == ModpackInv /\ Claim => ModpackInv'
<1> SUFFICES ASSUME ModpackInv, Claim
             PROVE  ModpackInv'
  OBVIOUS
<1> USE ModpackAssumption DEF ModpackInv, Claim, tables
<1>1. target' \in Def
  BY DEF TypeOK, Pack, NoPack, Def
<1>2. TypeOK'
  <2>1. expired' \in BOOLEAN /\ undone' \in BOOLEAN /\ failed' \in BOOLEAN
    BY Zenon
  <2>2. tries' \in 0..MaxAttempts
    BY DEF TypeOK, Frame
  <2>3. pc' \in Step
    BY DEF Step
  <2> QED BY <1>1, <2>1, <2>2, <2>3 DEF TypeOK
<1>3. Frame'
  BY DEF Frame, RowsAgree, TypeOK
<1>4. ASSUME tries = 0
      PROVE  pc' = "stop" /\ Untouched' /\ Wanted' /\ ~failed'
  <2>1. pack.status = "installing" /\ Untouched
    BY <1>4 DEF Saga
  <2>2. pack = [file |-> pack.file, status |-> "installing"] /\ pack # NoPack
    BY <2>1 DEF TypeOK, Pack, NoPack
  <2> QED BY <2>1, <2>2 DEF Untouched, Wanted
<1>5. Saga'
  BY <1>4 DEF Saga, FirstAttempt, TypeOK
<1> QED BY <1>2, <1>3, <1>5

LEMMA EndKeepsInv == ModpackInv /\ End => ModpackInv'
<1> SUFFICES ASSUME ModpackInv, End
             PROVE  ModpackInv'
  OBVIOUS
<1> USE DEF ModpackInv, End, tables, At
<1>1. TypeOK'
  BY DEF TypeOK, Step
<1>2. Frame' /\ Saga'
  BY DEF Frame, RowsAgree, Saga
<1> QED BY <1>1, <1>2

-----------------------------------------------------------------------------
(* The steps of the worker: Succeed or Fail, and what becomes of the rows. *)

\* What an answered call has done to the node.
LEMMA WholeEffect ==
  ASSUME TypeOK, NEW at, Possible(at)
  PROVE  LET n == Whole(at) IN
         /\ at # "backup" => n.archive = node.archive
         /\ at = "backup" => n.archive = node.data
         /\ at \notin {"start", "restart", "restore"} => n.data = node.data
         /\ at \in {"start", "restart"} => n.data \in {node.data, node.data \cup {node.def}}
         /\ at = "start" /\ node.game = "stopped" => n.data = node.data \cup {node.def}
         /\ at = "restore" => n.data = node.archive
         /\ at \notin {"provision", "recreate"} => n.def = node.def
         /\ at = "provision" => n.def = target /\ n.game = "stopped"
         /\ at = "recreate" => n.def = job.old
<1> USE DEF TypeOK, Node, Stopped, Created, Archived, Unpacked, Booted
<1>1. CASE at \in {"stop", "halt"}
  BY <1>1 DEF Whole
<1>2. CASE at = "backup"
  BY <1>2 DEF Whole
<1>3. CASE at \in {"provision", "recreate"}
  BY <1>3 DEF Whole, Definition
<1>4. CASE at \in {"start", "restart"}
  BY <1>4 DEF Whole
<1>5. CASE at = "restore"
  BY <1>5 DEF Whole
<1>6. CASE at \notin {"stop", "halt", "backup", "provision", "recreate", "start", "restart",
                      "restore"}
  BY <1>6 DEF Whole
<1> QED BY <1>1, <1>2, <1>3, <1>4, <1>5, <1>6

\* What a call without an answer may have done.
LEMMA StagesEffect ==
  ASSUME TypeOK, NEW at, NEW n \in Stages(at)
  PROVE  /\ at # "backup" => n.archive = node.archive
         /\ at = "backup" => n.archive \in {node.archive, node.data}
         /\ at \notin {"start", "restart", "restore"} => n.data = node.data
         /\ at \in {"start", "restart"} => n.data \in {node.data, node.data \cup {node.def}}
         /\ at \notin {"provision", "recreate"} => n.def = node.def
<1>1. CASE n = node
  BY <1>1
<1>2. CASE Possible(at) /\ n = Whole(at)
  BY <1>2, WholeEffect
<1>3. CASE n = Stopped(node) \/ (at \in {"provision", "recreate"} /\ n = Removed(node))
  BY <1>3 DEF Stopped, Removed, TypeOK, Node
<1>4. n = node \/ (Possible(at) /\ n = Whole(at)) \/ n = Stopped(node)
      \/ (at \in {"provision", "recreate"} /\ n = Removed(node))
  BY DEF Stages
<1> QED BY <1>1, <1>2, <1>3, <1>4

\* The deadline and a fault are spent, too.
LEMMA TroubleType ==
  ASSUME TypeOK, Trouble
  PROVE  expired' \in BOOLEAN /\ budget' \in Budget
<1>1. CASE UNCHANGED <<expired, budget>>
  BY <1>1 DEF TypeOK
<1>2. CASE Spend("faults") /\ UNCHANGED expired
  BY <1>2, SpendType DEF TypeOK
<1>3. CASE Spend("deadlines") /\ expired' = TRUE
  BY <1>3, SpendType
<1> QED BY <1>1, <1>2, <1>3 DEF Trouble

\* The variables that a worker's step changes alike.
LEMMA StepBasics ==
  ASSUME TypeOK, NEW at, NEW next \in Step, Succeed(at, next) \/ Fail(at, next)
  PROVE  /\ At(at) /\ pc' = next /\ Same
         /\ node' \in Node /\ expired' \in BOOLEAN
         /\ budget' \in Budget
<1>1. node' \in Node
  BY StagesType DEF Succeed, Fail, TypeOK
<1>2. Trouble => expired' \in BOOLEAN /\ budget' \in Budget
  BY TroubleType
<1>3. /\ expired' \in BOOLEAN
      /\ budget' \in Budget
  BY <1>2 DEF Succeed, Fail, TypeOK
<1> QED BY <1>1, <1>3 DEF Succeed, Fail

Bk == {"none", "queued", "creating", "ready", "failed"}

\* The three things that become of the rows.
RowsStep ==
  \/ UNCHANGED <<row, pack>>
  \/ RollBackRows
  \/ pack.status = "installing" /\ pack' = [pack EXCEPT !.status = "installed"] /\ UNCHANGED row

\* Any step of the worker that is one of these keeps types and frame.
LEMMA WorkerKeepsFrame ==
  ASSUME TypeOK, Frame, NEW at \in Step \ {"idle"}, At(at), pc' \in Step, Same,
         node' \in Node, expired' \in BOOLEAN,
         budget' \in Budget,
         RowsStep, bk' \in Bk, undone' \in BOOLEAN, failed' \in BOOLEAN
  PROVE  TypeOK' /\ Frame'
<1>1. /\ row' \in [def : Def, desired : Desired] /\ pack' \in Pack
      /\ row'.def = pack'.file
  <2>1. CASE UNCHANGED <<row, pack>>
    BY <2>1 DEF TypeOK, Frame, RowsAgree
  <2>2. CASE RollBackRows
    BY <2>2 DEF RollBackRows, OldPack, TypeOK, Frame, Pack, NoPack
  <2>3. CASE pack.status = "installing" /\ pack' = [pack EXCEPT !.status = "installed"] /\ UNCHANGED row
    BY <2>3 DEF TypeOK, Frame, RowsAgree, Pack, NoPack
  <2> QED BY <2>1, <2>2, <2>3 DEF RowsStep
<1>2. TypeOK'
  BY <1>1 DEF TypeOK, Same, slot, Bk
<1>3. Frame'
  BY <1>1 DEF Frame, RowsAgree, Same, slot, At
<1> QED BY <1>2, <1>3

\* So an action is proved by what it does to the rows and to FirstAttempt.
LEMMA WorkerKeepsInv ==
  ASSUME ModpackInv, NEW at \in Step \ {"idle"}, NEW next \in Step \ {"idle"},
         Succeed(at, next) \/ Fail(at, next),
         RowsStep, bk' \in Bk, undone' \in BOOLEAN, failed' \in BOOLEAN,
         undone' => undone,
         tries = 1 /\ undone' /\ FirstAttempt => FirstAttempt'
  PROVE  ModpackInv'
<1>1. At(at) /\ pc' = next /\ Same
      /\ node' \in Node /\ expired' \in BOOLEAN
      /\ budget' \in Budget
  BY StepBasics DEF ModpackInv
<1>2. TypeOK' /\ Frame'
  BY <1>1, WorkerKeepsFrame DEF ModpackInv
<1>3. Saga'
  BY <1>1 DEF ModpackInv, Saga, Frame, Same, slot, At
<1> QED BY <1>2, <1>3 DEF ModpackInv

\* What FirstAttempt needs to know of a step.
LEMMA SucceedFacts ==
  ASSUME TypeOK, NEW at \in Step, NEW next \in Step, Succeed(at, next)
  PROVE  /\ pc = at /\ pc' = next /\ UNCHANGED <<job, target, was>>
         /\ at # "backup" => node'.archive = node.archive
         /\ at = "backup" => node'.archive = node.data
         /\ at \notin {"start", "restart", "restore"} => node'.data = node.data
         /\ at \in {"start", "restart"} => node'.data \in {node.data, node.data \cup {node.def}}
         /\ at = "start" /\ node.game = "stopped"
              => node'.data = node.data \cup {node.def}
         /\ at = "restore" => node'.data = node.archive /\ node.archive # None
         /\ at \notin {"provision", "recreate"} => node'.def = node.def
         /\ at = "provision" => node'.def = target /\ node'.game = "stopped"
         /\ at = "recreate" => node'.def = job.old
BY WholeEffect DEF Succeed, At, Same, slot, Possible

\* The same of a step that fails.
LEMMA FailFacts ==
  ASSUME TypeOK, NEW at \in Step, NEW next \in Step, Fail(at, next)
  PROVE  /\ pc = at /\ pc' = next /\ UNCHANGED <<job, target, was>>
         /\ at # "backup" => node'.archive = node.archive
         /\ at \notin {"start", "restart", "restore"} => node'.data = node.data
         /\ at \in {"start", "restart"} => node'.data \in {node.data, node.data \cup {node.def}}
         /\ at \notin {"provision", "recreate"} => node'.def = node.def
BY StagesEffect DEF Fail, At, Same, slot

\* Stopping touches neither the directory nor the container.
LEMMA StopKeepsInv == ModpackInv /\ Stop => ModpackInv'
<1> SUFFICES ASSUME ModpackInv, Stop
             PROVE  ModpackInv'
  OBVIOUS
<1> USE DEF RowsStep, Bk, Mark, Lost
<1>0. TypeOK /\ Frame
  BY DEF ModpackInv
<1>1. CASE Succeed("stop", "mark") /\ UNCHANGED <<row, pack, bk, undone, failed>>
  <2>1. tries = 1 /\ undone' /\ FirstAttempt => FirstAttempt'
    BY <1>0, <1>1, SucceedFacts DEF FirstAttempt, Untouched, Wanted, Safe, Put, Back, Again, AsBefore,
       OldPack, Step, RollBackRows, AfterRows
  <2>2. RowsStep /\ bk' \in Bk /\ undone' \in BOOLEAN /\ failed' \in BOOLEAN /\ (undone' => undone)
    BY <1>0, <1>1 DEF TypeOK
  <2> QED BY <1>1, <2>1, <2>2, WorkerKeepsInv DEF Step, AfterRows
<1>2. CASE Fail("stop", "abandon") /\ failed' = TRUE /\ UNCHANGED <<row, pack, bk, undone>>
  <2>1. tries = 1 /\ undone' /\ FirstAttempt => FirstAttempt'
    BY <1>0, <1>2, FailFacts DEF FirstAttempt, Untouched, Wanted, Safe, Put, Back, Again, AsBefore,
       OldPack, Step, RollBackRows, AfterRows
  <2>2. RowsStep /\ bk' \in Bk /\ undone' \in BOOLEAN /\ failed' \in BOOLEAN /\ (undone' => undone)
    BY <1>0, <1>2 DEF TypeOK
  <2> QED BY <1>2, <2>1, <2>2, WorkerKeepsInv DEF Step, AfterRows
<1> QED BY <1>1, <1>2 DEF Stop

\* Nothing but rows has changed so far.
LEMMA AbandonKeepsInv == ModpackInv /\ Abandon => ModpackInv'
<1> SUFFICES ASSUME ModpackInv, Abandon
             PROVE  ModpackInv'
  OBVIOUS
<1> USE DEF RowsStep, Bk, Mark, Lost
<1>0. TypeOK /\ Frame
  BY DEF ModpackInv
<1>1. CASE Succeed("abandon", "end") /\ RollBackRows /\ Mark("failed") /\ UNCHANGED <<undone, failed>>
  <2>1. tries = 1 /\ undone' /\ FirstAttempt => FirstAttempt'
    BY <1>0, <1>1, SucceedFacts DEF FirstAttempt, Untouched, Wanted, Safe, Put, Back, Again, AsBefore,
       OldPack, Step, RollBackRows, AfterRows
  <2>2. RowsStep /\ bk' \in Bk /\ undone' \in BOOLEAN /\ failed' \in BOOLEAN /\ (undone' => undone)
    BY <1>0, <1>1 DEF TypeOK
  <2> QED BY <1>1, <2>1, <2>2, WorkerKeepsInv DEF Step, AfterRows
<1>2. CASE Fail("abandon", "end") /\ undone' = FALSE /\ Lost(RollBackRows, UNCHANGED <<row, pack>>) /\ UNCHANGED <<bk, failed>>
  <2>1. tries = 1 /\ undone' /\ FirstAttempt => FirstAttempt'
    BY <1>0, <1>2, FailFacts DEF FirstAttempt, Untouched, Wanted, Safe, Put, Back, Again, AsBefore,
       OldPack, Step, RollBackRows, AfterRows
  <2>2. RowsStep /\ bk' \in Bk /\ undone' \in BOOLEAN /\ failed' \in BOOLEAN /\ (undone' => undone)
    BY <1>0, <1>2 DEF TypeOK
  <2> QED BY <1>2, <2>1, <2>2, WorkerKeepsInv DEF Step, AfterRows
<1> QED BY <1>1, <1>2 DEF Abandon

\* A failure here has nothing but rows to undo.
LEMMA MarkCreatingKeepsInv == ModpackInv /\ MarkCreating => ModpackInv'
<1> SUFFICES ASSUME ModpackInv, MarkCreating
             PROVE  ModpackInv'
  OBVIOUS
<1> USE DEF RowsStep, Bk, Mark, Lost
<1>0. TypeOK /\ Frame
  BY DEF ModpackInv
<1>1. CASE Succeed("mark", "backup") /\ Mark("creating") /\ UNCHANGED <<row, pack, undone, failed>>
  <2>1. tries = 1 /\ undone' /\ FirstAttempt => FirstAttempt'
    BY <1>0, <1>1, SucceedFacts DEF FirstAttempt, Untouched, Wanted, Safe, Put, Back, Again, AsBefore,
       OldPack, Step, RollBackRows, AfterRows
  <2>2. RowsStep /\ bk' \in Bk /\ undone' \in BOOLEAN /\ failed' \in BOOLEAN /\ (undone' => undone)
    BY <1>0, <1>1 DEF TypeOK
  <2> QED BY <1>1, <2>1, <2>2, WorkerKeepsInv DEF Step, AfterRows
<1>2. CASE Fail("mark", "rows") /\ failed' = TRUE /\ UNCHANGED <<row, pack, bk, undone>>
  <2>1. tries = 1 /\ undone' /\ FirstAttempt => FirstAttempt'
    BY <1>0, <1>2, FailFacts DEF FirstAttempt, Untouched, Wanted, Safe, Put, Back, Again, AsBefore,
       OldPack, Step, RollBackRows, AfterRows
  <2>2. RowsStep /\ bk' \in Bk /\ undone' \in BOOLEAN /\ failed' \in BOOLEAN /\ (undone' => undone)
    BY <1>0, <1>2 DEF TypeOK
  <2> QED BY <1>2, <2>1, <2>2, WorkerKeepsInv DEF Step, AfterRows
<1> QED BY <1>1, <1>2 DEF MarkCreating

\* The archive is the directory of the request.
LEMMA BackupKeepsInv == ModpackInv /\ Backup => ModpackInv'
<1> SUFFICES ASSUME ModpackInv, Backup
             PROVE  ModpackInv'
  OBVIOUS
<1> USE DEF RowsStep, Bk, Mark, Lost
<1>0. TypeOK /\ Frame
  BY DEF ModpackInv
<1>1. CASE Succeed("backup", "ready") /\ UNCHANGED <<row, pack, bk, undone, failed>>
  <2>1. tries = 1 /\ undone' /\ FirstAttempt => FirstAttempt'
    BY <1>0, <1>1, SucceedFacts DEF FirstAttempt, Untouched, Wanted, Safe, Put, Back, Again, AsBefore,
       OldPack, Step, RollBackRows, AfterRows
  <2>2. RowsStep /\ bk' \in Bk /\ undone' \in BOOLEAN /\ failed' \in BOOLEAN /\ (undone' => undone)
    BY <1>0, <1>1 DEF TypeOK
  <2> QED BY <1>1, <2>1, <2>2, WorkerKeepsInv DEF Step, AfterRows
<1>2. CASE Fail("backup", "rows") /\ failed' = TRUE /\ (IF expired' THEN UNCHANGED bk ELSE Mark("failed")) /\ UNCHANGED <<row, pack, undone>>
  <2>1. tries = 1 /\ undone' /\ FirstAttempt => FirstAttempt'
    BY <1>0, <1>2, FailFacts DEF FirstAttempt, Untouched, Wanted, Safe, Put, Back, Again, AsBefore,
       OldPack, Step, RollBackRows, AfterRows
  <2>2. RowsStep /\ bk' \in Bk /\ undone' \in BOOLEAN /\ failed' \in BOOLEAN /\ (undone' => undone)
    BY <1>0, <1>2 DEF TypeOK
  <2> QED BY <1>2, <2>1, <2>2, WorkerKeepsInv DEF Step, AfterRows
<1> QED BY <1>1, <1>2 DEF Backup

\* The archive is complete from here on.
LEMMA MarkReadyKeepsInv == ModpackInv /\ MarkReady => ModpackInv'
<1> SUFFICES ASSUME ModpackInv, MarkReady
             PROVE  ModpackInv'
  OBVIOUS
<1> USE DEF RowsStep, Bk, Mark, Lost
<1>0. TypeOK /\ Frame
  BY DEF ModpackInv
<1>1. CASE Succeed("ready", "provision") /\ Mark("ready") /\ UNCHANGED <<row, pack, undone, failed>>
  <2>1. tries = 1 /\ undone' /\ FirstAttempt => FirstAttempt'
    BY <1>0, <1>1, SucceedFacts DEF FirstAttempt, Untouched, Wanted, Safe, Put, Back, Again, AsBefore,
       OldPack, Step, RollBackRows, AfterRows
  <2>2. RowsStep /\ bk' \in Bk /\ undone' \in BOOLEAN /\ failed' \in BOOLEAN /\ (undone' => undone)
    BY <1>0, <1>1 DEF TypeOK
  <2> QED BY <1>1, <2>1, <2>2, WorkerKeepsInv DEF Step, AfterRows
<1>2. CASE Fail("ready", "rows") /\ failed' = TRUE /\ UNCHANGED <<row, pack, bk, undone>>
  <2>1. tries = 1 /\ undone' /\ FirstAttempt => FirstAttempt'
    BY <1>0, <1>2, FailFacts DEF FirstAttempt, Untouched, Wanted, Safe, Put, Back, Again, AsBefore,
       OldPack, Step, RollBackRows, AfterRows
  <2>2. RowsStep /\ bk' \in Bk /\ undone' \in BOOLEAN /\ failed' \in BOOLEAN /\ (undone' => undone)
    BY <1>0, <1>2 DEF TypeOK
  <2> QED BY <1>2, <2>1, <2>2, WorkerKeepsInv DEF Step, AfterRows
<1> QED BY <1>1, <1>2 DEF MarkReady

\* From here on the container is the target's, then the directory.
LEMMA ProvisionKeepsInv == ModpackInv /\ Provision => ModpackInv'
<1> SUFFICES ASSUME ModpackInv, Provision
             PROVE  ModpackInv'
  OBVIOUS
<1> USE DEF RowsStep, Bk, Mark, Lost
<1>0. TypeOK /\ Frame
  BY DEF ModpackInv
<1>1. CASE Succeed("provision", "start") /\ UNCHANGED <<row, pack, bk, undone, failed>>
  <2>1. tries = 1 /\ undone' /\ FirstAttempt => FirstAttempt'
    BY <1>0, <1>1, SucceedFacts DEF FirstAttempt, Untouched, Wanted, Safe, Put, Back, Again, AsBefore,
       OldPack, Step, RollBackRows, AfterRows
  <2>2. RowsStep /\ bk' \in Bk /\ undone' \in BOOLEAN /\ failed' \in BOOLEAN /\ (undone' => undone)
    BY <1>0, <1>1 DEF TypeOK
  <2> QED BY <1>1, <2>1, <2>2, WorkerKeepsInv DEF Step, AfterRows
<1>2. CASE Succeed("start", "wait") /\ UNCHANGED <<row, pack, bk, undone, failed>>
  <2>1. tries = 1 /\ undone' /\ FirstAttempt => FirstAttempt'
    BY <1>0, <1>2, SucceedFacts DEF FirstAttempt, Untouched, Wanted, Safe, Put, Back, Again, AsBefore,
       OldPack, Step, RollBackRows, AfterRows
  <2>2. RowsStep /\ bk' \in Bk /\ undone' \in BOOLEAN /\ failed' \in BOOLEAN /\ (undone' => undone)
    BY <1>0, <1>2 DEF TypeOK
  <2> QED BY <1>2, <2>1, <2>2, WorkerKeepsInv DEF Step, AfterRows
<1>3. CASE Fail("provision", "restore") /\ failed' = TRUE /\ UNCHANGED <<row, pack, bk, undone>>
  <2>1. tries = 1 /\ undone' /\ FirstAttempt => FirstAttempt'
    BY <1>0, <1>3, FailFacts DEF FirstAttempt, Untouched, Wanted, Safe, Put, Back, Again, AsBefore,
       OldPack, Step, RollBackRows, AfterRows
  <2>2. RowsStep /\ bk' \in Bk /\ undone' \in BOOLEAN /\ failed' \in BOOLEAN /\ (undone' => undone)
    BY <1>0, <1>3 DEF TypeOK
  <2> QED BY <1>3, <2>1, <2>2, WorkerKeepsInv DEF Step, AfterRows
<1>4. CASE Fail("start", "restore") /\ failed' = TRUE /\ UNCHANGED <<row, pack, bk, undone>>
  <2>1. tries = 1 /\ undone' /\ FirstAttempt => FirstAttempt'
    BY <1>0, <1>4, FailFacts DEF FirstAttempt, Untouched, Wanted, Safe, Put, Back, Again, AsBefore,
       OldPack, Step, RollBackRows, AfterRows
  <2>2. RowsStep /\ bk' \in Bk /\ undone' \in BOOLEAN /\ failed' \in BOOLEAN /\ (undone' => undone)
    BY <1>0, <1>4 DEF TypeOK
  <2> QED BY <1>4, <2>1, <2>2, WorkerKeepsInv DEF Step, AfterRows
<1> QED BY <1>1, <1>2, <1>3, <1>4 DEF Provision

\* The installation is complete, stopped or not.
LEMMA HaltKeepsInv == ModpackInv /\ Halt => ModpackInv'
<1> SUFFICES ASSUME ModpackInv, Halt
             PROVE  ModpackInv'
  OBVIOUS
<1> USE DEF RowsStep, Bk, Mark, Lost
<1>0. TypeOK /\ Frame
  BY DEF ModpackInv
<1>1. CASE Succeed("halt", "end") /\ UNCHANGED <<row, pack, bk, undone, failed>>
  <2>1. tries = 1 /\ undone' /\ FirstAttempt => FirstAttempt'
    BY <1>0, <1>1, SucceedFacts DEF FirstAttempt, Untouched, Wanted, Safe, Put, Back, Again, AsBefore,
       OldPack, Step, RollBackRows, AfterRows
  <2>2. RowsStep /\ bk' \in Bk /\ undone' \in BOOLEAN /\ failed' \in BOOLEAN /\ (undone' => undone)
    BY <1>0, <1>1 DEF TypeOK
  <2> QED BY <1>1, <2>1, <2>2, WorkerKeepsInv DEF Step, AfterRows
<1>2. CASE Fail("halt", "end") /\ UNCHANGED <<row, pack, bk, undone, failed>>
  <2>1. tries = 1 /\ undone' /\ FirstAttempt => FirstAttempt'
    BY <1>0, <1>2, FailFacts DEF FirstAttempt, Untouched, Wanted, Safe, Put, Back, Again, AsBefore,
       OldPack, Step, RollBackRows, AfterRows
  <2>2. RowsStep /\ bk' \in Bk /\ undone' \in BOOLEAN /\ failed' \in BOOLEAN /\ (undone' => undone)
    BY <1>0, <1>2 DEF TypeOK
  <2> QED BY <1>2, <2>1, <2>2, WorkerKeepsInv DEF Step, AfterRows
<1> QED BY <1>1, <1>2 DEF Halt

\* The directory comes from the archive, if that is still there.
LEMMA RestoreDataKeepsInv == ModpackInv /\ RestoreData => ModpackInv'
<1> SUFFICES ASSUME ModpackInv, RestoreData
             PROVE  ModpackInv'
  OBVIOUS
<1> USE DEF RowsStep, Bk, Mark, Lost
<1>0. TypeOK /\ Frame
  BY DEF ModpackInv
<1>1. CASE Succeed("restore", "rowsToo") /\ UNCHANGED <<row, pack, bk, undone, failed>>
  <2>1. tries = 1 /\ undone' /\ FirstAttempt => FirstAttempt'
    BY <1>0, <1>1, SucceedFacts DEF FirstAttempt, Untouched, Wanted, Safe, Put, Back, Again, AsBefore,
       OldPack, Step, RollBackRows, AfterRows
  <2>2. RowsStep /\ bk' \in Bk /\ undone' \in BOOLEAN /\ failed' \in BOOLEAN /\ (undone' => undone)
    BY <1>0, <1>1 DEF TypeOK
  <2> QED BY <1>1, <2>1, <2>2, WorkerKeepsInv DEF Step, AfterRows
<1>2. CASE Fail("restore", "rowsToo") /\ undone' = FALSE /\ UNCHANGED <<row, pack, bk, failed>>
  <2>1. tries = 1 /\ undone' /\ FirstAttempt => FirstAttempt'
    BY <1>0, <1>2, FailFacts DEF FirstAttempt, Untouched, Wanted, Safe, Put, Back, Again, AsBefore,
       OldPack, Step, RollBackRows, AfterRows
  <2>2. RowsStep /\ bk' \in Bk /\ undone' \in BOOLEAN /\ failed' \in BOOLEAN /\ (undone' => undone)
    BY <1>0, <1>2 DEF TypeOK
  <2> QED BY <1>2, <2>1, <2>2, WorkerKeepsInv DEF Step, AfterRows
<1> QED BY <1>1, <1>2 DEF RestoreData, Undo

\* The rows come from the payload.
LEMMA RestoreRowsKeepsInv == ModpackInv /\ RestoreRows => ModpackInv'
<1> SUFFICES ASSUME ModpackInv, RestoreRows
             PROVE  ModpackInv'
  OBVIOUS
<1> USE DEF RowsStep, Bk, Mark, Lost
<1>0. TypeOK /\ Frame
  BY DEF ModpackInv
<1>1. CASE Succeed("rows", AfterRows) /\ RollBackRows /\ UNCHANGED <<bk, undone, failed>>
  <2>1. tries = 1 /\ undone' /\ FirstAttempt => FirstAttempt'
    BY <1>0, <1>1, SucceedFacts DEF FirstAttempt, Untouched, Wanted, Safe, Put, Back, Again, AsBefore,
       OldPack, Step, RollBackRows, AfterRows
  <2>2. RowsStep /\ bk' \in Bk /\ undone' \in BOOLEAN /\ failed' \in BOOLEAN /\ (undone' => undone)
    BY <1>0, <1>1 DEF TypeOK
  <2> QED BY <1>1, <2>1, <2>2, WorkerKeepsInv DEF Step, AfterRows
<1>2. CASE Succeed("rowsToo", "recreate") /\ RollBackRows /\ UNCHANGED <<bk, undone, failed>>
  <2>1. tries = 1 /\ undone' /\ FirstAttempt => FirstAttempt'
    BY <1>0, <1>2, SucceedFacts DEF FirstAttempt, Untouched, Wanted, Safe, Put, Back, Again, AsBefore,
       OldPack, Step, RollBackRows, AfterRows
  <2>2. RowsStep /\ bk' \in Bk /\ undone' \in BOOLEAN /\ failed' \in BOOLEAN /\ (undone' => undone)
    BY <1>0, <1>2 DEF TypeOK
  <2> QED BY <1>2, <2>1, <2>2, WorkerKeepsInv DEF Step, AfterRows
<1>3. CASE Fail("rows", AfterRows) /\ undone' = FALSE /\ Lost(RollBackRows, UNCHANGED <<row, pack>>) /\ UNCHANGED <<bk, failed>>
  <2>1. tries = 1 /\ undone' /\ FirstAttempt => FirstAttempt'
    BY <1>0, <1>3, FailFacts DEF FirstAttempt, Untouched, Wanted, Safe, Put, Back, Again, AsBefore,
       OldPack, Step, RollBackRows, AfterRows
  <2>2. RowsStep /\ bk' \in Bk /\ undone' \in BOOLEAN /\ failed' \in BOOLEAN /\ (undone' => undone)
    BY <1>0, <1>3 DEF TypeOK
  <2> QED BY <1>3, <2>1, <2>2, WorkerKeepsInv DEF Step, AfterRows
<1>4. CASE Fail("rowsToo", "recreate") /\ undone' = FALSE /\ Lost(RollBackRows, UNCHANGED <<row, pack>>) /\ UNCHANGED <<bk, failed>>
  <2>1. tries = 1 /\ undone' /\ FirstAttempt => FirstAttempt'
    BY <1>0, <1>4, FailFacts DEF FirstAttempt, Untouched, Wanted, Safe, Put, Back, Again, AsBefore,
       OldPack, Step, RollBackRows, AfterRows
  <2>2. RowsStep /\ bk' \in Bk /\ undone' \in BOOLEAN /\ failed' \in BOOLEAN /\ (undone' => undone)
    BY <1>0, <1>4 DEF TypeOK
  <2> QED BY <1>4, <2>1, <2>2, WorkerKeepsInv DEF Step, AfterRows
<1> QED BY <1>1, <1>2, <1>3, <1>4 DEF RestoreRows

\* The container is the previous one again.
LEMMA RecreateKeepsInv == ModpackInv /\ Recreate => ModpackInv'
<1> SUFFICES ASSUME ModpackInv, Recreate
             PROVE  ModpackInv'
  OBVIOUS
<1> USE DEF RowsStep, Bk, Mark, Lost
<1>0. TypeOK /\ Frame
  BY DEF ModpackInv
<1>1. CASE Succeed("recreate", AfterRows) /\ UNCHANGED <<row, pack, bk, undone, failed>>
  <2>1. tries = 1 /\ undone' /\ FirstAttempt => FirstAttempt'
    BY <1>0, <1>1, SucceedFacts DEF FirstAttempt, Untouched, Wanted, Safe, Put, Back, Again, AsBefore,
       OldPack, Step, RollBackRows, AfterRows
  <2>2. RowsStep /\ bk' \in Bk /\ undone' \in BOOLEAN /\ failed' \in BOOLEAN /\ (undone' => undone)
    BY <1>0, <1>1 DEF TypeOK
  <2> QED BY <1>1, <2>1, <2>2, WorkerKeepsInv DEF Step, AfterRows
<1>2. CASE Fail("recreate", AfterRows) /\ undone' = FALSE /\ UNCHANGED <<row, pack, bk, failed>>
  <2>1. tries = 1 /\ undone' /\ FirstAttempt => FirstAttempt'
    BY <1>0, <1>2, FailFacts DEF FirstAttempt, Untouched, Wanted, Safe, Put, Back, Again, AsBefore,
       OldPack, Step, RollBackRows, AfterRows
  <2>2. RowsStep /\ bk' \in Bk /\ undone' \in BOOLEAN /\ failed' \in BOOLEAN /\ (undone' => undone)
    BY <1>0, <1>2 DEF TypeOK
  <2> QED BY <1>2, <2>1, <2>2, WorkerKeepsInv DEF Step, AfterRows
<1> QED BY <1>1, <1>2 DEF Recreate, Undo

\* The previous server may boot on its directory.
LEMMA RestartKeepsInv == ModpackInv /\ Restart => ModpackInv'
<1> SUFFICES ASSUME ModpackInv, Restart
             PROVE  ModpackInv'
  OBVIOUS
<1> USE DEF RowsStep, Bk, Mark, Lost
<1>0. TypeOK /\ Frame
  BY DEF ModpackInv
<1>1. CASE Succeed("restart", "rewait") /\ UNCHANGED <<row, pack, bk, undone, failed>>
  <2>1. tries = 1 /\ undone' /\ FirstAttempt => FirstAttempt'
    BY <1>0, <1>1, SucceedFacts DEF FirstAttempt, Untouched, Wanted, Safe, Put, Back, Again, AsBefore,
       OldPack, Step, RollBackRows, AfterRows
  <2>2. RowsStep /\ bk' \in Bk /\ undone' \in BOOLEAN /\ failed' \in BOOLEAN /\ (undone' => undone)
    BY <1>0, <1>1 DEF TypeOK
  <2> QED BY <1>1, <2>1, <2>2, WorkerKeepsInv DEF Step, AfterRows
<1>2. CASE Fail("restart", "end") /\ UNCHANGED <<row, pack, bk, undone, failed>>
  <2>1. tries = 1 /\ undone' /\ FirstAttempt => FirstAttempt'
    BY <1>0, <1>2, FailFacts DEF FirstAttempt, Untouched, Wanted, Safe, Put, Back, Again, AsBefore,
       OldPack, Step, RollBackRows, AfterRows
  <2>2. RowsStep /\ bk' \in Bk /\ undone' \in BOOLEAN /\ failed' \in BOOLEAN /\ (undone' => undone)
    BY <1>0, <1>2 DEF TypeOK
  <2> QED BY <1>2, <2>1, <2>2, WorkerKeepsInv DEF Step, AfterRows
<1> QED BY <1>1, <1>2 DEF Restart

\* A pack that does not come up in time has been booted on the directory.
LEMMA WaitKeepsInv == ModpackInv /\ Wait => ModpackInv'
<1> SUFFICES ASSUME ModpackInv, Wait
             PROVE  ModpackInv'
  OBVIOUS
<1>0. TypeOK /\ Frame
  BY DEF ModpackInv
<1>1. CASE Succeed("wait", "finish") /\ UNCHANGED <<row, pack, bk, undone, failed>>
  <2>1. tries = 1 /\ undone' /\ FirstAttempt => FirstAttempt'
    BY <1>0, <1>1, SucceedFacts DEF FirstAttempt, Wanted, Step
  <2>2. RowsStep /\ bk' \in Bk /\ undone' \in BOOLEAN /\ failed' \in BOOLEAN /\ (undone' => undone)
    BY <1>0, <1>1 DEF TypeOK, RowsStep, Bk
  <2> QED BY <1>1, <2>1, <2>2, WorkerKeepsInv DEF Step
<1>2. CASE /\ At("wait")
           /\ Trouble \/ UNCHANGED <<expired, budget>>
           /\ pc' = "restore" /\ failed' = TRUE
           /\ UNCHANGED <<row, pack, bk, node, undone>> /\ Same
  <2>1. tries = 1 /\ undone' /\ FirstAttempt => FirstAttempt'
    <3>1. pc = "wait" /\ pc' = "restore" /\ failed' /\ UNCHANGED <<node, was>>
      BY <1>2 DEF At, Same
    <3> QED BY <3>1 DEF FirstAttempt, Safe
  <2>2. RowsStep /\ bk' \in Bk /\ undone' \in BOOLEAN /\ failed' \in BOOLEAN /\ (undone' => undone)
    BY <1>0, <1>2 DEF TypeOK, RowsStep, Bk
  <2>3. TypeOK' /\ Frame'
    BY <1>0, <1>2, <2>2, TroubleType, WorkerKeepsFrame DEF TypeOK, Step
  <2> QED BY <1>2, <2>1, <2>3 DEF ModpackInv, Saga, Frame, Same, slot, At
<1> QED BY <1>1, <1>2 DEF Wait

\* The installation is committed, or the job ends with undone FALSE.
LEMMA FinishKeepsInv == ModpackInv /\ Finish => ModpackInv'
<1> SUFFICES ASSUME ModpackInv, Finish
             PROVE  ModpackInv'
  OBVIOUS
<1>0. TypeOK /\ Frame
  BY DEF ModpackInv
<1> DEFINE next == IF job.desired = "running" THEN "end" ELSE "halt"
<1>1. CASE /\ Installing /\ Succeed("finish", next)
           /\ pack' = [pack EXCEPT !.status = "installed"]
           /\ UNCHANGED <<row, bk, undone, failed>>
  <2>0. pack' = [file |-> target, status |-> "installed"] /\ next \in {"end", "halt"}
    BY <1>1 DEF Installing
  <2> HIDE DEF next
  <2>1. tries = 1 /\ undone' /\ FirstAttempt => FirstAttempt'
    BY <1>0, <1>1, <2>0, SucceedFacts DEF FirstAttempt, Put, Step
  <2>2. RowsStep /\ bk' \in Bk /\ undone' \in BOOLEAN /\ failed' \in BOOLEAN /\ (undone' => undone)
    BY <1>0, <1>1 DEF TypeOK, RowsStep, Bk, Installing
  <2> QED BY <1>1, <2>0, <2>1, <2>2, WorkerKeepsInv DEF Step
<1>2. CASE /\ \/ ~Installing /\ Succeed("finish", "end") /\ UNCHANGED pack
              \/ /\ Fail("finish", "end")
                 /\ Lost(Installing /\ pack' = [pack EXCEPT !.status = "installed"], UNCHANGED pack)
           /\ failed' = TRUE /\ undone' = FALSE
           /\ UNCHANGED <<row, bk>>
  <2>1. RowsStep
    BY <1>2 DEF RowsStep, Installing, Lost
  <2>2. bk' \in Bk /\ undone' \in BOOLEAN /\ failed' \in BOOLEAN /\ ~undone'
    BY <1>0, <1>2 DEF TypeOK, Bk
  <2>3. Succeed("finish", "end") \/ Fail("finish", "end")
    BY <1>2
  <2> QED BY <2>1, <2>2, <2>3, WorkerKeepsInv DEF Step
<1> QED BY <1>1, <1>2 DEF Finish

\* Waiting for the previous server changes nothing.
LEMMA RewaitKeepsInv == ModpackInv /\ Rewait => ModpackInv'
<1> SUFFICES ASSUME ModpackInv, Rewait
             PROVE  ModpackInv'
  OBVIOUS
<1>0. TypeOK /\ Frame
  BY DEF ModpackInv
<1>1. tries = 1 /\ undone' /\ FirstAttempt => FirstAttempt'
  BY <1>0 DEF Rewait, FirstAttempt, Back, Again, AsBefore, OldPack, At, Same, slot
<1>2. RowsStep /\ bk' \in Bk /\ undone' \in BOOLEAN /\ failed' \in BOOLEAN /\ (undone' => undone)
  BY <1>0 DEF Rewait, TypeOK, RowsStep, Bk
<1>3. TypeOK' /\ Frame'
  BY <1>0, <1>2, TroubleType, WorkerKeepsFrame DEF Rewait, TypeOK, Step
<1> QED BY <1>1, <1>3 DEF Rewait, ModpackInv, Saga, Frame, Same, slot, At

-----------------------------------------------------------------------------
\* A step of anybody, or none.
LEMMA NextKeepsInv == ModpackInv /\ [Next]_vars => ModpackInv'
<1> SUFFICES ASSUME ModpackInv, [Next]_vars
             PROVE  ModpackInv'
  OBVIOUS
<1>1. CASE Worker
  BY <1>1, ClaimKeepsInv, StopKeepsInv, AbandonKeepsInv, MarkCreatingKeepsInv, BackupKeepsInv,
     MarkReadyKeepsInv, ProvisionKeepsInv, WaitKeepsInv, FinishKeepsInv, HaltKeepsInv,
     RestoreDataKeepsInv, RestoreRowsKeepsInv, RecreateKeepsInv, RestartKeepsInv,
     RewaitKeepsInv, EndKeepsInv
  DEF Worker
<1>2. CASE \E f \in File : Request(f)
  BY <1>2, RequestKeepsInv
<1>3. CASE \E d \in Desired : Operate(d)
  BY <1>3, OperateKeepsInv
<1>4. CASE Crash \/ Recover \/ Lapse \/ DeleteBackup \/ GameReady \/ GameEnds \/ GameRestarts
  BY <1>4, CrashKeepsInv, RecoverKeepsInv, LapseKeepsInv, NodeKeepsInv
<1>5. CASE UNCHANGED vars
  BY <1>5 DEF vars, ModpackInv, TypeOK, Frame, Saga, RowsAgree, FirstAttempt, Untouched, Wanted,
     Safe, Put, Back, Again, AsBefore, OldPack
<1> QED BY <1>1, <1>2, <1>3, <1>4, <1>5 DEF Next

\* The inductive invariant holds of every installation, for any number of
\* packs, requests and mishaps (executeModpackInstall).
THEOREM ModpackInvariant == Spec => []ModpackInv
<1>1. Init => ModpackInv
  BY InitModpackInv
<1>2. ModpackInv /\ [Next]_vars => ModpackInv'
  BY NextKeepsInv
<1> QED BY <1>1, <1>2, PTL DEF Spec

\* Every variable keeps its type.
THEOREM ModpackTypeCorrect == Spec => []TypeOK
<1>1. ModpackInv => TypeOK
  BY DEF ModpackInv
<1> QED BY <1>1, ModpackInvariant, PTL

\* servers and server_modpacks name the same pack, whatever fails.
THEOREM TablesAgree == Spec => []RowsAgree
<1>1. ModpackInv => RowsAgree
  BY DEF ModpackInv, Frame
<1> QED BY <1>1, ModpackInvariant, PTL

\* An uninterrupted attempt whose compensation met no error leaves the new
\* server or the old one, rows, container and directory.
THEOREM InstallsAllOrNothing == Spec => []AllOrNothing
<1>1. ModpackInv => AllOrNothing
  BY DEF ModpackInv, Frame, Saga, AllOrNothing, FirstAttempt, Put, Back, Again, At, TypeOK, Step,
     RowsAgree
<1> QED BY <1>1, ModpackInvariant, PTL

-----------------------------------------------------------------------------
(***************************************************************************)
(* Where the directory of the request is during the first attempt: in its  *)
(* place until the backup is made, in the archive from then on, which only *)
(* a deletion of the backup removes.  Without a backup only the old server *)
(* is booted on it.  This holds also where a compensation fails.           *)
(***************************************************************************)
Archive == node.archive = was.data
Before == {"stop", "mark", "backup", "abandon", "ready", "rows"}
After == {"ready", "provision", "start", "wait", "finish", "halt", "restore", "rowsToo", "recreate"}

World ==
  bk # "none" /\ phase # "free" =>
    /\ tries = 0 => Untouched
    /\ tries = 1 =>
         /\ pc \in Before => Untouched
         /\ pc \in After => Archive
         /\ pc = "restart" => Archive \/ Untouched
         /\ Archive \/ AsBefore(node.data)

LEMMA WorldStep ==
  ASSUME ModpackInv, World, NEW at \in Step, NEW next \in Step,
         Succeed(at, next) \/ Fail(at, next), bk = "none" => bk' = "none",
         \/ at \in Before /\ next \in (Before \ {"ready"}) \cup {"restart", "end"}
         \/ at = "backup" /\ next = "ready" /\ Succeed(at, next)
         \/ at \in After /\ next \in (After \ {"ready"}) \cup {"restart", "end"}
         \/ at = "restart" /\ next \in {"rewait", "end"}
  PROVE  World'
<1>1. /\ pc = at /\ pc' = next /\ UNCHANGED <<job, was>> /\ UNCHANGED <<phase, tries>>
      /\ phase = "running" /\ tries > 0
  BY SucceedFacts, FailFacts DEF ModpackInv, Frame, Succeed, Fail, At, Same, slot
<1>2. /\ at # "backup" => node'.archive = node.archive
      /\ at \in (Before \cup After) \ {"start", "restore"} => node'.data = node.data
      /\ at \in {"start", "restart"} => node'.data \in {node.data, node.data \cup {node.def}}
      /\ at \in Before => node'.def = node.def
      /\ at = "backup" /\ next = "ready" => node'.archive = node.data
  BY SucceedFacts, FailFacts DEF ModpackInv, Before, After
<1> SUFFICES ASSUME bk # "none", tries = 1
             PROVE  /\ next \in Before => Untouched'
                    /\ next \in After => Archive'
                    /\ next = "restart" => Archive' \/ Untouched'
                    /\ Archive' \/ AsBefore(node.data)'
  BY <1>1 DEF World
<1>3. CASE at \in Before /\ next \in (Before \ {"ready"}) \cup {"restart", "end"}
  <2>1. Untouched'
    BY <1>1, <1>2, <1>3 DEF World, Untouched, Before
  <2> QED BY <1>3, <2>1 DEF Untouched, AsBefore, Before, After
<1>4. CASE at = "backup" /\ next = "ready" /\ Succeed(at, next)
  <2>1. Archive'
    BY <1>1, <1>2, <1>4 DEF World, Untouched, Before, Archive
  <2>2. Untouched'
    BY <1>1, <1>2, <1>4 DEF World, Untouched, Before, After
  <2> QED BY <1>4, <2>1, <2>2
<1>5. CASE at \in After /\ next \in (After \ {"ready"}) \cup {"restart", "end"}
  <2>1. Archive'
    BY <1>1, <1>2, <1>5 DEF World, Archive, After
  <2> QED BY <1>5, <2>1 DEF Before, After
<1>6. CASE at = "restart" /\ next \in {"rewait", "end"}
  <2>1. Archive' \/ AsBefore(node.data)'
    BY <1>1, <1>2, <1>6 DEF World, Archive, Untouched, AsBefore
  <2> QED BY <1>6, <2>1 DEF Before, After
<1> QED BY <1>3, <1>4, <1>5, <1>6

\* Steps that change neither directory, archive nor container.
LEMMA WorldSame ==
  ASSUME World, UNCHANGED <<job, was, tries>>, phase' # "free" => phase # "free",
         bk' # "none" => bk # "none" /\ node'.archive = node.archive,
         node'.data = node.data, node'.def = node.def,
         pc' \in {pc, "idle", "end"} \/ (pc = "wait" /\ pc' = "restore")
  PROVE  World'
  BY DEF World, Archive, Untouched, AsBefore, Before, After

LEMMA WorkerKeepsWorld ==
  ASSUME ModpackInv, World, Worker
  PROVE  World'
<1> USE DEF Before, After
<1>0. TypeOK
  BY DEF ModpackInv
<1>1. CASE Claim
  <2>1. /\ UNCHANGED <<bk, node, was, job>> /\ tries' = tries + 1 /\ phase = "queued"
        /\ pc' \in {"end", "stop"} /\ tries \in Nat
    BY <1>0, <1>1, ModpackAssumption DEF Claim, tables, TypeOK
  <2> QED BY <2>1 DEF World, Untouched, AsBefore, Archive
<1>2. CASE Stop \/ Abandon
  <2>1. UNCHANGED bk \/ Mark("failed")
    BY <1>2 DEF Stop, Abandon
  <2>2. \/ \E at \in {"stop"}, next \in {"mark", "abandon"} : Succeed(at, next) \/ Fail(at, next)
        \/ \E at \in {"abandon"}, next \in {"end"} : Succeed(at, next) \/ Fail(at, next)
    BY <1>2 DEF Stop, Abandon
  <2> QED BY <2>1, <2>2, WorldStep DEF Mark, Step
<1>3. CASE MarkCreating
  BY <1>3, WorldStep DEF MarkCreating, Mark, Step
<1>4. CASE Backup
  <2>1. bk = "none" => bk' = "none"
    BY <1>4 DEF Backup, Mark
  <2> QED BY <1>4, <2>1, WorldStep DEF Backup, Step
<1>5. CASE MarkReady
  BY <1>5, WorldStep DEF MarkReady, Mark, Step
<1>6. CASE Provision
  BY <1>6, WorldStep DEF Provision, Step
<1>7. CASE Wait
  <2>1. CASE Succeed("wait", "finish") /\ UNCHANGED bk
    BY <2>1, WorldStep DEF Step
  <2>2. CASE At("wait") /\ pc' = "restore" /\ UNCHANGED <<bk, node>> /\ Same
    BY <2>2, WorldSame DEF At, Same, slot
  <2> QED BY <1>7, <2>1, <2>2 DEF Wait
<1>8. CASE Finish \/ Halt
  <2>1. UNCHANGED bk /\ \E at \in {"finish", "halt"}, next \in {"end", "halt"} :
          Succeed(at, next) \/ Fail(at, next)
    BY <1>8 DEF Finish, Halt
  <2> QED BY <2>1, WorldStep DEF Step
<1>9. CASE RestoreData \/ Recreate
  <2>1. UNCHANGED bk /\ AfterRows \in {"restart", "end"}
    BY <1>9 DEF RestoreData, Recreate, AfterRows
  <2> QED BY <1>9, <2>1, WorldStep DEF RestoreData, Recreate, Undo, Step
<1>10. CASE RestoreRows
  <2>1. UNCHANGED bk /\ AfterRows \in {"restart", "end"}
    BY <1>10 DEF RestoreRows, AfterRows
  <2> QED BY <1>10, <2>1, WorldStep DEF RestoreRows, Step
<1>11. CASE Restart
  BY <1>11, WorldStep DEF Restart, Step
<1>12. CASE Rewait \/ End
  BY <1>12, WorldSame DEF Rewait, End, At, Same, slot, tables
<1> QED BY <1>1, <1>2, <1>3, <1>4, <1>5, <1>6, <1>7, <1>8, <1>9, <1>10, <1>11, <1>12 DEF Worker

\* A crash leaves the call at work wherever it gets.
LEMMA CrashKeepsWorld ==
  ASSUME ModpackInv, World, Crash
  PROVE  World'
<1>1. UNCHANGED <<bk, job, phase, tries, was>> /\ pc' = "idle"
  BY DEF Crash, tables, slot
<1>2. CASE node' = node
  BY <1>1, <1>2, WorldSame
<1>3. CASE phase = "running" /\ node' \in Stages(pc)
  <2>1. pc \in Step /\ TypeOK
    BY DEF ModpackInv, TypeOK
  <2>2. /\ pc # "backup" => node'.archive = node.archive
        /\ pc \notin {"start", "restart", "restore"} => node'.data = node.data
        /\ pc \in {"start", "restart"} => node'.data \in {node.data, node.data \cup {node.def}}
    BY <1>3, <2>1, StagesEffect
  <2>3. tries > 0
    BY <1>3 DEF ModpackInv, Frame
  <2>4. ASSUME bk # "none", tries = 1
        PROVE  Archive' \/ AsBefore(node.data)'
    <3>1. CASE pc \in Before
      BY <1>1, <1>3, <2>2, <2>4, <3>1 DEF World, Before, Untouched, AsBefore
    <3>2. CASE pc \in After
      BY <1>1, <1>3, <2>2, <2>4, <3>2 DEF World, After, Archive
    <3>3. CASE pc = "restart"
      BY <1>1, <1>3, <2>2, <2>4, <3>3 DEF World, Archive, Untouched, AsBefore
    <3>4. CASE pc \in {"idle", "rewait", "end"}
      BY <1>1, <1>3, <2>2, <2>4, <3>4 DEF World, Archive, AsBefore
    <3> QED BY <2>1, <3>1, <3>2, <3>3, <3>4 DEF Step, Before, After
  <2> QED BY <1>1, <2>3, <2>4 DEF World, Before, After
<1> QED BY <1>2, <1>3 DEF Crash

LEMMA NextWorld ==
  ASSUME ModpackInv, World, [Next]_vars
  PROVE  World'
<1>1. CASE Worker
  BY <1>1, WorkerKeepsWorld
<1>2. ASSUME NEW f \in File, Request(f)
      PROVE  World'
  BY <1>2 DEF Request, World, Untouched, ModpackInv, TypeOK, Node
<1>3. ASSUME NEW d \in Desired, Operate(d)
      PROVE  World'
  BY <1>3 DEF Operate, World, slot
<1>4. CASE Crash
  BY <1>4, CrashKeepsWorld
<1>5. CASE Recover \/ Lapse
  <2>1. /\ UNCHANGED <<job, was, tries, bk, node, pc>> /\ (phase' # "free" => phase # "free")
    BY <1>5 DEF Recover, Lapse, tables, attempt, slot
  <2> QED BY <2>1, WorldSame
<1>6. CASE DeleteBackup \/ GameReady \/ GameEnds \/ GameRestarts
  <2>1. /\ UNCHANGED <<job, was, tries, phase, pc>>
        /\ node'.data = node.data /\ node'.def = node.def
        /\ bk' # "none" => bk # "none" /\ node'.archive = node.archive
    BY <1>6 DEF DeleteBackup, GameReady, GameEnds, GameRestarts, tables, slot, attempt, ModpackInv,
                TypeOK, Node
  <2> QED BY <2>1, WorldSame
<1>7. CASE UNCHANGED vars
  BY <1>7, WorldSame DEF vars
<1> QED BY <1>1, <1>2, <1>3, <1>4, <1>5, <1>6, <1>7 DEF Next

\* While the first attempt lasts, and after a crash has interrupted it, the
\* directory of the request is not lost, unless its backup is deleted.
THEOREM WorldNotLost == Spec => []WorldIsKept
<1>1. Init => World
  BY DEF Init, World
<1>2. ModpackInv /\ World => WorldIsKept
  <2>1. ASSUME ModpackInv, World, phase # "free", tries <= 1, bk # "none"
        PROVE  Archive \/ AsBefore(node.data)
    <3>1. tries \in {0, 1}
      BY <2>1, ModpackAssumption DEF ModpackInv, TypeOK
    <3> QED BY <2>1, <3>1 DEF World, Untouched, AsBefore
  <2>2. Archive => AsBefore(node.archive)
    BY DEF Archive, AsBefore
  <2> QED BY <2>1, <2>2 DEF WorldIsKept
<1> QED BY <1>1, <1>2, NextWorld, ModpackInvariant, PTL DEF Spec
-----------------------------------------------------------------------------
\* A step that changes the slot is a step of JobSlot: a slot that is free counts
\* no attempts, whatever the row of its last job says.
LEMMA SlotStep ==
  ASSUME ModpackInv, [Next]_vars
  PROVE  [Slot!Next]_<<phase, tries>>
<1> USE DEF slot, Same
<1>0. /\ phase \in {"free", "queued", "running"}
      /\ tries \in 0..MaxAttempts /\ MaxAttempts \in Nat
      /\ phase = "queued" => tries < MaxAttempts
  BY ModpackAssumption DEF ModpackInv, TypeOK, Frame
<1>1. CASE \E f \in File : Request(f)
  BY <1>1 DEF Request, Slot!Next, Slot!Submit
<1>2. CASE Claim
  BY <1>0, <1>2 DEF Claim, Slot!Next, Slot!Attempt
<1>3. CASE End
  BY <1>3 DEF End, At, Slot!Next, Slot!Resolve
<1>4. CASE Recover
  <2>1. CASE phase = "running" /\ tries >= MaxAttempts
    BY <1>4, <2>1 DEF Recover, Slot!Next, Slot!Resolve
  <2>2. CASE phase = "running" /\ ~(tries >= MaxAttempts)
    <3>1. tries < MaxAttempts
      BY <1>0, <2>2
    <3> QED BY <1>4, <2>2, <3>1 DEF Recover, Slot!Next, Slot!Requeue
  <2>3. CASE phase # "running"
    BY <1>4, <2>3 DEF Recover
  <2> QED BY <2>1, <2>2, <2>3
<1>5. CASE Stop \/ Abandon \/ MarkCreating \/ Backup \/ MarkReady \/ Provision \/ Wait \/ Finish
  BY <1>5 DEF Stop, Abandon, MarkCreating, Backup, MarkReady, Provision, Wait, Finish, Succeed, Fail
<1>6. CASE Halt \/ RestoreData \/ RestoreRows \/ Recreate \/ Restart \/ Rewait
  BY <1>6 DEF Halt, RestoreData, RestoreRows, Recreate, Restart, Rewait, Undo, Succeed, Fail
<1>7. CASE \/ \E d \in Desired : Operate(d)
           \/ Crash \/ Lapse \/ DeleteBackup \/ GameReady \/ GameEnds \/ GameRestarts
           \/ UNCHANGED vars
  BY <1>7 DEF Operate, Crash, Lapse, DeleteBackup, GameReady, GameEnds, GameRestarts, vars
<1> QED BY <1>1, <1>2, <1>3, <1>4, <1>5, <1>6, <1>7 DEF Next, Worker

\* An installation, its compensation and its repetitions are one operation in
\* the slot of the server, from the request to its outcome.
THEOREM ModpackImplementsSlot == Spec => ImplementsSlot
<1>1. Init => Slot!Init
  BY DEF Init, Slot!Init
<1>2. ModpackInv /\ [Next]_vars => [Slot!Next]_<<phase, tries>>
  BY SlotStep
<1> QED BY <1>1, <1>2, ModpackInvariant, PTL DEF Spec, ImplementsSlot
=============================================================================
