--------------------------- MODULE SchedulesProofs ---------------------------
(***************************************************************************)
(* What holds of the scheduled backups of a server for any schedules, any  *)
(* number of backups, failures, crashes and deletions by the owner, and    *)
(* whatever number of backups is retained: a backup job that succeeds      *)
(* leaves no more than that, it prunes only what is older than as many     *)
(* others, and no archive outlives its row.                                *)
(*                                                                         *)
(* The argument: the backup a job makes is the newest there is while the   *)
(* job has the slot, so it is never a candidate of its own pruning; and    *)
(* the candidates, being those with Retain newer ones, are the tail of the *)
(* order, of which the rest is just Retain long.                           *)
(***************************************************************************)
EXTENDS Schedules, FiniteSetTheorems, TLAPS

-----------------------------------------------------------------------------
(* Finite sets in a strict order R, its larger elements first: what comes  *)
(* before an element, and cutting the order after n elements.              *)

Order(R, S) ==
  /\ \A a \in S : <<a, a>> \notin R
  /\ \A a, b, c \in S : <<a, b>> \in R /\ <<b, c>> \in R => <<a, c>> \in R
Total(R, S) == \A a, b \in S : a # b => <<a, b>> \in R \/ <<b, a>> \in R
Before(R, S, b) == {c \in S : <<c, b>> \in R}

\* One of the elements has no other before it.
LEMMA FirstExists ==
  ASSUME NEW S, IsFiniteSet(S), S # {}, NEW R, Order(R, S)
  PROVE  \E e \in S : Before(R, S, e) = {}
<1> DEFINE size == [b \in S |-> Cardinality(Before(R, S, b))]
           Sizes == {size[b] : b \in S}
<1>1. \A b \in S : Before(R, S, b) \in SUBSET S
  BY DEF Before
<1>2. \A b \in S : IsFiniteSet(Before(R, S, b)) /\ size[b] = Cardinality(Before(R, S, b)) /\ size[b] \in Nat
  BY <1>1, FS_Subset, FS_CardinalityType
<1>3. \E n \in Sizes : \A m \in Sizes : <<m, n>> \notin OpToRel(<, Nat)
  <2>1. Sizes \subseteq Nat /\ Sizes # {}
    BY <1>2
  <2>2. IsWellFoundedOn(OpToRel(<, Nat), Nat)
    BY NatLessThanWellFounded
  <2> HIDE DEF Sizes
  <2> QED BY <2>1, <2>2, WFMin
<1>4. PICK e \in S : \A b \in S : <<size[b], size[e]>> \notin OpToRel(<, Nat)
  BY <1>3
<1>5. \A b \in S : ~(size[b] < size[e])
  <2>1. SUFFICES ASSUME NEW b \in S, size[b] < size[e]
                 PROVE  FALSE
    OBVIOUS
  <2>2. <<size[b], size[e]>> \in {ss \in Nat \X Nat : ss[1] < ss[2]}
    <3>1. size[b] \in Nat /\ size[e] \in Nat
      BY <1>2
    <3> HIDE DEF size
    <3> QED BY <3>1, <2>1
  <2> QED BY <1>4, <2>2 DEF OpToRel
<1>6. \A c \in S : <<c, e>> \notin R
  <2>1. SUFFICES ASSUME NEW c \in S, <<c, e>> \in R
                 PROVE  FALSE
    OBVIOUS
  <2>2. Before(R, S, c) \in SUBSET Before(R, S, e) /\ c \in Before(R, S, e) /\ c \notin Before(R, S, c)
    BY <2>1 DEF Order, Before
  <2>3. Cardinality(Before(R, S, c)) <= Cardinality(Before(R, S, e))
         /\ Cardinality(Before(R, S, c)) # Cardinality(Before(R, S, e))
    BY <2>2, <1>2, FS_Subset
  <2>4. size[c] \in Nat /\ size[e] \in Nat /\ size[c] = Cardinality(Before(R, S, c))
         /\ size[e] = Cardinality(Before(R, S, e))
    BY <1>2
  <2>5. size[c] < size[e]
    <3> HIDE DEF size
    <3> QED BY <2>3, <2>4
  <2> QED BY <2>5, <1>5
<1> QED BY <1>6 DEF Before

\* Those with fewer than n others before them are not more than n.
LEMMA KeptFew ==
  ASSUME NEW S, IsFiniteSet(S), NEW R, Order(R, S), Total(R, S), NEW n \in Nat
  PROVE  Cardinality({b \in S : Cardinality(Before(R, S, b)) < n}) <= n
<1> DEFINE K == {b \in S : Cardinality(Before(R, S, b)) < n}
           Back == {p \in S \X S : <<p[2], p[1]>> \in R}
<1>1. K \in SUBSET S /\ IsFiniteSet(K)
  BY FS_Subset
<1>2. CASE K = {}
  BY <1>2, FS_EmptySet
<1>3. CASE K # {}
  <2>1. Order(Back, K)
    BY DEF Order
  <2>2. PICK e \in K : Before(Back, K, e) = {}
    BY <1>1, <1>3, <2>1, FirstExists
  <2>3. \A b \in K : b # e => <<b, e>> \in R
    <3>1. \A b \in K : <<b, e>> \notin Back
      BY <2>2 DEF Before
    <3>2. \A b \in K : <<e, b>> \notin R
      BY <3>1
    <3> QED BY <3>2 DEF Total
  <2>4. K \ {e} \in SUBSET Before(R, S, e) /\ IsFiniteSet(Before(R, S, e))
         /\ Cardinality(Before(R, S, e)) \in Nat
    <3>1. Before(R, S, e) \in SUBSET S
      BY DEF Before
    <3>2. IsFiniteSet(Before(R, S, e)) /\ Cardinality(Before(R, S, e)) \in Nat
      BY <3>1, FS_Subset, FS_CardinalityType
    <3> QED BY <3>2, <2>3 DEF Before
  <2>5. Cardinality(K \ {e}) <= Cardinality(Before(R, S, e))
    BY <2>4, FS_Subset
  <2>6. Cardinality(K \ {e}) = Cardinality(K) - 1 /\ Cardinality(K) \in Nat
    BY <1>1, FS_RemoveElement, FS_CardinalityType
  <2>7. Cardinality(Before(R, S, e)) < n
    BY <2>2
  <2>8. Cardinality(K) <= n
    <3> HIDE DEF K
    <3> QED BY <2>4, <2>5, <2>6, <2>7
  <2> QED BY <2>8
<1> QED BY <1>2, <1>3

\* One with n or more before it has n before it that have not.
LEMMA KeptEnough ==
  ASSUME NEW S, IsFiniteSet(S), NEW R, Order(R, S), Total(R, S), NEW n \in Nat,
         NEW b \in S, Cardinality(Before(R, S, b)) >= n
  PROVE  Cardinality({c \in Before(R, S, b) : ~(Cardinality(Before(R, S, c)) >= n)}) >= n
<1> DEFINE E == {e \in S : Cardinality(Before(R, S, e)) >= n}
           Left == {c \in Before(R, S, b) : ~(Cardinality(Before(R, S, c)) >= n)}
<1>1. E \in SUBSET S /\ IsFiniteSet(E) /\ b \in E
  BY FS_Subset
<1>2. Order(R, E)
  BY DEF Order
<1>3. PICK e \in E : Before(R, E, e) = {}
  BY <1>1, <1>2, FirstExists
<1>4. Before(R, S, e) \subseteq Before(R, S, b)
  <2>1. e = b \/ <<e, b>> \in R
    BY <1>1, <1>3 DEF Before, Total
  <2> QED BY <2>1 DEF Before, Order
<1>5. Before(R, S, e) \in SUBSET Left
  <2>1. \A c \in Before(R, S, e) : c \notin E
    BY <1>3 DEF Before
  <2>2. \A c \in Before(R, S, e) : c \in S
    BY DEF Before
  <2> QED BY <2>1, <2>2, <1>4
<1>6. IsFiniteSet(Left) /\ Cardinality(Left) \in Nat
  <2>1. Left \in SUBSET S
    BY DEF Before
  <2> QED BY <2>1, FS_Subset, FS_CardinalityType
<1>7. Cardinality(Before(R, S, e)) <= Cardinality(Left) /\ Cardinality(Before(R, S, e)) >= n
       /\ Cardinality(Before(R, S, e)) \in Nat
  BY <1>5, <1>6, FS_Subset, FS_CardinalityType
<1>8. Cardinality(Left) >= n
  <2> HIDE DEF Left
  <2> QED BY <1>6, <1>7
<1> QED BY <1>8

-----------------------------------------------------------------------------
\* The type invariant by parts.
RowsType ==
  /\ bk \in [Backup -> Row] /\ archive \subseteq Backup
  /\ \A b \in Backup : bk[b].status = "none" => bk[b] = NoRow
ScheduleType ==
  /\ sched \in [Schedule -> Sched] /\ active \in BOOLEAN /\ claimed \subseteq Schedule
  /\ \A b \in Backup, s \in Schedule : sched[s].status = "none" => bk[b].by # s
SlotType ==
  /\ phase \in {"free", "queued", "running"} /\ tries \in 0..MaxAttempts
  /\ phase = "queued" => tries < MaxAttempts
  /\ IF phase = "free" THEN job = NoJob
     ELSE job \in {OtherJob} \cup [kind : {"backup"}, backup : Backup, by : Schedule]
CallType ==
  /\ prune \subseteq Backup /\ victim \in Backup \cup {None} /\ failed \in BOOLEAN
  /\ delete \in [at : {"none", "archive", "row"}, backup : Backup \cup {None}]
  /\ delete.at # "none" => delete.backup \in Backup
  /\ up \in BOOLEAN /\ clean \in BOOLEAN /\ raced \subseteq Backup
  /\ budget \in [events : Nat, crashes : Nat]

\* What the worker is at.
WorkerInv ==
  /\ pc \in {"idle", "creating", "archive", "outcome", "list", "prune", "row", "finish"}
  /\ pc # "idle" => up /\ phase = "running"
  /\ pc \notin {"idle", "finish"} => job.kind = "backup"
  /\ pc \in {"list", "prune", "row"} => ~failed
  /\ pc # "row" => victim = None
  /\ pc = "row" => victim \in Backup
  /\ prune # {} => pc \in {"prune", "row"}
  /\ victim \notin prune

Types == RowsType /\ ScheduleType /\ SlotType /\ CallType /\ WorkerInv

\* created_at: the rows are in a strict and total order.
OrderInv ==
  /\ newer \subseteq {p \in Backup \X Backup : HasRow(p[1]) /\ HasRow(p[2]) /\ p[1] # p[2]}
  /\ \A a, b, c \in Backup : <<a, b>> \in newer /\ <<b, c>> \in newer => <<a, c>> \in newer
  /\ \A a, b \in Backup :
       HasRow(a) /\ HasRow(b) /\ a # b => <<a, b>> \in newer \/ <<b, a>> \in newer

\* The backup of the job in the slot is the newest one, and neither the
\* worker nor, unless they have raced, the owner takes it away.
OwnInv ==
  job.kind = "backup" =>
    /\ \A c \in Backup : <<c, job.backup>> \notin newer
    /\ job.backup \notin prune /\ job.backup # victim
    /\ delete.at # "none" /\ delete.backup = job.backup => job.backup \in raced
    /\ job.backup \notin raced =>
         /\ HasRow(job.backup)
         /\ bk[job.backup].by = job.by \/ sched[job.by].status = "none"

\* An archive goes before its row.
ArchiveInv ==
  /\ ArchivesHaveRows
  /\ victim \notin archive
  /\ delete.at = "row" => delete.backup \notin archive \/ delete.backup \in raced

\* In an attempt without failures nobody is deleting a backup, and the one
\* that was to be made is there, with its outcome.
CleanInv ==
  /\ phase = "running" /\ clean => delete.at = "none"
  /\ pc \in {"outcome", "list", "prune", "row"} /\ ~failed /\ job.backup \notin raced =>
       job.backup \in archive
  /\ pc \in {"list", "prune", "row"} /\ clean /\ job.backup \notin raced =>
       bk[job.backup].status = "ready"

\* What pruning leaves of the schedule's backups is not more than Retain.
KeptInv ==
  pc \in {"prune", "row", "finish"} /\ job.kind = "backup" /\ ~failed /\ clean =>
    Cardinality(Settled \ (prune \cup {victim})) <= Retain

\* And not less, wherever there is something to prune.
Spared(b) == {c \in Newer(b, Kin(b)) : c \notin prune /\ c # victim}
Outdated(b) ==
  /\ IsSettled(b) /\ bk[b].by = bk[job.backup].by
  /\ <<job.backup, b>> \in newer
  /\ Cardinality(Spared(b)) >= Retain
PruneInv ==
  pc \in {"prune", "row"} /\ clean /\ job.backup \notin raced => \A b \in prune : Outdated(b)

\* The inductive invariant.
SchedulesInv == Types /\ OrderInv /\ OwnInv /\ ArchiveInv /\ CleanInv /\ KeptInv /\ PruneInv

-----------------------------------------------------------------------------
\* The parts are the type invariant.
LEMMA ScheduleTypeParts == SchedulesInv => TypeOK
<1> SUFFICES ASSUME SchedulesInv
             PROVE  TypeOK
  OBVIOUS
<1> USE DEF SchedulesInv, Types
<1>1. job \in Job
  BY DEF SlotType, Job, NoJob, OtherJob
<1>2. newer \subseteq Backup \X Backup
  BY DEF OrderInv
<1> QED BY <1>1, <1>2 DEF TypeOK, RowsType, ScheduleType, SlotType, CallType, WorkerInv

LEMMA BackupsFinite ==
  ASSUME NEW S, S \subseteq Backup
  PROVE  IsFiniteSet(S) /\ Cardinality(S) \in Nat
<1>1. IsFiniteSet(Backup)
  BY SchedulesAssumption, FS_Interval DEF Backup
<1>2. S \in SUBSET Backup
  OBVIOUS
<1> QED BY <1>1, <1>2, FS_Subset, FS_CardinalityType

LEMMA MoreBackups ==
  ASSUME NEW S, NEW T, S \subseteq T, T \subseteq Backup
  PROVE  Cardinality(S) <= Cardinality(T)
<1>1. S \in SUBSET T /\ IsFiniteSet(T)
  BY BackupsFinite
<1> QED BY <1>1, FS_Subset

\* No schedule has made a backup at first.
LEMMA InitSchedulesInv == Init => SchedulesInv
<1> SUFFICES ASSUME Init
             PROVE  SchedulesInv
  OBVIOUS
<1> USE SchedulesAssumption DEF Init, NoRow
<1>1. RowsType
  BY DEF RowsType, Row
<1>2. ScheduleType
  <2>1. \A s \in Schedule : sched[s] \in Sched
    BY DEF Sched
  <2> QED BY <2>1 DEF ScheduleType
<1>3. SlotType
  BY DEF SlotType
<1>4. CallType /\ WorkerInv
  BY DEF CallType, WorkerInv
<1>5. OrderInv /\ OwnInv /\ ArchiveInv /\ CleanInv
  BY DEF OrderInv, HasRow, OwnInv, ArchiveInv, ArchivesHaveRows, CleanInv, NoJob
<1>6. KeptInv /\ PruneInv
  BY DEF KeptInv, PruneInv
<1> QED BY <1>1, <1>2, <1>3, <1>4, <1>5, <1>6 DEF SchedulesInv, Types

LEMMA SpendStep ==
  ASSUME CallType, NEW kind \in {"events", "crashes"}, Spend(kind)
  PROVE  budget' \in [events : Nat, crashes : Nat]
  BY DEF CallType, Spend

\* The job of a worker that is making or pruning backups.
LEMMA WorkersJob ==
  ASSUME SchedulesInv, pc \notin {"idle", "finish"}
  PROVE  /\ up /\ phase = "running" /\ job.kind = "backup"
         /\ job.backup \in Backup /\ job.by \in Schedule
         /\ job \in [kind : {"backup"}, backup : Backup, by : Schedule]
  BY DEF SchedulesInv, Types, WorkerInv, SlotType, OtherJob

-----------------------------------------------------------------------------
(* What the parts need to be kept.                                         *)

\* The order of the rows.
LEMMA OrderKept ==
  ASSUME OrderInv, newer' = newer, \A b \in Backup : HasRow(b)' <=> HasRow(b)
  PROVE  OrderInv'
<1> USE DEF OrderInv
<1>1. \A b \in Backup : HasRow(b)' <=> HasRow(b)
  OBVIOUS
<1> HIDE DEF HasRow
<1> QED BY <1>1

LEMMA OrderCreate ==
  ASSUME OrderInv, RowsType, NEW b \in Backup, ~HasRow(b), NEW row \in Row, row # NoRow,
         CreateRow(b, row)
  PROVE  /\ OrderInv' /\ \A c \in Backup : <<c, b>> \notin newer'
         /\ \A c \in Backup \ {b} : bk'[c] = bk[c]
         /\ bk'[b] = row /\ bk' \in [Backup -> Row]
<1>1. bk' \in [Backup -> Row] /\ bk'[b] = row /\ \A c \in Backup \ {b} : bk'[c] = bk[c]
  BY DEF CreateRow, RowsType
<1>2. HasRow(b)' /\ \A c \in Backup \ {b} : HasRow(c)' <=> HasRow(c)
  BY <1>1 DEF HasRow
<1>3. newer' = newer \cup ({b} \X {c \in Backup : HasRow(c)})
  BY DEF CreateRow
<1>4. \A c, d \in Backup : <<c, d>> \in newer' <=> <<c, d>> \in newer \/ (c = b /\ HasRow(d))
  BY <1>3
<1>5. \A c \in Backup : <<c, b>> \notin newer /\ <<b, c>> \notin newer
  BY DEF OrderInv
<1>6. newer' \subseteq {p \in Backup \X Backup : HasRow(p[1])' /\ HasRow(p[2])' /\ p[1] # p[2]}
  <2>1. SUFFICES ASSUME NEW p \in newer'
                 PROVE  /\ p \in Backup \X Backup
                        /\ HasRow(p[1])' /\ HasRow(p[2])' /\ p[1] # p[2]
    OBVIOUS
  <2>2. CASE p \in newer
    <3>1. p \in Backup \X Backup /\ HasRow(p[1]) /\ HasRow(p[2]) /\ p[1] # p[2]
      BY <2>2 DEF OrderInv
    <3> HIDE DEF HasRow
    <3> QED BY <3>1, <1>2
  <2>3. CASE p \in {b} \X {c \in Backup : HasRow(c)}
    <3>1. p \in Backup \X Backup /\ p[1] = b /\ HasRow(p[2]) /\ p[1] # p[2]
      BY <2>3
    <3> HIDE DEF HasRow
    <3> QED BY <3>1, <1>2
  <2> QED BY <2>1, <2>2, <2>3, <1>3
<1>7. \A c, d, e \in Backup : <<c, d>> \in newer' /\ <<d, e>> \in newer' => <<c, e>> \in newer'
  <2>1. \A c, d \in Backup : <<c, d>> \in newer => HasRow(c) /\ HasRow(d)
    BY DEF OrderInv
  <2> QED BY <2>1, <1>4, <1>5 DEF OrderInv
<1>8. \A c, d \in Backup :
        HasRow(c)' /\ HasRow(d)' /\ c # d => <<c, d>> \in newer' \/ <<d, c>> \in newer'
  BY <1>2, <1>4 DEF OrderInv
<1>9. \A c \in Backup : <<c, b>> \notin newer'
  BY <1>4, <1>5
<1> QED BY <1>1, <1>6, <1>7, <1>8, <1>9 DEF OrderInv

LEMMA OrderDelete ==
  ASSUME OrderInv, RowsType, NEW b \in Backup, DeleteRowOf(b)
  PROVE  /\ OrderInv'
         /\ \A c, d \in Backup : <<c, d>> \in newer' <=> <<c, d>> \in newer /\ c # b /\ d # b
         /\ \A c \in Backup \ {b} : bk'[c] = bk[c]
         /\ bk'[b] = NoRow /\ bk' \in [Backup -> Row]
<1>1. bk' \in [Backup -> Row] /\ bk'[b] = NoRow /\ \A c \in Backup \ {b} : bk'[c] = bk[c]
  BY DEF DeleteRowOf, RowsType, NoRow, Row
<1>2. ~HasRow(b)' /\ \A c \in Backup \ {b} : HasRow(c)' <=> HasRow(c)
  BY <1>1 DEF HasRow
<1>3. newer' = {p \in newer : b \notin {p[1], p[2]}}
  BY DEF DeleteRowOf
<1>4. \A c, d \in Backup : <<c, d>> \in newer' <=> <<c, d>> \in newer /\ c # b /\ d # b
  BY <1>3
<1>5. newer' \subseteq {p \in Backup \X Backup : HasRow(p[1])' /\ HasRow(p[2])' /\ p[1] # p[2]}
  <2>1. SUFFICES ASSUME NEW p \in newer'
                 PROVE  /\ p \in Backup \X Backup
                        /\ HasRow(p[1])' /\ HasRow(p[2])' /\ p[1] # p[2]
    OBVIOUS
  <2>2. p \in Backup \X Backup /\ HasRow(p[1]) /\ HasRow(p[2]) /\ p[1] # p[2] /\ b \notin {p[1], p[2]}
    BY <2>1, <1>3 DEF OrderInv
  <2> HIDE DEF HasRow
  <2> QED BY <2>2, <1>2
<1>6. \A c, d, e \in Backup : <<c, d>> \in newer' /\ <<d, e>> \in newer' => <<c, e>> \in newer'
  BY <1>4 DEF OrderInv
<1>7. \A c, d \in Backup :
        HasRow(c)' /\ HasRow(d)' /\ c # d => <<c, d>> \in newer' \/ <<d, c>> \in newer'
  BY <1>2, <1>4 DEF OrderInv
<1> QED BY <1>1, <1>4, <1>5, <1>6, <1>7 DEF OrderInv

\* The two parts about pruning, where nothing is being pruned, and where less
\* is left to be pruned.
LEMMA NotPruning ==
  ASSUME pc' \notin {"prune", "row", "finish"} \/ ~clean'
         \/ (pc' = "finish" /\ (job'.kind # "backup" \/ failed'))
  PROVE  KeptInv' /\ PruneInv'
  BY DEF KeptInv, PruneInv

LEMMA KeptStep ==
  ASSUME RowsType, KeptInv, clean' => clean, job'.kind = job.kind, failed' = failed,
         pc' \in {"prune", "row", "finish"} => pc \in {"prune", "row", "finish"},
         Settled' \ (prune' \cup {victim'}) \subseteq Settled \ (prune \cup {victim})
  PROVE  KeptInv'
<1> SUFFICES ASSUME pc' \in {"prune", "row", "finish"}, job'.kind = "backup", ~failed', clean'
             PROVE  Cardinality(Settled' \ (prune' \cup {victim'})) <= Retain
  BY DEF KeptInv
<1> DEFINE Left == Settled \ (prune \cup {victim})
           Left2 == Settled' \ (prune' \cup {victim'})
<1>1. Cardinality(Left) <= Retain
  BY DEF KeptInv
<1>2. Left \subseteq Backup /\ Left2 \subseteq Left
  BY DEF Settled
<1>3. Cardinality(Left2) <= Cardinality(Left)
  BY <1>2, MoreBackups
<1>4. Cardinality(Left) \in Nat /\ Cardinality(Left2) \in Nat
  BY <1>2, BackupsFinite
<1>5. Cardinality(Left2) <= Retain
  <2> HIDE DEF Left, Left2
  <2> QED BY <1>1, <1>3, <1>4, SchedulesAssumption
<1> QED BY <1>5

LEMMA PruneStep ==
  ASSUME PruneInv, clean' => clean, job' = job, prune' \subseteq prune, prune \subseteq Backup,
         pc' \in {"prune", "row"} => pc \in {"prune", "row"},
         job.backup \notin raced' => job.backup \notin raced,
         \A b \in prune' :
           Outdated(b) /\ pc' \in {"prune", "row"} /\ clean' /\ job.backup \notin raced' =>
             /\ IsSettled(b)' /\ bk'[b].by = bk'[job.backup].by
             /\ <<job.backup, b>> \in newer'
             /\ Spared(b) \subseteq Spared(b)'
  PROVE  PruneInv'
<1> SUFFICES ASSUME pc' \in {"prune", "row"}, clean', job.backup \notin raced', NEW b \in prune'
             PROVE  Outdated(b)'
  BY DEF PruneInv
<1>1. Outdated(b)
  BY DEF PruneInv
<1>2. /\ IsSettled(b)' /\ bk'[b].by = bk'[job.backup].by
      /\ <<job.backup, b>> \in newer' /\ Spared(b) \subseteq Spared(b)'
  BY <1>1
<1>3. Cardinality(Spared(b)) >= Retain
  BY <1>1 DEF Outdated
<1>4. Spared(b) \subseteq Backup /\ Spared(b)' \subseteq Backup
  BY DEF Spared, Newer, Kin
<1>5. Cardinality(Spared(b)) <= Cardinality(Spared(b)')
  BY <1>2, <1>4, MoreBackups
<1>6. Cardinality(Spared(b)) \in Nat /\ Cardinality(Spared(b)') \in Nat
  BY <1>4, BackupsFinite
<1>7. Cardinality(Spared(b)') >= Retain
  BY <1>3, <1>5, <1>6, SchedulesAssumption
<1> QED BY <1>2, <1>7 DEF Outdated

\* What leaves the backups, the slot and the worker alone.
LEMMA QuietStep ==
  ASSUME SchedulesInv, UNCHANGED <<backups, slot, attempt, delete, up, history>>,
         ScheduleType', budget' \in [events : Nat, crashes : Nat],
         \A s \in Schedule :
           sched[s].status = "none" /\ sched'[s].status # "none" => job.by # s
  PROVE  SchedulesInv'
<1> USE DEF SchedulesInv, Types, backups, slot, attempt, history
<1>1. RowsType' /\ SlotType' /\ CallType' /\ WorkerInv'
  BY DEF RowsType, SlotType, CallType, WorkerInv
<1>2. OrderInv' /\ ArchiveInv' /\ CleanInv'
  BY DEF OrderInv, HasRow, ArchiveInv, ArchivesHaveRows, CleanInv
<1>3. OwnInv'
  <2>1. job.kind = "backup" => job.by \in Schedule
    BY DEF SlotType, NoJob, OtherJob
  <2>2. job.kind = "backup" /\ sched[job.by].status = "none" => sched'[job.by].status = "none"
    BY <2>1
  <2> QED BY <2>2 DEF OwnInv, HasRow
<1>4. KeptInv' /\ PruneInv'
  BY DEF KeptInv, Settled, IsSettled, PruneInv, Outdated, Spared, Newer, Kin
<1> QED BY <1>1, <1>2, <1>3, <1>4

LEMMA ChangeKeepsInv ==
  SchedulesInv /\ (\E s \in Schedule : Create(s) \/ \E status \in {"on", "off"} : Update(s, status))
    => SchedulesInv'
<1> SUFFICES ASSUME SchedulesInv, NEW s \in Schedule,
                    Create(s) \/ \E status \in {"on", "off"} : Update(s, status)
             PROVE  SchedulesInv'
  OBVIOUS
<1>1. PICK to \in Sched :
        /\ to.status # "none" /\ Change(s, to) /\ bk' = bk
        /\ sched[s].status = "none" => job.by # s
  <2>1. CASE Create(s)
    <3>1. [status |-> "on", left |-> Interval] \in Sched
      BY SchedulesAssumption DEF Sched
    <3> QED BY <2>1, <3>1 DEF Create
  <2>2. CASE \E status \in {"on", "off"} : Update(s, status)
    <3>1. PICK status \in {"on", "off"} : Update(s, status)
      BY <2>2
    <3>2. sched[s] \in Sched
      BY DEF SchedulesInv, Types, ScheduleType
    <3>3. [status |-> status, left |-> IF sched[s].status = "off" /\ status = "on" THEN Interval
                                       ELSE sched[s].left] \in Sched
      BY <3>2, SchedulesAssumption DEF Sched
    <3> QED BY <3>1, <3>3 DEF Update
  <2> QED BY <2>1, <2>2
<1>2. budget' \in [events : Nat, crashes : Nat]
  BY <1>1, SpendStep DEF Change, SchedulesInv, Types
<1>3. /\ sched' = [sched EXCEPT ![s] = to]
      /\ UNCHANGED <<backups, slot, attempt, delete, up, history, active, claimed>>
  BY <1>1 DEF Change, backups
<1>4. ScheduleType'
  BY <1>1, <1>3 DEF SchedulesInv, Types, ScheduleType, backups
<1>5. \A x \in Schedule : sched[x].status = "none" /\ sched'[x].status # "none" => job.by # x
  BY <1>1, <1>3 DEF SchedulesInv, Types, ScheduleType
<1> QED BY <1>2, <1>3, <1>4, <1>5, QuietStep

LEMMA ClockKeepsInv == SchedulesInv /\ (Tick \/ ClaimDue \/ Subscribe) => SchedulesInv'
<1> SUFFICES ASSUME SchedulesInv, Tick \/ ClaimDue \/ Subscribe
             PROVE  SchedulesInv'
  OBVIOUS
<1>1. UNCHANGED <<backups, slot, attempt, delete, up, history>>
  BY DEF Tick, ClaimDue, Subscribe
<1>2. budget' \in [events : Nat, crashes : Nat]
  <2>1. CASE Subscribe
    BY <2>1, SpendStep DEF Subscribe, SchedulesInv, Types
  <2>2. CASE Tick \/ ClaimDue
    BY <2>2 DEF Tick, ClaimDue, SchedulesInv, Types, CallType
  <2> QED BY <2>1, <2>2
<1>3. /\ sched' \in [Schedule -> Sched] /\ active' \in BOOLEAN /\ claimed' \subseteq Schedule
      /\ \A s \in Schedule : sched'[s].status = sched[s].status
  <2> USE DEF SchedulesInv, Types, ScheduleType
  <2>1. CASE Tick
    <3>1. \A s \in Schedule : Waiting(s) =>
            /\ [sched[s] EXCEPT !.left = @ - 1] \in Sched
            /\ [sched[s] EXCEPT !.left = @ - 1].status = sched[s].status
      BY SchedulesAssumption DEF Waiting, Sched
    <3>2. /\ sched' = [s \in Schedule |-> IF Waiting(s) THEN [sched[s] EXCEPT !.left = @ - 1]
                                         ELSE sched[s]]
          /\ active' = active /\ claimed' = claimed
      BY <2>1 DEF Tick
    <3> HIDE DEF Waiting
    <3> QED BY <3>1, <3>2
  <2>2. CASE ClaimDue
    <3>1. \A s \in Schedule : [sched[s] EXCEPT !.left = Interval] \in Sched
                               /\ [sched[s] EXCEPT !.left = Interval].status = sched[s].status
      BY SchedulesAssumption DEF Sched
    <3>2. /\ sched' = [s \in Schedule |-> IF s \in AllDue THEN [sched[s] EXCEPT !.left = Interval]
                                         ELSE sched[s]]
          /\ active' = active /\ claimed' = AllDue /\ AllDue \subseteq Schedule
      BY <2>2 DEF ClaimDue, AllDue
    <3> HIDE DEF AllDue
    <3> QED BY <3>1, <3>2
  <2>3. CASE Subscribe
    BY <2>3 DEF Subscribe
  <2> QED BY <2>1, <2>2, <2>3
<1>4. ScheduleType'
  BY <1>1, <1>3 DEF SchedulesInv, Types, ScheduleType, backups
<1> QED BY <1>1, <1>2, <1>3, <1>4, QuietStep

\* The schedule_id of several rows becomes NULL at once: those that had it in
\* common have NULL in common, and some more may have.
LEMMA DeleteKeepsInv == SchedulesInv /\ (\E s \in Schedule : Delete(s)) => SchedulesInv'
<1> SUFFICES ASSUME SchedulesInv, NEW s \in Schedule, Delete(s)
             PROVE  SchedulesInv'
  OBVIOUS
<1> USE DEF SchedulesInv, Types
<1>1. /\ sched' = [sched EXCEPT ![s] = [status |-> "none", left |-> Interval]]
      /\ bk' = [b \in Backup |-> IF bk[b].by = s THEN [bk[b] EXCEPT !.by = None] ELSE bk[b]]
      /\ UNCHANGED <<active, claimed, newer, archive, slot, attempt, delete, up, history>>
  BY DEF Delete, Change
<1>2. /\ bk' \in [Backup -> Row]
      /\ \A b \in Backup : /\ bk'[b].status = bk[b].status
                           /\ bk'[b].by = IF bk[b].by = s THEN None ELSE bk[b].by
                           /\ bk[b].status = "none" <=> bk[b] = NoRow
                           /\ bk'[b].status = "none" <=> bk'[b] = NoRow
  BY <1>1, SchedulesAssumption DEF RowsType, Row, NoRow
<1>3. \A b \in Backup : (HasRow(b)' <=> HasRow(b)) /\ (IsSettled(b)' <=> IsSettled(b))
  BY <1>2 DEF HasRow, IsSettled
<1>4. RowsType'
  BY <1>1, <1>2 DEF RowsType
<1>5. ScheduleType'
  <2>1. sched' \in [Schedule -> Sched] /\ \A x \in Schedule \ {s} : sched'[x] = sched[x]
    BY <1>1, SchedulesAssumption DEF ScheduleType, Sched
  <2>2. ASSUME NEW b \in Backup, NEW x \in Schedule, sched'[x].status = "none"
        PROVE  bk'[b].by # x
    <3>1. bk'[b].by = IF bk[b].by = s THEN None ELSE bk[b].by
      BY <1>2
    <3>2. CASE x = s
      BY <3>1, <3>2, SchedulesAssumption
    <3>3. CASE x # s
      <4>1. sched'[x] = sched[x] /\ x # None
        BY <2>1, <3>3, SchedulesAssumption
      <4>2. bk[b].by # x
        BY <2>2, <4>1 DEF ScheduleType
      <4> QED BY <3>1, <4>1, <4>2
    <3> QED BY <3>2, <3>3
  <2>3. active' \in BOOLEAN /\ claimed' \subseteq Schedule
    BY <1>1 DEF ScheduleType
  <2> QED BY <2>1, <2>2, <2>3 DEF ScheduleType
<1>6. budget' \in [events : Nat, crashes : Nat]
  BY SpendStep DEF Delete, Change
<1>7. SlotType' /\ CallType' /\ WorkerInv'
  BY <1>1, <1>6 DEF SlotType, CallType, WorkerInv, slot, attempt, history
<1>8. OrderInv'
  BY <1>1, <1>3, OrderKept
<1>9. OwnInv'
  <2>1. sched'[s].status = "none" /\ \A x \in Schedule \ {s} : sched'[x] = sched[x]
    BY <1>1 DEF ScheduleType
  <2>2. job.kind = "backup" => job.backup \in Backup /\ job.by \in Schedule
    BY DEF SlotType, NoJob, OtherJob
  <2>3. UNCHANGED <<job, newer, prune, victim, delete, raced>>
    BY <1>1 DEF slot, attempt, history
  <2> QED BY <1>2, <1>3, <2>1, <2>2, <2>3 DEF OwnInv
<1>10. ArchiveInv' /\ CleanInv'
  <2>1. ArchivesHaveRows'
    BY <1>1, <1>3 DEF ArchiveInv, ArchivesHaveRows, HasRow, history, RowsType
  <2>2. pc \in {"list", "prune", "row"} => job.backup \in Backup
    BY WorkersJob
  <2> QED BY <1>1, <1>2, <2>1, <2>2 DEF ArchiveInv, CleanInv, slot, attempt, history
<1>11. KeptInv'
  <2>1. job.kind = "backup" => job.by \in Schedule /\ job.by # None
    BY SchedulesAssumption DEF SlotType, NoJob, OtherJob
  <2>2. job.kind = "backup" => Settled' \subseteq Settled
    BY <1>1, <1>2, <1>3, <2>1 DEF Settled, slot
  <2>3. CASE job.kind = "backup"
    BY <1>1, <2>2, <2>3, KeptStep DEF slot, attempt, history
  <2>4. CASE job.kind # "backup"
    BY <1>1, <2>4 DEF KeptInv, slot
  <2> QED BY <2>3, <2>4
<1>12. PruneInv'
  <2>1. SUFFICES ASSUME NEW b \in prune, Outdated(b), pc \in {"prune", "row"}
                 PROVE  /\ IsSettled(b)' /\ bk'[b].by = bk'[job.backup].by
                        /\ <<job.backup, b>> \in newer'
                        /\ Spared(b) \subseteq Spared(b)'
    BY <1>1, PruneStep DEF CallType, slot, attempt, history
  <2>2. b \in Backup /\ job.backup \in Backup
    BY <2>1, WorkersJob DEF CallType
  <2>3. Kin(b) \subseteq Kin(b)'
    BY <1>2, <1>3, <2>2 DEF Kin
  <2>4. Spared(b) \subseteq Spared(b)'
    BY <1>1, <2>3 DEF Spared, Newer, attempt
  <2> QED BY <1>1, <1>2, <1>3, <2>1, <2>2, <2>4 DEF Outdated
<1> QED BY <1>4, <1>5, <1>7, <1>8, <1>9, <1>10, <1>11, <1>12

\* A worker is at nothing while the slot is free or its job is queued.
LEMMA Idle ==
  ASSUME SchedulesInv, phase # "running"
  PROVE  pc = "idle" /\ prune = {} /\ victim = None
  BY DEF SchedulesInv, Types, WorkerInv

\* A new job, and the row of the backup it is to make.
LEMMA InsertKeepsInv ==
  ASSUME SchedulesInv, NEW s \in Schedule, Insert(s),
         UNCHANGED <<sched, active, archive, attempt, delete, up, clean, budget>>,
         claimed' \subseteq Schedule
  PROVE  SchedulesInv'
<1> USE DEF SchedulesInv, Types
<1>1. /\ phase = "free" /\ phase' = "queued" /\ tries' = 0
      /\ s \in BackupOnly => sched[s].status # "none"
  BY DEF Insert, Refused, SlotType
<1>2. pc = "idle" /\ prune = {} /\ victim = None
  BY <1>1, Idle
<1>3. WorkerInv' /\ KeptInv' /\ PruneInv'
  BY <1>1, <1>2, NotPruning DEF attempt, WorkerInv
<1>4. CASE s \notin BackupOnly
  <2>1. job' = OtherJob /\ UNCHANGED <<bk, newer, raced>>
    BY <1>4 DEF Insert
  <2>2. RowsType' /\ ScheduleType' /\ SlotType' /\ CallType'
    BY <1>1, <2>1, SchedulesAssumption DEF RowsType, ScheduleType, SlotType, CallType, attempt
  <2>3. OrderInv'
    BY <2>1, OrderKept DEF HasRow
  <2>4. OwnInv' /\ ArchiveInv' /\ CleanInv'
    BY <1>1, <1>2, <2>1
       DEF OwnInv, OtherJob, ArchiveInv, ArchivesHaveRows, CleanInv, attempt
  <2> QED BY <1>3, <2>2, <2>3, <2>4
<1>5. CASE s \in BackupOnly
  <2> DEFINE b == CHOOSE x \in Fresh : TRUE
             row == [status |-> "queued", by |-> s]
  <2>1. Fresh # {} /\ job' = [kind |-> "backup", backup |-> b, by |-> s]
         /\ CreateRow(b, row) /\ raced' = raced \ {b}
    BY <1>5 DEF Insert
  <2>2. b \in Fresh
    BY <2>1
  <2>3. b \in Backup /\ ~HasRow(b) /\ b \notin archive /\ delete.backup # b /\ b # None
    BY <2>2, SchedulesAssumption DEF Fresh, HasRow
  <2> HIDE DEF b
  <2>4. row \in Row /\ row # NoRow
    BY DEF Row, NoRow
  <2>5. /\ OrderInv' /\ \A c \in Backup : <<c, b>> \notin newer'
        /\ \A c \in Backup \ {b} : bk'[c] = bk[c]
        /\ bk'[b] = row /\ bk' \in [Backup -> Row]
    BY <2>1, <2>3, <2>4, OrderCreate
  <2>6. RowsType'
    BY <2>5 DEF RowsType
  <2>7. ScheduleType'
    <3>1. \A c \in Backup, x \in Schedule : sched[x].status = "none" => bk'[c].by # x
      BY <1>1, <1>5, <2>5 DEF ScheduleType
    <3> QED BY <3>1 DEF ScheduleType
  <2>8. SlotType' /\ CallType'
    BY <1>1, <2>1, <2>3, SchedulesAssumption DEF SlotType, CallType, attempt
  <2>9. OwnInv'
    BY <1>2, <2>1, <2>3, <2>4, <2>5 DEF OwnInv, HasRow, attempt
  <2>10. ArchiveInv'
    <3>1. ArchivesHaveRows'
      BY <2>1, <2>3, <2>5, <2>6 DEF ArchiveInv, ArchivesHaveRows, RowsType
    <3> QED BY <2>1, <2>3, <3>1 DEF ArchiveInv, attempt
  <2>11. CleanInv'
    BY <1>1, <1>2 DEF CleanInv, attempt
  <2> QED BY <1>3, <2>5, <2>6, <2>7, <2>8, <2>9, <2>10, <2>11
<1> QED BY <1>4, <1>5

LEMMA RequestKeepsInv ==
  SchedulesInv /\ (Operate \/ \E s \in Schedule : RunNow(s) \/ Enqueue(s)) => SchedulesInv'
<1>1. ASSUME SchedulesInv, NEW s \in Schedule, RunNow(s)
      PROVE  SchedulesInv'
  BY <1>1, InsertKeepsInv DEF RunNow, SchedulesInv, Types, ScheduleType
<1>2. ASSUME SchedulesInv, NEW s \in Schedule, Enqueue(s)
      PROVE  SchedulesInv'
  <2>1. claimed' \subseteq Schedule
    BY <1>2 DEF Enqueue, SchedulesInv, Types, ScheduleType
  <2>2. UNCHANGED <<sched, active, archive, attempt, delete, up, clean, budget>>
    BY <1>2 DEF Enqueue
  <2>3. CASE Insert(s)
    BY <1>2, <2>1, <2>2, <2>3, InsertKeepsInv
  <2>4. CASE UNCHANGED <<slot, bk, newer, raced>>
    <3>1. UNCHANGED <<backups, slot, attempt, delete, up, history>>
      BY <2>2, <2>4 DEF backups, history
    <3>2. ScheduleType' /\ budget' \in [events : Nat, crashes : Nat]
      BY <1>2, <2>1, <2>2, <2>4 DEF SchedulesInv, Types, ScheduleType, CallType
    <3> QED BY <1>2, <2>2, <3>1, <3>2, QuietStep
  <2> QED BY <1>2, <2>3, <2>4 DEF Enqueue
<1>3. ASSUME SchedulesInv, Operate
      PROVE  SchedulesInv'
  <2> USE <1>3 DEF SchedulesInv, Types
  <2>1. /\ phase = "free" /\ phase' = "queued" /\ tries' = 0 /\ job' = OtherJob
        /\ UNCHANGED <<sched, active, claimed, backups, attempt, delete, up, history, budget>>
    BY DEF Operate
  <2>2. pc = "idle" /\ prune = {} /\ victim = None
    BY <2>1, Idle
  <2>3. RowsType' /\ ScheduleType' /\ SlotType' /\ CallType' /\ WorkerInv'
    BY <2>1, <2>2, SchedulesAssumption
       DEF RowsType, ScheduleType, SlotType, CallType, WorkerInv, attempt, backups, history
  <2>4. OrderInv'
    BY <2>1, OrderKept DEF HasRow, backups
  <2>5. OwnInv' /\ ArchiveInv' /\ CleanInv'
    BY <2>1, <2>2
       DEF OwnInv, OtherJob, ArchiveInv, ArchivesHaveRows, CleanInv, attempt, backups, history
  <2>6. KeptInv' /\ PruneInv'
    BY <2>1, <2>2, NotPruning DEF attempt
  <2> QED BY <2>3, <2>4, <2>5, <2>6
<1> QED BY <1>1, <1>2, <1>3

-----------------------------------------------------------------------------
(* The worker.                                                             *)

LEMMA ClaimKeepsInv == SchedulesInv /\ Claim => SchedulesInv'
<1> SUFFICES ASSUME SchedulesInv, Claim
             PROVE  SchedulesInv'
  OBVIOUS
<1> USE DEF SchedulesInv, Types
<1>1. /\ up /\ phase = "queued" /\ phase' = "running" /\ tries' = tries + 1
      /\ pc' = IF job.kind = "backup" THEN "creating" ELSE "finish"
      /\ prune' = {} /\ victim' = None /\ failed' = FALSE /\ clean' = (delete.at = "none")
      /\ UNCHANGED <<sched, active, claimed, bk, newer, archive, job, delete, up, raced, budget>>
  BY DEF Claim, backups
<1>2. RowsType' /\ ScheduleType'
  BY <1>1 DEF RowsType, ScheduleType
<1>3. SlotType'
  BY <1>1, SchedulesAssumption DEF SlotType
<1>4. CallType'
  <2>1. clean' \in BOOLEAN
    BY <1>1
  <2> QED BY <1>1, <2>1 DEF CallType
<1>5. WorkerInv'
  BY <1>1 DEF WorkerInv
<1>6. OrderInv'
  BY <1>1, OrderKept DEF HasRow
<1>7. OwnInv'
  <2>1. job.kind = "backup" => job.backup # None
    BY SchedulesAssumption DEF SlotType, NoJob, OtherJob
  <2> QED BY <1>1, <2>1 DEF OwnInv, HasRow
<1>8. ArchiveInv' /\ CleanInv'
  <2>1. None \notin archive
    BY SchedulesAssumption DEF RowsType
  <2> QED BY <1>1, <2>1 DEF ArchiveInv, ArchivesHaveRows, CleanInv
<1>9. KeptInv' /\ PruneInv'
  BY <1>1, NotPruning
<1> QED BY <1>2, <1>3, <1>4, <1>5, <1>6, <1>7, <1>8, <1>9

LEMMA CallStep ==
  ASSUME SchedulesInv, Smooth \/ Trouble
  PROVE  /\ budget' \in [events : Nat, crashes : Nat]
         /\ clean' \in BOOLEAN /\ (clean' => clean /\ Smooth)
<1>1. CASE Smooth
  BY <1>1 DEF Smooth, SchedulesInv, Types, CallType
<1>2. CASE Trouble
  BY <1>2, SpendStep DEF Trouble, SchedulesInv, Types
<1> QED BY <1>1, <1>2

\* What a change of the status of the job's own row leaves as it is.
LEMMA WriteStep ==
  ASSUME SchedulesInv, job.backup \in Backup, NEW status \in {"creating", "ready", "failed"},
         Write(status)
  PROVE  /\ Smooth \/ Trouble
         /\ bk' \in [Backup -> Row]
         /\ \A b \in Backup : /\ bk'[b].status = "none" => bk'[b] = NoRow
                              /\ HasRow(b)' <=> HasRow(b)
                              /\ bk'[b].by = bk[b].by
         /\ Smooth /\ HasRow(job.backup) => bk'[job.backup].status = status
<1> USE DEF SchedulesInv, Types, RowsType
<1>1. CASE UNCHANGED bk /\ Trouble
  <2>1. ~Smooth \/ ~Trouble
    BY DEF Smooth, Trouble, Spend, CallType
  <2>2. ~Smooth
    BY <1>1, <2>1
  <2> QED BY <1>1, <2>2 DEF HasRow
<1>2. CASE bk' = [bk EXCEPT ![job.backup] = IF @ = NoRow THEN @ ELSE [@ EXCEPT !.status = status]] /\ Smooth
  <2> DEFINE b == job.backup
             new == IF bk[b] = NoRow THEN bk[b] ELSE [bk[b] EXCEPT !.status = status]
  <2>1. new \in Row /\ new.by = bk[b].by /\ (bk[b] # NoRow => new.status = status)
    BY DEF Row
  <2>2. (bk[b] = NoRow <=> new = NoRow) /\ (new.status = "none" => new = NoRow)
    BY <2>1 DEF NoRow
  <2>3. bk' = [bk EXCEPT ![b] = new]
    BY <1>2
  <2> HIDE DEF new
  <2>4. bk' \in [Backup -> Row] /\ bk'[b] = new /\ \A c \in Backup : c # b => bk'[c] = bk[c]
    BY <2>1, <2>3
  <2> QED BY <1>2, <2>1, <2>2, <2>4 DEF HasRow
<1> QED BY <1>1, <1>2 DEF Write

\* What a step of the worker that neither adds nor removes a row leaves as it is.
LEMMA SameRows ==
  ASSUME SchedulesInv, Same, newer' = newer, archive' \subseteq Backup,
         bk' \in [Backup -> Row],
         \A b \in Backup : /\ bk'[b].status = "none" => bk'[b] = NoRow
                           /\ HasRow(b)' <=> HasRow(b)
                           /\ bk'[b].by = bk[b].by
  PROVE  /\ RowsType' /\ ScheduleType' /\ SlotType' /\ OrderInv'
         /\ UNCHANGED <<sched, job, phase, tries, delete, up, raced>>
<1> USE DEF SchedulesInv, Types
<1>1. UNCHANGED <<sched, active, claimed, job, phase, tries, delete, up, raced>>
  BY DEF Same, slot
<1>2. RowsType'
  BY DEF RowsType
<1>3. ScheduleType'
  BY <1>1 DEF ScheduleType
<1>4. SlotType'
  BY <1>1 DEF SlotType
<1>5. OrderInv'
  BY OrderKept
<1> QED BY <1>1, <1>2, <1>3, <1>4, <1>5

LEMMA MarkCreatingKeepsInv == SchedulesInv /\ MarkCreating => SchedulesInv'
<1> SUFFICES ASSUME SchedulesInv, MarkCreating
             PROVE  SchedulesInv'
  OBVIOUS
<1> USE DEF SchedulesInv, Types
<1>1. /\ pc = "creating" /\ pc' = "archive" /\ Write("creating")
      /\ UNCHANGED <<newer, archive, prune, victim, failed>> /\ Same
  BY DEF MarkCreating, At
<1>2. up /\ phase = "running" /\ job.kind = "backup" /\ job.backup \in Backup
  BY <1>1, WorkersJob
<1>3. /\ Smooth \/ Trouble
      /\ bk' \in [Backup -> Row]
      /\ \A b \in Backup : /\ bk'[b].status = "none" => bk'[b] = NoRow
                           /\ HasRow(b)' <=> HasRow(b)
                           /\ bk'[b].by = bk[b].by
  BY <1>1, <1>2, WriteStep
<1>4. budget' \in [events : Nat, crashes : Nat] /\ clean' \in BOOLEAN /\ (clean' => clean)
  BY <1>3, CallStep
<1>5. /\ RowsType' /\ ScheduleType' /\ SlotType' /\ OrderInv'
      /\ UNCHANGED <<sched, job, phase, tries, delete, up, raced>>
  BY <1>1, <1>3, SameRows DEF RowsType
<1>6. CallType'
  BY <1>1, <1>4, <1>5 DEF CallType
<1>7. WorkerInv'
  BY <1>1, <1>2, <1>5 DEF WorkerInv
<1>8. OwnInv'
  BY <1>1, <1>2, <1>3, <1>5 DEF OwnInv
<1>9. ArchiveInv' /\ CleanInv'
  <2>1. ArchivesHaveRows'
    BY <1>1, <1>3, <1>5 DEF ArchiveInv, ArchivesHaveRows, HasRow, RowsType
  <2> QED BY <1>1, <1>4, <1>5, <2>1 DEF ArchiveInv, CleanInv
<1>10. KeptInv' /\ PruneInv'
  BY <1>1, NotPruning
<1> QED BY <1>5, <1>6, <1>7, <1>8, <1>9, <1>10

LEMMA ArchiveKeepsInv == SchedulesInv /\ Archive => SchedulesInv'
<1> SUFFICES ASSUME SchedulesInv, Archive
             PROVE  SchedulesInv'
  OBVIOUS
<1> USE DEF SchedulesInv, Types
<1>1. /\ pc = "archive" /\ pc' = "outcome" /\ (Smooth \/ Trouble)
      /\ failed' \in BOOLEAN /\ archive' \in {archive, archive \cup {job.backup}}
      /\ ~failed' => archive' = archive \cup {job.backup}
      /\ UNCHANGED <<bk, newer, prune, victim>> /\ Same
  BY DEF Archive, At
<1>2. up /\ phase = "running" /\ job.kind = "backup" /\ job.backup \in Backup
  BY <1>1, WorkersJob
<1>3. budget' \in [events : Nat, crashes : Nat] /\ clean' \in BOOLEAN /\ (clean' => clean)
  BY <1>1, CallStep
<1>4. /\ RowsType' /\ ScheduleType' /\ SlotType' /\ OrderInv'
      /\ UNCHANGED <<sched, job, phase, tries, delete, up, raced>>
  BY <1>1, <1>2, SameRows DEF RowsType, HasRow
<1>5. CallType'
  BY <1>1, <1>3, <1>4 DEF CallType
<1>6. WorkerInv'
  BY <1>1, <1>2, <1>4 DEF WorkerInv
<1>7. OwnInv'
  BY <1>1, <1>4 DEF OwnInv, HasRow
<1>8. ArchiveInv'
  <2>1. ArchivesHaveRows'
    BY <1>1, <1>2, <1>4 DEF ArchiveInv, ArchivesHaveRows, OwnInv, HasRow
  <2>2. victim' \notin archive'
    BY <1>1, <1>2 DEF ArchiveInv, OwnInv
  <2>3. delete'.at = "row" => delete'.backup \notin archive' \/ delete'.backup \in raced'
    BY <1>1, <1>2, <1>4 DEF ArchiveInv, OwnInv
  <2> QED BY <2>1, <2>2, <2>3 DEF ArchiveInv
<1>9. CleanInv'
  BY <1>1, <1>3, <1>4 DEF CleanInv
<1>10. KeptInv' /\ PruneInv'
  BY <1>1, NotPruning
<1> QED BY <1>4, <1>5, <1>6, <1>7, <1>8, <1>9, <1>10

LEMMA MarkOutcomeKeepsInv == SchedulesInv /\ MarkOutcome => SchedulesInv'
<1> SUFFICES ASSUME SchedulesInv, MarkOutcome
             PROVE  SchedulesInv'
  OBVIOUS
<1> USE DEF SchedulesInv, Types
<1> DEFINE status == IF failed THEN "failed" ELSE "ready"
<1>1. /\ pc = "outcome" /\ pc' = (IF failed THEN "finish" ELSE "list") /\ Write(status)
      /\ UNCHANGED <<newer, archive, prune, victim, failed>> /\ Same
  BY DEF MarkOutcome, At
<1>2. up /\ phase = "running" /\ job.kind = "backup" /\ job.backup \in Backup
  BY <1>1, WorkersJob
<1>3. /\ Smooth \/ Trouble
      /\ bk' \in [Backup -> Row]
      /\ \A b \in Backup : /\ bk'[b].status = "none" => bk'[b] = NoRow
                           /\ HasRow(b)' <=> HasRow(b)
                           /\ bk'[b].by = bk[b].by
      /\ Smooth /\ HasRow(job.backup) => bk'[job.backup].status = status
  BY <1>1, <1>2, WriteStep
<1>4. budget' \in [events : Nat, crashes : Nat] /\ clean' \in BOOLEAN /\ (clean' => clean /\ Smooth)
  BY <1>3, CallStep
<1>5. /\ RowsType' /\ ScheduleType' /\ SlotType' /\ OrderInv'
      /\ UNCHANGED <<sched, job, phase, tries, delete, up, raced>>
  BY <1>1, <1>3, SameRows DEF RowsType
<1>6. CallType'
  BY <1>1, <1>4, <1>5 DEF CallType
<1>7. WorkerInv'
  BY <1>1, <1>2, <1>5 DEF WorkerInv, CallType
<1>8. OwnInv'
  BY <1>1, <1>2, <1>3, <1>5 DEF OwnInv
<1>9. ArchiveInv'
  <2>1. ArchivesHaveRows'
    BY <1>1, <1>3, <1>5 DEF ArchiveInv, ArchivesHaveRows, HasRow, RowsType
  <2> QED BY <1>1, <1>5, <2>1 DEF ArchiveInv
<1>10. CleanInv'
  <2>1. job.backup \notin raced => HasRow(job.backup)
    BY <1>2 DEF OwnInv
  <2>2. pc' = "list" => ~failed /\ status = "ready"
    BY <1>1
  <2> QED BY <1>1, <1>3, <1>4, <1>5, <2>1, <2>2 DEF CleanInv
<1>11. KeptInv' /\ PruneInv'
  BY <1>1, NotPruning
<1> QED BY <1>5, <1>6, <1>7, <1>8, <1>9, <1>10, <1>11

-----------------------------------------------------------------------------
(* Pruning.                                                                *)

\* The finished backups of a schedule are in a strict and total order.
LEMMA SettledOrder ==
  ASSUME OrderInv
  PROVE  /\ Settled \subseteq Backup /\ IsFiniteSet(Settled)
         /\ Order(newer, Settled) /\ Total(newer, Settled)
         /\ \A b \in Backup : Newer(b, Settled) = Before(newer, Settled, b)
<1>1. Settled \subseteq Backup /\ \A b \in Settled : HasRow(b)
  BY DEF Settled, IsSettled, HasRow, NoRow
<1>2. Order(newer, Settled)
  <2>1. \A a \in Settled : <<a, a>> \notin newer
    BY DEF OrderInv
  <2>2. \A a, b, c \in Settled : <<a, b>> \in newer /\ <<b, c>> \in newer => <<a, c>> \in newer
    BY <1>1 DEF OrderInv
  <2> QED BY <2>1, <2>2 DEF Order
<1>3. Total(newer, Settled)
  BY <1>1 DEF OrderInv, Total
<1> QED BY <1>1, <1>2, <1>3, BackupsFinite DEF Newer, Before

\* All but Retain are candidates, and the job's own backup is none of them.
LEMMA CandidatesLeave ==
  ASSUME SchedulesInv
  PROVE  /\ Cardinality(Settled \ Excess) <= Retain
         /\ job.kind = "backup" => job.backup \notin Excess
<1> USE DEF SchedulesInv
<1>1. Settled \ Excess = {b \in Settled : Cardinality(Before(newer, Settled, b)) < Retain}
  <2>1. \A b \in Settled : Newer(b, Settled) = Before(newer, Settled, b)
                            /\ Cardinality(Before(newer, Settled, b)) \in Nat
    BY SettledOrder, BackupsFinite DEF Before
  <2> QED BY <2>1, SchedulesAssumption DEF Excess
<1>2. Cardinality(Settled \ Excess) <= Retain
  BY <1>1, SettledOrder, KeptFew, SchedulesAssumption
<1>3. ASSUME job.kind = "backup", job.backup \in Excess
      PROVE  FALSE
  <2>1. Newer(job.backup, Settled) = {}
    BY <1>3 DEF OwnInv, Newer, Settled
  <2>2. Cardinality(Newer(job.backup, Settled)) >= Retain
    BY <1>3 DEF Excess
  <2> QED BY <2>1, <2>2, FS_EmptySet, SchedulesAssumption
<1> QED BY <1>2, <1>3

\* Each of them has Retain newer ones that are not, among them the job's own.
LEMMA CandidatesOutdated ==
  ASSUME SchedulesInv, job.kind = "backup", job.backup \in Backup, job.by \in Schedule,
         job.backup \notin raced, bk[job.backup].status = "ready", NEW b \in Excess
  PROVE  /\ IsSettled(b) /\ bk[b].by = bk[job.backup].by /\ <<job.backup, b>> \in newer
         /\ Cardinality({c \in Newer(b, Kin(b)) : c \notin Excess}) >= Retain
<1> USE DEF SchedulesInv, Types
<1>1. b \in Settled /\ b \in Backup /\ IsSettled(b) /\ bk[b].by = job.by
       /\ Cardinality(Newer(b, Settled)) >= Retain
  BY DEF Excess, Settled
<1>2. bk[job.backup].by = job.by /\ HasRow(job.backup)
  BY <1>1 DEF OwnInv, ScheduleType
<1>3. <<job.backup, b>> \in newer
  <2>1. job.backup # b
    BY CandidatesLeave
  <2>2. HasRow(b) /\ <<b, job.backup>> \notin newer
    BY <1>1 DEF OwnInv, HasRow, IsSettled, NoRow
  <2> QED BY <1>1, <1>2, <2>1, <2>2 DEF OrderInv
<1>4. Kin(b) = Settled
  BY <1>1 DEF Kin, Settled
<1>5. Cardinality(Before(newer, Settled, b)) >= Retain
  BY <1>1, SettledOrder
<1>6. Cardinality({c \in Before(newer, Settled, b) :
                     ~(Cardinality(Before(newer, Settled, c)) >= Retain)}) >= Retain
  BY <1>1, <1>5, SettledOrder, KeptEnough, SchedulesAssumption
<1>7. {c \in Newer(b, Kin(b)) : c \notin Excess}
        = {c \in Before(newer, Settled, b) : ~(Cardinality(Before(newer, Settled, c)) >= Retain)}
  <2>1. \A c \in Settled : c \notin Excess <=> ~(Cardinality(Before(newer, Settled, c)) >= Retain)
    BY SettledOrder DEF Excess
  <2>2. Newer(b, Kin(b)) = Before(newer, Settled, b)
    BY <1>1, <1>4, SettledOrder
  <2>3. Before(newer, Settled, b) \subseteq Settled
    BY DEF Before
  <2> QED BY <2>1, <2>2, <2>3
<1> QED BY <1>1, <1>2, <1>3, <1>6, <1>7

LEMMA ListKeepsInv == SchedulesInv /\ List => SchedulesInv'
<1> SUFFICES ASSUME SchedulesInv, List
             PROVE  SchedulesInv'
  OBVIOUS
<1> USE DEF SchedulesInv, Types
<1>1. /\ pc = "list" /\ pc' = "prune" /\ UNCHANGED <<bk, newer, archive, victim, failed>> /\ Same
      /\ (prune' = Excess /\ Smooth) \/ (prune' = {} /\ Trouble)
  BY DEF List, At, backups
<1>2. /\ up /\ phase = "running" /\ job.kind = "backup"
      /\ job.backup \in Backup /\ job.by \in Schedule
  BY <1>1, WorkersJob
<1>3. budget' \in [events : Nat, crashes : Nat] /\ clean' \in BOOLEAN /\ (clean' => clean /\ Smooth)
  BY <1>1, CallStep
<1>4. /\ RowsType' /\ ScheduleType' /\ SlotType' /\ OrderInv'
      /\ UNCHANGED <<sched, job, phase, tries, delete, up, raced>>
  BY <1>1, SameRows DEF RowsType, HasRow
<1>5. /\ prune' \subseteq Backup /\ victim = None /\ None \notin Backup
      /\ job.backup \notin prune' /\ job.backup # victim
  BY <1>1, <1>2, CandidatesLeave, SchedulesAssumption DEF WorkerInv, Excess, Settled
<1>6. CallType' /\ WorkerInv'
  BY <1>1, <1>2, <1>3, <1>4, <1>5 DEF CallType, WorkerInv
<1>7. OwnInv'
  BY <1>1, <1>4, <1>5 DEF OwnInv, HasRow
<1>8. ArchiveInv' /\ CleanInv'
  BY <1>1, <1>3, <1>4 DEF ArchiveInv, ArchivesHaveRows, CleanInv
<1>9. ASSUME clean'
      PROVE  KeptInv' /\ PruneInv'
  <2>0. ~Smooth \/ ~Trouble
    BY DEF Smooth, Trouble, Spend, CallType
  <2>1. prune' = Excess /\ clean
    BY <1>1, <1>3, <1>9, <2>0
  <2>2. KeptInv'
    <3>1. Settled' = Settled /\ Settled \subseteq Backup /\ None \notin Backup
      BY <1>1, <1>4, SchedulesAssumption DEF Settled, IsSettled
    <3>2. Settled' \ (prune' \cup {victim'}) = Settled \ Excess
      BY <1>1, <1>5, <2>1, <3>1
    <3> QED BY <3>2, CandidatesLeave DEF KeptInv
  <2>3. PruneInv'
    <3>1. SUFFICES ASSUME job.backup \notin raced, NEW b \in Excess
                   PROVE  Outdated(b)'
      BY <1>4, <2>1 DEF PruneInv
    <3>2. bk[job.backup].status = "ready"
      BY <1>1, <2>1, <3>1 DEF CleanInv
    <3>3. /\ IsSettled(b) /\ bk[b].by = bk[job.backup].by /\ <<job.backup, b>> \in newer
          /\ Cardinality({c \in Newer(b, Kin(b)) : c \notin Excess}) >= Retain
      BY <1>2, <3>1, <3>2, CandidatesOutdated
    <3>4. Kin(b)' = Kin(b) /\ Newer(b, Kin(b))' = Newer(b, Kin(b)) /\ IsSettled(b)' = IsSettled(b)
      BY <1>1 DEF Kin, IsSettled, Newer
    <3>5. None \notin Newer(b, Kin(b))
      BY <1>5 DEF Kin, Newer
    <3>6. Spared(b)' = {c \in Newer(b, Kin(b)) : c \notin Excess}
      BY <1>1, <1>5, <2>1, <3>4, <3>5 DEF Spared
    <3> QED BY <1>1, <1>4, <3>3, <3>4, <3>6 DEF Outdated
  <2> QED BY <2>2, <2>3
<1>10. ASSUME ~clean'
       PROVE  KeptInv' /\ PruneInv'
  BY <1>10, NotPruning
<1> QED BY <1>4, <1>6, <1>7, <1>8, <1>9, <1>10

LEMMA PruneArchiveKeepsInv == SchedulesInv /\ (\E b \in Backup : PruneArchive(b)) => SchedulesInv'
<1> SUFFICES ASSUME SchedulesInv, NEW b \in Backup, PruneArchive(b)
             PROVE  SchedulesInv'
  OBVIOUS
<1> USE DEF SchedulesInv, Types
<1>1. /\ pc = "prune" /\ b \in prune /\ prune' = prune \ {b}
      /\ archive' \in {archive, archive \ {b}}
      /\ UNCHANGED <<bk, newer, failed>> /\ Same
      /\ \/ archive' = archive \ {b} /\ pc' = "row" /\ victim' = b /\ Smooth
         \/ UNCHANGED <<pc, victim>> /\ Trouble
  BY DEF PruneArchive, At
<1>2. /\ up /\ phase = "running" /\ job.kind = "backup"
      /\ job.backup \in Backup /\ job.by \in Schedule
  BY <1>1, WorkersJob
<1>3. budget' \in [events : Nat, crashes : Nat] /\ clean' \in BOOLEAN /\ (clean' => clean /\ Smooth)
  BY <1>1, CallStep
<1>4. /\ RowsType' /\ ScheduleType' /\ SlotType' /\ OrderInv'
      /\ UNCHANGED <<sched, job, phase, tries, delete, up, raced>>
  BY <1>1, SameRows DEF RowsType, HasRow
<1>5. /\ victim = None /\ None \notin Backup /\ b # job.backup
      /\ job.backup \notin prune' /\ job.backup # victim'
  BY <1>1, <1>2, SchedulesAssumption DEF WorkerInv, OwnInv
<1>6. CallType' /\ WorkerInv'
  BY <1>1, <1>2, <1>3, <1>4, <1>5 DEF CallType, WorkerInv
<1>7. OwnInv'
  BY <1>1, <1>4, <1>5 DEF OwnInv, HasRow
<1>8. ArchiveInv' /\ CleanInv'
  <2>1. victim' \notin archive'
    BY <1>1 DEF ArchiveInv
  <2>2. ArchivesHaveRows'
    BY <1>1, <1>4 DEF ArchiveInv, ArchivesHaveRows
  <2>3. delete'.at = "row" => delete'.backup \notin archive' \/ delete'.backup \in raced'
    BY <1>1, <1>4 DEF ArchiveInv
  <2>4. CleanInv'
    BY <1>1, <1>3, <1>4, <1>5 DEF CleanInv
  <2> QED BY <2>1, <2>2, <2>3, <2>4 DEF ArchiveInv
<1>9. ASSUME clean'
      PROVE  KeptInv' /\ PruneInv'
  <2>1. ~Smooth \/ ~Trouble
    BY DEF Smooth, Trouble, Spend, CallType
  <2>2. pc' = "row" /\ victim' = b
    BY <1>1, <1>3, <1>9, <2>1
  <2>3. KeptInv'
    <3>1. Settled' = Settled
      BY <1>1, <1>4 DEF Settled, IsSettled
    <3>2. Settled' \ (prune' \cup {victim'}) \subseteq Settled \ (prune \cup {victim})
      BY <1>1, <1>5, <2>2, <3>1 DEF Settled
    <3> QED BY <1>1, <1>3, <1>4, <3>2, KeptStep
  <2>4. PruneInv'
    <3>1. SUFFICES ASSUME NEW e \in prune', Outdated(e)
                   PROVE  /\ IsSettled(e)' /\ bk'[e].by = bk'[job.backup].by
                          /\ <<job.backup, e>> \in newer'
                          /\ Spared(e) \subseteq Spared(e)'
      BY <1>1, <1>3, <1>4, <2>2, PruneStep DEF CallType
    <3>2. Spared(e) \subseteq Spared(e)'
      BY <1>1, <2>2 DEF Spared, Newer, Kin, IsSettled
    <3> QED BY <1>1, <3>1, <3>2 DEF Outdated, IsSettled
  <2> QED BY <2>3, <2>4
<1>10. ASSUME ~clean'
       PROVE  KeptInv' /\ PruneInv'
  BY <1>10, NotPruning
<1> QED BY <1>4, <1>6, <1>7, <1>8, <1>9, <1>10

LEMMA PruneRowKeepsInv == SchedulesInv /\ PruneRow => SchedulesInv'
<1> SUFFICES ASSUME SchedulesInv, PruneRow
             PROVE  SchedulesInv'
  OBVIOUS
<1> USE DEF SchedulesInv, Types
<1>1. /\ pc = "row" /\ pc' = "prune" /\ victim' = None
      /\ UNCHANGED <<archive, prune, failed>> /\ Same
      /\ (DeleteRowOf(victim) /\ Smooth) \/ (UNCHANGED <<bk, newer>> /\ Trouble)
  BY DEF PruneRow, At
<1>2. /\ up /\ phase = "running" /\ job.kind = "backup"
      /\ job.backup \in Backup /\ job.by \in Schedule
  BY <1>1, WorkersJob
<1>3. budget' \in [events : Nat, crashes : Nat] /\ clean' \in BOOLEAN /\ (clean' => clean /\ Smooth)
  BY <1>1, CallStep
<1>4. /\ victim \in Backup /\ victim \notin prune /\ None \notin Backup
      /\ victim # job.backup /\ victim \notin archive
  BY <1>1, <1>2, SchedulesAssumption DEF WorkerInv, OwnInv, ArchiveInv
<1>5. CASE UNCHANGED <<bk, newer>> /\ Trouble
  <2>1. /\ RowsType' /\ ScheduleType' /\ SlotType' /\ OrderInv'
        /\ UNCHANGED <<sched, job, phase, tries, delete, up, raced>>
    BY <1>1, <1>5, SameRows DEF RowsType, HasRow
  <2>2. CallType' /\ WorkerInv'
    BY <1>1, <1>2, <1>3, <1>4, <2>1 DEF CallType, WorkerInv
  <2>3. OwnInv' /\ ArchiveInv' /\ CleanInv'
    BY <1>1, <1>2, <1>3, <1>4, <1>5, <2>1
       DEF OwnInv, HasRow, ArchiveInv, ArchivesHaveRows, CleanInv, RowsType
  <2>4. KeptInv' /\ PruneInv'
    BY <1>5, NotPruning DEF Trouble
  <2> QED BY <2>1, <2>2, <2>3, <2>4
<1>6. CASE DeleteRowOf(victim) /\ Smooth
  <2>1. /\ OrderInv'
        /\ \A c, d \in Backup : <<c, d>> \in newer' <=> <<c, d>> \in newer /\ c # victim /\ d # victim
        /\ \A c \in Backup \ {victim} : bk'[c] = bk[c]
        /\ bk'[victim] = NoRow /\ bk' \in [Backup -> Row]
    BY <1>4, <1>6, OrderDelete
  <2>2. UNCHANGED <<sched, active, claimed, job, phase, tries, delete, up, raced>>
    BY <1>1 DEF Same, slot
  <2>3. RowsType' /\ SlotType'
    BY <1>1, <2>1, <2>2 DEF RowsType, SlotType
  <2>4. ScheduleType'
    <3>1. \A s \in Schedule : NoRow.by # s
      BY SchedulesAssumption DEF NoRow
    <3> QED BY <2>1, <2>2, <3>1 DEF ScheduleType
  <2>5. CallType' /\ WorkerInv'
    BY <1>1, <1>2, <1>3, <1>4, <2>2 DEF CallType, WorkerInv
  <2>6. bk'[job.backup] = bk[job.backup]
    BY <1>2, <1>4, <2>1
  <2>7. OwnInv'
    BY <1>1, <1>2, <1>4, <2>1, <2>2, <2>6 DEF OwnInv, HasRow
  <2>8. ArchiveInv'
    <3>1. ArchivesHaveRows'
      BY <1>1, <1>4, <2>1, <2>2 DEF ArchiveInv, ArchivesHaveRows, RowsType
    <3> QED BY <1>1, <1>4, <2>2, <3>1 DEF ArchiveInv, RowsType
  <2>9. CleanInv'
    BY <1>1, <1>3, <2>2, <2>6 DEF CleanInv
  <2>10. \A b \in Backup : b # victim => (IsSettled(b)' <=> IsSettled(b)) /\ bk'[b].by = bk[b].by
    BY <2>1 DEF IsSettled
  <2>11. bk'[victim].status \notin {"ready", "failed"}
    BY <2>1 DEF NoRow
  <2>12. KeptInv'
    <3>1. Settled' \subseteq Settled \ {victim}
      BY <1>4, <2>2, <2>10, <2>11 DEF Settled, IsSettled
    <3>2. Settled' \ (prune' \cup {victim'}) \subseteq Settled \ (prune \cup {victim})
      BY <1>1, <3>1
    <3> QED BY <1>1, <1>3, <2>2, <3>2, KeptStep
  <2>13. PruneInv'
    <3>1. SUFFICES ASSUME NEW e \in prune', Outdated(e)
                   PROVE  /\ IsSettled(e)' /\ bk'[e].by = bk'[job.backup].by
                          /\ <<job.backup, e>> \in newer'
                          /\ Spared(e) \subseteq Spared(e)'
      BY <1>1, <1>3, <2>2, PruneStep DEF CallType
    <3>2. e \in Backup /\ e # victim
      BY <1>1, <1>4 DEF CallType
    <3>3. \A c \in Spared(e) : c \in Backup /\ c # victim /\ c \notin prune /\ c # None
                               /\ c \in Kin(e) /\ <<c, e>> \in newer
      BY <1>4 DEF Spared, Newer, Kin
    <3>4. \A c \in Spared(e) : c \in Kin(e)' /\ <<c, e>> \in newer'
      BY <2>1, <2>10, <3>2, <3>3 DEF Kin
    <3>5. Spared(e) \subseteq Spared(e)'
      BY <1>1, <3>3, <3>4 DEF Spared, Newer
    <3> QED BY <1>2, <1>4, <2>1, <2>6, <2>10, <3>1, <3>2, <3>5 DEF Outdated
  <2> QED BY <2>1, <2>3, <2>4, <2>5, <2>7, <2>8, <2>9, <2>12, <2>13
<1> QED BY <1>1, <1>5, <1>6

LEMMA PrunedKeepsInv == SchedulesInv /\ Pruned => SchedulesInv'
<1> SUFFICES ASSUME SchedulesInv, Pruned
             PROVE  SchedulesInv'
  OBVIOUS
<1> USE DEF SchedulesInv, Types
<1>1. /\ pc = "prune" /\ pc' = "finish" /\ prune = {}
      /\ UNCHANGED <<bk, newer, archive, prune, victim, failed, clean, budget>> /\ Same
  BY DEF Pruned, At, backups
<1>2. up /\ phase = "running" /\ job.kind = "backup" /\ job.backup \in Backup
  BY <1>1, WorkersJob
<1>3. /\ RowsType' /\ ScheduleType' /\ SlotType' /\ OrderInv'
      /\ UNCHANGED <<sched, job, phase, tries, delete, up, raced>>
  BY <1>1, SameRows DEF RowsType, HasRow
<1>4. CallType' /\ WorkerInv'
  BY <1>1, <1>2, <1>3 DEF CallType, WorkerInv
<1>5. OwnInv' /\ ArchiveInv' /\ CleanInv'
  BY <1>1, <1>3 DEF OwnInv, HasRow, ArchiveInv, ArchivesHaveRows, CleanInv
<1>6. KeptInv'
  BY <1>1, <1>3 DEF KeptInv, Settled, IsSettled
<1>7. PruneInv'
  BY <1>1 DEF PruneInv
<1> QED BY <1>3, <1>4, <1>5, <1>6, <1>7

-----------------------------------------------------------------------------
(* The end of an attempt, deletions by the owner, and crashes.             *)

LEMMA FinishKeepsInv == SchedulesInv /\ Finish => SchedulesInv'
<1> SUFFICES ASSUME SchedulesInv, Finish
             PROVE  SchedulesInv'
  OBVIOUS
<1> USE DEF SchedulesInv, Types
<1>1. /\ pc = "finish" /\ pc' = "idle" /\ phase' = "free" /\ tries' = 0 /\ job' = NoJob
      /\ failed' = FALSE /\ clean' = TRUE
      /\ UNCHANGED <<sched, active, claimed, bk, newer, archive, prune, victim, delete, up,
                     raced, budget>>
  BY DEF Finish, At, Free, backups
<1>2. RowsType' /\ ScheduleType'
  BY <1>1 DEF RowsType, ScheduleType
<1>3. SlotType' /\ CallType' /\ WorkerInv'
  <2>1. SlotType'
    BY <1>1, SchedulesAssumption DEF SlotType
  <2>2. CallType'
    BY <1>1 DEF CallType
  <2>3. WorkerInv'
    BY <1>1 DEF WorkerInv
  <2> QED BY <2>1, <2>2, <2>3
<1>4. OrderInv'
  BY <1>1, OrderKept DEF HasRow
<1>5. OwnInv' /\ ArchiveInv' /\ CleanInv'
  BY <1>1 DEF OwnInv, NoJob, ArchiveInv, ArchivesHaveRows, CleanInv
<1>6. KeptInv' /\ PruneInv'
  BY <1>1, NotPruning
<1> QED BY <1>2, <1>3, <1>4, <1>5, <1>6

\* A call whose caller is gone may add the archive of the job's own backup or
\* remove one that has its row.
LEMMA AbandonedStep ==
  ASSUME SchedulesInv, archive' \in Abandoned, bk' = bk, raced' = raced
  PROVE  /\ archive' \subseteq Backup /\ ArchivesHaveRows'
         /\ \A b \in archive' : b \in archive
                                \/ (pc = "archive" /\ b = job.backup /\ job.kind = "backup")
<1> USE DEF SchedulesInv, Types
<1>1. /\ archive \subseteq Backup /\ \A b \in archive : bk[b] # NoRow \/ b \in raced
      /\ \A b \in Backup : HasRow(b) <=> bk[b] # NoRow
  BY DEF RowsType, ArchiveInv, ArchivesHaveRows, HasRow
<1>2. CASE pc = "archive"
  <2>1. archive' \in {archive, archive \cup {job.backup}}
    BY <1>2 DEF Abandoned
  <2>2. /\ job.kind = "backup" /\ job.backup \in Backup
        /\ bk[job.backup] # NoRow \/ job.backup \in raced
    BY <1>2, WorkersJob DEF OwnInv, HasRow
  <2> QED BY <1>1, <1>2, <2>1, <2>2 DEF ArchivesHaveRows
<1>3. CASE pc # "archive"
  <2>1. archive' \subseteq archive
    BY <1>3 DEF Abandoned
  <2> QED BY <1>1, <2>1 DEF ArchivesHaveRows
<1> QED BY <1>2, <1>3

LEMMA DeadlineKeepsInv == SchedulesInv /\ Deadline => SchedulesInv'
<1> SUFFICES ASSUME SchedulesInv, Deadline
             PROVE  SchedulesInv'
  OBVIOUS
<1> USE DEF SchedulesInv, Types
<1>1. /\ pc \in {"archive", "prune"} /\ pc' = "finish" /\ Trouble
      /\ archive' \in Abandoned /\ prune' = {} /\ failed' = (pc = "archive")
      /\ UNCHANGED <<bk, newer, victim>> /\ Same
  BY DEF Deadline
<1>2. up /\ phase = "running" /\ job.kind = "backup" /\ job.backup \in Backup
  BY <1>1, WorkersJob
<1>3. budget' \in [events : Nat, crashes : Nat] /\ clean' = FALSE
  BY <1>1, CallStep DEF Trouble
<1>4. raced' = raced
  BY <1>1 DEF Same
<1>5. /\ archive' \subseteq Backup /\ ArchivesHaveRows'
      /\ \A b \in archive' : b \in archive
                             \/ (pc = "archive" /\ b = job.backup /\ job.kind = "backup")
  BY <1>1, <1>4, AbandonedStep
<1>6. /\ RowsType' /\ ScheduleType' /\ SlotType' /\ OrderInv'
      /\ UNCHANGED <<sched, job, phase, tries, delete, up, raced>>
  BY <1>1, <1>5, SameRows DEF RowsType, HasRow
<1>7. victim = None /\ None \notin Backup /\ failed' \in BOOLEAN
  BY <1>1, SchedulesAssumption DEF WorkerInv
<1>8. CallType' /\ WorkerInv'
  BY <1>1, <1>2, <1>3, <1>6, <1>7 DEF CallType, WorkerInv
<1>9. OwnInv'
  BY <1>1, <1>6 DEF OwnInv, HasRow
<1>10. ArchiveInv'
  <2>1. delete'.at = "row" => delete'.backup \notin archive' \/ delete'.backup \in raced'
    BY <1>2, <1>5, <1>6 DEF ArchiveInv, OwnInv
  <2> QED BY <1>1, <1>5, <1>7, <2>1 DEF ArchiveInv
<1>11. CleanInv' /\ KeptInv' /\ PruneInv'
  BY <1>1, <1>3, NotPruning DEF CleanInv
<1> QED BY <1>6, <1>8, <1>9, <1>10, <1>11

LEMMA CrashKeepsInv == SchedulesInv /\ Crash => SchedulesInv'
<1> SUFFICES ASSUME SchedulesInv, Crash
             PROVE  SchedulesInv'
  OBVIOUS
<1> USE DEF SchedulesInv, Types
<1>1. /\ up' = FALSE /\ archive' \in Abandoned /\ claimed' = {}
      /\ delete' = [at |-> "none", backup |-> None]
      /\ pc' = "idle" /\ prune' = {} /\ victim' = None /\ failed' = FALSE /\ clean' = TRUE
      /\ UNCHANGED <<sched, active, bk, newer, job, phase, tries, raced>>
      /\ Spend("crashes")
  BY DEF Crash, slot
<1>2. budget' \in [events : Nat, crashes : Nat]
  BY <1>1, SpendStep
<1>3. archive' \subseteq Backup /\ ArchivesHaveRows'
  BY <1>1, AbandonedStep
<1>4. RowsType' /\ ScheduleType' /\ SlotType'
  BY <1>1, <1>3 DEF RowsType, ScheduleType, SlotType
<1>5. CallType' /\ WorkerInv'
  BY <1>1, <1>2 DEF CallType, WorkerInv
<1>6. OrderInv'
  BY <1>1, OrderKept DEF HasRow
<1>7. OwnInv'
  <2>1. job.kind = "backup" => job.backup # None
    BY SchedulesAssumption DEF SlotType, NoJob, OtherJob
  <2> QED BY <1>1, <2>1 DEF OwnInv, HasRow
<1>8. ArchiveInv' /\ CleanInv'
  BY <1>1, <1>3, SchedulesAssumption DEF ArchiveInv, CleanInv
<1>9. KeptInv' /\ PruneInv'
  BY <1>1, NotPruning
<1> QED BY <1>4, <1>5, <1>6, <1>7, <1>8, <1>9

LEMMA RecoverKeepsInv == SchedulesInv /\ Recover => SchedulesInv'
<1> SUFFICES ASSUME SchedulesInv, Recover
             PROVE  SchedulesInv'
  OBVIOUS
<1> USE DEF SchedulesInv, Types
<1>1. /\ ~up /\ up' = TRUE
      /\ UNCHANGED <<sched, active, claimed, bk, newer, archive, pc, prune, victim, failed,
                     delete, clean, raced, budget>>
      /\ \/ phase' = "free" /\ tries' = 0 /\ job' = NoJob
         \/ phase # "running" /\ UNCHANGED <<job, phase, tries>>
         \/ phase = "running" /\ ~GivenUp /\ phase' = "queued" /\ UNCHANGED <<job, tries>>
  BY DEF Recover, Free, backups, attempt, history
<1>2. pc = "idle" /\ prune = {}
  BY <1>1 DEF WorkerInv
<1>3. RowsType' /\ ScheduleType'
  BY <1>1 DEF RowsType, ScheduleType
<1>4. SlotType'
  BY <1>1, SchedulesAssumption DEF SlotType, GivenUp
<1>5. CallType' /\ WorkerInv'
  BY <1>1, <1>2 DEF CallType, WorkerInv
<1>6. OrderInv'
  BY <1>1, OrderKept DEF HasRow
<1>7. OwnInv'
  BY <1>1 DEF OwnInv, HasRow, NoJob
<1>8. ArchiveInv' /\ CleanInv'
  BY <1>1, <1>2 DEF ArchiveInv, ArchivesHaveRows, CleanInv
<1>9. KeptInv' /\ PruneInv'
  BY <1>1, <1>2, NotPruning
<1> QED BY <1>3, <1>4, <1>5, <1>6, <1>7, <1>8, <1>9

LEMMA DeleteCheckKeepsInv == SchedulesInv /\ (\E b \in Backup : DeleteCheck(b)) => SchedulesInv'
<1> SUFFICES ASSUME SchedulesInv, NEW b \in Backup, DeleteCheck(b)
             PROVE  SchedulesInv'
  OBVIOUS
<1> USE DEF SchedulesInv, Types
<1>1. /\ Spend("events") /\ delete' = [at |-> "archive", backup |-> b] /\ clean' = FALSE
      /\ raced' = IF job.backup = b THEN raced \cup {b} ELSE raced
      /\ UNCHANGED <<sched, active, claimed, bk, newer, archive, job, phase, tries, pc, prune,
                     victim, failed, up>>
  BY DEF DeleteCheck, backups, slot, attempt
<1>2. budget' \in [events : Nat, crashes : Nat]
  BY <1>1, SpendStep
<1>3. RowsType' /\ ScheduleType' /\ SlotType'
  BY <1>1 DEF RowsType, ScheduleType, SlotType
<1>4. CallType' /\ WorkerInv'
  BY <1>1, <1>2 DEF CallType, WorkerInv
<1>5. OrderInv'
  BY <1>1, OrderKept DEF HasRow
<1>6. OwnInv' /\ ArchiveInv' /\ CleanInv'
  BY <1>1 DEF OwnInv, HasRow, ArchiveInv, ArchivesHaveRows, CleanInv
<1>7. KeptInv' /\ PruneInv'
  BY <1>1, NotPruning
<1> QED BY <1>3, <1>4, <1>5, <1>6, <1>7

LEMMA DeleteArchiveKeepsInv == SchedulesInv /\ DeleteArchive => SchedulesInv'
<1> SUFFICES ASSUME SchedulesInv, DeleteArchive
             PROVE  SchedulesInv'
  OBVIOUS
<1> USE DEF SchedulesInv, Types
<1>1. /\ delete.at = "archive" /\ archive' = archive \ {delete.backup}
      /\ delete' = [delete EXCEPT !.at = "row"]
      /\ UNCHANGED <<sched, active, claimed, bk, newer, job, phase, tries, pc, prune, victim,
                     failed, up, clean, raced, budget>>
  BY DEF DeleteArchive, slot, attempt, history
<1>2. /\ delete'.at = "row" /\ delete'.backup = delete.backup
      /\ delete' \in [at : {"none", "archive", "row"}, backup : Backup \cup {None}]
  BY <1>1 DEF CallType
<1>3. RowsType' /\ ScheduleType' /\ SlotType'
  BY <1>1 DEF RowsType, ScheduleType, SlotType
<1>4. CallType' /\ WorkerInv'
  BY <1>1, <1>2 DEF CallType, WorkerInv
<1>5. OrderInv'
  BY <1>1, OrderKept DEF HasRow
<1>6. OwnInv' /\ ArchiveInv'
  BY <1>1, <1>2 DEF OwnInv, HasRow, ArchiveInv, ArchivesHaveRows
<1>7. CleanInv'
  <2>1. pc \notin {"idle", "finish"} => job.kind = "backup" /\ phase = "running"
    BY WorkersJob
  <2> QED BY <1>1, <1>2, <2>1 DEF CleanInv, OwnInv
<1>8. KeptInv' /\ PruneInv'
  <2>1. pc \in {"prune", "row", "finish"} => ~clean
    BY <1>1 DEF WorkerInv, CleanInv
  <2> QED BY <1>1, <2>1, NotPruning
<1> QED BY <1>3, <1>4, <1>5, <1>6, <1>7, <1>8

LEMMA DeleteRowKeepsInv == SchedulesInv /\ DeleteRow => SchedulesInv'
<1> SUFFICES ASSUME SchedulesInv, DeleteRow
             PROVE  SchedulesInv'
  OBVIOUS
<1> USE DEF SchedulesInv, Types
<1> DEFINE b == delete.backup
<1>1. /\ delete.at = "row" /\ DeleteRowOf(b) /\ delete' = [at |-> "none", backup |-> None]
      /\ UNCHANGED <<sched, active, claimed, archive, job, phase, tries, pc, prune, victim,
                     failed, up, clean, raced, budget>>
  BY DEF DeleteRow, slot, attempt, history
<1>2. b \in Backup
  BY <1>1 DEF CallType
<1> HIDE DEF b
<1>3. /\ OrderInv'
      /\ \A c, d \in Backup : <<c, d>> \in newer' <=> <<c, d>> \in newer /\ c # b /\ d # b
      /\ \A c \in Backup \ {b} : bk'[c] = bk[c]
      /\ bk'[b] = NoRow /\ bk' \in [Backup -> Row]
  BY <1>1, <1>2, OrderDelete
<1>4. RowsType' /\ SlotType'
  BY <1>1, <1>3 DEF RowsType, SlotType
<1>5. ScheduleType'
  <2>1. \A s \in Schedule : NoRow.by # s
    BY SchedulesAssumption DEF NoRow
  <2> QED BY <1>1, <1>3, <2>1 DEF ScheduleType
<1>6. CallType' /\ WorkerInv'
  BY <1>1 DEF CallType, WorkerInv
<1>7. job.kind = "backup" /\ job.backup \notin raced => job.backup # b /\ job.backup \in Backup
  BY <1>1 DEF OwnInv, b, SlotType, NoJob, OtherJob
<1>8. OwnInv'
  <2>1. job.kind = "backup" => job.backup \in Backup
    BY DEF SlotType, NoJob, OtherJob
  <2> QED BY <1>1, <1>3, <1>7, <2>1 DEF OwnInv, HasRow
<1>9. ArchiveInv'
  <2>1. b \notin archive \/ b \in raced
    BY <1>1 DEF ArchiveInv, b
  <2>2. ArchivesHaveRows'
    BY <1>1, <1>3, <2>1 DEF ArchiveInv, ArchivesHaveRows, RowsType
  <2> QED BY <1>1, <2>2 DEF ArchiveInv
<1>10. CleanInv'
  <2>1. pc \notin {"idle", "finish"} => job.kind = "backup" /\ phase = "running"
    BY WorkersJob
  <2> QED BY <1>1, <1>3, <1>7, <2>1 DEF CleanInv
<1>11. KeptInv' /\ PruneInv'
  <2>1. pc \in {"prune", "row", "finish"} => ~clean
    BY <1>1 DEF WorkerInv, CleanInv
  <2> QED BY <1>1, <2>1, NotPruning
<1> QED BY <1>3, <1>4, <1>5, <1>6, <1>8, <1>9, <1>10, <1>11

-----------------------------------------------------------------------------
LEMMA NextSchedulesInv == SchedulesInv /\ [Next]_vars => SchedulesInv'
<1> SUFFICES ASSUME SchedulesInv, [Next]_vars
             PROVE  SchedulesInv'
  OBVIOUS
<1>1. CASE Work
  BY <1>1, ClaimKeepsInv, MarkCreatingKeepsInv, ArchiveKeepsInv, MarkOutcomeKeepsInv,
     ListKeepsInv, PruneArchiveKeepsInv, PruneRowKeepsInv, PrunedKeepsInv, FinishKeepsInv,
     DeadlineKeepsInv DEF Work
<1>2. CASE Dispatch
  BY <1>2, ClockKeepsInv, RequestKeepsInv DEF Dispatch
<1>3. CASE Owner
  BY <1>3, ChangeKeepsInv, DeleteKeepsInv, RequestKeepsInv, DeleteCheckKeepsInv,
     DeleteArchiveKeepsInv, DeleteRowKeepsInv DEF Owner
<1>4. CASE Tick \/ Subscribe \/ Crash \/ Recover
  BY <1>4, ClockKeepsInv, CrashKeepsInv, RecoverKeepsInv
<1>5. CASE UNCHANGED vars
  <2>1. /\ UNCHANGED <<backups, slot, attempt, delete, up, history>>
        /\ UNCHANGED <<sched, active, claimed, bk, budget>>
    BY <1>5 DEF vars, backups, slot, attempt, history
  <2>2. ScheduleType' /\ budget' \in [events : Nat, crashes : Nat]
    BY <2>1 DEF SchedulesInv, Types, ScheduleType, CallType
  <2> QED BY <2>1, <2>2, QuietStep
<1> QED BY <1>1, <1>2, <1>3, <1>4, <1>5 DEF Next

\* The inductive invariant: in particular, the backup a job makes stays the
\* newest there is, and what it prunes are never the newest Retain of the
\* schedule.
THEOREM SchedulesInvariant == Spec => []SchedulesInv
<1>1. Init => SchedulesInv
  BY InitSchedulesInv
<1>2. SchedulesInv /\ [Next]_vars => SchedulesInv'
  BY NextSchedulesInv
<1> QED BY <1>1, <1>2, PTL DEF Spec

\* Type correctness: for instance, a job is queued with attempts left, however
\* often the controller is started again (recoverJobs).
THEOREM SchedulesTypeCorrect == Spec => []TypeOK
<1> QED BY SchedulesInvariant, ScheduleTypeParts, PTL

\* What stays of a schedule's finished backups after one that succeeded in a
\* smooth attempt is at most Retain: the prune loop of executeFeatureJob
\* reaches everything earlier attempts and crashes left behind.
THEOREM RetentionIsKept == Spec => []RetentionHolds
<1>1. SchedulesInv => RetentionHolds
  <2> SUFFICES ASSUME SchedulesInv, At("finish"), job.kind = "backup", ~failed, clean
               PROVE  Cardinality(Settled) <= Retain
    BY DEF RetentionHolds
  <2>1. prune = {} /\ victim = None /\ None \notin Backup /\ pc = "finish"
    BY SchedulesAssumption DEF SchedulesInv, Types, WorkerInv, At
  <2>2. Settled \ (prune \cup {victim}) = Settled
    BY <2>1 DEF Settled
  <2> QED BY <2>1, <2>2 DEF SchedulesInv, KeptInv
<1> QED BY <1>1, SchedulesInvariant, PTL

\* No step of the worker, of an owner's deletion or of a crash leaves an
\* archive on the node whose row is gone, but for backups deleted during the
\* repetition of their own job.
THEOREM NoArchiveIsLost == Spec => []ArchivesHaveRows
<1>1. SchedulesInv => ArchivesHaveRows
  BY DEF SchedulesInv, ArchiveInv
<1> QED BY <1>1, SchedulesInvariant, PTL

\* An archive is pruned only while Retain newer finished backups of its
\* schedule exist, the one just made among them, with its archive.
THEOREM NewestAreSpared == Spec => PruningSparesTheNewest
<1> DEFINE Step == \A b \in Backup :
             PruneArchive(b) /\ clean' /\ job.backup \notin raced /\ archive' # archive =>
               /\ Cardinality(Newer(b, Kin(b))) >= Retain
               /\ job.backup \in Newer(b, Kin(b)) /\ bk[job.backup].status = "ready"
               /\ job.backup \in archive
<1>1. ASSUME SchedulesInv
      PROVE  Step
  <2> SUFFICES ASSUME NEW b \in Backup, PruneArchive(b), clean', job.backup \notin raced
               PROVE  /\ Cardinality(Newer(b, Kin(b))) >= Retain
                      /\ job.backup \in Newer(b, Kin(b)) /\ bk[job.backup].status = "ready"
                      /\ job.backup \in archive
    OBVIOUS
  <2>1. pc = "prune" /\ b \in prune /\ (Smooth \/ Trouble)
    BY DEF PruneArchive, At
  <2>2. clean /\ job.backup \in Backup
    BY <1>1, <2>1, CallStep, WorkersJob
  <2>3. Outdated(b) /\ ~failed
    BY <1>1, <2>1, <2>2 DEF SchedulesInv, Types, WorkerInv, PruneInv
  <2>4. bk[job.backup].status = "ready" /\ job.backup \in archive
    BY <1>1, <2>1, <2>2, <2>3 DEF SchedulesInv, CleanInv
  <2>5. job.backup \in Newer(b, Kin(b))
    BY <2>2, <2>3, <2>4 DEF Outdated, Newer, Kin, IsSettled
  <2>6. Cardinality(Newer(b, Kin(b))) >= Retain
    <3>1. Spared(b) \subseteq Newer(b, Kin(b)) /\ Newer(b, Kin(b)) \subseteq Backup
      BY DEF Spared, Newer, Kin
    <3>2. Cardinality(Spared(b)) <= Cardinality(Newer(b, Kin(b)))
      BY <3>1, MoreBackups
    <3>3. Cardinality(Spared(b)) \in Nat /\ Cardinality(Newer(b, Kin(b))) \in Nat
      BY <3>1, BackupsFinite
    <3> QED BY <2>3, <3>2, <3>3, SchedulesAssumption DEF Outdated
  <2> QED BY <2>4, <2>5, <2>6
<1>2. SchedulesInv => [Step]_vars
  BY <1>1
<1> HIDE DEF Step
<1>3. Spec => [][Step]_vars
  BY <1>2, SchedulesInvariant, PTL
<1> QED BY <1>3 DEF PruningSparesTheNewest, Step
-----------------------------------------------------------------------------
\* A step that changes the slot is a step of JobSlot.
LEMMA SlotStep ==
  ASSUME SchedulesInv, [Next]_vars
  PROVE  [Slot!Next]_<<phase, tries>>
<1> USE DEF slot, Same
<1>0. /\ tries \in 0..MaxAttempts /\ MaxAttempts \in Nat
      /\ phase = "queued" => tries < MaxAttempts
  BY SchedulesAssumption DEF SchedulesInv, Types, SlotType
<1>1. ASSUME NEW s \in Schedule, RunNow(s) \/ Enqueue(s)
      PROVE  Slot!Submit \/ UNCHANGED <<phase, tries>>
  BY <1>1 DEF RunNow, Enqueue, Insert, Refused, Slot!Submit
<1>2. CASE Operate
  BY <1>2 DEF Operate, Slot!Next, Slot!Submit
<1>3. CASE Claim
  BY <1>0, <1>3 DEF Claim, Slot!Next, Slot!Attempt
<1>4. CASE Finish
  BY <1>4 DEF Finish, Free, At, Slot!Next, Slot!Resolve
<1>5. CASE Recover
  <2>1. CASE phase = "running" /\ GivenUp
    BY <1>5, <2>1 DEF Recover, Free, Slot!Next, Slot!Resolve
  <2>2. CASE phase = "running" /\ ~GivenUp
    <3>1. tries < MaxAttempts
      BY <1>0, <2>2 DEF GivenUp
    <3> QED BY <1>5, <2>2, <3>1 DEF Recover, Slot!Next, Slot!Requeue
  <2>3. CASE phase # "running"
    BY <1>5, <2>3 DEF Recover
  <2> QED BY <2>1, <2>2, <2>3
<1>6. CASE \/ MarkCreating \/ Archive \/ MarkOutcome \/ List \/ (\E b \in Backup : PruneArchive(b))
           \/ PruneRow \/ Pruned \/ Deadline
  <2>1. CASE MarkCreating \/ Archive \/ MarkOutcome \/ List
    BY <2>1 DEF MarkCreating, Archive, MarkOutcome, List
  <2>2. CASE \E b \in Backup : PruneArchive(b)
    BY <2>2 DEF PruneArchive
  <2>3. CASE PruneRow \/ Pruned \/ Deadline
    BY <2>3 DEF PruneRow, Pruned, Deadline
  <2> QED BY <1>6, <2>1, <2>2, <2>3
<1>7. CASE \E s \in Schedule :
             Create(s) \/ Delete(s) \/ \E status \in {"on", "off"} : Update(s, status)
  BY <1>7 DEF Create, Delete, Update, Change
<1>8. CASE (\E b \in Backup : DeleteCheck(b)) \/ DeleteArchive \/ DeleteRow
  BY <1>8 DEF DeleteCheck, DeleteArchive, DeleteRow
<1>9. CASE ClaimDue \/ Tick \/ Subscribe \/ Crash \/ UNCHANGED vars
  BY <1>9 DEF ClaimDue, Tick, Subscribe, Crash, vars
<1> QED BY <1>1, <1>2, <1>3, <1>4, <1>5, <1>6, <1>7, <1>8, <1>9
        DEF Next, Work, Dispatch, Owner, Slot!Next

\* Schedules, runs the owner asks for and other operations share the one slot
\* of their server, also across crashes between a claim and its jobs.
THEOREM SchedulesImplementSlot == Spec => ImplementsSlot
<1>1. Init => Slot!Init
  BY DEF Init, Slot!Init
<1>2. SchedulesInv /\ [Next]_vars => [Slot!Next]_<<phase, tries>>
  BY SlotStep
<1> QED BY <1>1, <1>2, SchedulesInvariant, PTL DEF Spec, ImplementsSlot
=============================================================================
