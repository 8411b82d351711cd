----------------------------- MODULE SalesProofs -----------------------------
(***************************************************************************)
(* What is sold, for every number of requests, servers, keys and ports:    *)
(* the node's addresses, memory and disk, and repeated checkouts, in       *)
(* Capacity; then the subscription of one server, in Subscription.         *)
(*                                                                         *)
(* The argument for the node: whoever is past its first statement holds    *)
(* the lock, so between its reads and its inserts the others can only give *)
(* back.                                                                   *)
(***************************************************************************)
EXTENDS Capacity, Subscription, FiniteSetTheorems, TLAPS

TablesType ==
  /\ srv \in [Server -> {"none", "live", "deleted"}]
  /\ sub \in [Server -> {"none", "held", "released"}]
  /\ alloc \in [Server -> Port \cup {0}]
  /\ orders \in [Key -> Server \cup {None}]

RequestType ==
  /\ pc \in [Client -> {"idle", "lock", "key", "capacity", "port", "commit", "done"}]
  /\ req \in [Client -> [kind : Kind, server : Server \cup {None}, key : Key \cup {None}]]
  /\ \A c \in Client : pc[c] # "idle" => req[c].server \in Server
  /\ reply \in [Client -> {"none", "existing", "created", "conflict", "error"}]

SnapshotType ==
  /\ lock \in Client \cup {None}
  /\ snap \in [Client -> Tables]
  /\ stale \in [Client -> BOOLEAN]
  /\ picked \in [Client -> Port \cup {0}]

\* The advisory lock: a transaction past its first statement holds it.
LockHeld ==
  \A c \in Client : pc[c] \in {"key", "capacity", "port", "commit"} => lock = c

\* A checkout that is past its key has found it unused, and it stays unused.
KeyUnused ==
  \A c \in Client :
    pc[c] \in {"capacity", "port", "commit"} /\ req[c].kind = "checkout"
      => orders[req[c].key] = None

\* The servers that take disk, and those that take memory.
Existing == {s \in Server : srv[s] = "live"}
Charged == {s \in Existing : sub[s] # "released"}

\* A checkout or a renewal that found room still has it.
RoomLeft ==
  \A c \in Client :
    pc[c] \in {"port", "commit"} /\ req[c].kind # "create" =>
      /\ Total(MemoryOf, Charged) + MemoryOf[req[c].server] <= NodeMemory
      /\ req[c].kind = "checkout" => Total(DiskOf, Existing) + DiskOf[req[c].server] <= NodeDisk

\* The inductive invariant.
CapacityInv ==
  /\ TablesType /\ RequestType /\ SnapshotType
  /\ LockHeld /\ KeyUnused
  /\ AddressesAreSound
  /\ IsFiniteSet(Existing) /\ RoomLeft

\* The parts are the type invariant.
LEMMA CapacityTypeParts == CapacityInv => CapacityTypeOK
  BY DEF CapacityInv, TablesType, RequestType, SnapshotType, CapacityTypeOK, Now, Tables


\* Min of a set of ports is one of them.
LEMMA LeastIsMember ==
  ASSUME NEW S, S \subseteq Nat, S # {}
  PROVE  Min(S) \in S
<1>1. IsWellFoundedOn(OpToRel(<, Nat), Nat)
  BY NatLessThanWellFounded
<1>2. \E x \in S : \A y \in S : <<y, x>> \notin OpToRel(<, Nat)
  BY <1>1, WFMin
<1>3. PICK x \in S : \A y \in S : <<y, x>> \notin OpToRel(<, Nat)
  BY <1>2
<1>4. ASSUME NEW y \in S
      PROVE  x <= y
  <2>1. x \in Nat /\ y \in Nat
    BY <1>3
  <2>2. <<y, x>> \notin {ss \in Nat \X Nat : ss[1] < ss[2]}
    BY <1>3 DEF OpToRel
  <2> QED BY <2>1, <2>2
<1> QED BY <1>3, <1>4 DEF Min

\* A server takes as many units as it has megabytes, finitely many servers
\* finitely many.
LEMMA UnitsCounted ==
  ASSUME NEW f \in [Server -> Nat], NEW s \in Server
  PROVE  IsFiniteSet(Units(f, s)) /\ Cardinality(Units(f, s)) = f[s]
<1>1. f[s] \in Nat
  OBVIOUS
<1>2. IsFiniteSet(1..f[s]) /\ Cardinality(1..f[s]) = f[s]
  BY <1>1, FS_Interval
<1>3. IsFiniteSet({s}) /\ Cardinality({s}) = 1
  BY FS_Singleton
<1>4. IsFiniteSet(Units(f, s)) /\ Cardinality(Units(f, s)) = Cardinality({s}) * Cardinality(1..f[s])
  BY <1>2, <1>3, FS_Product DEF Units
<1> QED BY <1>1, <1>2, <1>3, <1>4

LEMMA TotalFinite ==
  ASSUME NEW f \in [Server -> Nat], NEW R \in SUBSET Server, IsFiniteSet(R)
  PROVE  IsFiniteSet(UNION {Units(f, s) : s \in R})
<1> DEFINE T == {Units(f, s) : s \in R}
           g == [s \in R |-> Units(f, s)]
<1>1. g \in Surjection(R, T)
  BY DEF Surjection
<1>2. IsFiniteSet(T)
  BY <1>1, FS_Surjection
<1>3. \A U \in T : IsFiniteSet(U)
  BY UnitsCounted
<1> QED BY <1>2, <1>3, FS_UNION

\* Fewer servers take less, and one more takes at most its size.
LEMMA TotalAdds ==
  ASSUME NEW f \in [Server -> Nat], NEW R \in SUBSET Server, IsFiniteSet(R), NEW s \in Server,
         NEW Q, Q \subseteq R \cup {s}
  PROVE  /\ Total(f, Q) \in Nat /\ Total(f, R) \in Nat
         /\ Total(f, Q) <= Total(f, R) + f[s]
         /\ Q \subseteq R => Total(f, Q) <= Total(f, R)
<1> DEFINE Taken(S) == UNION {Units(f, u) : u \in S}
<1>0. Total(f, Q) = Cardinality(Taken(Q)) /\ Total(f, R) = Cardinality(Taken(R))
  BY DEF Total
<1>1. IsFiniteSet(Taken(R)) /\ IsFiniteSet(Units(f, s)) /\ Cardinality(Units(f, s)) = f[s]
  BY TotalFinite, UnitsCounted
<1>2. Taken(Q) \subseteq Taken(R) \cup Units(f, s)
  OBVIOUS
<1>3. Q \subseteq R => Taken(Q) \subseteq Taken(R)
  OBVIOUS
<1> HIDE DEF Taken
<1>4. /\ IsFiniteSet(Taken(R) \cup Units(f, s)) /\ IsFiniteSet(Taken(R) \cap Units(f, s))
      /\ Cardinality(Taken(R) \cup Units(f, s))
           = Cardinality(Taken(R)) + Cardinality(Units(f, s))
               - Cardinality(Taken(R) \cap Units(f, s))
  BY <1>1, FS_Union, FS_Intersection
<1>5. IsFiniteSet(Taken(Q)) /\ Cardinality(Taken(Q)) <= Cardinality(Taken(R) \cup Units(f, s))
  BY <1>2, <1>4, FS_Subset
<1>6. Q \subseteq R => Cardinality(Taken(Q)) <= Cardinality(Taken(R))
  BY <1>1, <1>3, FS_Subset
<1>7. /\ Cardinality(Taken(Q)) \in Nat /\ Cardinality(Taken(R)) \in Nat
      /\ Cardinality(Taken(R) \cap Units(f, s)) \in Nat
  BY <1>1, <1>4, <1>5, FS_CardinalityType
<1>8. f[s] \in Nat
  OBVIOUS
<1> QED BY <1>0, <1>1, <1>4, <1>5, <1>6, <1>7, <1>8

\* What capacityUsed adds up.
LEMMA Usage ==
  /\ UsedMemory(Now) = Total(MemoryOf, Charged)
  /\ UsedDisk(Now) = Total(DiskOf, Existing)
<1>1. /\ {s \in Server : Now.srv[s] = "live" /\ Now.sub[s] # "released"} = Charged
      /\ {s \in Server : Now.srv[s] = "live"} = Existing
  BY DEF Now, Charged, Existing
<1> QED BY <1>1 DEF UsedMemory, UsedDisk

\* A step that brings no server keeps the room of those who have found it.
LEMMA GivingBackKeepsRoom ==
  ASSUME CapacityInv, Existing' \subseteq Existing, Charged' \subseteq Charged,
         \A c \in Client :
           pc'[c] \in {"port", "commit"} => pc[c] \in {"port", "commit"} /\ req'[c] = req[c]
  PROVE  IsFiniteSet(Existing)' /\ RoomLeft'
<1>1. IsFiniteSet(Existing) /\ IsFiniteSet(Charged) /\ Charged \subseteq Server /\ Existing \subseteq Server
  BY FS_Subset DEF CapacityInv, Existing, Charged
<1>2. IsFiniteSet(Existing)'
  BY <1>1, FS_Subset
<1>3. ASSUME NEW c \in Client, pc'[c] \in {"port", "commit"}, req'[c].kind # "create"
      PROVE  /\ Total(MemoryOf, Charged') + MemoryOf[req'[c].server] <= NodeMemory
             /\ req'[c].kind = "checkout" =>
                  Total(DiskOf, Existing') + DiskOf[req'[c].server] <= NodeDisk
  <2>1. pc[c] \in {"port", "commit"} /\ req'[c] = req[c]
    BY <1>3 DEF CapacityInv, RequestType
  <2>2. req[c].server \in Server
    BY <2>1 DEF CapacityInv, RequestType
  <2>3. /\ MemoryOf[req[c].server] \in Nat /\ DiskOf[req[c].server] \in Nat
        /\ NodeMemory \in Nat /\ NodeDisk \in Nat
    BY <2>2, CapacityAssumption
  <2>4. /\ Total(MemoryOf, Charged') \in Nat /\ Total(MemoryOf, Charged) \in Nat
        /\ Total(MemoryOf, Charged') <= Total(MemoryOf, Charged)
    BY <1>1, <2>2, CapacityAssumption, TotalAdds
  <2>5. /\ Total(DiskOf, Existing') \in Nat /\ Total(DiskOf, Existing) \in Nat
        /\ Total(DiskOf, Existing') <= Total(DiskOf, Existing)
    BY <1>1, <2>2, CapacityAssumption, TotalAdds
  <2>6. /\ Total(MemoryOf, Charged) + MemoryOf[req[c].server] <= NodeMemory
        /\ req[c].kind = "checkout" => Total(DiskOf, Existing) + DiskOf[req[c].server] <= NodeDisk
    BY <1>3, <2>1 DEF CapacityInv, RoomLeft
  <2> QED BY <2>1, <2>3, <2>4, <2>5, <2>6
<1>4. Total(MemoryOf, Charged)' = Total(MemoryOf, Charged') /\ Total(DiskOf, Existing)' = Total(DiskOf, Existing')
  BY DEF Total, Units
<1> QED BY <1>2, <1>3, <1>4 DEF RoomLeft

\* No server, no request.
LEMMA InitCapacityInv == CapacityInit => CapacityInv
<1> SUFFICES ASSUME CapacityInit
             PROVE  CapacityInv
  OBVIOUS
<1> USE CapacityAssumption DEF CapacityInit, Nothing
<1>1. TablesType
  BY DEF TablesType
<1>2. RequestType
  BY DEF RequestType, Kind
<1>3. LockHeld /\ KeyUnused
  BY DEF LockHeld, KeyUnused
<1>4. AddressesAreSound
  BY DEF AddressesAreSound
<1>5. SnapshotType
  BY DEF SnapshotType, Tables
<1>6. Existing = {}
  BY DEF Existing
<1>7. IsFiniteSet(Existing) /\ RoomLeft
  BY <1>6, FS_EmptySet DEF RoomLeft
<1> QED BY <1>1, <1>2, <1>3, <1>4, <1>5, <1>7 DEF CapacityInv

\* A transaction begins outside the lock.
LEMMA BeginKeepsInv ==
  ASSUME CapacityInv, NEW c \in Client, NEW kind \in Kind, NEW s \in Server,
         NEW k \in Key \cup {None}, Begin(c, kind, s, k)
  PROVE  CapacityInv'
<1> USE DEF CapacityInv, Begin, Goto, tables
<1>1. TablesType' /\ AddressesAreSound'
  BY DEF TablesType, AddressesAreSound
<1>2. RequestType'
  BY DEF RequestType
<1>3. LockHeld'
  BY DEF RequestType, LockHeld
<1>4. KeyUnused'
  BY DEF RequestType, KeyUnused
<1>5. SnapshotType'
  BY DEF SnapshotType, TablesType, Now, Nothing, Tables
<1>6. Existing' = Existing /\ Charged' = Charged
  BY DEF Existing, Charged
<1>7. \A d \in Client : pc'[d] \in {"port", "commit"} => pc[d] \in {"port", "commit"} /\ req'[d] = req[d]
  BY DEF RequestType
<1>8. IsFiniteSet(Existing)' /\ RoomLeft'
  BY <1>6, <1>7, GivingBackKeepsRoom
<1> QED BY <1>1, <1>2, <1>3, <1>4, <1>5, <1>8

\* A step before the commit changes the lock and the place of one client.
LEMMA ReadKeepsInv ==
  ASSUME CapacityInv, NEW c \in Client,
         Acquire(c) \/ CheckKey(c) \/ CheckCapacity(c) \/ PickPort(c)
  PROVE  CapacityInv'
<1> USE DEF CapacityInv, tables, Goto, Reply
<1>0. UNCHANGED <<srv, sub, alloc, orders, req>>
  BY DEF Acquire, CheckKey, CheckCapacity, PickPort
<1>1. TablesType' /\ AddressesAreSound'
  BY <1>0 DEF TablesType, AddressesAreSound
<1>2. RequestType'
  BY <1>0 DEF RequestType, Acquire, CheckKey, CheckCapacity, PickPort, Repeated
<1>3. LockHeld'
  <2>1. CASE Acquire(c)
    BY <2>1, CapacityAssumption DEF RequestType, LockHeld, Acquire
  <2>2. CASE CheckKey(c)
    <3>1. lock = c
      BY <2>2 DEF LockHeld, CheckKey
    <3>2. \/ pc' = [pc EXCEPT ![c] = "done"]
          \/ pc' = [pc EXCEPT ![c] = "capacity"] /\ lock' = lock
      BY <2>2 DEF CheckKey
    <3> QED BY <3>1, <3>2 DEF RequestType, LockHeld
  <2>3. CASE CheckCapacity(c) \/ PickPort(c)
    BY <2>3 DEF RequestType, LockHeld, CheckCapacity, PickPort
  <2> QED BY <2>1, <2>2, <2>3
<1>4. KeyUnused'
  <2>1. CASE Acquire(c)
    BY <1>0, <2>1 DEF RequestType, KeyUnused, Acquire
  <2>2. CASE CheckKey(c)
    BY <1>0, <2>2 DEF RequestType, KeyUnused, CheckKey
  <2>3. CASE CheckCapacity(c) \/ PickPort(c)
    BY <1>0, <2>3 DEF RequestType, KeyUnused, CheckCapacity, PickPort
  <2> QED BY <2>1, <2>2, <2>3
<1>5. SnapshotType'
  <2>1. CASE PickPort(c)
    <3>1. FreePorts(View(c)) \subseteq Port /\ Port \subseteq Nat
      BY CapacityAssumption DEF FreePorts
    <3>2. FreePorts(View(c)) # {} => Min(FreePorts(View(c))) \in Port
      BY <3>1, LeastIsMember
    <3> QED BY <1>0, <2>1, <3>2 DEF SnapshotType, PickPort
  <2>2. CASE Acquire(c) \/ CheckKey(c) \/ CheckCapacity(c)
    BY <1>0, <2>2 DEF SnapshotType, Acquire, CheckKey, CheckCapacity
  <2> QED BY <2>1, <2>2
<1>6. Existing' = Existing /\ Charged' = Charged
  BY <1>0 DEF Existing, Charged
<1>7. CASE Acquire(c) \/ CheckKey(c) \/ PickPort(c)
  <2>1. \A d \in Client : pc'[d] \in {"port", "commit"} => pc[d] \in {"port", "commit"} /\ req'[d] = req[d]
    BY <1>0, <1>7 DEF RequestType, Acquire, CheckKey, PickPort
  <2>2. IsFiniteSet(Existing)' /\ RoomLeft'
    BY <1>6, <2>1, GivingBackKeepsRoom
  <2> QED BY <1>1, <1>2, <1>3, <1>4, <1>5, <2>2
<1>8. CASE CheckCapacity(c)
  <2>1. IsFiniteSet(Existing)'
    BY <1>6
  <2>2. /\ \A d \in Client \ {c} : pc'[d] = pc[d]
        /\ pc'[c] = "done" \/ (pc'[c] = "port" /\ Fits(c))
    BY <1>8 DEF RequestType, CheckCapacity
  <2>3. Fits(c) /\ req[c].kind # "create" =>
          /\ Total(MemoryOf, Charged) + MemoryOf[req[c].server] <= NodeMemory
          /\ req[c].kind = "checkout" => Total(DiskOf, Existing) + DiskOf[req[c].server] <= NodeDisk
    BY Usage DEF Fits, View
  <2>4. /\ Total(MemoryOf, Charged)' = Total(MemoryOf, Charged)
        /\ Total(DiskOf, Existing)' = Total(DiskOf, Existing)
    BY <1>6 DEF Total, Units
  <2>5. RoomLeft'
    BY <1>0, <2>2, <2>3, <2>4 DEF RoomLeft
  <2> QED BY <1>1, <1>2, <1>3, <1>4, <1>5, <2>1, <2>5
<1> QED BY <1>7, <1>8

\* What the unique constraint lets through is a port nobody has.
LEMMA CommitKeepsInv ==
  ASSUME CapacityInv, NEW c \in Client, Commit(c)
  PROVE  CapacityInv'
<1> USE CapacityAssumption DEF CapacityInv, Commit, Reply
<1>0. req[c].server \in Server
  BY DEF RequestType
<1>1. CASE Violates(c)
  <2>0. UNCHANGED <<srv, sub, alloc, orders, req>>
    BY <1>1 DEF tables
  <2>1. TablesType' /\ AddressesAreSound'
    BY <2>0 DEF TablesType, AddressesAreSound
  <2>2. RequestType'
    BY <2>0 DEF RequestType
  <2>3. LockHeld' /\ KeyUnused'
    BY <2>0 DEF RequestType, LockHeld, KeyUnused
  <2>4. SnapshotType'
    BY <1>1, <2>0 DEF SnapshotType
  <2>5. Existing' = Existing /\ Charged' = Charged
    BY <2>0 DEF Existing, Charged
  <2>6. \A d \in Client : pc'[d] \in {"port", "commit"} => pc[d] \in {"port", "commit"} /\ req'[d] = req[d]
    BY <1>1, <2>0 DEF RequestType
  <2>7. IsFiniteSet(Existing)' /\ RoomLeft'
    BY <2>5, <2>6, GivingBackKeepsRoom
  <2> QED BY <2>1, <2>2, <2>3, <2>4, <2>7
<1>2. CASE ~Violates(c)
  <2>0. picked[c] \in Port /\ picked[c] # 0 /\ \A s \in Server : alloc[s] # picked[c]
    BY <1>2 DEF Violates, FreePorts, Now
  <2>1. alloc' = [alloc EXCEPT ![req[c].server] = picked[c]]
    BY <1>2
  <2>2. srv' = srv \/ srv' = [srv EXCEPT ![req[c].server] = "live"]
    BY <1>2
  <2>3. sub' = sub \/ sub' = [sub EXCEPT ![req[c].server] = "held"]
    BY <1>2
  <2>4. orders' = orders \/ orders' = [orders EXCEPT ![req[c].key] = req[c].server]
    BY <1>2
  <2>5. TablesType'
    BY <1>0, <2>0, <2>1, <2>2, <2>3, <2>4 DEF TablesType
  <2>6. AddressesAreSound'
    BY <1>0, <2>0, <2>1, <2>2, <2>3 DEF AddressesAreSound, TablesType
  <2>7. RequestType'
    BY DEF RequestType
  <2>8. ASSUME NEW d \in Client
        PROVE  pc'[d] \notin {"key", "capacity", "port", "commit"}
    BY DEF RequestType, LockHeld
  <2>9. LockHeld' /\ KeyUnused'
    BY <2>8 DEF LockHeld, KeyUnused
  <2>10. SnapshotType'
    BY <1>2 DEF SnapshotType
  <2>11. Existing' \subseteq Existing \cup {req[c].server}
    BY <1>0, <2>2 DEF Existing, TablesType
  <2>12. IsFiniteSet(Existing \cup {req[c].server})
    BY FS_AddElement
  <2>13. IsFiniteSet(Existing')
    BY <2>11, <2>12, FS_Subset
  <2>14. RoomLeft'
    BY <2>8 DEF RoomLeft
  <2> QED BY <2>5, <2>6, <2>7, <2>9, <2>10, <2>13, <2>14
<1> QED BY <1>1, <1>2

\* A server that gives its port back is released or deleted with it.
LEMMA GiveBackKeepsInv ==
  ASSUME CapacityInv, NEW s \in Server, Release(s) \/ Delete(s)
  PROVE  CapacityInv'
<1> USE CapacityAssumption DEF CapacityInv, Release, Delete
<1>1. TablesType'
  BY DEF TablesType
<1>2. RequestType' /\ LockHeld' /\ KeyUnused'
  BY DEF RequestType, LockHeld, KeyUnused
<1>3. AddressesAreSound'
  BY DEF AddressesAreSound, TablesType
<1>4. SnapshotType'
  BY DEF SnapshotType
<1>5. Existing' \subseteq Existing /\ Charged' \subseteq Charged
  BY DEF Existing, Charged, TablesType
<1>6. \A d \in Client : pc'[d] \in {"port", "commit"} => pc[d] \in {"port", "commit"} /\ req'[d] = req[d]
  OBVIOUS
<1>7. IsFiniteSet(Existing)' /\ RoomLeft'
  BY <1>5, <1>6, GivingBackKeepsRoom
<1> QED BY <1>1, <1>2, <1>3, <1>4, <1>7

\* The inductive step, one case per action.
LEMMA NextCapacityInv == CapacityInv /\ [CapacityNext]_capacityVars => CapacityInv'
<1> SUFFICES ASSUME CapacityInv, [CapacityNext]_capacityVars
             PROVE  CapacityInv'
  OBVIOUS
<1>1. CASE \E c \in Client, kind \in Kind, s \in Server, k \in Key \cup {None} :
              Begin(c, kind, s, k)
  BY <1>1, BeginKeepsInv
<1>2. CASE \E c \in Client : Step(c)
  BY <1>2, ReadKeepsInv, CommitKeepsInv DEF Step
<1>3. CASE \E s \in Server : Release(s) \/ Delete(s)
  BY <1>3, GiveBackKeepsInv
<1>4. CASE UNCHANGED capacityVars
  BY <1>4 DEF capacityVars, CapacityInv, TablesType, RequestType, SnapshotType, LockHeld, KeyUnused,
              AddressesAreSound, Existing, Charged, RoomLeft, Total, Units
<1> QED BY <1>1, <1>2, <1>3, <1>4 DEF CapacityNext

\* Every reachable state of the node satisfies the invariant (hosting.go,
\* store.go).
THEOREM CapacityInvariant == CapacitySpec => []CapacityInv
  BY InitCapacityInv, NextCapacityInv, PTL DEF CapacitySpec

\* The tables, the lock, the transactions, their snapshots and answers keep
\* their types.
THEOREM CapacityTypeCorrect == CapacitySpec => []CapacityTypeOK
  BY CapacityInvariant, CapacityTypeParts, PTL

\* No address is given twice, and no server that may run is without one, for
\* any number of concurrent requests and whatever is released meanwhile.
THEOREM AddressesSound == CapacitySpec => []AddressesAreSound
<1>1. CapacityInv => AddressesAreSound
  BY DEF CapacityInv
<1> QED BY <1>1, CapacityInvariant, PTL

\* A checkout is only refused where its key is unused, or by its key.
LEMMA RepeatStep ==
  ASSUME CapacityInv, [CapacityNext]_capacityVars, NEW c \in Client,
         reply[c] = "none", reply'[c] \in {"conflict", "error"},
         req[c].kind = "checkout", orders[req[c].key] # None
  PROVE  srv[orders[req[c].key]] = "deleted"
<1> USE DEF CapacityInv, RequestType, tables, Goto, Reply
<1>0. pc[c] \notin {"capacity", "port", "commit"}
  BY DEF KeyUnused
<1>1. CASE \E d \in Client, kind \in Kind, s \in Server, k \in Key \cup {None} :
              Begin(d, kind, s, k)
  BY <1>1 DEF Begin
<1>2. ASSUME NEW d \in Client, Step(d)
      PROVE  srv[orders[req[c].key]] = "deleted"
  <2>1. CASE d = c
    <3>1. CASE CheckKey(c)
      BY <3>1 DEF CheckKey, Repeated
    <3>2. CASE Acquire(c)
      BY <3>2 DEF Acquire
    <3> QED BY <1>0, <1>2, <2>1, <3>1, <3>2 DEF Step, CheckCapacity, PickPort, Commit
  <2>2. CASE d # c
    BY <1>2, <2>2 DEF Step, Acquire, CheckKey, CheckCapacity, PickPort, Commit
  <2> QED BY <2>1, <2>2
<1>3. CASE \E s \in Server : Release(s) \/ Delete(s)
  BY <1>3 DEF Release, Delete
<1>4. CASE UNCHANGED capacityVars
  BY <1>4 DEF capacityVars
<1> QED BY <1>1, <1>2, <1>3, <1>4 DEF CapacityNext

\* A checkout sent again is recognised: the advisory lock keeps its key
\* unused from the lookup to the insert, or it is answered at the lookup.
THEOREM RepeatedCheckout == CapacitySpec => RepeatIsRecognised
<1>1. CapacityInv /\ [CapacityNext]_capacityVars
        => [\A c \in Client :
              /\ reply[c] = "none" /\ reply'[c] \in {"conflict", "error"}
              /\ req[c].kind = "checkout" /\ orders[req[c].key] # None
              => srv[orders[req[c].key]] = "deleted"]_capacityVars
  BY RepeatStep
<1> QED BY <1>1, CapacityInvariant, PTL DEF CapacitySpec, RepeatIsRecognised

\* The commit of a sale takes what its transaction has found to be left.
LEMMA SaleStep ==
  ASSUME CapacityInv, [CapacityNext]_capacityVars, NEW c \in Client, Created(c), req[c].kind # "create"
  PROVE  /\ UsedMemory(Now)' <= NodeMemory
         /\ req[c].kind = "checkout" => UsedDisk(Now)' <= NodeDisk
<1> DEFINE s == req[c].server
<1>0. RequestType /\ TablesType /\ IsFiniteSet(Existing)
  BY DEF CapacityInv
<1>1. Commit(c) /\ ~Violates(c)
  <2>1. CASE \E d \in Client, kind \in Kind, u \in Server, k \in Key \cup {None} :
               Begin(d, kind, u, k)
    BY <2>1 DEF Begin, Goto, Created
  <2>2. ASSUME NEW d \in Client, Step(d), d # c
        PROVE  FALSE
    BY <1>0, <2>2
    DEF Step, Acquire, CheckKey, CheckCapacity, PickPort, Commit, Reply, Goto, Created, RequestType
  <2>3. CASE Step(c)
    BY <1>0, <2>3
    DEF Step, Acquire, CheckKey, CheckCapacity, PickPort, Commit, Reply, Goto, Created, RequestType,
        Repeated
  <2>4. CASE (\E u \in Server : Release(u) \/ Delete(u)) \/ UNCHANGED capacityVars
    BY <2>4 DEF Release, Delete, capacityVars, Created
  <2> QED BY <2>1, <2>2, <2>3, <2>4 DEF CapacityNext
<1>2. /\ s \in Server /\ MemoryOf[s] \in Nat /\ DiskOf[s] \in Nat
      /\ NodeMemory \in Nat /\ NodeDisk \in Nat
  BY <1>0, <1>1, CapacityAssumption DEF RequestType, Commit
<1>3. /\ Total(MemoryOf, Charged) + MemoryOf[s] <= NodeMemory
      /\ req[c].kind = "checkout" => Total(DiskOf, Existing) + DiskOf[s] <= NodeDisk
  BY <1>1 DEF CapacityInv, RoomLeft, Commit
<1>4. /\ srv' = srv \/ srv' = [srv EXCEPT ![s] = "live"]
      /\ sub' = [sub EXCEPT ![s] = "held"]
  BY <1>1 DEF Commit
<1>5. Charged' \subseteq Charged \cup {s} /\ Existing' \subseteq Existing \cup {s}
  BY <1>0, <1>2, <1>4 DEF Charged, Existing, TablesType
<1>6. /\ Charged \in SUBSET Server /\ IsFiniteSet(Charged)
      /\ Existing \in SUBSET Server /\ IsFiniteSet(Existing)
  BY <1>0, FS_Subset DEF Charged, Existing
<1>7. /\ Total(MemoryOf, Charged') \in Nat /\ Total(MemoryOf, Charged) \in Nat
      /\ Total(MemoryOf, Charged') <= Total(MemoryOf, Charged) + MemoryOf[s]
  BY <1>2, <1>5, <1>6, CapacityAssumption, TotalAdds
<1>8. /\ Total(DiskOf, Existing') \in Nat /\ Total(DiskOf, Existing) \in Nat
      /\ Total(DiskOf, Existing') <= Total(DiskOf, Existing) + DiskOf[s]
  BY <1>2, <1>5, <1>6, CapacityAssumption, TotalAdds
<1>9. /\ UsedMemory(Now)' = Total(MemoryOf, Charged')
      /\ UsedDisk(Now)' = Total(DiskOf, Existing')
  <2>1. /\ UsedMemory(Now)' = Total(MemoryOf, Charged)'
        /\ UsedDisk(Now)' = Total(DiskOf, Existing)'
    BY DEF UsedMemory, UsedDisk, Total, Units, Now, Charged, Existing
  <2> QED BY <2>1 DEF Total, Units
<1> QED BY <1>2, <1>3, <1>7, <1>8, <1>9

\* No checkout and no renewal is accepted beyond the memory of the node, no
\* checkout beyond its disk: the lock keeps what was left for whoever has
\* found it (capacityUsed, checkout and renew in hosting.go).
THEOREM SalesFit == CapacitySpec => SaleFits
<1>1. CapacityInv /\ [CapacityNext]_capacityVars
        => [\A c \in Client :
              Created(c) /\ req[c].kind # "create" =>
                /\ UsedMemory(Now)' <= NodeMemory
                /\ req[c].kind = "checkout" => UsedDisk(Now)' <= NodeDisk]_capacityVars
  BY SaleStep
<1> QED BY <1>1, CapacityInvariant, PTL DEF CapacitySpec, SaleFits

-----------------------------------------------------------------------------
(***************************************************************************)
(* The subscription of one server.                                        *)
(*                                                                         *)
(* For every list of actions the jobs table accepts, and every number of   *)
(* requests, crashes and faults, port and status never disagree, and grace *)
(* is left by a payment or by a release.                                   *)
(***************************************************************************)

\* The type invariant by parts, so that a step has to speak of those it
\* changes only.
BillingType ==
  /\ status \in Status
  /\ clock \in {"paid", "ended", "lapsed"}
  /\ order \in {"paid", "action_required"}
ServerType == port \in BOOLEAN /\ deleted \in BOOLEAN
SlotType ==
  /\ action \in Action \cup {"none"}
  /\ phase \in {"free", "queued", "running"}
  /\ tries \in 0..MaxAttempts
ProcessType ==
  /\ step \in {"idle", "load", "agent", "record", "result", "finish"}
  /\ failed \in BOOLEAN
  /\ dropped \in BOOLEAN
  /\ expiry \in {"idle", "stop", "list", "get", "release"}
  /\ up \in BOOLEAN
BudgetType == budget \in [{"requests", "crashes", "faults"} -> Nat]

\* A job that waits has an attempt left.
AttemptLeft == phase = "queued" => tries < MaxAttempts

\* The inductive invariant.
SubscriptionInv ==
  /\ BillingType /\ ServerType /\ SlotType /\ ProcessType /\ BudgetType
  /\ AttemptLeft
  /\ PortFollowsStatus

\* The parts are the type invariant.
LEMMA TypeParts == SubscriptionInv => TypeOK
  BY DEF SubscriptionInv, TypeOK, BillingType, ServerType, SlotType, ProcessType, BudgetType

\* A bound that is not exhausted can be spent, and stays a bound.
LEMMA SpendType ==
  ASSUME BudgetType, NEW kind \in {"requests", "crashes", "faults"}, Spend(kind)
  PROVE  BudgetType'
  BY DEF BudgetType, Spend

\* An inserted job is a queued job that was never attempted.
LEMMA InsertType ==
  ASSUME NEW a \in Action,
         SlotType, AttemptLeft, InsertJob(a) \/ TryInsertJob(a)
  PROVE  SlotType' /\ AttemptLeft'
  BY SubscriptionAssumption DEF SubscriptionAssumption, SlotType, AttemptLeft, InsertJob, TryInsertJob, slot

\* A checkout has taken a port for what it provisions.
LEMMA InitSubscriptionInv ==
  ASSUME Init
  PROVE  SubscriptionInv
<1> USE SubscriptionAssumption DEF SubscriptionAssumption, Init
<1>1. BillingType /\ ServerType
  BY DEF BillingType, ServerType, Status
<1>2. SlotType
  <2>1. tries \in 0..MaxAttempts
    OBVIOUS
  <2>2. action \in Action
    BY DEF Action
  <2> QED BY <2>1, <2>2 DEF SlotType
<1>3. ProcessType
  BY DEF ProcessType
<1>4. BudgetType
  BY DEF BudgetType
<1>5. AttemptLeft /\ PortFollowsStatus
  BY DEF AttemptLeft, PortFollowsStatus
<1> QED BY <1>1, <1>2, <1>3, <1>4, <1>5 DEF SubscriptionInv

\* What the customer and the owner ask for: a renewal gives a port to whoever
\* has lost it, and nothing else that is accepted touches port or release.
LEMMA RequestKeepsInv ==
  ASSUME SubscriptionInv, Renew \/ Retry \/ \E a \in {"other", "delete"} : Request(a)
  PROVE  SubscriptionInv'
<1> USE DEF SubscriptionInv, billing, server, slot, worker
<1>0. {"provision", "other", "delete"} \subseteq Action
  BY DEF Action
<1>1. CASE Renew
  <2>1. BillingType' /\ ServerType' /\ ProcessType' /\ PortFollowsStatus'
    BY <1>1 DEF Renew, BillingType, ServerType, ProcessType, PortFollowsStatus, Status
  <2>2. SlotType' /\ AttemptLeft'
    <3>1. CASE status = "released"
      BY <1>0, <1>1, <3>1, InsertType DEF Renew
    <3>2. CASE status # "released"
      BY <1>1, <3>2 DEF Renew, SlotType, AttemptLeft
    <3> QED BY <3>1, <3>2
  <2>3. BudgetType'
    BY <1>1, SpendType DEF Renew
  <2> QED BY <2>1, <2>2, <2>3
<1>2. CASE Retry
  <2>1. BillingType' /\ ServerType' /\ ProcessType' /\ PortFollowsStatus'
    BY <1>2 DEF Retry, BillingType, ServerType, ProcessType, PortFollowsStatus, Status
  <2>2. SlotType' /\ AttemptLeft' /\ BudgetType'
    BY <1>0, <1>2, InsertType, SpendType DEF Retry
  <2> QED BY <2>1, <2>2
<1>3. ASSUME NEW a \in {"other", "delete"}, Request(a)
      PROVE  SubscriptionInv'
  <2>1. BillingType' /\ ServerType' /\ ProcessType' /\ PortFollowsStatus'
    BY <1>3 DEF Request, BillingType, ServerType, ProcessType, PortFollowsStatus
  <2>2. SlotType' /\ AttemptLeft' /\ BudgetType'
    BY <1>0, <1>3, InsertType, SpendType DEF Request
  <2> QED BY <2>1, <2>2
<1> QED BY <1>1, <1>2, <1>3

\* The worker: a release takes the port with the status, a deletion with the
\* server, and the result of a provision is neither.
LEMMA WorkKeepsInv ==
  ASSUME SubscriptionInv, Work
  PROVE  SubscriptionInv'
<1> USE SubscriptionAssumption DEF SubscriptionAssumption, SubscriptionInv, billing, server, slot, worker
<1>1. CASE Claim
  <2>1. SlotType' /\ AttemptLeft'
    BY <1>1 DEF Claim, SlotType, AttemptLeft
  <2>2. ProcessType'
    BY <1>1 DEF Claim, ProcessType
  <2>3. BillingType' /\ ServerType' /\ BudgetType' /\ PortFollowsStatus'
    BY <1>1 DEF Claim, BillingType, ServerType, BudgetType, PortFollowsStatus
  <2> QED BY <2>1, <2>2, <2>3
<1>2. CASE Load \/ AgentDone
  <2>1. BudgetType'
    BY <1>2, SpendType DEF Load, AgentDone, BudgetType
  <2>2. BillingType' /\ ServerType' /\ SlotType' /\ AttemptLeft' /\ PortFollowsStatus'
    BY <1>2 DEF Load, AgentDone, BillingType, ServerType, SlotType, AttemptLeft, PortFollowsStatus
  <2>3. ProcessType'
    BY <1>2 DEF Load, AgentDone, ProcessType, ServerType
  <2> QED BY <2>1, <2>2, <2>3
<1>3. CASE Record
  <2>1. SlotType' /\ AttemptLeft' /\ ProcessType' /\ BudgetType'
    BY <1>3 DEF Record, SlotType, AttemptLeft, ProcessType, BudgetType
  <2>2. BillingType' /\ ServerType' /\ PortFollowsStatus'
    BY <1>3 DEF Record, BillingType, ServerType, PortFollowsStatus, Status
  <2> QED BY <2>1, <2>2
<1>4. CASE Result
  <2>1. SlotType' /\ AttemptLeft' /\ ServerType' /\ ProcessType'
    BY <1>4 DEF Result, SlotType, AttemptLeft, ServerType, ProcessType
  <2>2. BillingType' /\ PortFollowsStatus'
    BY <1>4 DEF Result, Answer, Outcome, BillingType, PortFollowsStatus, Status
  <2>3. BudgetType'
    BY <1>4, SpendType DEF Result, BudgetType
  <2> QED BY <2>1, <2>2, <2>3
<1>5. CASE Finish
  <2>1. SlotType' /\ AttemptLeft'
    BY <1>5 DEF Finish, SlotType, AttemptLeft
  <2>2. ProcessType'
    BY <1>5 DEF Finish, ProcessType
  <2>3. BillingType' /\ ServerType' /\ BudgetType' /\ PortFollowsStatus'
    BY <1>5 DEF Finish, BillingType, ServerType, BudgetType, PortFollowsStatus
  <2> QED BY <2>1, <2>2, <2>3
<1> QED BY <1>1, <1>2, <1>3, <1>4, <1>5 DEF Work

\* The expiry worker changes the status to grace and inserts jobs.
LEMMA ExpiryKeepsInv ==
  ASSUME SubscriptionInv, ExpiryRound
  PROVE  SubscriptionInv'
<1> USE DEF SubscriptionInv, billing, server, slot, worker
<1>1. CASE Expire
  <2>1. SlotType' /\ AttemptLeft' /\ ServerType' /\ ProcessType' /\ BudgetType'
    BY <1>1 DEF Expire, SlotType, AttemptLeft, ServerType, ProcessType, BudgetType
  <2>2. BillingType' /\ PortFollowsStatus'
    BY <1>1 DEF Expire, BillingType, PortFollowsStatus, Status
  <2> QED BY <2>1, <2>2
<1>2. CASE EnqueueStop \/ EnqueueRelease
  <2>1. {"other", "release"} \subseteq Action
    BY DEF Action
  <2>2. SlotType' /\ AttemptLeft'
    BY <1>2, <2>1, InsertType DEF EnqueueStop, EnqueueRelease, SlotType, AttemptLeft
  <2>3. BillingType' /\ ServerType' /\ ProcessType' /\ BudgetType' /\ PortFollowsStatus'
    BY <1>2 DEF EnqueueStop, EnqueueRelease, BillingType, ServerType, ProcessType,
                BudgetType, PortFollowsStatus
  <2> QED BY <2>2, <2>3
<1>3. CASE ListLapsed \/ GetServer
  BY <1>3 DEF ListLapsed, GetServer, BillingType, ServerType, SlotType, ProcessType,
              BudgetType, AttemptLeft, PortFollowsStatus
<1> QED BY <1>1, <1>2, <1>3 DEF ExpiryRound

\* The clock, the failure of an agent call, a crash and the recovery.
LEMMA OtherKeepsInv ==
  ASSUME SubscriptionInv, Tick \/ AgentFails \/ Crash \/ Restart \/ UNCHANGED vars
  PROVE  SubscriptionInv'
<1> USE SubscriptionAssumption DEF SubscriptionAssumption, SubscriptionInv, billing, server, slot, worker
<1>1. CASE Tick \/ UNCHANGED vars
  BY <1>1 DEF Tick, vars, BillingType, ServerType, SlotType, ProcessType, BudgetType,
              AttemptLeft, PortFollowsStatus
<1>2. CASE AgentFails \/ Crash
  <2>1. BudgetType'
    BY <1>2, SpendType DEF AgentFails, Crash
  <2>2. BillingType' /\ ServerType' /\ PortFollowsStatus'
    BY <1>2 DEF AgentFails, Crash, BillingType, ServerType, PortFollowsStatus
  <2>3. SlotType' /\ AttemptLeft'
    BY <1>2 DEF AgentFails, Crash, SlotType, AttemptLeft
  <2>4. ProcessType'
    BY <1>2 DEF AgentFails, Crash, ProcessType
  <2> QED BY <2>1, <2>2, <2>3, <2>4
<1>3. CASE Restart
  BY <1>3 DEF Restart, BillingType, ServerType, SlotType, ProcessType, BudgetType,
              AttemptLeft, PortFollowsStatus
<1> QED BY <1>1, <1>2, <1>3

\* The inductive step, one case per kind of action.
LEMMA NextSubscriptionInv ==
  ASSUME SubscriptionInv, [Next]_vars
  PROVE  SubscriptionInv'
  BY RequestKeepsInv, WorkKeepsInv, ExpiryKeepsInv, OtherKeepsInv DEF Next

\* Every state of every subscription satisfies the invariant (hosting.go).
THEOREM SubscriptionInvariant == Spec => []SubscriptionInv
<1> QED BY InitSubscriptionInv, NextSubscriptionInv, PTL DEF Spec

\* The rows, the clock and the two workers keep their types.
THEOREM SubscriptionTypeCorrect == Spec => []TypeOK
<1> QED BY SubscriptionInvariant, TypeParts, PTL

\* Port and subscription never disagree, whichever of release, renewal and
\* deletion comes last (hosting.go, finalizeRelease and renew).
THEOREM PortMatchesStatus == Spec => []PortFollowsStatus
<1>1. SubscriptionInv => PortFollowsStatus
  BY DEF SubscriptionInv
<1> QED BY <1>1, SubscriptionInvariant, PTL

\* One step out of grace is a payment or a release.
LEMMA GraceStep ==
  ASSUME [Next]_vars, status = "grace"
  PROVE  status' \in {"grace", "released"} \/ clock' = "paid"
<1> USE DEF billing, server, slot, worker
<1>1. CASE Renew \/ Retry \/ \E a \in {"other", "delete"} : Request(a)
  BY <1>1 DEF Renew, Retry, Request
<1>2. CASE Work
  BY <1>2 DEF Work, Claim, Load, AgentDone, Record, Result, Answer, Finish
<1>3. CASE ExpiryRound
  BY <1>3 DEF ExpiryRound, Expire, EnqueueStop, ListLapsed, GetServer, EnqueueRelease
<1>4. CASE Tick \/ AgentFails \/ Crash \/ Restart \/ UNCHANGED vars
  BY <1>4 DEF Tick, AgentFails, Crash, Restart, vars
<1> QED BY <1>1, <1>2, <1>3, <1>4 DEF Next

\* A provision that ends late, or any other step, does not give a server back
\* that is in grace: setSubscriptionProvisionResult matches provisioning only.
THEOREM GraceEndsByPaymentOrRelease == Spec => GraceIsNotUndone
<1>1. [Next]_vars
        => [status = "grace" => status' \in {"grace", "released"} \/ clock' = "paid"]_vars
  BY GraceStep
<1> QED BY <1>1, PTL DEF Spec, GraceIsNotUndone

-----------------------------------------------------------------------------
(***************************************************************************)
(* Why a provision is answered: the job keeps the slot while the worker is *)
(* at it, so that nobody can ask for a second provision in between, and it *)
(* is not finished before the subscription has left provisioning, unless a *)
(* statement has failed.                                                   *)
(***************************************************************************)
AnswerInv ==
  /\ step # "idle" => up /\ phase = "running"
  /\ phase = "free" => action = "none"
  /\ step = "finish" /\ action = "provision" /\ ~dropped => deleted \/ status # "provisioning"

\* A job is inserted only when there is none, and the worker idle.
LEMMA InsertKeepsAnswer ==
  ASSUME AnswerInv, NEW a, InsertJob(a), UNCHANGED step
  PROVE  AnswerInv'
  BY DEF InsertJob, CanInsert, AnswerInv

LEMMA InsertOnlyFree ==
  ASSUME AnswerInv, NEW a, InsertJob(a)
  PROVE  action = "none"
  BY DEF InsertJob, CanInsert, AnswerInv

\* Whatever is asked, expires or fails: the slot of the worker's job is kept.
LEMMA NextAnswerInv == AnswerInv /\ [Next]_vars => AnswerInv'
<1> SUFFICES ASSUME AnswerInv, [Next]_vars
             PROVE  AnswerInv'
  OBVIOUS
<1> USE DEF billing, server, slot, worker
<1>1. CASE Renew
  <2>1. CASE status = "released"
    BY <1>1, <2>1, InsertKeepsAnswer DEF Renew
  <2>2. CASE status # "released"
    BY <1>1, <2>2 DEF Renew, AnswerInv
  <2> QED BY <2>1, <2>2
<1>2. CASE Retry
  BY <1>2, InsertKeepsAnswer DEF Retry
<1>3. ASSUME NEW a \in {"other", "delete"}, Request(a)
      PROVE  AnswerInv'
  BY <1>3, InsertKeepsAnswer DEF Request
<1>4. CASE Work
  BY <1>4 DEF Work, Claim, Load, AgentDone, Record, Result, Answer, Outcome, Finish, AnswerInv
<1>5. CASE EnqueueStop \/ EnqueueRelease
  <2>1. CASE UNCHANGED slot
    BY <1>5, <2>1 DEF EnqueueStop, EnqueueRelease, AnswerInv
  <2>2. CASE \E a \in {"other", "release"} : InsertJob(a)
    BY <1>5, <2>2, InsertKeepsAnswer DEF EnqueueStop, EnqueueRelease
  <2> QED BY <1>5, <2>1, <2>2 DEF EnqueueStop, EnqueueRelease, TryInsertJob
<1>6. CASE Expire \/ ListLapsed \/ GetServer
  BY <1>6 DEF Expire, ListLapsed, GetServer, AnswerInv
<1>7. CASE Tick \/ AgentFails \/ Crash \/ UNCHANGED vars
  BY <1>7 DEF Tick, AgentFails, Crash, vars, AnswerInv
<1>8. CASE Restart
  <2>1. CASE action' = "none" /\ phase' = "free"
    BY <1>8, <2>1 DEF Restart, AnswerInv
  <2>2. CASE /\ phase' = IF phase = "running" THEN "queued" ELSE phase
             /\ UNCHANGED <<action, tries>>
    <3>1. phase' = "free" => phase = "free"
      BY <2>2
    <3>2. step' # "idle" => phase' = "running"
      BY <1>8 DEF Restart, AnswerInv
    <3> QED BY <1>8, <2>2, <3>1, <3>2 DEF Restart, AnswerInv
  <2> QED BY <1>8, <2>1, <2>2 DEF Restart
<1> QED BY <1>1, <1>2, <1>3, <1>4, <1>5, <1>6, <1>7, <1>8 DEF Next, ExpiryRound

\* One step of a subscription that is being provisioned.
LEMMA AnswerStep ==
  ASSUME AnswerInv, [Next]_vars,
         status = "provisioning", action = "provision", ~deleted, up, ~dropped
  PROVE  status' # "provisioning" \/ action' = "provision"
<1> USE DEF billing, server, slot, worker
<1>1. CASE Renew \/ Retry \/ Expire
  BY <1>1 DEF Renew, Retry, Expire
<1>2. ASSUME NEW a \in {"other", "delete"}, Request(a)
      PROVE  FALSE
  BY <1>2, InsertOnlyFree DEF Request
<1>3. CASE Work
  BY <1>3 DEF Work, Claim, Load, AgentDone, Record, Result, Answer, Finish, AnswerInv
<1>4. CASE EnqueueStop \/ EnqueueRelease
  BY <1>4, InsertOnlyFree DEF EnqueueStop, EnqueueRelease, TryInsertJob
<1>5. CASE ListLapsed \/ GetServer \/ Tick \/ AgentFails \/ Crash \/ Restart \/ UNCHANGED vars
  BY <1>5 DEF ListLapsed, GetServer, Tick, AgentFails, Crash, Restart, vars
<1> QED BY <1>1, <1>2, <1>3, <1>4, <1>5 DEF Next, ExpiryRound

\* While the controller runs, a provision none of whose own statements fails
\* does not end without an answer to its subscription
\* (setSubscriptionProvisionResult before finishJob), for any number of
\* requests, repetitions, crashes and faults of the agent.
THEOREM EveryProvisionIsAnswered == Spec => ProvisionIsAnswered
<1>1. Init => AnswerInv
  BY DEF Init, AnswerInv
<1>2. AnswerInv /\ [Next]_vars
        => [status = "provisioning" /\ action = "provision" /\ ~deleted /\ up /\ ~dropped
              => status' # "provisioning" \/ action' = "provision"]_vars
  BY AnswerStep
<1> QED BY <1>1, <1>2, NextAnswerInv, PTL DEF Spec, ProvisionIsAnswered
-----------------------------------------------------------------------------
\* A step that changes the slot is a step of JobSlot.
LEMMA SlotStep ==
  ASSUME SubscriptionInv, AnswerInv, [Next]_vars
  PROVE  [Slot!Next]_<<phase, tries>>
<1> USE DEF slot
<1>0. /\ tries \in 0..MaxAttempts /\ MaxAttempts \in Nat
      /\ phase = "queued" => tries < MaxAttempts
  BY SubscriptionAssumption DEF SubscriptionInv, SlotType, AttemptLeft
<1>1. ASSUME NEW a, InsertJob(a)
      PROVE  Slot!Submit
  BY <1>1 DEF InsertJob, CanInsert, Slot!Submit
<1>2. CASE Renew \/ Retry \/ \E a \in {"other", "delete"} : Request(a)
  BY <1>1, <1>2 DEF Renew, Retry, Request, Slot!Next
<1>3. CASE Claim
  BY <1>0, <1>3 DEF Claim, Slot!Next, Slot!Attempt
<1>4. CASE Finish
  <2>1. phase = "running"
    BY <1>4 DEF Finish, AnswerInv
  <2> QED BY <1>4, <2>1 DEF Finish, Slot!Next, Slot!Resolve
<1>5. CASE Restart
  <2>1. CASE phase = "running" /\ tries >= MaxAttempts
    BY <1>5, <2>1 DEF Restart, Slot!Next, Slot!Resolve
  <2>2. CASE phase = "running" /\ ~(tries >= MaxAttempts)
    <3>1. tries < MaxAttempts
      BY <1>0, <2>2
    <3> QED BY <1>5, <2>2, <3>1 DEF Restart, Slot!Next, Slot!Requeue
  <2>3. CASE phase # "running"
    BY <1>5, <2>3 DEF Restart
  <2> QED BY <2>1, <2>2, <2>3
<1>6. CASE Load \/ AgentDone \/ Record \/ Result
  BY <1>6 DEF Load, AgentDone, Record, Result
<1>7. CASE EnqueueStop \/ EnqueueRelease
  BY <1>1, <1>7 DEF EnqueueStop, EnqueueRelease, TryInsertJob, Slot!Next
<1>8. CASE Expire \/ ListLapsed \/ GetServer
  BY <1>8 DEF Expire, ListLapsed, GetServer
<1>9. CASE Tick \/ AgentFails \/ Crash \/ UNCHANGED vars
  BY <1>9 DEF Tick, AgentFails, Crash, vars
<1> QED BY <1>2, <1>3, <1>4, <1>5, <1>6, <1>7, <1>8, <1>9 DEF Next, Work, ExpiryRound

\* Whatever renews, retries, lapses, releases and deletes, the server's one slot
\* is used as the queue promises it, from the checkout's job on.
THEOREM SubscriptionImplementsSlot == Spec => ImplementsSlot
<1>1. Init => AnswerInv /\ phase = "queued" /\ tries = 0
  BY DEF Init, AnswerInv
<1>2. SubscriptionInv /\ AnswerInv /\ [Next]_vars => [Slot!Next]_<<phase, tries>>
  BY SlotStep
<1> QED BY <1>1, <1>2, SubscriptionInvariant, NextAnswerInv, PTL DEF Spec, ImplementsSlot
=============================================================================
