------------------------------ MODULE Capacity ------------------------------
(***************************************************************************)
(* Who gets the node's memory, disk and ports.  Three kinds of request     *)
(* take them, all under advisory lock 74201: a checkout and the renewal of *)
(* a released subscription, READ COMMITTED transactions, and the owner's   *)
(* store.create, a SERIALIZABLE one, whose snapshot is taken by its first  *)
(* statement, the one that waits for the lock.  The end of a release and   *)
(* of a deletion give resources back without the lock.                     *)
(*                                                                         *)
(* CPU is counted like memory.  What a server takes is a constant: it is   *)
(* the package it is bought with.  Renewals that are not of a released     *)
(* subscription take nothing and are in Subscription, whose names this     *)
(* module does not use, so that one module can extend both.                *)
(***************************************************************************)
EXTENDS Naturals, FiniteSets, FiniteSetsExt

CONSTANTS
  Client,       \* bound: requests, one transaction each
  Server,       \* identifiers a server may get
  Key,          \* idempotency keys
  None,         \* no client, no server, no key
  Port,         \* NodePortStart..NodePortEnd
  MemoryOf,     \* [Server -> Nat]: servers.memory_mb
  DiskOf,       \* [Server -> Nat]: servers.disk_mb
  NodeMemory, NodeDisk

ASSUME CapacityAssumption ==
  /\ Port \subseteq Nat \ {0}
  /\ MemoryOf \in [Server -> Nat] /\ DiskOf \in [Server -> Nat]
  /\ NodeMemory \in Nat /\ NodeDisk \in Nat
  /\ None \notin Client \cup Server \cup Key

VARIABLES
  srv,      \* servers: "none", "live" or "deleted"
  sub,      \* subscriptions: "none" (a server of the owner), "held", "released"
  alloc,    \* allocations: the server's port, or 0
  orders,   \* orders: the server bought or renewed with a key
  lock,     \* holder of the advisory lock
  pc,       \* where the client's transaction is
  req,      \* what it asks for
  snap,     \* SERIALIZABLE: the tables when its snapshot was taken
  stale,    \* SERIALIZABLE: another such transaction committed since then
  picked,   \* the port it has found
  reply     \* what it was answered

capacityVars == <<srv, sub, alloc, orders, lock, pc, req, snap, stale, picked, reply>>

tables == <<srv, sub, alloc, orders>>

Kind == {"checkout", "renew", "create"}
Tables == [srv : [Server -> {"none", "live", "deleted"}],
           sub : [Server -> {"none", "held", "released"}],
           alloc : [Server -> Port \cup {0}]]
Now == [srv |-> srv, sub |-> sub, alloc |-> alloc]

Nothing == [srv |-> [s \in Server |-> "none"],
            sub |-> [s \in Server |-> "none"],
            alloc |-> [s \in Server |-> 0]]

CapacityInit ==
  /\ srv = Nothing.srv /\ sub = Nothing.sub /\ alloc = Nothing.alloc
  /\ orders = [k \in Key |-> None]
  /\ lock = None
  /\ pc = [c \in Client |-> "idle"]
  /\ req = [c \in Client |-> [kind |-> "create", server |-> None, key |-> None]]
  /\ snap = [c \in Client |-> Nothing]
  /\ stale = [c \in Client |-> FALSE]
  /\ picked = [c \in Client |-> 0]
  /\ reply = [c \in Client |-> "none"]

-----------------------------------------------------------------------------
\* SUM over the servers R: one of n megabytes takes n units.
Units(f, s) == {s} \X (1..f[s])
Total(f, R) == Cardinality(UNION {Units(f, s) : s \in R})

\* capacityUsed: a released subscription keeps the disk of its server only.
UsedMemory(t) == Total(MemoryOf, {s \in Server : t.srv[s] = "live" /\ t.sub[s] # "released"})
UsedDisk(t) == Total(DiskOf, {s \in Server : t.srv[s] = "live"})

\* Mutant: the port after the last one is taken for a candidate.
FreePortsAndNext(t) == {p \in Port \cup {Max(Port) + 1} : \A s \in Server : t.alloc[s] # p}

FreePorts(t) == {p \in Port : \A s \in Server : t.alloc[s] # p}

\* What a statement of the client's transaction reads.
View(c) == IF req[c].kind = "create" THEN snap[c] ELSE Now

Fits(c) ==
  LET t == View(c) IN
    /\ UsedMemory(t) + MemoryOf[req[c].server] <= NodeMemory
    /\ req[c].kind # "renew" => UsedDisk(t) + DiskOf[req[c].server] <= NodeDisk
    /\ req[c].kind # "create" => FreePorts(t) # {}

Reply(c, answer) ==
  /\ reply' = [reply EXCEPT ![c] = answer]
  /\ pc' = [pc EXCEPT ![c] = "done"]
  /\ lock' = None

Goto(c, label) ==
  /\ pc' = [pc EXCEPT ![c] = label]
  /\ UNCHANGED <<lock, reply>>

-----------------------------------------------------------------------------
\* Servers nobody else is asking for: an identifier is a fresh UUID.
Fresh(s) ==
  /\ srv[s] = "none"
  /\ \A c \in Client : pc[c] \notin {"idle", "done"} => req[c].server # s

\* The first statement asks for the lock; with it comes the snapshot.
Begin(c, kind, s, k) ==
  /\ pc[c] = "idle"
  /\ IF kind = "renew" THEN sub[s] # "none" ELSE Fresh(s)
  /\ kind = "create" => k = None
  /\ kind # "create" => k # None
  /\ req' = [req EXCEPT ![c] = [kind |-> kind, server |-> s, key |-> k]]
  /\ snap' = [snap EXCEPT ![c] = IF kind = "create" THEN Now ELSE Nothing]
  /\ Goto(c, "lock")
  /\ UNCHANGED <<tables, stale, picked>>

\* Mutant: the transaction does not take the lock.
AcquireNothing(c) ==
  /\ pc[c] = "lock"
  /\ pc' = [pc EXCEPT ![c] = IF req[c].kind = "create" THEN "capacity" ELSE "key"]
  /\ UNCHANGED <<tables, lock, req, snap, stale, picked, reply>>

Acquire(c) ==
  /\ pc[c] = "lock"
  /\ lock = None
  /\ lock' = c
  /\ pc' = [pc EXCEPT ![c] = IF req[c].kind = "create" THEN "capacity" ELSE "key"]
  /\ UNCHANGED <<tables, req, snap, stale, picked, reply>>

\* The answer for a key that is taken.  A repeated checkout is answered with
\* the server it bought, which must still exist; a repeated renewal must be
\* of the subscription the key was used for.
Repeated(c) ==
  LET s == orders[req[c].key] IN
    IF \/ req[c].kind = "checkout" /\ srv[s] = "deleted"
       \/ req[c].kind = "renew" /\ s # req[c].server
    THEN "error" ELSE "existing"

\* Mutant: a checkout looks for its key only when it is about to insert, so
\* that the capacity is checked first.
CheckKeyOfRenewals(c) ==
  /\ pc[c] = "key"
  /\ IF req[c].kind = "renew" /\ orders[req[c].key] # None THEN Reply(c, Repeated(c))
     ELSE IF req[c].kind = "renew" /\ sub[req[c].server] # "released" THEN Reply(c, "error")
     ELSE Goto(c, "capacity")
  /\ UNCHANGED <<tables, req, snap, stale, picked>>

CheckKey(c) ==
  /\ pc[c] = "key"
  /\ IF orders[req[c].key] # None THEN Reply(c, Repeated(c))
     ELSE IF req[c].kind = "renew" /\ sub[req[c].server] # "released" THEN Reply(c, "error")
     ELSE Goto(c, "capacity")
  /\ UNCHANGED <<tables, req, snap, stale, picked>>

CheckCapacity(c) ==
  /\ pc[c] = "capacity"
  /\ IF Fits(c) THEN Goto(c, "port") ELSE Reply(c, "conflict")
  /\ UNCHANGED <<tables, req, snap, stale, picked>>

PickPort(c) ==
  /\ pc[c] = "port"
  /\ IF FreePorts(View(c)) = {}
     THEN Reply(c, "conflict") /\ UNCHANGED picked
     ELSE Goto(c, "commit") /\ picked' = [picked EXCEPT ![c] = Min(FreePorts(View(c)))]
  /\ UNCHANGED <<tables, req, snap, stale>>

\* Mutant: allocations has no unique constraint on the address.
RefusedForStaleness(c) ==
  \/ req[c].kind # "create" /\ orders[req[c].key] # None
  \/ req[c].kind = "create" /\ stale[c]

\* The unique constraints on the address and on the key, which any transaction
\* may meet, and the conflict PostgreSQL finds between two SERIALIZABLE ones:
\* a checkout or a renewal is READ COMMITTED and never refused for that.
Violates(c) ==
  \/ picked[c] \notin FreePorts(Now)
  \/ req[c].kind # "create" /\ orders[req[c].key] # None
  \/ req[c].kind = "create" /\ stale[c]

\* The inserts and the commit.
Commit(c) ==
  LET s == req[c].server IN
  /\ pc[c] = "commit"
  /\ IF Violates(c)
     THEN Reply(c, "error") /\ UNCHANGED <<tables, stale>>
     ELSE /\ Reply(c, "created")
          /\ alloc' = [alloc EXCEPT ![s] = picked[c]]
          /\ IF req[c].kind = "renew" THEN UNCHANGED srv ELSE srv' = [srv EXCEPT ![s] = "live"]
          /\ IF req[c].kind = "create"
             THEN /\ stale' = [d \in Client |->
                                  \/ stale[d]
                                  \/ req[d].kind = "create" /\ pc[d] \notin {"idle", "done"}]
                  /\ UNCHANGED <<sub, orders>>
             ELSE /\ sub' = [sub EXCEPT ![s] = "held"]
                  /\ orders' = [orders EXCEPT ![req[c].key] = s]
                  /\ UNCHANGED stale
  /\ UNCHANGED <<req, snap, picked>>

-----------------------------------------------------------------------------
\* finalizeRelease, of the worker: no lock.
Release(s) ==
  /\ srv[s] = "live" /\ sub[s] = "held"
  /\ sub' = [sub EXCEPT ![s] = "released"]
  /\ alloc' = [alloc EXCEPT ![s] = 0]
  /\ UNCHANGED <<srv, orders, lock, pc, req, snap, stale, picked, reply>>

\* finalizeDelete, of the worker: no lock, and the subscription stays.
Delete(s) ==
  /\ srv[s] = "live"
  /\ srv' = [srv EXCEPT ![s] = "deleted"]
  /\ alloc' = [alloc EXCEPT ![s] = 0]
  /\ UNCHANGED <<sub, orders, lock, pc, req, snap, stale, picked, reply>>

Step(c) == Acquire(c) \/ CheckKey(c) \/ CheckCapacity(c) \/ PickPort(c) \/ Commit(c)

CapacityNext ==
  \/ \E c \in Client, kind \in Kind, s \in Server, k \in Key \cup {None} : Begin(c, kind, s, k)
  \/ \E c \in Client : Step(c)
  \/ \E s \in Server : Release(s) \/ Delete(s)

CapacitySpec == CapacityInit /\ [][CapacityNext]_capacityVars
-----------------------------------------------------------------------------
CapacityTypeOK ==
  /\ Now \in Tables
  /\ orders \in [Key -> Server \cup {None}]
  /\ lock \in Client \cup {None}
  /\ pc \in [Client -> {"idle", "lock", "key", "capacity", "port", "commit", "done"}]
  /\ req \in [Client -> [kind : Kind, server : Server \cup {None}, key : Key \cup {None}]]
  /\ snap \in [Client -> Tables]
  /\ stale \in [Client -> BOOLEAN]
  /\ picked \in [Client -> Port \cup {0}]
  /\ reply \in [Client -> {"none", "existing", "created", "conflict", "error"}]

\* Two servers never listen on one address, and every server that may run
\* has one, although a port is picked some statements before it is inserted
\* and ports are freed and picked again without the lock in between.
AddressesAreSound ==
  /\ \A s, u \in Server : s # u /\ alloc[s] # 0 => alloc[s] # alloc[u]
  /\ \A s \in Server : srv[s] = "live" /\ sub[s] # "released" => alloc[s] # 0

Created(c) == reply[c] # "created" /\ reply'[c] = "created"

\* A checkout or a renewal that is accepted leaves the node within its
\* memory, and a checkout within its disk, whatever was committed between its
\* reads and its inserts.
SaleFits ==
  [][\A c \in Client :
       Created(c) /\ req[c].kind # "create" =>
         /\ UsedMemory(Now)' <= NodeMemory
         /\ req[c].kind = "checkout" => UsedDisk(Now)' <= NodeDisk]_capacityVars

\* A checkout sent again after it was committed is answered with its order:
\* never with a conflict for the capacity the first one took, and with an
\* error only if the server is gone.
RepeatIsRecognised ==
  [][\A c \in Client :
       /\ reply[c] = "none" /\ reply'[c] \in {"conflict", "error"}
       /\ req[c].kind = "checkout" /\ orders[req[c].key] # None
       => srv[orders[req[c].key]] = "deleted"]_capacityVars

\* README.md:85: the capacity is checked atomically to prevent overselling.
NeverOversold == UsedMemory(Now) <= NodeMemory
=============================================================================
