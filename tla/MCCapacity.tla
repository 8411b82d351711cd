------------------------------ MODULE MCCapacity ------------------------------
(***************************************************************************)
(* Three or four requests for servers of the smallest package, of which    *)
(* the node holds three, or for one that takes all of its memory and two   *)
(* thirds of its disk; two ports.  The ports run out before the memory     *)
(* when three small servers are asked for, the memory when the large one   *)
(* is, and the disk when two small servers that were released are followed *)
(* by it.                                                                  *)
(***************************************************************************)
EXTENDS Capacity, TLC

CONSTANTS s1, s2, s3, s4

\* Sizes in units of the smallest package.
MCMemoryOf == (s1 :> 1) @@ (s2 :> 1) @@ (s3 :> 1) @@ (s4 :> 3)
MCDiskOf == (s1 :> 1) @@ (s2 :> 1) @@ (s3 :> 1) @@ (s4 :> 2)
MCPort == 1..2

\* Requests, and servers of one size, are only compared for equality.
MCSymmetry == Permutations(Client) \cup Permutations({s1, s2, s3})
=============================================================================
