------------------------------- MODULE MCAddons -------------------------------
(***************************************************************************)
(* x has the version in its file names, and its first release requires l,  *)
(* whose releases share a name; c requires itself and is never installed,  *)
(* and as the second requirement of x it is past the limit.                *)
(***************************************************************************)
EXTENDS Addons, TLC

CONSTANTS x1, x2, l1, l2, c

MCNameOf ==
  [r \in Release |-> CASE r = x1 -> "x-1.jar" [] r = x2 -> "x-2.jar" [] r = c -> "c.jar"
                       [] OTHER -> "l.jar"]

MCRequires == [r \in Release |-> CASE r = x1 -> <<l1, c>> [] r = c -> <<c>> [] OTHER -> <<>>]

MCAddon == Permutations(Addon)
===============================================================================
