--------------------------- MODULE MCModpackInstall ---------------------------
(***************************************************************************)
(* Two installations of two packs, so that the second may have a pack to   *)
(* put back, with two crashes, which give up the job, and one of every     *)
(* other mishap.                                                           *)
(***************************************************************************)
EXTENDS ModpackInstall, TLC

\* Files of packs are only compared for equality.
MCFiles == Permutations(File)
=============================================================================
