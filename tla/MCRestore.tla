------------------------------ MODULE MCRestore ------------------------------
(***************************************************************************)
(* A backup, a change of the world, and a restore with its snapshot need   *)
(* two backups, two worlds and two requests; a third backup and a third    *)
(* request are for another backup or restore beside an orphan, or a        *)
(* deletion.  Two mishaps are a crash in the middle of a restore, which    *)
(* starts the orphan, and another crash, deadline or lost statement beside *)
(* it, and the two attempts that use up the job's.                         *)
(***************************************************************************)
EXTENDS Restore, TLC

\* Identifiers of backups are only compared for equality.
MCBackups == Permutations(Backup)
=============================================================================
