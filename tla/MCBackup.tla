----------------------------- MODULE MCBackup -------------------------------
(* TLC instance of Backup.                                                 *)
EXTENDS Backup, TLC

Symmetry == Permutations(Dir)
=============================================================================
