------------------------------ MODULE MCBackup ------------------------------
(* Small instances of Backup for TLC. *)
EXTENDS Backup

\* The backup directories are interchangeable.
Symmetry == Permutations(Dirs)
=============================================================================
