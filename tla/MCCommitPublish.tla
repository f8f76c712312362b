--------------------------- MODULE MCCommitPublish ---------------------------
(* Instances of CommitPublish for TLC. *)
EXTENDS ManagerRefinement, TLC

Symmetry == Permutations(Proc)
=============================================================================
