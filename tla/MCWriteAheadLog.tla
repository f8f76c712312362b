-------------------------- MODULE MCWriteAheadLog --------------------------
(* WriteAheadLog for TLC: the direct writes are alike, and so are the others. *)
EXTENDS WriteAheadLog

Symmetry == Permutations(Direct) \cup Permutations(Tx \ Direct)

=============================================================================
