--------------------------- MODULE MCChangeCapture ---------------------------
(* Small instances of ChangeCapture for TLC. *)
EXTENDS ChangeCapture

\* The threads that prune are interchangeable.
Symmetry == Permutations(Keepers)
=============================================================================
