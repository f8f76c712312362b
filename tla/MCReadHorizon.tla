--------------------------- MODULE MCReadHorizon ---------------------------
(* ReadHorizon for TLC: the readers are alike. *)
EXTENDS ReadHorizon, TLC

Symmetry == Permutations(Reader)

=============================================================================
