------------------------ MODULE MCTransactionManager ------------------------
(* Small instances of TransactionManager for TLC. *)
EXTENDS TransactionManager, TLC

\* Transactions are interchangeable, and so are entities.
Symmetry == Permutations(Tx) \cup Permutations(Entity)
=============================================================================
