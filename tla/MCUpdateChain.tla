--------------------------- MODULE MCUpdateChain ---------------------------
EXTENDS UpdateChain

\* Rows, values and transactions are interchangeable.
Symmetry == Permutations(Row) \cup Permutations(Value) \cup Permutations(Writer)

=============================================================================
