--------------------------- MODULE MCHandleTable ----------------------------
(* The table with two threads, two machines, and calls nested one deep.    *)
EXTENDS HandleTable, TLC

Symmetry == Permutations(Threads)

=============================================================================
