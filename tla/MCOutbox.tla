------------------------------ MODULE MCOutbox ------------------------------
(* Outbox with two threads that may each be anywhere in a build.           *)
EXTENDS Outbox, TLC

Symmetry == Permutations(Threads)

=============================================================================
