----------------------------- MODULE MCMailbox ------------------------------
(* The two collections the outbox keeps under its lock: the mailbox, with  *)
(* enough requests for a sweep to leave several open, and the batch.  They *)
(* share no state: a behaviour is of one, with the other at rest.          *)
EXTENDS Mailbox, Batch

VARIABLE part    \* the one this behaviour is of

EitherInit == Init /\ BatchInit /\ part \in {"mailbox", "batch"}

EitherNext ==
  \/ part = "mailbox" /\ Next /\ UNCHANGED <<batching, part>>
  \/ part = "batch" /\ BatchNext /\ UNCHANGED <<vars, part>>

Either == EitherInit /\ [][EitherNext]_<<vars, batching, part>>
=============================================================================
