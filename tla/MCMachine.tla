----------------------------- MODULE MCMachine ------------------------------
(* One machine, its routine polled by p while o may hold a clone of its    *)
(* outbox or one of its requests.                                          *)
EXTENDS Machine
=============================================================================
