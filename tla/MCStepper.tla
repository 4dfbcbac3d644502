----------------------------- MODULE MCStepper ------------------------------
(* Stepper with two threads sending to one routine.                        *)
EXTENDS Stepper
=============================================================================
