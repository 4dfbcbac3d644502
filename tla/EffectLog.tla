----------------------------- MODULE EffectLog ------------------------------
(***************************************************************************)
(* What the outbox promises about order (outbox.rs:44-54): effects leave   *)
(* in the order they were recorded, and a request is recorded when its id  *)
(* is minted, before its effect exists.                                    *)
(*                                                                         *)
(* One list of places.  Recording appends a place: ready at once for a     *)
(* tell, reserved for a request whose effect is being built.  A reserved   *)
(* place is later filled where it stands or given up.  A drain hands over  *)
(* every effect with no reserved place before it, and no other.            *)
(***************************************************************************)
EXTENDS Naturals, Sequences

CONSTANT Effects   \* every effect that can be recorded

VARIABLES
  log,     \* the places not yet drained, oldest first
  shown    \* the effects drained so far, in order

vars == <<log, shown>>

Place == [ready : BOOLEAN, effect : Effects]

TypeOK == log \in Seq(Place) /\ shown \in Seq(Effects)

Init == log = << >> /\ shown = << >>

\* A new place at the end: ready for a tell, reserved for a request.
Record ==
  /\ \E place \in Place : log' = Append(log, place)
  /\ UNCHANGED shown

\* The effect of a reserved place is built.
Fill ==
  /\ \E i \in DOMAIN log :
       /\ ~log[i].ready
       /\ log' = [log EXCEPT ![i] = [ready |-> TRUE, effect |-> log[i].effect]]
  /\ UNCHANGED shown

\* The effect of a reserved place could not be built: nothing waits behind it.
GiveUp ==
  /\ \E i \in DOMAIN log :
       /\ ~log[i].ready
       /\ log' = SubSeq(log, 1, i - 1) \o SubSeq(log, i + 1, Len(log))
  /\ UNCHANGED shown

\* The first n places are the ones no reserved place stands before.
ReadyFront(n) ==
  /\ \A i \in 1 .. n : log[i].ready
  /\ n < Len(log) => ~log[n + 1].ready

Drain ==
  \E n \in 0 .. Len(log) :
    /\ ReadyFront(n)
    /\ shown' = shown \o [i \in 1 .. n |-> log[i].effect]
    /\ log' = SubSeq(log, n + 1, Len(log))

Next == Record \/ Fill \/ GiveUp \/ Drain

Spec == Init /\ [][Next]_vars

=============================================================================
