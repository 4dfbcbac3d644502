------------------------------ MODULE MailMap -------------------------------
(***************************************************************************)
(* What the mailbox promises (the module comment of mail.rs, and the test  *)
(* the_mailbox_behaves_as_a_map_of_open_requests): it is a map from the    *)
(* open requests to what arrived for them, in whatever order requests are  *)
(* opened, answered, collected and dropped.                                *)
(***************************************************************************)
EXTENDS Naturals, Sequences

CONSTANT Ids       \* the ids requests may have

VARIABLES
  slots,     \* id -> "none", "waiting" for a reply, "answered"
  wakers,    \* ids whose slot keeps a waker
  closed,    \* ids dropped unanswered, since last asked
  result     \* what the last operation returned

vars == <<slots, wakers, closed, result>>

TypeOK ==
  /\ slots \in [Ids -> {"none", "waiting", "answered"}]
  /\ wakers \subseteq Ids
  /\ closed \in Seq(Ids)

Init ==
  /\ slots = [id \in Ids |-> "none"]
  /\ wakers = {}
  /\ closed = << >>
  /\ result = "nothing"

Open(id) ==
  /\ slots[id] = "none"
  /\ slots' = [slots EXCEPT ![id] = "waiting"]
  /\ result' = "nothing"
  /\ UNCHANGED <<wakers, closed>>

\* A reply is stored and its waker handed back, refused, or finds nobody.
Deliver(id) ==
  /\ \/ /\ slots[id] # "none"
        /\ slots' = [slots EXCEPT ![id] = "answered"]
        /\ wakers' = wakers \ {id}
        /\ result' = IF id \in wakers THEN "delivered, wake" ELSE "delivered"
     \/ /\ slots[id] # "none"
        /\ result' = "refused"
        /\ UNCHANGED <<slots, wakers>>
     \/ /\ slots[id] = "none"
        /\ result' = "gone"
        /\ UNCHANGED <<slots, wakers>>
  /\ UNCHANGED closed

Remove(id) ==
  /\ slots' = [slots EXCEPT ![id] = "none"]
  /\ wakers' = wakers \ {id}

\* The reply, once; otherwise the waker is kept, if there is one to keep.
Collect(id) ==
  /\ \/ /\ slots[id] = "answered"
        /\ Remove(id)
        /\ result' = "value"
     \/ /\ slots[id] # "answered"
        /\ wakers' \in {wakers, wakers \cup {id}}
        /\ slots[id] = "none" => UNCHANGED wakers
        /\ result' = "nothing"
        /\ UNCHANGED slots
  /\ UNCHANGED closed

\* The request is dropped: reported, if it was waiting.
Close(id) ==
  /\ Remove(id)
  /\ closed' = IF slots[id] = "waiting" THEN Append(closed, id) ELSE closed
  /\ result' = "nothing"

TakeClosed ==
  /\ closed' = << >>
  /\ result' = "nothing"
  /\ UNCHANGED <<slots, wakers>>

Next ==
  \/ \E id \in Ids : Open(id) \/ Deliver(id) \/ Collect(id) \/ Close(id)
  \/ TakeClosed

Spec == Init /\ [][Next]_vars

=============================================================================
