------------------------------ MODULE Mailbox -------------------------------
(***************************************************************************)
(* The mailbox as mail.rs keeps it: a vector of slots sorted by id, in     *)
(* which a slot taken from the middle is only marked closed, and the       *)
(* closed ones are swept out together once they outnumber the open.        *)
(*                                                                         *)
(* Each operation runs under the outbox's lock, so each is one action.     *)
(* Requests are minted in order and opened in any order: an effect may be  *)
(* built inside another's, or by another thread (Outbox.tla).              *)
(***************************************************************************)
EXTENDS Naturals, Sequences, FiniteSets

CONSTANTS
  MaxId,        \* bound: requests minted
  MaxUnopened,  \* bound: requests being built at once
  MaxClosed     \* bound: requests dropped unanswered between two drains

ASSUME BoundsAssumption == {MaxId, MaxUnopened, MaxClosed} \subseteq Nat

Ids == 1 .. MaxId

VARIABLES
  slots,       \* Mail::slots, a sequence of Slot records
  open,        \* Mail::open, the count of open slots
  closed,      \* Mail::closed
  next,        \* Mail::next
  unopened,    \* ids minted whose slot is not open yet
  awaited,     \* ids with an Awaiting: opened and not dropped
  handles,     \* ids whose ReplyHandle is unspent
  result       \* what the last operation returned

vars == <<slots, open, closed, next, unopened, awaited, handles, result>>

Slot == [id : Ids, open : BOOLEAN, value : BOOLEAN, waker : BOOLEAN]

Init ==
  /\ slots = << >>
  /\ open = 0
  /\ closed = << >>
  /\ next = 1
  /\ unopened = {}
  /\ awaited = {}
  /\ handles = {}
  /\ result = "nothing"

\* Mail::mint.
Mint ==
  /\ next <= MaxId
  /\ Cardinality(unopened) < MaxUnopened
  /\ next' = next + 1
  /\ unopened' = unopened \cup {next}
  /\ UNCHANGED <<slots, open, closed, awaited, handles, result>>

\* How many slots have a smaller id: where a slot for `id` goes.
Before(id) == Cardinality({i \in DOMAIN slots : slots[i].id < id})

\* Mail::open.
Open(id) ==
  /\ id \in unopened
  /\ unopened' = unopened \ {id}
  /\ awaited' = awaited \cup {id}
  /\ handles' = handles \cup {id}
  /\ slots' = SubSeq(slots, 1, Before(id))
                \o <<[id |-> id, open |-> TRUE, value |-> FALSE, waker |-> FALSE]>>
                \o SubSeq(slots, Before(id) + 1, Len(slots))
  /\ open' = open + 1
  /\ result' = "nothing"
  /\ UNCHANGED <<closed, next>>

\* Faulty: a slot in the middle is found whether or not it is open.
PositionsClosedToo(id) == {i \in DOMAIN slots : slots[i].id = id}

\* Mail::position: the newest slot on its id alone, any other if it is open.
Positions(id) ==
  {i \in DOMAIN slots : slots[i].id = id /\ (i = Len(slots) \/ slots[i].open)}

\* The closed slots at the end are popped.
Popped(vec) ==
  SubSeq(vec, 1, CHOOSE n \in 0 .. Len(vec) :
                   /\ n > 0 => vec[n].open
                   /\ \A i \in n + 1 .. Len(vec) : ~vec[i].open)

\* Vec::retain of the open slots: the k-th is the one with k open up to it.
OpenUpTo(vec, i) == Cardinality({j \in 1 .. i : vec[j].open})
Retained(vec) ==
  [k \in 1 .. OpenUpTo(vec, Len(vec)) |->
     vec[CHOOSE i \in DOMAIN vec : vec[i].open /\ OpenUpTo(vec, i) = k]]

\* Faulty: swept one slot too late.
SweptLate(vec, count) ==
  IF Len(vec) - count > count + 1 THEN Retained(vec) ELSE vec

\* The closed slots are swept out once they outnumber the open.
Swept(vec, count) ==
  IF Len(vec) - count > count THEN Retained(vec) ELSE vec

\* Mail::take, of the slot at i: nothing, if it is already closed.
Take(i) ==
  IF slots[i].open
  THEN /\ open' = open - 1
       /\ slots' = Swept(Popped([slots EXCEPT ![i] =
                     [@ EXCEPT !.open = FALSE, !.waker = FALSE, !.value = FALSE]]),
                         open - 1)
  ELSE UNCHANGED <<slots, open>>

\* Mail::deliver.  `valid` is what the slot's check says of the value.
Deliver(id, valid) ==
  /\ id \in handles
  /\ \/ \E i \in Positions(id) :
          \/ /\ valid
             /\ slots' = [slots EXCEPT ![i] = [@ EXCEPT !.value = TRUE, !.waker = FALSE]]
             /\ handles' = handles \ {id}
             /\ result' = IF slots[i].waker THEN "delivered, wake" ELSE "delivered"
          \/ /\ ~valid
             /\ result' = "refused"
             /\ UNCHANGED <<slots, handles>>
     \/ /\ Positions(id) = {}
        /\ handles' = handles \ {id}
        /\ result' = "gone"
        /\ UNCHANGED slots
  /\ UNCHANGED <<open, closed, next, unopened, awaited>>

\* Mail::collect.  `waker` is FALSE for the driver's own, which is not kept.
Collect(id, waker) ==
  /\ id \in awaited
  /\ \/ \E i \in Positions(id) :
          \/ /\ slots[i].value
             /\ Take(i)
             /\ result' = "value"
          \/ /\ ~slots[i].value
             /\ slots' = [slots EXCEPT ![i].waker = @ \/ waker]
             /\ result' = "nothing"
             /\ UNCHANGED open
     \/ /\ Positions(id) = {}
        /\ result' = "nothing"
        /\ UNCHANGED <<slots, open>>
  /\ UNCHANGED <<closed, next, unopened, awaited, handles>>

\* Mail::close: the Awaiting is dropped.
Close(id) ==
  /\ id \in awaited
  /\ Len(closed) < MaxClosed
  /\ awaited' = awaited \ {id}
  /\ \/ \E i \in Positions(id) :
          /\ Take(i)
          /\ closed' = IF slots[i].value THEN closed ELSE Append(closed, id)
     \/ Positions(id) = {} /\ UNCHANGED <<slots, open, closed>>
  /\ result' = "nothing"
  /\ UNCHANGED <<next, unopened, handles>>

\* Mail::take_closed.
TakeClosed ==
  /\ closed' = << >>
  /\ result' = "nothing"
  /\ UNCHANGED <<slots, open, next, unopened, awaited, handles>>

Next ==
  \/ Mint
  \/ \E id \in Ids : Open(id) \/ Close(id)
  \/ \E id \in Ids, valid \in BOOLEAN : Deliver(id, valid)
  \/ \E id \in Ids, waker \in BOOLEAN : Collect(id, waker)
  \/ TakeClosed

Spec == Init /\ [][Next]_vars

-----------------------------------------------------------------------------
(* Properties *)

TypeOK ==
  /\ slots \in Seq(Slot)
  /\ open \in 0 .. MaxId
  /\ closed \in Seq(Ids)
  /\ next \in 1 .. MaxId + 1
  /\ unopened \subseteq Ids
  /\ awaited \subseteq Ids
  /\ handles \subseteq Ids
  /\ result \in {"nothing", "delivered", "delivered, wake", "refused", "gone",
                 "value"}

\* The structure's own invariants (assert_shape in mail.rs's tests): ids
\* strictly increasing, the count right, the last slot open, and never more
\* closed slots than open ones.  position's shortcut for the newest slot and
\* the cost of a take rest on them.
Shape ==
  /\ \A i, j \in DOMAIN slots : i < j => slots[i].id < slots[j].id
  /\ open = Cardinality({i \in DOMAIN slots : slots[i].open})
  /\ slots # << >> => slots[Len(slots)].open
  /\ Len(slots) - open <= open

\* The open slots, as a map.
StateOf ==
  LET Of(set) == {slots[i].id : i \in set}
      answered == Of({i \in DOMAIN slots : slots[i].open /\ slots[i].value})
      waiting == Of({i \in DOMAIN slots : slots[i].open /\ ~slots[i].value})
  IN [id \in Ids |-> IF id \in answered THEN "answered"
                      ELSE IF id \in waiting THEN "waiting" ELSE "none"]

Map == INSTANCE MailMap WITH
  slots <- StateOf,
  wakers <- {slots[i].id : i \in {j \in DOMAIN slots : slots[j].waker}}

\* The slot vector behaves, results included, as the map of open requests:
\* no sweep loses an open slot and no stale one is found.
ImplementsMailMap == Map!Spec

=============================================================================
