------------------------------- MODULE Outbox -------------------------------
(***************************************************************************)
(* The outbox and mailbox shared by a driver and its routine               *)
(* (sans-effort-core/src/driver/outbox.rs, mail.rs, asking.rs,             *)
(* awaiting.rs).  Everything here runs under the one lock of `Inner`, so   *)
(* each critical section is one action; the code between two of them (an   *)
(* effect being built by the caller's `make`) is the time between two      *)
(* actions of the same thread.                                             *)
(*                                                                         *)
(* The outbox is Clone and Sync: the thread polling the routine is one of  *)
(* Threads, and others hold clones and record, poll and drop requests at   *)
(* any moment.  The mailbox appears as the map of its open slots;          *)
(* Mailbox.tla shows the slot vector of mail.rs implements that map.       *)
(***************************************************************************)
EXTENDS Naturals, Sequences

CONSTANTS
  Threads,    \* who records: the routine's poll, and other threads
  MaxId,      \* bound: requests minted
  MaxTells    \* bound: fire-and-forget effects recorded

ASSUME BoundsAssumption == MaxId \in Nat /\ MaxTells \in Nat

None == 0               \* no request is being built; no id is 0
Nobody == "nobody"      \* no thread owns the request's Awaiting
ASSUME NobodyAssumption == Nobody \notin Threads

Ids == 1 .. MaxId

VARIABLES
  effects,    \* recorded and ready: the batch the next drain takes
  building,   \* the one request being built while nothing waits behind it
  held,       \* places in the order, from the first one still being built
  slots,      \* id -> its mailbox slot: "none", "waiting", "answered"
  wakers,     \* ids whose slot keeps a waker other than the driver's own
  closed,     \* ids dropped unanswered since the last drain
  next,       \* the next id to mint
  told,       \* how many tells were recorded: names each one
  making,     \* thread -> ids whose effects it is building, innermost last
  owner,      \* id -> the thread holding its Awaiting
  handles,    \* ids whose ReplyHandle the host holds
  accepted,   \* history: ids whose reply was stored
  shown,      \* history: effects drained, in order
  reported    \* history: ids drained as closed, in order

inner == <<effects, building, held>>
mail == <<slots, wakers, closed>>
vars == <<effects, building, held, slots, wakers, closed, next, told, making,
          owner, handles, accepted, shown, reported>>

Ask(id) == [kind |-> "ask", id |-> id]
Tell(n) == [kind |-> "tell", id |-> n]
Effects == [kind : {"ask"}, id : Ids] \cup [kind : {"tell"}, id : 1 .. MaxTells]

Ready(effect) == [ready |-> TRUE, effect |-> effect]
Reserved(id) == [ready |-> FALSE, effect |-> Ask(id)]
Place == [ready : BOOLEAN, effect : Effects]

Init ==
  /\ effects = << >>
  /\ building = None
  /\ held = << >>
  /\ slots = [id \in Ids |-> "none"]
  /\ wakers = {}
  /\ closed = << >>
  /\ next = 1
  /\ told = 0
  /\ making = [t \in Threads |-> << >>]
  /\ owner = [id \in Ids |-> Nobody]
  /\ handles = {}
  /\ accepted = {}
  /\ shown = << >>
  /\ reported = << >>

-----------------------------------------------------------------------------
(* Inner: the order of what is recorded *)

\* What stands before a new place: `held`, the request in `building` moved in.
Waiting == IF building = None THEN held ELSE Append(held, Reserved(building))

\* Faulty: a place recorded behind the request in `building` forgets it.
RecordDroppingBuilding(place) ==
  /\ building' = IF place.ready \/ held # << >> THEN None ELSE place.effect.id
  /\ held' = IF held # << >> THEN Append(held, place) ELSE held
  /\ effects' = IF held = << >> /\ place.ready
                THEN Append(effects, place.effect) ELSE effects

\* Inner::record.
Record(place) ==
  \/ /\ Waiting # << >>
     /\ held' = Append(Waiting, place)
     /\ building' = None
     /\ UNCHANGED effects
  \/ /\ Waiting = << >>
     /\ place.ready
     /\ effects' = Append(effects, place.effect)
     /\ UNCHANGED <<building, held>>
  \/ /\ Waiting = << >>
     /\ ~place.ready
     /\ building' = place.effect.id
     /\ UNCHANGED <<effects, held>>

\* Inner::release, of `places`: their ready front moves to `effects`.
Release(places) ==
  \E n \in 0 .. Len(places) :
    /\ \A i \in 1 .. n : places[i].ready
    /\ n < Len(places) => ~places[n + 1].ready
    /\ effects' = effects \o [i \in 1 .. n |-> places[i].effect]
    /\ held' = SubSeq(places, n + 1, Len(places))

\* Outbox::open's second half: the effect goes into its request's place.
Fill(id) ==
  \/ /\ building = id
     /\ building' = None
     /\ effects' = Append(effects, Ask(id))
     /\ UNCHANGED held
  \/ /\ building # id
     /\ \E i \in DOMAIN held :
          /\ held[i] = Reserved(id)
          /\ Release([held EXCEPT ![i] = Ready(Ask(id))])
     /\ UNCHANGED building

\* Faulty: the place is given up without releasing what stood behind it.
GiveUpUnreleased(id) ==
  \/ /\ building = id
     /\ building' = None
     /\ UNCHANGED <<effects, held>>
  \/ /\ building # id
     /\ \E i \in DOMAIN held :
          /\ held[i] = Reserved(id)
          /\ held' = SubSeq(held, 1, i - 1) \o SubSeq(held, i + 1, Len(held))
     /\ UNCHANGED <<effects, building>>

\* Outbox::unreserve: the request's place is given up.
GiveUp(id) ==
  \/ /\ building = id
     /\ building' = None
     /\ UNCHANGED <<effects, held>>
  \/ /\ building # id
     /\ \E i \in DOMAIN held :
          /\ held[i] = Reserved(id)
          /\ Release(SubSeq(held, 1, i - 1) \o SubSeq(held, i + 1, Len(held)))
     /\ UNCHANGED building

-----------------------------------------------------------------------------
(* The routine's side *)

\* Outbox::tell.
TellEffect(t) ==
  /\ told < MaxTells
  /\ told' = told + 1
  /\ Record(Ready(Tell(told + 1)))
  /\ UNCHANGED <<mail, next, making, owner, handles, accepted, shown, reported>>

\* Outbox::mint, as Asking::into_future begins: an id, its place reserved.
\* A thread already inside a `make` may ask again: builds nest.
Mint(t) ==
  /\ next <= MaxId
  /\ next' = next + 1
  /\ making' = [making EXCEPT ![t] = Append(@, next)]
  /\ Record(Reserved(next))
  /\ UNCHANGED <<mail, told, owner, handles, accepted, shown, reported>>

Innermost(t) == making[t][Len(making[t])]
Outer(t) == [making EXCEPT ![t] = SubSeq(@, 1, Len(@) - 1)]

\* Faulty: the effect is recorded and the slot left for a later lock.
OpenWithoutSlot(t) ==
  /\ making[t] # << >>
  /\ Fill(Innermost(t))
  /\ making' = Outer(t)
  /\ owner' = [owner EXCEPT ![Innermost(t)] = t]
  /\ UNCHANGED <<mail, next, told, handles, accepted, shown, reported>>

\* `make` returned: Outbox::open, the slot and the effect under one lock, and
\* the Awaiting that into_future returns.
Open(t) ==
  /\ making[t] # << >>
  /\ Fill(Innermost(t))
  /\ slots' = [slots EXCEPT ![Innermost(t)] = "waiting"]
  /\ making' = Outer(t)
  /\ owner' = [owner EXCEPT ![Innermost(t)] = t]
  /\ UNCHANGED <<wakers, closed, next, told, handles, accepted, shown, reported>>

\* `make` panicked: Unbuilt is dropped.  An enclosing `make` may catch the
\* panic and go on, or unwind in its turn.
Unreserve(t) ==
  /\ making[t] # << >>
  /\ GiveUp(Innermost(t))
  /\ making' = Outer(t)
  /\ UNCHANGED <<mail, next, told, owner, handles, accepted, shown, reported>>

\* An Awaiting is Send: whoever holds it may pass it on.
Move(t, u, id) ==
  /\ owner[id] = t
  /\ t # u
  /\ owner' = [owner EXCEPT ![id] = u]
  /\ UNCHANGED <<inner, mail, next, told, making, handles, accepted, shown,
                 reported>>

\* Awaiting::poll, a reply there to take: the slot goes.
Collect(t, id) ==
  /\ owner[id] = t
  /\ slots[id] = "answered"
  /\ slots' = [slots EXCEPT ![id] = "none"]
  /\ wakers' = wakers \ {id}
  /\ UNCHANGED <<inner, closed, next, told, making, owner, handles, accepted,
                 shown, reported>>

\* Awaiting::poll, no reply yet: a waker other than the driver's own is kept.
\* (Polled with the driver's own, nothing changes.)
KeepWaker(t, id) ==
  /\ owner[id] = t
  /\ slots[id] = "waiting"
  /\ wakers' = wakers \cup {id}
  /\ UNCHANGED <<inner, slots, closed, next, told, making, owner, handles,
                 accepted, shown, reported>>

\* Faulty: every open slot's id is reported, an answered one's too.
CloseReportingAnswered(t, id) ==
  /\ owner[id] = t
  /\ owner' = [owner EXCEPT ![id] = Nobody]
  /\ slots' = [slots EXCEPT ![id] = "none"]
  /\ wakers' = wakers \ {id}
  /\ closed' = IF slots[id] # "none" THEN Append(closed, id) ELSE closed
  /\ UNCHANGED <<inner, next, told, making, handles, accepted, shown, reported>>

\* Awaiting::drop.  An open slot goes; unanswered, its id is to be reported.
Close(t, id) ==
  /\ owner[id] = t
  /\ owner' = [owner EXCEPT ![id] = Nobody]
  /\ slots' = [slots EXCEPT ![id] = "none"]
  /\ wakers' = wakers \ {id}
  /\ closed' = IF slots[id] = "waiting" THEN Append(closed, id) ELSE closed
  /\ UNCHANGED <<inner, next, told, making, handles, accepted, shown, reported>>

-----------------------------------------------------------------------------
(* The driver's side *)

\* Outbox::deliver: the handle is spent; the reply is stored if its slot is
\* still open (Delivered, any waker taken), discarded if not (Gone).
Deliver(id) ==
  /\ id \in handles
  /\ handles' = handles \ {id}
  /\ \/ /\ slots[id] = "waiting"
        /\ slots' = [slots EXCEPT ![id] = "answered"]
        /\ wakers' = wakers \ {id}
        /\ accepted' = accepted \cup {id}
     \/ /\ slots[id] = "none"
        /\ UNCHANGED <<slots, wakers, accepted>>
  /\ UNCHANGED <<inner, closed, next, told, making, owner, shown, reported>>

Asked(es) == {es[i].id : i \in {j \in DOMAIN es : es[j].kind = "ask"}}

\* Outbox::drain: the effects and the closed ids, under one lock.  A request's
\* handle travels in its effect.
Drain ==
  /\ shown' = shown \o effects
  /\ handles' = handles \cup Asked(effects)
  /\ effects' = << >>
  /\ reported' = reported \o closed
  /\ closed' = << >>
  /\ UNCHANGED <<building, held, slots, wakers, next, told, making, owner,
                 accepted>>

Recording == \E t \in Threads : TellEffect(t) \/ Mint(t) \/ Open(t) \/ Unreserve(t)

Awaiting ==
  \E t \in Threads, id \in Ids :
    \/ Collect(t, id)
    \/ KeepWaker(t, id)
    \/ Close(t, id)
    \/ \E u \in Threads : Move(t, u, id)

Next == Recording \/ Awaiting \/ (\E id \in Ids : Deliver(id)) \/ Drain

Spec == Init /\ [][Next]_vars

-----------------------------------------------------------------------------
(* Properties *)

TypeOK ==
  /\ effects \in Seq(Effects)
  /\ building \in Ids \cup {None}
  /\ held \in Seq(Place)
  /\ slots \in [Ids -> {"none", "waiting", "answered"}]
  /\ wakers \subseteq Ids
  /\ closed \in Seq(Ids)
  /\ next \in 1 .. MaxId + 1
  /\ told \in 0 .. MaxTells
  /\ making \in [Threads -> Seq(Ids)]
  /\ owner \in [Ids -> Threads \cup {Nobody}]
  /\ handles \subseteq Ids
  /\ accepted \subseteq Ids
  /\ shown \in Seq(Effects)
  /\ reported \in Seq(Ids)

\* The places not yet drained, oldest first.
Pending ==
  [i \in DOMAIN effects |-> Ready(effects[i])]
    \o (IF building = None THEN << >> ELSE <<Reserved(building)>>)
    \o held

Log == INSTANCE EffectLog WITH log <- Pending

\* The outbox is an EffectLog: whatever is built, given up or recorded by
\* whichever threads in whatever order, a drain takes exactly the effects no
\* unfinished request stands before, in recording order.  (The comment on
\* Inner, and what record, release, open and unreserve keep together.)
ImplementsEffectLog == Log!Spec

Elements(s) == {s[i] : i \in DOMAIN s}

\* Every request being built has its reserved place, and every reserved place
\* has a builder.  Outbox::open silently drops an effect that finds no place,
\* and a place nobody builds would hold back every later effect for ever.
PlacesHaveBuilders ==
  LET reserved == [t \in Threads |-> {id \in Ids :
                     /\ id \in Elements(making[t])
                     /\ building = id \/ Reserved(id) \in Elements(held)}]
  IN /\ \A t \in Threads : reserved[t] = Elements(making[t])
     /\ \A i \in DOMAIN held : ~held[i].ready =>
          \E t \in Threads : held[i].effect.id \in reserved[t]
     /\ building # None => \E t \in Threads : building \in reserved[t]

\* Requests whose effect has been recorded, drained or not.
Recorded == Asked(shown) \cup {Pending[i].effect.id :
              i \in {j \in DOMAIN Pending : Pending[j].ready /\ Pending[j].effect.kind = "ask"}}

\* An id is reported closed exactly when its request was recorded, dropped and
\* never answered, and at most once: the host stops the work of nobody else's
\* request, and of every abandoned one.
ClosedExactly ==
  LET all == reported \o closed
  IN /\ Elements(all) = {id \in Recorded : owner[id] = Nobody /\ id \notin accepted}
     /\ \A i, j \in DOMAIN all : all[i] = all[j] => i = j

\* An open slot belongs to an Awaiting somebody still holds, and a waker is
\* kept only while its reply is still to come: `outstanding`, the count of
\* open slots that decides Awaiting or Idle, counts nothing that was dropped.
\* And a handle the host holds finds its slot, unless the routine let the
\* request go: the slot and the effect are there under one lock, so no reply
\* arrives before its slot does and is discarded as Gone.
SlotsAreOwned ==
  /\ \A id \in Ids :
       /\ slots[id] # "none" => owner[id] # Nobody /\ id \in Recorded
       /\ id \in wakers => slots[id] = "waiting"
  /\ \A id \in handles : owner[id] # Nobody => slots[id] = "waiting"

=============================================================================
