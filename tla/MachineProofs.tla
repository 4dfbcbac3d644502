--------------------------- MODULE MachineProofs ---------------------------
(***************************************************************************)
(* The properties of Outbox.tla and of Machine.tla, for any threads and    *)
(* any number of requests, and that the outbox implements EffectLog.  A    *)
(* machine's steps are steps of the outbox (StepIsOutboxStep), so what is  *)
(* proved of the outbox holds of a machine's.                              *)
(***************************************************************************)
EXTENDS Machine, SequenceTheorems, WellFoundedInduction, TLAPS

-----------------------------------------------------------------------------
(* The outbox                                                                *)

\* The variables of Inner keep their types.
InnerOK ==
  /\ effects \in Seq(Effects)
  /\ building \in Ids \cup {None}
  /\ held \in Seq(Place)

LEMMA PlacesAre ==
  /\ \A id \in Ids : Ask(id) \in Effects /\ Reserved(id) \in Place /\ Ready(Ask(id)) \in Place
  /\ \A n \in 1 .. MaxTells : Tell(n) \in Effects
  /\ \A e \in Effects : Ready(e) \in Place
  /\ \A p \in Place : p.ready \in BOOLEAN /\ p.effect \in Effects
  BY DEF Ask, Tell, Reserved, Ready, Place, Effects

LEMMA WaitingIs ==
  ASSUME InnerOK
  PROVE  Waiting \in Seq(Place)
  BY PlacesAre, AppendProperties DEF InnerOK, Waiting

LEMMA RecordKeeps ==
  ASSUME InnerOK, NEW place \in Place, Record(place),
         ~place.ready => place.effect.id \in Ids
  PROVE  InnerOK'
<1>1. CASE Waiting # << >>
  <2>1. held' \in Seq(Place)
    BY <1>1, WaitingIs, AppendProperties DEF Record
  <2>2. QED
    BY <1>1, <2>1 DEF Record, InnerOK
<1>2. CASE Waiting = << >> /\ place.ready
  <2>1. Append(effects, place.effect) \in Seq(Effects)
    BY PlacesAre, AppendProperties DEF InnerOK
  <2>2. QED
    BY <1>2, <2>1 DEF Record, InnerOK
<1>3. CASE Waiting = << >> /\ ~place.ready
  BY <1>3 DEF Record, InnerOK
<1>4. QED
  BY <1>1, <1>2, <1>3

\* What Release does, position by position.
LEMMA ReleaseKeeps ==
  ASSUME InnerOK, NEW places \in Seq(Place), Release(places)
  PROVE  /\ effects' \in Seq(Effects)
         /\ held' \in Seq(Place)
<1> PICK n \in 0 .. Len(places) :
      /\ effects' = effects \o [i \in 1 .. n |-> places[i].effect]
      /\ held' = SubSeq(places, n + 1, Len(places))
  BY DEF Release
<1>1. Len(places) \in Nat /\ \A i \in 1 .. Len(places) : places[i] \in Place
  BY LenProperties, ElementOfSeq
<1>2. [i \in 1 .. n |-> places[i].effect] \in Seq(Effects)
  <2>1. [i \in 1 .. n |-> places[i].effect] \in [1 .. n -> Effects]
    BY <1>1, PlacesAre
  <2>2. QED
    BY <1>1, <2>1, SeqDef
<1>3. effects' \in Seq(Effects)
  BY <1>2, ConcatProperties DEF InnerOK
<1>4. held' \in Seq(Place)
  BY <1>1, SubSeqProperties
<1>5. QED
  BY <1>3, <1>4

\* The places without the one at i.
Without(places, i) == SubSeq(places, 1, i - 1) \o SubSeq(places, i + 1, Len(places))

LEMMA WithoutIs ==
  ASSUME NEW S, NEW s \in Seq(S), NEW i \in DOMAIN s
  PROVE  /\ Without(s, i) \in Seq(S)
         /\ Len(Without(s, i)) = Len(s) - 1
         /\ \A j \in 1 .. Len(s) - 1 : Without(s, i)[j] = IF j < i THEN s[j] ELSE s[j + 1]
<1> DEFINE a == SubSeq(s, 1, i - 1)
           b == SubSeq(s, i + 1, Len(s))
<1>1. Len(s) \in Nat /\ i \in 1 .. Len(s) /\ \A j \in 1 .. Len(s) : s[j] \in S
  BY LenProperties, ElementOfSeq
<1>2. /\ a \in Seq(S) /\ Len(a) = i - 1
      /\ \A j \in 1 .. i - 1 : a[j] = s[j]
  <2>1. /\ a \in Seq(S) /\ Len(a) = IF 1 <= i - 1 THEN i - 1 - 1 + 1 ELSE 0
        /\ \A j \in 1 .. i - 1 - 1 + 1 : a[j] = s[1 + j - 1]
    BY <1>1, SubSeqProperties
  <2>2. QED
    BY <1>1, <2>1
<1>3. /\ b \in Seq(S) /\ Len(b) = Len(s) - i
      /\ \A j \in 1 .. Len(s) - i : b[j] = s[i + j]
  <2>1. /\ b \in Seq(S) /\ Len(b) = IF i + 1 <= Len(s) THEN Len(s) - (i + 1) + 1 ELSE 0
        /\ \A j \in 1 .. Len(s) - (i + 1) + 1 : b[j] = s[i + 1 + j - 1]
    BY <1>1, SubSeqProperties
  <2>2. QED
    BY <1>1, <2>1
<1>4. Without(s, i) = a \o b
  BY DEF Without
<1> HIDE DEF a, b
<1>5. /\ a \o b \in Seq(S) /\ Len(a \o b) = Len(a) + Len(b)
      /\ \A j \in 1 .. Len(a) + Len(b) : (a \o b)[j] = IF j <= Len(a) THEN a[j] ELSE b[j - Len(a)]
  BY <1>2, <1>3, ConcatProperties
<1>6. ASSUME NEW j \in 1 .. Len(s) - 1
      PROVE  (a \o b)[j] = IF j < i THEN s[j] ELSE s[j + 1]
  <2>1. CASE j < i
    BY <1>1, <1>2, <1>3, <1>5, <2>1
  <2>2. CASE j >= i
    <3> DEFINE k == j - (i - 1)
    <3>1. k \in 1 .. Len(s) - i /\ i + k = j + 1 /\ ~(j <= i - 1)
      BY <1>1, <2>2
    <3>2. Len(a) + Len(b) = Len(s) - 1
      BY <1>1, <1>2, <1>3
    <3>3. (a \o b)[j] = IF j <= i - 1 THEN a[j] ELSE b[k]
      BY <1>2, <1>5, <3>2
    <3> HIDE DEF k
    <3>4. b[k] = s[j + 1]
      BY <1>3, <3>1
    <3>5. QED
      BY <1>1, <2>2, <3>1, <3>3, <3>4
  <2>3. j < i \/ j >= i
    BY <1>1
  <2>4. QED
    BY <2>1, <2>2, <2>3
<1>7. QED
  BY <1>1, <1>2, <1>3, <1>4, <1>5, <1>6

LEMMA FillKeeps ==
  ASSUME InnerOK, NEW id \in Ids, Fill(id)
  PROVE  InnerOK'
<1>1. CASE building = id /\ building' = None /\ effects' = Append(effects, Ask(id)) /\ UNCHANGED held
  BY <1>1, PlacesAre, AppendProperties DEF InnerOK
<1>2. ASSUME UNCHANGED building,
             NEW i \in DOMAIN held, Release([held EXCEPT ![i] = Ready(Ask(id))])
      PROVE  InnerOK'
  <2>1. i \in 1 .. Len(held)
    BY LenProperties DEF InnerOK
  <2>2. [held EXCEPT ![i] = Ready(Ask(id))] \in Seq(Place)
    BY <2>1, PlacesAre, ExceptSeq DEF InnerOK
  <2>3. QED
    BY <1>2, <2>2, ReleaseKeeps DEF InnerOK
<1>3. QED
  BY <1>1, <1>2 DEF Fill

LEMMA GiveUpKeeps ==
  ASSUME InnerOK, NEW id \in Ids, GiveUp(id)
  PROVE  InnerOK'
<1>1. CASE building = id /\ building' = None /\ UNCHANGED <<effects, held>>
  BY <1>1 DEF InnerOK
<1>2. ASSUME UNCHANGED building, NEW i \in DOMAIN held, Release(Without(held, i))
      PROVE  InnerOK'
  BY <1>2, WithoutIs, ReleaseKeeps DEF InnerOK
<1>3. QED
  BY <1>1, <1>2 DEF GiveUp, Without

\* The requests a thread is building.
LEMMA MakingIs ==
  ASSUME making \in [Threads -> Seq(Ids)], NEW t \in Threads
  PROVE  /\ \A id \in Ids : Append(making[t], id) \in Seq(Ids)
         /\ making[t] # << >> => /\ Innermost(t) \in Ids
                                 /\ Outer(t) \in [Threads -> Seq(Ids)]
<1>1. making[t] \in Seq(Ids)
  OBVIOUS
<1>2. \A id \in Ids : Append(making[t], id) \in Seq(Ids)
  BY <1>1, AppendProperties
<1>3. ASSUME making[t] # << >>
      PROVE  Innermost(t) \in Ids /\ Outer(t) \in [Threads -> Seq(Ids)]
  <2>1. Len(making[t]) \in Nat \ {0} /\ \A i \in 1 .. Len(making[t]) : making[t][i] \in Ids
    BY <1>1, <1>3, EmptySeq, ElementOfSeq
  <2>2. SubSeq(making[t], 1, Len(making[t]) - 1) \in Seq(Ids)
    BY <2>1, SubSeqProperties
  <2>3. QED
    BY <2>1, <2>2 DEF Innermost, Outer
<1>4. QED
  BY <1>2, <1>3

LEMMA AskedAre ==
  ASSUME NEW s \in Seq(Effects)
  PROVE  Asked(s) \subseteq Ids
<1>1. DOMAIN s = 1 .. Len(s) /\ \A i \in DOMAIN s : s[i] \in Effects
  BY LenProperties, ElementOfSeq
<1>2. QED
  BY <1>1 DEF Asked, Effects

\* One action taken, with what it is applied to.
LEMMA Actions ==
  ASSUME [Next]_vars
  PROVE  \/ \E t \in Threads : TellEffect(t) \/ Mint(t) \/ Open(t) \/ Unreserve(t)
         \/ \E t \in Threads, id \in Ids : Collect(t, id) \/ KeepWaker(t, id) \/ Close(t, id)
         \/ \E t \in Threads, u \in Threads, id \in Ids : Move(t, u, id)
         \/ \E id \in Ids : Deliver(id)
         \/ Drain
         \/ UNCHANGED vars
  BY DEF Next, Recording, Awaiting

LEMMA TypeKept == TypeOK /\ [Next]_vars => TypeOK'
<1> SUFFICES ASSUME TypeOK, [Next]_vars PROVE TypeOK'
  OBVIOUS
<1>1. InnerOK
  BY DEF TypeOK, InnerOK
<1>2. ASSUME NEW t \in Threads, TellEffect(t) PROVE TypeOK'
  <2>1. Ready(Tell(told + 1)) \in Place /\ Ready(Tell(told + 1)).ready /\ told + 1 \in 0 .. MaxTells
    <3>1. told + 1 \in 1 .. MaxTells
      BY <1>2, BoundsAssumption DEF TellEffect, TypeOK
    <3>2. QED
      BY <3>1, PlacesAre DEF Ready
  <2>2. InnerOK'
    BY <1>1, <1>2, <2>1, RecordKeeps DEF TellEffect
  <2>3. QED
    BY <1>2, <2>1, <2>2 DEF TellEffect, TypeOK, InnerOK, mail
<1>3. ASSUME NEW t \in Threads, Mint(t) PROVE TypeOK'
  <2>1. next \in Ids /\ next + 1 \in 1 .. MaxId + 1
    BY <1>3, BoundsAssumption DEF Mint, TypeOK, Ids
  <2>2. Reserved(next) \in Place /\ Reserved(next).effect.id \in Ids
    BY <2>1, PlacesAre DEF Reserved, Ask
  <2>3. InnerOK'
    BY <1>1, <1>3, <2>2, RecordKeeps DEF Mint
  <2>4. making' \in [Threads -> Seq(Ids)]
    <3>1. Append(making[t], next) \in Seq(Ids)
      BY <2>1, MakingIs DEF TypeOK
    <3>2. QED
      BY <1>3, <3>1 DEF Mint, TypeOK
  <2>5. QED
    BY <1>3, <2>1, <2>3, <2>4 DEF Mint, TypeOK, InnerOK, mail
<1>4. ASSUME NEW t \in Threads, Open(t) PROVE TypeOK'
  <2>1. Innermost(t) \in Ids /\ Outer(t) \in [Threads -> Seq(Ids)]
    BY <1>4, MakingIs DEF Open, TypeOK
  <2>2. InnerOK'
    BY <1>1, <1>4, <2>1, FillKeeps DEF Open
  <2>3. QED
    BY <1>4, <2>1, <2>2 DEF Open, TypeOK, InnerOK
<1>5. ASSUME NEW t \in Threads, Unreserve(t) PROVE TypeOK'
  <2>1. Innermost(t) \in Ids /\ Outer(t) \in [Threads -> Seq(Ids)]
    BY <1>5, MakingIs DEF Unreserve, TypeOK
  <2>2. InnerOK'
    BY <1>1, <1>5, <2>1, GiveUpKeeps DEF Unreserve
  <2>3. QED
    BY <1>5, <2>1, <2>2 DEF Unreserve, TypeOK, InnerOK, mail
<1>6. ASSUME NEW t \in Threads, NEW id \in Ids,
             Collect(t, id) \/ KeepWaker(t, id)
      PROVE  TypeOK'
  BY <1>6 DEF Collect, KeepWaker, TypeOK, inner
<1>7. ASSUME NEW t \in Threads, NEW id \in Ids, Close(t, id) PROVE TypeOK'
  <2>1. closed' \in Seq(Ids)
    BY <1>7, AppendProperties DEF Close, TypeOK
  <2>2. QED
    BY <1>7, <2>1 DEF Close, TypeOK, inner
<1>8. ASSUME NEW t \in Threads, NEW u \in Threads, NEW id \in Ids, Move(t, u, id) PROVE TypeOK'
  BY <1>8 DEF Move, TypeOK, inner, mail
<1>9. ASSUME NEW id \in Ids, Deliver(id) PROVE TypeOK'
  BY <1>9 DEF Deliver, TypeOK, inner
<1>10. CASE Drain
  <2>1. shown' \in Seq(Effects) /\ reported' \in Seq(Ids) /\ << >> \in Seq(Effects) /\ << >> \in Seq(Ids)
    BY <1>10, ConcatProperties, EmptySeq DEF Drain, TypeOK
  <2>2. handles' \subseteq Ids
    BY <1>10, AskedAre DEF Drain, TypeOK
  <2>3. QED
    BY <1>10, <2>1, <2>2 DEF Drain, TypeOK
<1>11. CASE UNCHANGED vars
  BY <1>11 DEF vars, TypeOK
<1>12. QED
  BY <1>2, <1>3, <1>4, <1>5, <1>6, <1>7, <1>8, <1>9, <1>10, <1>11, Actions

LEMMA TypeInit == Init => TypeOK
  BY BoundsAssumption, EmptySeq DEF Init, TypeOK, None, Nobody

\* Every variable keeps its type (outbox.rs, mail.rs).
THEOREM TypeCorrect == Spec => []TypeOK
  BY TypeInit, TypeKept, PTL DEF Spec

-----------------------------------------------------------------------------
(* The order of effects *)

\* A request is in `building` only while nothing waits behind it, and what
\* waits in `held` waits behind a request being built.
Alone == building # None => held = << >>
FirstIsReserved == held # << >> => ~held[1].ready

OrderInv == InnerOK /\ Alone /\ FirstIsReserved

\* The places of some effects, a request being built and what waits.
Under(b) == IF b = None THEN 0 ELSE 1
PlacesOf(e, b, h) ==
  [i \in DOMAIN e |-> Ready(e[i])] \o (IF b = None THEN << >> ELSE <<Reserved(b)>>) \o h

ArePlaces(s, e, b, h) ==
  /\ s \in Seq(Place)
  /\ Len(e) \in Nat /\ Len(h) \in Nat /\ Under(b) \in {0, 1}
  /\ Len(s) = Len(e) + Under(b) + Len(h)
  /\ \A i \in 1 .. Len(e) : s[i] = Ready(e[i])
  /\ b # None => s[Len(e) + 1] = Reserved(b)
  /\ \A i \in 1 .. Len(h) : s[Len(e) + Under(b) + i] = h[i]

LEMMA PlacesOfAre ==
  ASSUME NEW e \in Seq(Effects), NEW b \in Ids \cup {None}, NEW h \in Seq(Place)
  PROVE  ArePlaces(PlacesOf(e, b, h), e, b, h)
<1> DEFINE front == [i \in DOMAIN e |-> Ready(e[i])]
           one == IF b = None THEN << >> ELSE <<Reserved(b)>>
           all == PlacesOf(e, b, h)
<1>1. /\ Len(e) \in Nat /\ DOMAIN e = 1 .. Len(e)
      /\ Len(h) \in Nat
      /\ \A i \in 1 .. Len(e) : e[i] \in Effects
  BY LenProperties, ElementOfSeq
<1>2. front \in Seq(Place) /\ Len(front) = Len(e) /\ \A i \in 1 .. Len(e) : front[i] = Ready(e[i])
  <2>1. front \in [1 .. Len(e) -> Place]
    BY <1>1, PlacesAre
  <2>2. front \in Seq(Place)
    BY <1>1, <2>1, SeqDef
  <2>3. QED
    BY <1>1, <2>1, <2>2, LenProperties
<1>3. /\ one \in Seq(Place) /\ Len(one) = Under(b)
      /\ b # None => one[1] = Reserved(b)
  BY PlacesAre, EmptySeq DEF Under
<1>4. all = (front \o one) \o h
  BY DEF PlacesOf
<1>5. Under(b) \in {0, 1}
  BY DEF Under
<1> HIDE DEF front, one, all
<1>6. /\ front \o one \in Seq(Place) /\ Len(front \o one) = Len(front) + Len(one)
      /\ \A i \in 1 .. Len(front) + Len(one) :
           (front \o one)[i] = IF i <= Len(front) THEN front[i] ELSE one[i - Len(front)]
  BY <1>2, <1>3, ConcatProperties
<1> DEFINE both == front \o one
<1> HIDE DEF both
<1>7. both \in Seq(Place) /\ Len(both) = Len(e) + Under(b)
  BY <1>2, <1>3, <1>6 DEF both
<1>8. /\ all \in Seq(Place) /\ Len(all) = Len(both) + Len(h)
      /\ \A i \in 1 .. Len(both) + Len(h) :
           all[i] = IF i <= Len(both) THEN both[i] ELSE h[i - Len(both)]
  BY <1>4, <1>7, ConcatProperties DEF both
<1>9. ASSUME NEW i \in 1 .. Len(e) PROVE all[i] = Ready(e[i])
  <2>1. i \in 1 .. Len(front) + Len(one) /\ i <= Len(front)
    BY <1>1, <1>2, <1>3, <1>5
  <2>2. i \in 1 .. Len(both) + Len(h) /\ i <= Len(both)
    BY <1>1, <1>5, <1>7
  <2>3. all[i] = both[i] /\ both[i] = front[i]
    BY <1>6, <1>8, <2>1, <2>2 DEF both
  <2>4. QED
    BY <1>2, <2>3
<1>10. ASSUME b # None PROVE all[Len(e) + 1] = Reserved(b)
  <2>1. Len(one) = 1
    BY <1>3, <1>10 DEF Under
  <2> DEFINE k == Len(e) + 1
  <2>2. k \in 1 .. Len(front) + Len(one) /\ ~(k <= Len(front)) /\ k - Len(front) = 1
    BY <1>1, <1>2, <2>1
  <2>3. k \in 1 .. Len(both) + Len(h) /\ k <= Len(both)
    BY <1>1, <1>3, <1>7, <2>1
  <2> HIDE DEF k
  <2>4. all[k] = both[k] /\ both[k] = one[1]
    BY <1>6, <1>8, <2>2, <2>3 DEF both
  <2>5. QED
    BY <1>3, <1>10, <2>4 DEF k
<1>11. ASSUME NEW i \in 1 .. Len(h) PROVE all[Len(e) + Under(b) + i] = h[i]
  <2> DEFINE k == Len(e) + Under(b) + i
  <2>1. /\ k \in 1 .. Len(both) + Len(h) /\ ~(k <= Len(both)) /\ k - Len(both) = i
    BY <1>1, <1>5, <1>7
  <2> HIDE DEF k
  <2>2. all[k] = h[i]
    BY <1>8, <2>1
  <2>3. QED
    BY <2>2 DEF k
<1>12. QED
  BY <1>1, <1>5, <1>7, <1>8, <1>9, <1>10, <1>11 DEF ArePlaces, all

\* The places not yet drained, before a step and after it.
LEMMA PendingIs ==
  /\ InnerOK => ArePlaces(Pending, effects, building, held)
  /\ InnerOK' => ArePlaces(Pending', effects', building', held')
<1>1. Pending = PlacesOf(effects, building, held) /\ Pending' = PlacesOf(effects', building', held')
  BY DEF Pending, PlacesOf
<1>2. QED
  BY <1>1, PlacesOfAre DEF InnerOK

\* A new place comes last.
LEMMA RecordAppends ==
  ASSUME OrderInv, NEW place \in Place, Record(place),
         ~place.ready => place.effect.id \in Ids /\ place = Reserved(place.effect.id)
  PROVE  OrderInv' /\ Pending' = Append(Pending, place)
<1>1. InnerOK /\ InnerOK'
  BY RecordKeeps DEF OrderInv
<1>2. /\ Append(Pending, place) \in Seq(Place)
      /\ Len(Append(Pending, place)) = Len(Pending) + 1
      /\ \A i \in 1 .. Len(Pending) : Append(Pending, place)[i] = Pending[i]
      /\ Append(Pending, place)[Len(Pending) + 1] = place
  BY <1>1, PendingIs, AppendProperties DEF ArePlaces
<1>3. Alone' /\ FirstIsReserved'
  <2>1. CASE Waiting # << >>
    <3>1. /\ Waiting \in Seq(Place) /\ Len(Waiting) \in Nat \ {0}
      BY <1>1, <2>1, WaitingIs, EmptySeq
    <3>2. held'[1] = Waiting[1]
      BY <2>1, <3>1, AppendProperties DEF Record
    <3>3. ~Waiting[1].ready
      <4>1. CASE building = None
        BY <2>1, <4>1 DEF Waiting, OrderInv, FirstIsReserved
      <4>2. CASE building # None
        BY <4>2 DEF Waiting, OrderInv, Alone, Reserved
      <4>3. QED
        BY <4>1, <4>2
    <3>4. QED
      BY <2>1, <3>2, <3>3 DEF Record, Alone, FirstIsReserved
  <2>2. CASE Waiting = << >>
    <3>1. held = << >> /\ building = None
      <4>1. building = None
        BY <1>1, <2>2, PlacesAre, AppendProperties DEF Waiting, InnerOK
      <4>2. QED
        BY <2>2, <4>1 DEF Waiting
    <3>2. QED
      BY <2>2, <3>1 DEF Record, Alone, FirstIsReserved
  <2>3. QED
    BY <2>1, <2>2
<1>4. /\ Len(Pending') = Len(Pending) + 1
      /\ \A i \in 1 .. Len(Pending) + 1 : Pending'[i] = Append(Pending, place)[i]
  <2>1. /\ Len(Pending) \in Nat
        /\ \A i \in 1 .. Len(Pending) + 1 : i \in 1 .. Len(Pending) \/ i = Len(Pending) + 1
    <3>1. Pending \in Seq(Place)
      BY <1>1, PendingIs DEF ArePlaces
    <3>2. Len(Pending) \in Nat
      BY <3>1, LenProperties
    <3>3. QED
      BY <3>2
  <2>2. CASE Waiting # << >>
    <3>1. building' = None /\ Under(building') = 0 /\ effects' = effects /\ held' = Append(Waiting, place)
      BY <2>2 DEF Record, Under
    <3>2. /\ Len(Waiting) = Under(building) + Len(held)
          /\ \A i \in 1 .. Len(Waiting) : Pending[Len(effects) + i] = Waiting[i]
      <4>1. CASE building = None
        BY <1>1, <4>1, PendingIs DEF ArePlaces, Waiting, Under
      <4>2. CASE building # None
        <5>1. held = << >> /\ Under(building) = 1 /\ Len(held) = 0
          BY <4>2 DEF OrderInv, Alone, Under
        <5>2. Waiting = <<Reserved(building)>>
          BY <4>2, <5>1 DEF Waiting
        <5>3. QED
          BY <1>1, <4>2, <5>1, <5>2, PendingIs DEF ArePlaces
      <4>3. QED
        BY <4>1, <4>2
    <3>3. /\ Len(Waiting) \in Nat /\ Len(held') = Len(Waiting) + 1
          /\ \A i \in 1 .. Len(Waiting) : held'[i] = Waiting[i]
          /\ held'[Len(Waiting) + 1] = place
      BY <1>1, <3>1, WaitingIs, AppendProperties, LenProperties
    <3>4. /\ Len(effects) \in Nat
          /\ Len(Pending) = Len(effects) + Len(Waiting)
          /\ Len(Pending') = Len(effects) + Len(Waiting) + 1
          /\ \A i \in 1 .. Len(effects) : Pending[i] = Ready(effects[i]) /\ Pending'[i] = Ready(effects[i])
          /\ \A i \in 1 .. Len(Waiting) + 1 : Pending'[Len(effects) + i] = held'[i]
      <4>1. /\ Len(effects) \in Nat /\ Len(held) \in Nat /\ Under(building) \in {0, 1}
            /\ Len(Pending) = Len(effects) + Under(building) + Len(held)
            /\ \A i \in 1 .. Len(effects) : Pending[i] = Ready(effects[i])
        BY <1>1, PendingIs DEF ArePlaces
      <4>2. /\ Len(Pending') = Len(effects') + Under(building') + Len(held')
            /\ \A i \in 1 .. Len(effects') : Pending'[i] = Ready(effects'[i])
            /\ \A i \in 1 .. Len(held') : Pending'[Len(effects') + Under(building') + i] = held'[i]
        BY <1>1, PendingIs DEF ArePlaces
      <4>3. Len(Pending) = Len(effects) + Len(Waiting) /\ Len(Pending') = Len(effects) + Len(Waiting) + 1
        BY <3>1, <3>2, <3>3, <4>1, <4>2
      <4>4. ASSUME NEW i \in 1 .. Len(Waiting) + 1
            PROVE  Pending'[Len(effects) + i] = held'[i]
        <5>1. i \in 1 .. Len(held')
          BY <3>3
        <5>2. Pending'[Len(effects) + 0 + i] = held'[i]
          BY <3>1, <4>2, <5>1
        <5>3. Len(effects) + 0 + i = Len(effects) + i
          BY <3>3, <4>1
        <5>4. QED
          BY <5>2, <5>3
      <4>5. QED
        BY <3>1, <4>1, <4>2, <4>3, <4>4
    <3>5. ASSUME NEW i \in 1 .. Len(Pending) + 1 PROVE Pending'[i] = Append(Pending, place)[i]
      <4>1. CASE i <= Len(effects)
        BY <1>2, <3>4, <3>3, <4>1
      <4>2. CASE i > Len(effects) /\ i <= Len(Pending)
        <5>1. i - Len(effects) \in 1 .. Len(Waiting) /\ Len(effects) + (i - Len(effects)) = i
              /\ i - Len(effects) \in 1 .. Len(Waiting) + 1 /\ i \in 1 .. Len(Pending)
          BY <3>3, <3>4, <4>2
        <5>2. Pending'[i] = held'[i - Len(effects)] /\ Pending[i] = Waiting[i - Len(effects)]
          BY <3>2, <3>4, <5>1
        <5>3. QED
          BY <1>2, <3>3, <5>1, <5>2
      <4>3. CASE i = Len(Pending) + 1
        <5>1. i = Len(effects) + (Len(Waiting) + 1) /\ Len(Waiting) + 1 \in 1 .. Len(Waiting) + 1
          BY <3>3, <3>4, <4>3
        <5>2. Pending'[i] = place
          BY <3>3, <3>4, <5>1
        <5>3. QED
          BY <1>2, <4>3, <5>2
      <4>4. QED
        BY <2>1, <3>4, <4>1, <4>2, <4>3
    <3>6. QED
      BY <3>4, <3>5
  <2>3. CASE Waiting = << >>
    <3>1. held = << >> /\ building = None /\ Under(building) = 0 /\ Len(held) = 0
      <4>1. building = None
        BY <1>1, <2>3, PlacesAre, AppendProperties DEF Waiting, InnerOK
      <4>2. QED
        BY <2>3, <4>1 DEF Waiting, Under
    <3>2. /\ Len(effects) \in Nat /\ Len(Pending) = Len(effects)
          /\ \A i \in 1 .. Len(effects) : Pending[i] = Ready(effects[i])
      BY <1>1, <3>1, PendingIs DEF ArePlaces
    <3>3. CASE place.ready
      <4>1. effects' = Append(effects, place.effect) /\ Under(building') = 0 /\ held' = << >> /\ place = Ready(place.effect)
        BY <2>3, <3>1, <3>3 DEF Record, Under, Ready, Place
      <4>2. /\ Len(effects') = Len(effects) + 1
            /\ \A i \in 1 .. Len(effects) : effects'[i] = effects[i]
            /\ effects'[Len(effects) + 1] = place.effect
        BY <1>1, <4>1, PlacesAre, AppendProperties DEF InnerOK
      <4>3. /\ Len(Pending') = Len(effects') + Under(building') + Len(held')
            /\ \A i \in 1 .. Len(effects') : Pending'[i] = Ready(effects'[i])
        BY <1>1, PendingIs DEF ArePlaces
      <4>4. Len(held') = 0
        BY <4>1
      <4>5. QED
        BY <1>2, <3>2, <4>1, <4>2, <4>3, <4>4
    <3>4. CASE ~place.ready
      <4>1. effects' = effects /\ building' = place.effect.id /\ held' = << >> /\ building' # None
        BY <2>3, <3>1, <3>4 DEF Record, None, Ids
      <4>2. Under(building') = 1 /\ Len(held') = 0 /\ Reserved(building') = place
        BY <3>4, <4>1 DEF Under
      <4>3. /\ Len(Pending') = Len(effects') + Under(building') + Len(held')
            /\ \A i \in 1 .. Len(effects') : Pending'[i] = Ready(effects'[i])
            /\ building' # None => Pending'[Len(effects') + 1] = Reserved(building')
        BY <1>1, PendingIs DEF ArePlaces
      <4>4. QED
        BY <1>2, <3>2, <4>1, <4>2, <4>3
    <3>5. QED
      BY <3>3, <3>4
  <2>4. QED
    BY <2>2, <2>3
<1>5. Pending' \in Seq(Place)
  BY <1>1, PendingIs DEF ArePlaces
<1>6. QED
  BY <1>1, <1>2, <1>3, <1>4, <1>5, SeqEqual DEF OrderInv

\* Released, the places stand where they stood, behind the effects.
LEMMA ReleaseLeavesOrder ==
  ASSUME InnerOK, building = None, UNCHANGED building,
         NEW places \in Seq(Place), Release(places)
  PROVE  /\ InnerOK' /\ Alone' /\ FirstIsReserved'
         /\ Len(Pending') = Len(effects) + Len(places)
         /\ \A i \in 1 .. Len(effects) : Pending'[i] = Ready(effects[i])
         /\ \A i \in 1 .. Len(places) : Pending'[Len(effects) + i] = places[i]
<1> DEFINE m == Len(effects)
<1> PICK n \in 0 .. Len(places) :
      /\ \A i \in 1 .. n : places[i].ready
      /\ n < Len(places) => ~places[n + 1].ready
      /\ effects' = effects \o [i \in 1 .. n |-> places[i].effect]
      /\ held' = SubSeq(places, n + 1, Len(places))
  BY DEF Release
<1> DEFINE front == [i \in 1 .. n |-> places[i].effect]
<1>1. /\ m \in Nat /\ Len(places) \in Nat
      /\ \A i \in 1 .. Len(places) : places[i] \in Place
  BY LenProperties, ElementOfSeq DEF InnerOK
<1>2. InnerOK'
  BY ReleaseKeeps DEF InnerOK
<1>3. /\ front \in Seq(Effects) /\ Len(front) = n
      /\ \A i \in 1 .. n : front[i] = places[i].effect
  <2>1. front \in [1 .. n -> Effects]
    BY <1>1, PlacesAre
  <2>2. front \in Seq(Effects)
    BY <1>1, <2>1, SeqDef
  <2>3. QED
    BY <1>1, <2>1, <2>2, LenProperties
<1>4. effects' = effects \o front
  OBVIOUS
<1> HIDE DEF front
<1>5. /\ Len(effects') = m + n
      /\ \A i \in 1 .. m + n : effects'[i] = IF i <= m THEN effects[i] ELSE front[i - m]
  BY <1>3, <1>4, ConcatProperties DEF InnerOK
<1>6. /\ Len(held') = Len(places) - n
      /\ \A i \in 1 .. Len(places) - n : held'[i] = places[n + i]
  <2>1. /\ Len(held') = IF n + 1 <= Len(places) THEN Len(places) - (n + 1) + 1 ELSE 0
        /\ \A i \in 1 .. Len(places) - (n + 1) + 1 : held'[i] = places[n + 1 + i - 1]
    BY <1>1, SubSeqProperties
  <2>2. QED
    BY <1>1, <2>1
<1>7. Alone' /\ FirstIsReserved'
  <2>1. ASSUME held' # << >> PROVE ~held'[1].ready
    <3>1. Len(held') \in Nat \ {0}
      BY <1>2, <2>1, EmptySeq DEF InnerOK
    <3>2. n < Len(places) /\ held'[1] = places[n + 1]
      BY <1>1, <1>6, <3>1
    <3>3. QED
      BY <3>2
  <2>2. QED
    BY <2>1 DEF Alone, FirstIsReserved
<1>8. /\ Len(Pending') = m + n + Len(held')
      /\ \A i \in 1 .. m + n : Pending'[i] = Ready(effects'[i])
      /\ \A i \in 1 .. Len(held') : Pending'[m + n + i] = held'[i]
  <2>1. ArePlaces(Pending', effects', None, held') /\ Under(None) = 0
    BY <1>2, PendingIs DEF Under
  <2>2. /\ Len(Pending') = Len(effects') + 0 + Len(held')
        /\ \A i \in 1 .. Len(effects') : Pending'[i] = Ready(effects'[i])
        /\ \A i \in 1 .. Len(held') : Pending'[Len(effects') + 0 + i] = held'[i]
    BY <2>1 DEF ArePlaces
  <2>3. Len(effects') \in Nat /\ Len(held') \in Nat
    BY <1>2, LenProperties DEF InnerOK
  <2>4. ASSUME NEW i \in 1 .. Len(held') PROVE Pending'[m + n + i] = held'[i]
    <3>1. Len(effects') + 0 + i = m + n + i
      BY <1>5, <2>3
    <3>2. QED
      BY <2>2, <3>1
  <2>5. Len(Pending') = m + n + Len(held')
    BY <1>5, <2>2, <2>3
  <2>6. QED
    BY <1>5, <2>2, <2>4, <2>5
<1>9. Len(Pending') = m + Len(places)
  BY <1>1, <1>6, <1>8
<1>10. ASSUME NEW i \in 1 .. m PROVE Pending'[i] = Ready(effects[i])
  <2>1. i \in 1 .. m + n /\ i <= m
    BY <1>1
  <2>2. QED
    BY <1>5, <1>8, <2>1
<1>11. ASSUME NEW i \in 1 .. Len(places) PROVE Pending'[m + i] = places[i]
  <2>1. CASE i <= n
    <3> DEFINE k == m + i
    <3>1. k \in 1 .. m + n /\ ~(k <= m) /\ k - m = i /\ i \in 1 .. n
      BY <1>1, <2>1
    <3> HIDE DEF k
    <3>2. Pending'[k] = Ready(front[i]) /\ front[i] = places[i].effect
      BY <1>3, <1>5, <1>8, <3>1
    <3>3. places[i] = Ready(places[i].effect)
      BY <1>1, <3>1 DEF Ready, Place
    <3>4. QED
      BY <3>2, <3>3 DEF k
  <2>2. CASE i > n
    <3> DEFINE k == i - n
    <3>1. k \in 1 .. Len(held') /\ k \in 1 .. Len(places) - n /\ m + n + k = m + i /\ n + k = i
      BY <1>1, <1>6, <2>2
    <3> HIDE DEF k
    <3>2. QED
      BY <1>6, <1>8, <3>1
  <2>3. QED
    BY <1>1, <2>1, <2>2
<1>12. QED
  BY <1>2, <1>7, <1>9, <1>10, <1>11

\* An effect built goes into its request's place.
LEMMA FillFills ==
  ASSUME OrderInv, NEW id \in Ids, Fill(id)
  PROVE  /\ OrderInv'
         /\ \E k \in DOMAIN Pending : /\ Pending[k] = Reserved(id)
                                      /\ Pending' = [Pending EXCEPT ![k] = Ready(Ask(id))]
<1>1. /\ InnerOK /\ InnerOK' /\ id # None
      /\ Pending \in Seq(Place) /\ Pending' \in Seq(Place)
      /\ DOMAIN Pending = 1 .. Len(Pending) /\ Len(Pending) \in Nat
  <2>1. InnerOK /\ InnerOK' /\ id # None
    BY FillKeeps DEF OrderInv, Ids, None
  <2>2. Pending \in Seq(Place) /\ Pending' \in Seq(Place)
    BY <2>1, PendingIs DEF ArePlaces
  <2>3. QED
    BY <2>1, <2>2, LenProperties
<1>2. ASSUME NEW k \in 1 .. Len(Pending), Len(Pending') = Len(Pending),
             \A i \in 1 .. Len(Pending) : Pending'[i] = IF i = k THEN Ready(Ask(id)) ELSE Pending[i]
      PROVE  Pending' = [Pending EXCEPT ![k] = Ready(Ask(id))]
  <2>1. /\ [Pending EXCEPT ![k] = Ready(Ask(id))] \in Seq(Place)
        /\ Len([Pending EXCEPT ![k] = Ready(Ask(id))]) = Len(Pending)
        /\ \A i \in 1 .. Len(Pending) :
             [Pending EXCEPT ![k] = Ready(Ask(id))][i] = IF i = k THEN Ready(Ask(id)) ELSE Pending[i]
    BY <1>1, PlacesAre, ExceptSeq
  <2>2. QED
    BY <1>1, <1>2, <2>1, SeqEqual
<1>3. CASE building = id /\ building' = None /\ effects' = Append(effects, Ask(id)) /\ UNCHANGED held
  <2>1. held = << >> /\ held' = << >> /\ Len(held) = 0 /\ Len(held') = 0
    BY <1>1, <1>3 DEF OrderInv, Alone
  <2>2. Under(building) = 1 /\ Under(building') = 0
    BY <1>1, <1>3 DEF Under
  <2>3. /\ Len(effects') = Len(effects) + 1
        /\ \A i \in 1 .. Len(effects) : effects'[i] = effects[i]
        /\ effects'[Len(effects) + 1] = Ask(id)
    BY <1>1, <1>3, PlacesAre, AppendProperties DEF InnerOK
  <2>4. /\ Len(effects) \in Nat
        /\ Len(Pending) = Len(effects) + 1 /\ Len(Pending') = Len(effects) + 1
        /\ \A i \in 1 .. Len(effects) : Pending[i] = Ready(effects[i])
        /\ Pending[Len(effects) + 1] = Reserved(id)
        /\ \A i \in 1 .. Len(effects') : Pending'[i] = Ready(effects'[i])
    <3>1. ArePlaces(Pending, effects, building, held) /\ ArePlaces(Pending', effects', building', held')
      BY <1>1, PendingIs
    <3>2. /\ Len(effects) \in Nat /\ Len(Pending) = Len(effects) + 1 + 0
          /\ \A i \in 1 .. Len(effects) : Pending[i] = Ready(effects[i])
          /\ Pending[Len(effects) + 1] = Reserved(id)
      BY <1>1, <1>3, <2>1, <2>2, <3>1 DEF ArePlaces
    <3>3. /\ Len(Pending') = Len(effects') + 0 + 0
          /\ \A i \in 1 .. Len(effects') : Pending'[i] = Ready(effects'[i])
      BY <2>1, <2>2, <3>1 DEF ArePlaces
    <3>4. QED
      BY <2>3, <3>2, <3>3
  <2>5. \A i \in 1 .. Len(Pending) :
          Pending'[i] = IF i = Len(Pending) THEN Ready(Ask(id)) ELSE Pending[i]
    BY <2>3, <2>4
  <2>6. Len(Pending) \in 1 .. Len(Pending) /\ Pending[Len(Pending)] = Reserved(id)
    BY <2>4
  <2>7. Pending' = [Pending EXCEPT ![Len(Pending)] = Ready(Ask(id))]
    BY <1>2, <2>4, <2>5, <2>6
  <2>8. Alone' /\ FirstIsReserved'
    BY <1>3, <2>1 DEF Alone, FirstIsReserved
  <2>9. QED
    BY <1>1, <2>6, <2>7, <2>8 DEF OrderInv
<1>4. ASSUME UNCHANGED building, NEW i \in DOMAIN held, held[i] = Reserved(id),
             Release([held EXCEPT ![i] = Ready(Ask(id))])
      PROVE  /\ OrderInv'
             /\ \E k \in DOMAIN Pending : /\ Pending[k] = Reserved(id)
                                          /\ Pending' = [Pending EXCEPT ![k] = Ready(Ask(id))]
  <2> DEFINE places == [held EXCEPT ![i] = Ready(Ask(id))]
             k == Len(effects) + i
  <2>1. Len(held) \in Nat /\ i \in 1 .. Len(held) /\ held # << >>
    BY <1>1, <1>4, LenProperties DEF InnerOK
  <2>2. building = None /\ Under(building) = 0
    BY <2>1 DEF OrderInv, Alone, Under
  <2>3. /\ places \in Seq(Place) /\ Len(places) = Len(held)
        /\ \A j \in 1 .. Len(held) : places[j] = IF j = i THEN Ready(Ask(id)) ELSE held[j]
    BY <1>1, <2>1, PlacesAre, ExceptSeq DEF InnerOK
  <2>4. Release(places)
    BY <1>4
  <2> HIDE DEF places
  <2>5. /\ InnerOK' /\ Alone' /\ FirstIsReserved'
        /\ Len(Pending') = Len(effects) + Len(held)
        /\ \A j \in 1 .. Len(effects) : Pending'[j] = Ready(effects[j])
        /\ \A j \in 1 .. Len(held) : Pending'[Len(effects) + j] = places[j]
    BY <1>1, <1>4, <2>2, <2>3, <2>4, ReleaseLeavesOrder
  <2>6. /\ Len(effects) \in Nat
        /\ Len(Pending) = Len(effects) + Len(held)
        /\ \A j \in 1 .. Len(effects) : Pending[j] = Ready(effects[j])
        /\ \A j \in 1 .. Len(held) : Pending[Len(effects) + j] = held[j]
    <3>1. /\ Len(effects) \in Nat
          /\ Len(Pending) = Len(effects) + 0 + Len(held)
          /\ \A j \in 1 .. Len(effects) : Pending[j] = Ready(effects[j])
          /\ \A j \in 1 .. Len(held) : Pending[Len(effects) + 0 + j] = held[j]
      BY <1>1, <2>2, PendingIs DEF ArePlaces
    <3>2. Len(effects) + 0 + Len(held) = Len(effects) + Len(held)
          /\ \A j \in 1 .. Len(held) : Len(effects) + 0 + j = Len(effects) + j
      BY <2>1, <3>1
    <3>3. QED
      BY <3>1, <3>2
  <2>7. k \in 1 .. Len(Pending) /\ Pending[k] = Reserved(id)
    BY <1>4, <2>1, <2>6
  <2>8. ASSUME NEW j \in 1 .. Len(Pending)
        PROVE  Pending'[j] = IF j = k THEN Ready(Ask(id)) ELSE Pending[j]
    <3>1. CASE j <= Len(effects)
      <4>1. j \in 1 .. Len(effects) /\ j # k
        BY <2>1, <2>6, <3>1
      <4>2. QED
        BY <2>5, <2>6, <4>1
    <3>2. CASE j > Len(effects)
      <4> DEFINE l == j - Len(effects)
      <4>1. l \in 1 .. Len(held) /\ Len(effects) + l = j /\ (l = i <=> j = k)
        BY <2>1, <2>6, <3>2
      <4> HIDE DEF l, k
      <4>2. Pending'[j] = places[l] /\ Pending[j] = held[l]
        BY <2>5, <2>6, <4>1
      <4>3. QED
        BY <2>3, <4>1, <4>2
    <3>3. QED
      BY <2>6, <3>1, <3>2
  <2>9. Pending' = [Pending EXCEPT ![k] = Ready(Ask(id))]
    BY <1>2, <2>5, <2>6, <2>7, <2>8
  <2>10. QED
    BY <1>1, <2>5, <2>7, <2>9 DEF OrderInv
<1>5. QED
  BY <1>3, <1>4 DEF Fill

\* A request that could not be built leaves no place.
LEMMA GiveUpRemoves ==
  ASSUME OrderInv, NEW id \in Ids, GiveUp(id)
  PROVE  /\ OrderInv'
         /\ \E k \in DOMAIN Pending : Pending[k] = Reserved(id) /\ Pending' = Without(Pending, k)
<1>1. /\ InnerOK /\ InnerOK' /\ id # None
      /\ Pending \in Seq(Place) /\ Pending' \in Seq(Place)
      /\ DOMAIN Pending = 1 .. Len(Pending) /\ Len(Pending) \in Nat
  <2>1. InnerOK /\ InnerOK' /\ id # None
    BY GiveUpKeeps DEF OrderInv, Ids, None
  <2>2. Pending \in Seq(Place) /\ Pending' \in Seq(Place)
    BY <2>1, PendingIs DEF ArePlaces
  <2>3. QED
    BY <2>1, <2>2, LenProperties
<1>2. ASSUME NEW k \in 1 .. Len(Pending), Len(Pending') = Len(Pending) - 1,
             \A j \in 1 .. Len(Pending) - 1 : Pending'[j] = IF j < k THEN Pending[j] ELSE Pending[j + 1]
      PROVE  Pending' = Without(Pending, k)
  <2>1. /\ Without(Pending, k) \in Seq(Place)
        /\ Len(Without(Pending, k)) = Len(Pending) - 1
        /\ \A j \in 1 .. Len(Pending) - 1 :
             Without(Pending, k)[j] = IF j < k THEN Pending[j] ELSE Pending[j + 1]
    BY <1>1, WithoutIs
  <2>2. QED
    BY <1>1, <1>2, <2>1, SeqEqual
<1>3. CASE building = id /\ building' = None /\ UNCHANGED <<effects, held>>
  <2>1. held = << >> /\ held' = << >> /\ Len(held) = 0 /\ Len(held') = 0
    BY <1>1, <1>3 DEF OrderInv, Alone
  <2>2. Under(building) = 1 /\ Under(building') = 0
    BY <1>1, <1>3 DEF Under
  <2>3. /\ Len(effects) \in Nat
        /\ Len(Pending) = Len(effects) + 1 /\ Len(Pending') = Len(effects)
        /\ \A i \in 1 .. Len(effects) : Pending[i] = Ready(effects[i])
        /\ Pending[Len(effects) + 1] = Reserved(id)
        /\ \A i \in 1 .. Len(effects) : Pending'[i] = Ready(effects[i])
    <3>1. ArePlaces(Pending, effects, building, held) /\ ArePlaces(Pending', effects', building', held')
      BY <1>1, PendingIs
    <3>2. /\ Len(effects) \in Nat /\ Len(Pending) = Len(effects) + 1 + 0
          /\ \A i \in 1 .. Len(effects) : Pending[i] = Ready(effects[i])
          /\ Pending[Len(effects) + 1] = Reserved(id)
      BY <1>1, <1>3, <2>1, <2>2, <3>1 DEF ArePlaces
    <3>3. /\ Len(Pending') = Len(effects) + 0 + 0
          /\ \A i \in 1 .. Len(effects) : Pending'[i] = Ready(effects[i])
      BY <1>3, <2>1, <2>2, <3>1 DEF ArePlaces
    <3>4. QED
      BY <3>2, <3>3
  <2>4. /\ Len(Pending) \in 1 .. Len(Pending) /\ Pending[Len(Pending)] = Reserved(id)
        /\ Len(Pending') = Len(Pending) - 1
        /\ \A j \in 1 .. Len(Pending) - 1 :
             Pending'[j] = IF j < Len(Pending) THEN Pending[j] ELSE Pending[j + 1]
    BY <2>3
  <2>5. Pending' = Without(Pending, Len(Pending))
    BY <1>2, <2>4
  <2>6. Alone' /\ FirstIsReserved'
    BY <1>3, <2>1 DEF Alone, FirstIsReserved
  <2>7. QED
    BY <1>1, <2>4, <2>5, <2>6 DEF OrderInv
<1>4. ASSUME UNCHANGED building, NEW i \in DOMAIN held, held[i] = Reserved(id),
             Release(Without(held, i))
      PROVE  /\ OrderInv'
             /\ \E k \in DOMAIN Pending : Pending[k] = Reserved(id) /\ Pending' = Without(Pending, k)
  <2> DEFINE places == Without(held, i)
             k == Len(effects) + i
  <2>1. Len(held) \in Nat /\ i \in 1 .. Len(held) /\ held # << >>
    BY <1>1, <1>4, LenProperties DEF InnerOK
  <2>2. building = None /\ Under(building) = 0
    BY <2>1 DEF OrderInv, Alone, Under
  <2>3. /\ places \in Seq(Place) /\ Len(places) = Len(held) - 1
        /\ \A j \in 1 .. Len(held) - 1 : places[j] = IF j < i THEN held[j] ELSE held[j + 1]
    BY <1>1, <2>1, WithoutIs DEF InnerOK
  <2>4. Release(places)
    BY <1>4
  <2> HIDE DEF places
  <2>5. /\ InnerOK' /\ Alone' /\ FirstIsReserved'
        /\ Len(Pending') = Len(effects) + (Len(held) - 1)
        /\ \A j \in 1 .. Len(effects) : Pending'[j] = Ready(effects[j])
        /\ \A j \in 1 .. Len(held) - 1 : Pending'[Len(effects) + j] = places[j]
    BY <1>1, <1>4, <2>2, <2>3, <2>4, ReleaseLeavesOrder
  <2>6. /\ Len(effects) \in Nat
        /\ Len(Pending) = Len(effects) + Len(held)
        /\ \A j \in 1 .. Len(effects) : Pending[j] = Ready(effects[j])
        /\ \A j \in 1 .. Len(held) : Pending[Len(effects) + j] = held[j]
    <3>1. /\ Len(effects) \in Nat
          /\ Len(Pending) = Len(effects) + 0 + Len(held)
          /\ \A j \in 1 .. Len(effects) : Pending[j] = Ready(effects[j])
          /\ \A j \in 1 .. Len(held) : Pending[Len(effects) + 0 + j] = held[j]
      BY <1>1, <2>2, PendingIs DEF ArePlaces
    <3>2. Len(effects) + 0 + Len(held) = Len(effects) + Len(held)
          /\ \A j \in 1 .. Len(held) : Len(effects) + 0 + j = Len(effects) + j
      BY <2>1, <3>1
    <3>3. QED
      BY <3>1, <3>2
  <2>7. k \in 1 .. Len(Pending) /\ Pending[k] = Reserved(id) /\ Len(Pending') = Len(Pending) - 1
    BY <1>4, <2>1, <2>5, <2>6
  <2>8. ASSUME NEW j \in 1 .. Len(Pending) - 1
        PROVE  Pending'[j] = IF j < k THEN Pending[j] ELSE Pending[j + 1]
    <3>1. CASE j <= Len(effects)
      <4>1. j \in 1 .. Len(effects) /\ j < k
        BY <2>1, <2>6, <3>1
      <4>2. QED
        BY <2>5, <2>6, <4>1
    <3>2. CASE j > Len(effects)
      <4> DEFINE l == j - Len(effects)
      <4>1. /\ l \in 1 .. Len(held) - 1 /\ l \in 1 .. Len(held) /\ l + 1 \in 1 .. Len(held)
            /\ Len(effects) + l = j /\ Len(effects) + (l + 1) = j + 1
            /\ (l < i <=> j < k)
        BY <2>1, <2>6, <3>2
      <4> HIDE DEF l, k
      <4>2. /\ Pending'[j] = places[l] /\ Pending[j] = held[l]
            /\ Pending[j + 1] = held[l + 1]
        BY <2>5, <2>6, <4>1
      <4>3. QED
        BY <2>3, <4>1, <4>2
    <3>3. QED
      BY <2>6, <3>1, <3>2
  <2>9. Pending' = Without(Pending, k)
    BY <1>2, <2>7, <2>8
  <2>10. QED
    BY <1>1, <2>5, <2>7, <2>9 DEF OrderInv
<1>5. QED
  BY <1>3, <1>4 DEF GiveUp, Without

\* What no reserved place stands before is what is ready in `effects`.
LEMMA DrainTakesReady ==
  ASSUME OrderInv, Drain
  PROVE  /\ OrderInv'
         /\ Len(effects) \in 0 .. Len(Pending)
         /\ \A i \in 1 .. Len(effects) : Pending[i] = Ready(effects[i])
         /\ Len(effects) < Len(Pending) => ~Pending[Len(effects) + 1].ready
         /\ Pending' = SubSeq(Pending, Len(effects) + 1, Len(Pending))
<1> DEFINE m == Len(effects)
           u == Under(building)
<1>1. effects' = << >> /\ UNCHANGED <<building, held>> /\ Len(effects') = 0
  BY DEF Drain
<1>2. InnerOK /\ InnerOK' /\ OrderInv'
  BY <1>1, EmptySeq DEF OrderInv, InnerOK, Alone, FirstIsReserved
<1>3. /\ Pending \in Seq(Place) /\ m \in Nat /\ Len(held) \in Nat /\ u \in {0, 1}
      /\ Len(Pending) = m + u + Len(held)
      /\ \A i \in 1 .. m : Pending[i] = Ready(effects[i])
      /\ building # None => Pending[m + 1] = Reserved(building)
      /\ \A i \in 1 .. Len(held) : Pending[m + u + i] = held[i]
  BY <1>2, PendingIs DEF ArePlaces
<1>4. /\ Pending' \in Seq(Place)
      /\ Len(Pending') = u + Len(held)
      /\ building # None => Pending'[1] = Reserved(building)
      /\ \A i \in 1 .. Len(held) : Pending'[u + i] = held[i]
  <2>1. /\ Pending' \in Seq(Place)
        /\ Len(Pending') = 0 + u + Len(held)
        /\ building # None => Pending'[0 + 1] = Reserved(building)
        /\ \A i \in 1 .. Len(held) : Pending'[0 + u + i] = held[i]
    BY <1>1, <1>2, PendingIs DEF ArePlaces
  <2>2. /\ 0 + u + Len(held) = u + Len(held)
        /\ \A i \in 1 .. Len(held) : 0 + u + i = u + i
    BY <1>3
  <2>3. QED
    BY <2>1, <2>2
<1>5. ASSUME m < Len(Pending) PROVE ~Pending[m + 1].ready
  <2>1. CASE building # None
    BY <1>3, <2>1 DEF Reserved
  <2>2. CASE building = None
    <3>1. u = 0 /\ Len(held) > 0 /\ held # << >>
      BY <1>3, <1>5, <2>2 DEF Under
    <3>2. 1 \in 1 .. Len(held) /\ m + u + 1 = m + 1
      BY <1>3, <3>1
    <3>3. Pending[m + 1] = held[1]
      BY <1>3, <3>2
    <3>4. QED
      BY <3>1, <3>3 DEF OrderInv, FirstIsReserved
  <2>3. QED
    BY <2>1, <2>2
<1>6. Pending' = SubSeq(Pending, m + 1, Len(Pending))
  <2> DEFINE rest == SubSeq(Pending, m + 1, Len(Pending))
  <2>1. /\ rest \in Seq(Place) /\ Len(rest) = u + Len(held)
        /\ \A i \in 1 .. u + Len(held) : rest[i] = Pending[m + i]
    <3>1. \A i \in 1 .. Len(Pending) : Pending[i] \in Place
      BY <1>3, ElementOfSeq
    <3>2. /\ rest \in Seq(Place)
          /\ Len(rest) = IF m + 1 <= Len(Pending) THEN Len(Pending) - (m + 1) + 1 ELSE 0
          /\ \A i \in 1 .. Len(Pending) - (m + 1) + 1 : rest[i] = Pending[m + 1 + i - 1]
      BY <1>3, <3>1, SubSeqProperties
    <3>3. Len(Pending) - (m + 1) + 1 = u + Len(held)
      BY <1>3
    <3>4. Len(rest) = u + Len(held)
      BY <1>3, <3>2
    <3>5. ASSUME NEW i \in 1 .. u + Len(held) PROVE rest[i] = Pending[m + i]
      <4>1. m + 1 + i - 1 = m + i
        BY <1>3
      <4>2. rest[i] = Pending[m + 1 + i - 1]
        BY <3>2, <3>3
      <4>3. QED
        BY <4>1, <4>2
    <3>6. QED
      BY <3>2, <3>4, <3>5
  <2> HIDE DEF rest
  <2>2. ASSUME NEW i \in 1 .. u + Len(held) PROVE Pending'[i] = Pending[m + i]
    <3>1. CASE i <= u
      <4>1. u = 1 /\ i = 1 /\ building # None
        BY <1>3, <3>1 DEF Under
      <4>2. QED
        BY <1>3, <1>4, <4>1
    <3>2. CASE i > u
      <4> DEFINE j == i - u
      <4>1. j \in 1 .. Len(held) /\ u + j = i /\ m + u + j = m + i
        BY <1>3, <3>2
      <4> HIDE DEF j
      <4>2. Pending'[u + j] = held[j] /\ Pending[m + u + j] = held[j]
        BY <1>3, <1>4, <4>1
      <4>3. QED
        BY <4>1, <4>2
    <3>3. QED
      BY <1>3, <3>1, <3>2
  <2>3. QED
    BY <1>4, <2>1, <2>2, SeqEqual DEF rest
<1>7. QED
  BY <1>2, <1>3, <1>5, <1>6

LEMMA ReadyAndReserved ==
  /\ \A e : Ready(e).ready = TRUE /\ Ready(e).effect = e
  /\ \A id : Reserved(id).ready = FALSE /\ Reserved(id).effect = Ask(id)
<1>1. ASSUME NEW e PROVE Ready(e).ready = TRUE /\ Ready(e).effect = e
  BY DEF Ready
<1>2. ASSUME NEW id
      PROVE  Reserved(id).ready = FALSE /\ Reserved(id).effect = Ask(id)
  BY DEF Reserved
<1>3. QED
  BY <1>1, <1>2

\* What a tell and a minted request record.
LEMMA Recordable ==
  ASSUME TypeOK
  PROVE  /\ told < MaxTells => LET p == Ready(Tell(told + 1)) IN p \in Place /\ p.ready
         /\ next <= MaxId => LET p == Reserved(next) IN
              p \in Place /\ ~p.ready /\ p.effect.id = next /\ next \in Ids
<1>1. ASSUME told < MaxTells PROVE LET p == Ready(Tell(told + 1)) IN p \in Place /\ p.ready
  <2>1. told + 1 \in 1 .. MaxTells
    BY <1>1, BoundsAssumption DEF TypeOK
  <2>2. QED
    BY <2>1, PlacesAre DEF Ready
<1>2. ASSUME next <= MaxId
      PROVE  LET p == Reserved(next) IN p \in Place /\ ~p.ready /\ p.effect.id = next /\ next \in Ids
  <2>1. next \in Ids
    BY <1>2, BoundsAssumption DEF TypeOK, Ids
  <2>2. QED
    BY <2>1, PlacesAre DEF Reserved, Ask
<1>3. QED
  BY <1>1, <1>2

LEMMA OrderKept == TypeOK /\ OrderInv /\ [Next]_vars => OrderInv'
<1> SUFFICES ASSUME TypeOK, OrderInv, [Next]_vars PROVE OrderInv'
  OBVIOUS
<1>1. CASE UNCHANGED inner
  BY <1>1 DEF OrderInv, InnerOK, Alone, FirstIsReserved, inner
<1>2. ASSUME NEW t \in Threads, TellEffect(t) \/ Mint(t) PROVE OrderInv'
  BY <1>2, Recordable, RecordAppends DEF TellEffect, Mint
<1>3. ASSUME NEW t \in Threads, Open(t) \/ Unreserve(t) PROVE OrderInv'
  <2>1. Innermost(t) \in Ids
    BY <1>3, MakingIs DEF Open, Unreserve, TypeOK
  <2>2. QED
    BY <1>3, <2>1, FillFills, GiveUpRemoves DEF Open, Unreserve
<1>4. CASE Drain
  BY <1>4, DrainTakesReady
<1>5. ASSUME NEW t \in Threads, NEW id \in Ids,
             Collect(t, id) \/ KeepWaker(t, id) \/ Close(t, id) \/ Deliver(id) \/ \E u \in Threads : Move(t, u, id)
      PROVE  UNCHANGED inner
  BY <1>5 DEF Collect, KeepWaker, Close, Deliver, Move
<1>6. ASSUME NEW id \in Ids, Deliver(id) PROVE UNCHANGED inner
  BY <1>6 DEF Deliver
<1>7. UNCHANGED vars => UNCHANGED inner
  BY DEF vars, inner
<1>8. QED
  BY <1>1, <1>2, <1>3, <1>4, <1>5, <1>6, <1>7, Actions

LEMMA OrderInit == Init => OrderInv
  BY EmptySeq DEF Init, OrderInv, InnerOK, Alone, FirstIsReserved, None

\* Every step of the outbox is a step of the log of places, or none.
LEMMA StepImplements ==
  TypeOK /\ OrderInv /\ [Next]_vars => [Log!Next]_<<Pending, shown>>
<1> SUFFICES ASSUME TypeOK, OrderInv, [Next]_vars PROVE [Log!Next]_<<Pending, shown>>
  OBVIOUS
<1>1. ASSUME NEW place \in Place, Pending' = Append(Pending, place), UNCHANGED shown
      PROVE  Log!Record
  BY <1>1 DEF Log!Record, Log!Place, Place
<1>2. ASSUME NEW t \in Threads, TellEffect(t) \/ Mint(t) PROVE Log!Record
  BY <1>1, <1>2, Recordable, RecordAppends DEF TellEffect, Mint
<1>3. ASSUME NEW t \in Threads, Open(t) PROVE Log!Fill
  <2>1. Innermost(t) \in Ids
    BY <1>3, MakingIs DEF Open, TypeOK
  <2>2. PICK k \in DOMAIN Pending :
          /\ Pending[k] = Reserved(Innermost(t))
          /\ Pending' = [Pending EXCEPT ![k] = Ready(Ask(Innermost(t)))]
    BY <1>3, <2>1, FillFills DEF Open
  <2>3. ~Pending[k].ready /\ Pending[k].effect = Ask(Innermost(t))
    BY <2>2, ReadyAndReserved
  <2>4. Pending' = [Pending EXCEPT ![k] = [ready |-> TRUE, effect |-> Pending[k].effect]]
    BY <2>2, <2>3 DEF Ready
  <2>5. QED
    BY <1>3, <2>3, <2>4 DEF Log!Fill, Open
<1>4. ASSUME NEW t \in Threads, Unreserve(t) PROVE Log!GiveUp
  <2>1. Innermost(t) \in Ids
    BY <1>4, MakingIs DEF Unreserve, TypeOK
  <2>2. PICK k \in DOMAIN Pending :
          Pending[k] = Reserved(Innermost(t)) /\ Pending' = Without(Pending, k)
    BY <1>4, <2>1, GiveUpRemoves DEF Unreserve
  <2>3. ~Pending[k].ready
    BY <2>2 DEF Reserved
  <2>4. QED
    BY <1>4, <2>2, <2>3 DEF Log!GiveUp, Unreserve, Without
<1>5. CASE Drain
  <2> DEFINE n == Len(effects)
  <2>1. /\ n \in 0 .. Len(Pending)
        /\ \A i \in 1 .. n : Pending[i] = Ready(effects[i])
        /\ n < Len(Pending) => ~Pending[n + 1].ready
        /\ Pending' = SubSeq(Pending, n + 1, Len(Pending))
    BY <1>5, DrainTakesReady
  <2>2. effects = [i \in 1 .. n |-> Pending[i].effect]
    <3>1. effects = [i \in 1 .. n |-> effects[i]]
      BY LenProperties DEF OrderInv, InnerOK
    <3>2. \A i \in 1 .. n : Pending[i].effect = effects[i]
      BY <2>1, ReadyAndReserved
    <3>3. QED
      BY <3>1, <3>2
  <2>3. shown' = shown \o [i \in 1 .. n |-> Pending[i].effect]
    BY <1>5, <2>2 DEF Drain
  <2>4. Log!ReadyFront(n)
    BY <2>1, ReadyAndReserved DEF Log!ReadyFront
  <2>5. Log!Drain
    BY <2>1, <2>3, <2>4 DEF Log!Drain
  <2>6. QED
    BY <2>5 DEF Log!Next
<1>6. ASSUME UNCHANGED inner, UNCHANGED shown PROVE UNCHANGED <<Pending, shown>>
  BY <1>6 DEF Pending, inner
<1>7. ASSUME NEW t \in Threads, NEW id \in Ids,
             Collect(t, id) \/ KeepWaker(t, id) \/ Close(t, id) \/ \E u \in Threads : Move(t, u, id)
      PROVE  UNCHANGED <<Pending, shown>>
  BY <1>6, <1>7 DEF Collect, KeepWaker, Close, Move
<1>8. ASSUME NEW id \in Ids, Deliver(id) PROVE UNCHANGED <<Pending, shown>>
  BY <1>6, <1>8 DEF Deliver
<1>9. CASE UNCHANGED vars
  BY <1>6, <1>9 DEF vars, inner
<1>10. QED
  BY <1>2, <1>3, <1>4, <1>5, <1>7, <1>8, <1>9, Actions DEF Log!Next

\* The outbox is the log of places EffectLog describes: effects leave in the
\* order they were recorded, and none behind one still being built (outbox.rs).
THEOREM OutboxIsALog == Spec => ImplementsEffectLog
<1>1. Spec => []TypeOK
  BY TypeCorrect
<1>2. Spec => []OrderInv
  BY <1>1, OrderInit, OrderKept, PTL DEF Spec
<1>3. Init => Log!Init
  BY DEF Init, Log!Init, Pending, None
<1>4. QED
  BY <1>1, <1>2, <1>3, StepImplements, PTL DEF Spec, ImplementsEffectLog, Log!Spec, Log!vars

-----------------------------------------------------------------------------
(* Places and the requests they are for *)

\* The requests with a place reserved, and those whose effect is ready.
ReservedIn(s) == {id \in Ids : \E i \in DOMAIN s : s[i] = Reserved(id)}
ReadyIn(s) == {id \in Ids : \E i \in DOMAIN s : s[i] = Ready(Ask(id))}

\* Only requests have places not ready, and each request has one place.
Tidy(s) ==
  /\ \A i \in DOMAIN s : s[i].ready = FALSE => \E id \in Ids : s[i] = Reserved(id)
  /\ \A i, j \in DOMAIN s : \A id \in Ids : s[i].effect = Ask(id) /\ s[j].effect = Ask(id) => i = j

LEMMA KindsDiffer ==
  /\ \A id, n : Ask(id) # Tell(n) /\ Ask(id).kind = "ask" /\ Tell(n).kind = "tell" /\ Ask(id).id = id
  /\ \A id, n : Ask(id) = Ask(n) => id = n
  /\ \A id, e : Reserved(id) # Ready(e)
  /\ \A e \in Effects : e.kind = "ask" => e.id \in Ids /\ e = Ask(e.id)
<1>1. ASSUME NEW id, NEW n
      PROVE  /\ Ask(id) # Tell(n) /\ Ask(id).kind = "ask" /\ Tell(n).kind = "tell" /\ Ask(id).id = id
             /\ Ask(id) = Ask(n) => id = n
  BY DEF Ask, Tell
<1>2. ASSUME NEW id, NEW e PROVE Reserved(id) # Ready(e)
  BY ReadyAndReserved
<1>3. ASSUME NEW e \in Effects, e.kind = "ask" PROVE e.id \in Ids /\ e = Ask(e.id)
  BY <1>3 DEF Effects, Ask
<1>4. QED
  BY <1>1, <1>2, <1>3

LEMMA AskedIs ==
  ASSUME NEW s \in Seq(Effects), NEW id
  PROVE  id \in Asked(s) <=> id \in Ids /\ \E i \in DOMAIN s : s[i] = Ask(id)
<1>1. \A i \in DOMAIN s : s[i] \in Effects
  BY LenProperties, ElementOfSeq
<1>2. QED
  BY <1>1, KindsDiffer DEF Asked

LEMMA AppendTell ==
  ASSUME NEW s \in Seq(Place), NEW n \in 1 .. MaxTells, Tidy(s)
  PROVE  LET new == Append(s, Ready(Tell(n))) IN
         /\ Tidy(new)
         /\ ReservedIn(new) = ReservedIn(s)
         /\ ReadyIn(new) = ReadyIn(s)
<1> DEFINE p == Ready(Tell(n))
           new == Append(s, p)
<1>1. /\ DOMAIN s = 1 .. Len(s) /\ Len(s) \in Nat /\ DOMAIN new = 1 .. Len(s) + 1
      /\ \A i \in 1 .. Len(s) : new[i] = s[i]
      /\ new[Len(s) + 1] = p
  BY PlacesAre, AppendProperties, LenProperties
<1>2. p.ready = TRUE /\ \A id : p # Reserved(id) /\ p # Ready(Ask(id)) /\ p.effect # Ask(id)
  BY ReadyAndReserved, KindsDiffer
<1> HIDE DEF p, new
<1>3. \A i \in DOMAIN new : (i \in DOMAIN s /\ new[i] = s[i]) \/ (i = Len(s) + 1 /\ new[i] = p)
  BY <1>1
<1>4. \A i \in DOMAIN s : i \in DOMAIN new
  BY <1>1
<1>5. Tidy(new)
  BY <1>2, <1>3 DEF Tidy
<1>6. ReservedIn(new) = ReservedIn(s) /\ ReadyIn(new) = ReadyIn(s)
  BY <1>1, <1>2, <1>3, <1>4 DEF ReservedIn, ReadyIn
<1>7. QED
  BY <1>5, <1>6 DEF new, p

LEMMA AppendReserved ==
  ASSUME NEW s \in Seq(Place), NEW id \in Ids, Tidy(s),
         id \notin ReservedIn(s), id \notin ReadyIn(s)
  PROVE  LET new == Append(s, Reserved(id)) IN
         /\ Tidy(new)
         /\ ReservedIn(new) = ReservedIn(s) \cup {id}
         /\ ReadyIn(new) = ReadyIn(s)
<1> DEFINE p == Reserved(id)
           new == Append(s, p)
<1>1. /\ DOMAIN s = 1 .. Len(s) /\ Len(s) \in Nat /\ DOMAIN new = 1 .. Len(s) + 1
      /\ \A i \in 1 .. Len(s) : new[i] = s[i] /\ s[i] \in Place
      /\ new[Len(s) + 1] = p
  BY PlacesAre, AppendProperties, LenProperties, ElementOfSeq
<1>2. /\ p = Reserved(id) /\ p.effect = Ask(id)
      /\ \A n : p # Ready(Ask(n)) /\ (p = Reserved(n) => n = id) /\ (p.effect = Ask(n) => n = id)
  BY ReadyAndReserved, KindsDiffer
<1> HIDE DEF p, new
<1>3. \A i \in DOMAIN new : (i \in DOMAIN s /\ new[i] = s[i]) \/ (i = Len(s) + 1 /\ new[i] = p)
  BY <1>1
<1>4. \A i \in DOMAIN s : i \in DOMAIN new
  BY <1>1
<1>5. \A i \in DOMAIN s : s[i].effect # Ask(id)
  <2> SUFFICES ASSUME NEW i \in DOMAIN s, s[i].effect = Ask(id) PROVE FALSE
    OBVIOUS
  <2>1. CASE s[i].ready = FALSE
    <3>1. PICK n \in Ids : s[i] = Reserved(n)
      BY <2>1 DEF Tidy
    <3>2. n = id
      BY <3>1, ReadyAndReserved, KindsDiffer
    <3>3. QED
      BY <3>1, <3>2 DEF ReservedIn
  <2>2. CASE s[i].ready = TRUE
    <3>1. s[i] = Ready(Ask(id))
      BY <1>1, <2>2 DEF Place, Ready
    <3>2. QED
      BY <3>1 DEF ReadyIn
  <2>3. QED
    BY <1>1, <2>1, <2>2, PlacesAre
<1>6. Tidy(new)
  <2>1. \A i \in DOMAIN new : new[i].ready = FALSE => \E n \in Ids : new[i] = Reserved(n)
    BY <1>2, <1>3 DEF Tidy
  <2>2. ASSUME NEW i \in DOMAIN new, NEW j \in DOMAIN new, NEW n \in Ids,
               new[i].effect = Ask(n), new[j].effect = Ask(n)
        PROVE  i = j
    BY <1>2, <1>3, <1>5, <2>2 DEF Tidy
  <2>3. QED
    BY <2>1, <2>2 DEF Tidy
<1>7. ReservedIn(new) = ReservedIn(s) \cup {id} /\ ReadyIn(new) = ReadyIn(s)
  <2>1. Len(s) + 1 \in DOMAIN new /\ new[Len(s) + 1] = Reserved(id)
    BY <1>1, <1>2
  <2>2. QED
    BY <1>1, <1>2, <1>3, <1>4, <2>1 DEF ReservedIn, ReadyIn
<1>8. QED
  BY <1>6, <1>7 DEF new, p

LEMMA FillOne ==
  ASSUME NEW s \in Seq(Place), NEW id \in Ids, NEW k \in DOMAIN s, Tidy(s), s[k] = Reserved(id)
  PROVE  LET new == [s EXCEPT ![k] = Ready(Ask(id))] IN
         /\ Tidy(new)
         /\ id \in ReservedIn(s)
         /\ ReservedIn(new) = ReservedIn(s) \ {id}
         /\ ReadyIn(new) = ReadyIn(s) \cup {id}
<1> DEFINE p == Ready(Ask(id))
           new == [s EXCEPT ![k] = p]
<1>1. /\ DOMAIN new = DOMAIN s
      /\ \A i \in DOMAIN s : new[i] = IF i = k THEN p ELSE s[i]
  OBVIOUS
<1>2. /\ p = Ready(Ask(id)) /\ p.ready = TRUE /\ p.effect = Ask(id) /\ s[k].effect = Ask(id)
      /\ \A n : p # Reserved(n) /\ (p = Ready(Ask(n)) => n = id) /\ (Reserved(n).effect = Ask(n))
                /\ s[k] # Ready(Ask(n)) /\ (s[k] = Reserved(n) => n = id)
  BY ReadyAndReserved, KindsDiffer
<1> HIDE DEF p, new
<1>3. \A i \in DOMAIN s : new[i].effect = s[i].effect
  BY <1>1, <1>2
<1>4. Tidy(new)
  BY <1>1, <1>2, <1>3 DEF Tidy
<1>5. \A i \in DOMAIN s : s[i] = Reserved(id) => i = k
  BY <1>2 DEF Tidy
<1>6. ReservedIn(new) = ReservedIn(s) \ {id} /\ id \in ReservedIn(s)
  BY <1>1, <1>2, <1>5 DEF ReservedIn
<1>7. ReadyIn(new) = ReadyIn(s) \cup {id}
  BY <1>1, <1>2 DEF ReadyIn
<1>8. QED
  BY <1>4, <1>6, <1>7 DEF new, p

LEMMA RemoveOne ==
  ASSUME NEW s \in Seq(Place), NEW id \in Ids, NEW k \in DOMAIN s, Tidy(s), s[k] = Reserved(id)
  PROVE  LET new == Without(s, k) IN
         /\ Tidy(new)
         /\ id \in ReservedIn(s)
         /\ ReservedIn(new) = ReservedIn(s) \ {id}
         /\ ReadyIn(new) = ReadyIn(s)
<1> DEFINE new == Without(s, k)
           from(j) == IF j < k THEN j ELSE j + 1
           to(i) == IF i < k THEN i ELSE i - 1
<1>1. /\ DOMAIN s = 1 .. Len(s) /\ Len(s) \in Nat /\ k \in 1 .. Len(s)
      /\ new \in Seq(Place) /\ Len(new) = Len(s) - 1
      /\ \A j \in 1 .. Len(s) - 1 : new[j] = IF j < k THEN s[j] ELSE s[j + 1]
  BY WithoutIs, LenProperties
<1>2. DOMAIN new = 1 .. Len(s) - 1
  BY <1>1, LenProperties
<1> HIDE DEF new
<1>3. ASSUME NEW j \in DOMAIN new
      PROVE  from(j) \in DOMAIN s /\ from(j) # k /\ new[j] = s[from(j)]
  BY <1>1, <1>2
<1>4. ASSUME NEW i \in DOMAIN s, i # k
      PROVE  to(i) \in DOMAIN new /\ from(to(i)) = i
  BY <1>1, <1>2, <1>4
<1>5. \A i, j \in DOMAIN new : from(i) = from(j) => i = j
  BY <1>1, <1>2
<1> HIDE DEF from, to
<1>6. /\ s[k].effect = Ask(id)
      /\ \A n : s[k] # Ready(Ask(n)) /\ (s[k] = Reserved(n) => n = id) /\ Reserved(n).effect = Ask(n)
  BY ReadyAndReserved, KindsDiffer
<1>7. Tidy(new)
  <2>1. \A i \in DOMAIN new : new[i].ready = FALSE => \E n \in Ids : new[i] = Reserved(n)
    BY <1>3 DEF Tidy
  <2>2. ASSUME NEW i \in DOMAIN new, NEW j \in DOMAIN new, NEW n \in Ids,
               new[i].effect = Ask(n), new[j].effect = Ask(n)
        PROVE  i = j
    <3>1. from(i) = from(j)
      BY <1>3, <2>2 DEF Tidy
    <3>2. QED
      BY <1>5, <3>1
  <2>3. QED
    BY <2>1, <2>2 DEF Tidy
<1>8. ASSUME NEW p
      PROVE  (\E j \in DOMAIN new : new[j] = p) <=> (\E i \in DOMAIN s : i # k /\ s[i] = p)
  BY <1>3, <1>4
<1>9. \A i \in DOMAIN s : s[i] = Reserved(id) => i = k
  BY <1>6 DEF Tidy
<1>10. ReservedIn(new) = ReservedIn(s) \ {id} /\ id \in ReservedIn(s)
  BY <1>6, <1>8, <1>9 DEF ReservedIn
<1>11. ReadyIn(new) = ReadyIn(s)
  BY <1>6, <1>8 DEF ReadyIn
<1>12. QED
  BY <1>7, <1>10, <1>11 DEF new

LEMMA DropFront ==
  ASSUME NEW s \in Seq(Place), NEW e \in Seq(Effects), Tidy(s),
         Len(e) \in 0 .. Len(s), \A i \in 1 .. Len(e) : s[i] = Ready(e[i])
  PROVE  LET new == SubSeq(s, Len(e) + 1, Len(s)) IN
         /\ Tidy(new)
         /\ ReservedIn(new) = ReservedIn(s)
         /\ ReadyIn(new) = ReadyIn(s) \ Asked(e)
         /\ Asked(e) \subseteq ReadyIn(s)
<1> DEFINE m == Len(e)
           new == SubSeq(s, m + 1, Len(s))
<1>1. /\ DOMAIN s = 1 .. Len(s) /\ Len(s) \in Nat /\ m \in Nat /\ m <= Len(s)
      /\ DOMAIN e = 1 .. m
      /\ \A i \in 1 .. Len(s) : s[i] \in Place
  BY LenProperties, ElementOfSeq
<1>2. /\ new \in Seq(Place) /\ Len(new) = Len(s) - m
      /\ \A i \in 1 .. Len(s) - m : new[i] = s[m + i]
  <2>1. /\ new \in Seq(Place)
        /\ Len(new) = IF m + 1 <= Len(s) THEN Len(s) - (m + 1) + 1 ELSE 0
        /\ \A i \in 1 .. Len(s) - (m + 1) + 1 : new[i] = s[m + 1 + i - 1]
    BY <1>1, SubSeqProperties
  <2>2. Len(new) = Len(s) - m /\ Len(s) - (m + 1) + 1 = Len(s) - m
    <3>1. Len(s) - (m + 1) + 1 = Len(s) - m /\ (m + 1 <= Len(s) \/ Len(s) - m = 0)
      <4>1. \A a, b \in Nat : a <= b => b - (a + 1) + 1 = b - a /\ (a + 1 <= b \/ b - a = 0)
        OBVIOUS
      <4>2. m \in Nat /\ Len(s) \in Nat /\ m <= Len(s)
        BY <1>1
      <4> HIDE DEF m
      <4>3. QED
        BY <4>1, <4>2
    <3> HIDE DEF m, new
    <3>2. QED
      BY <2>1, <3>1
  <2>3. ASSUME NEW i \in 1 .. Len(s) - m PROVE new[i] = s[m + i]
    <3>1. m + 1 + i - 1 = m + i
      BY <1>1
    <3>2. new[i] = s[m + 1 + i - 1]
      BY <2>1, <2>2
    <3>3. QED
      BY <3>1, <3>2
  <2>4. QED
    BY <2>1, <2>2, <2>3
<1>3. DOMAIN new = 1 .. Len(s) - m
  BY <1>2, LenProperties
<1> HIDE DEF new
<1>4. ASSUME NEW j \in DOMAIN new PROVE m + j \in DOMAIN s /\ new[j] = s[m + j]
  BY <1>1, <1>2, <1>3
<1>5. ASSUME NEW i \in DOMAIN s
      PROVE  \/ i \in DOMAIN e /\ s[i] = Ready(e[i])
             \/ i \notin DOMAIN e /\ i - m \in DOMAIN new /\ new[i - m] = s[i]
  <2>1. CASE i <= m
    BY <1>1, <2>1
  <2>2. CASE i > m
    <3>1. i \notin DOMAIN e /\ i - m \in DOMAIN new /\ m + (i - m) = i
      BY <1>1, <1>3, <2>2
    <3>2. QED
      BY <1>4, <3>1
  <2>3. QED
    BY <1>1, <2>1, <2>2
<1>6. \A i, j \in DOMAIN new : m + i = m + j => i = j
  BY <1>1, <1>3
<1>7. \A i \in DOMAIN e, j \in DOMAIN new : i # m + j
  BY <1>1, <1>3
<1>8. Tidy(new)
  <2>1. \A i \in DOMAIN new : new[i].ready = FALSE => \E n \in Ids : new[i] = Reserved(n)
    BY <1>4 DEF Tidy
  <2>2. ASSUME NEW i \in DOMAIN new, NEW j \in DOMAIN new, NEW n \in Ids,
               new[i].effect = Ask(n), new[j].effect = Ask(n)
        PROVE  i = j
    BY <1>4, <1>6, <2>2 DEF Tidy
  <2>3. QED
    BY <2>1, <2>2 DEF Tidy
<1>9. ReservedIn(new) = ReservedIn(s)
  <2>1. \A id \in Ids, i \in DOMAIN e : s[i] = Ready(e[i]) => s[i] # Reserved(id)
    BY KindsDiffer
  <2>2. QED
    BY <1>4, <1>5, <2>1 DEF ReservedIn
<1>10. \A id : id \in Asked(e) <=> id \in Ids /\ \E i \in DOMAIN e : e[i] = Ask(id)
  BY AskedIs
<1>11. \A i \in DOMAIN e : i \in DOMAIN s /\ s[i] = Ready(e[i]) /\ s[i].effect = e[i]
  BY <1>1, ReadyAndReserved
<1>12. Asked(e) \subseteq ReadyIn(s)
  BY <1>10, <1>11 DEF ReadyIn
<1>13. ASSUME NEW id \in Ids
       PROVE  id \in ReadyIn(new) <=> id \in ReadyIn(s) /\ id \notin Asked(e)
  <2>1. ASSUME id \in ReadyIn(new) PROVE id \in ReadyIn(s) /\ id \notin Asked(e)
    <3>1. PICK j \in DOMAIN new : new[j] = Ready(Ask(id))
      BY <2>1 DEF ReadyIn
    <3>2. m + j \in DOMAIN s /\ s[m + j] = Ready(Ask(id)) /\ s[m + j].effect = Ask(id)
      BY <1>4, <3>1, ReadyAndReserved
    <3>3. id \notin Asked(e)
      <4> SUFFICES ASSUME NEW i \in DOMAIN e, e[i] = Ask(id) PROVE FALSE
        BY <1>10
      <4>1. i \in DOMAIN s /\ s[i].effect = Ask(id)
        BY <1>11
      <4>2. i = m + j
        BY <3>2, <4>1 DEF Tidy
      <4>3. QED
        BY <1>7, <4>2
    <3>4. QED
      BY <3>2, <3>3 DEF ReadyIn
  <2>2. ASSUME id \in ReadyIn(s), id \notin Asked(e) PROVE id \in ReadyIn(new)
    <3>1. PICK i \in DOMAIN s : s[i] = Ready(Ask(id))
      BY <2>2 DEF ReadyIn
    <3>2. i \notin DOMAIN e
      <4> SUFFICES ASSUME i \in DOMAIN e PROVE FALSE
        OBVIOUS
      <4>1. e[i] = Ask(id)
        BY <1>11, <3>1, ReadyAndReserved
      <4>2. QED
        BY <1>10, <2>2, <4>1
    <3>3. QED
      BY <1>5, <3>1, <3>2 DEF ReadyIn
  <2>3. QED
    BY <2>1, <2>2
<1>14. ReadyIn(new) = ReadyIn(s) \ Asked(e)
  BY <1>13 DEF ReadyIn
<1>15. QED
  BY <1>8, <1>9, <1>12, <1>14 DEF new

ReservedIds == ReservedIn(Pending)
ReadyIds == ReadyIn(Pending)
ShownIds == Asked(shown)

\* A request has one place, or is shown; none is known before it is minted.
IdsInv ==
  /\ Tidy(Pending)
  /\ \A id \in ReservedIds \cup ReadyIds \cup ShownIds : id < next
  /\ ShownIds \cap (ReservedIds \cup ReadyIds) = {}

LEMMA OneOrOther ==
  ASSUME NEW s, Tidy(s)
  PROVE  ReservedIn(s) \cap ReadyIn(s) = {}
<1> SUFFICES ASSUME NEW id \in Ids, NEW i \in DOMAIN s, NEW j \in DOMAIN s,
                    s[i] = Reserved(id), s[j] = Ready(Ask(id))
             PROVE  FALSE
  BY DEF ReservedIn, ReadyIn
<1>1. s[i].effect = Ask(id) /\ s[j].effect = Ask(id)
  BY ReadyAndReserved
<1>2. i = j
  BY <1>1 DEF Tidy
<1>3. QED
  BY <1>2, KindsDiffer

LEMMA TellIds ==
  ASSUME TypeOK, OrderInv, IdsInv, NEW t \in Threads, TellEffect(t)
  PROVE  IdsInv' /\ UNCHANGED <<ReservedIds, ReadyIds, ShownIds, next>>
<1>1. told + 1 \in 1 .. MaxTells /\ Pending \in Seq(Place)
  BY BoundsAssumption, PendingIs DEF TellEffect, TypeOK, OrderInv, ArePlaces
<1>2. Pending' = Append(Pending, Ready(Tell(told + 1)))
  BY Recordable, RecordAppends DEF TellEffect
<1>3. Tidy(Pending') /\ ReservedIn(Pending') = ReservedIn(Pending) /\ ReadyIn(Pending') = ReadyIn(Pending)
  BY <1>1, <1>2, AppendTell DEF IdsInv
<1>4. ReservedIds' = ReservedIds /\ ReadyIds' = ReadyIds /\ ShownIds' = ShownIds /\ next' = next
  BY <1>3 DEF ReservedIds, ReadyIds, ShownIds, TellEffect
<1>5. QED
  BY <1>3, <1>4 DEF IdsInv

LEMMA MintIds ==
  ASSUME TypeOK, OrderInv, IdsInv, NEW t \in Threads, Mint(t)
  PROVE  /\ IdsInv' /\ UNCHANGED <<ReadyIds, ShownIds>>
         /\ next \in Ids /\ next \notin ReservedIds \cup ReadyIds \cup ShownIds
         /\ ReservedIds' = ReservedIds \cup {next}
<1>1. Pending \in Seq(Place) /\ next \in Ids /\ next \in Nat /\ next' = next + 1
  BY Recordable, PendingIs DEF Mint, TypeOK, OrderInv, ArePlaces
<1>2. Pending' = Append(Pending, Reserved(next))
  BY Recordable, RecordAppends DEF Mint
<1>3. next \notin ReservedIds \cup ReadyIds \cup ShownIds
  BY <1>1 DEF IdsInv
<1>4. /\ Tidy(Pending') /\ ReservedIn(Pending') = ReservedIn(Pending) \cup {next}
      /\ ReadyIn(Pending') = ReadyIn(Pending)
  BY <1>1, <1>2, <1>3, AppendReserved DEF IdsInv, ReservedIds, ReadyIds
<1>5. ReservedIds' = ReservedIds \cup {next} /\ ReadyIds' = ReadyIds /\ ShownIds' = ShownIds
  BY <1>4 DEF ReservedIds, ReadyIds, ShownIds, Mint
<1>6. \A id \in ReservedIds \cup ReadyIds \cup ShownIds : id \in Nat
  BY AskedAre DEF ReservedIds, ReservedIn, ReadyIds, ReadyIn, ShownIds, Ids, TypeOK
<1>7. \A id \in (ReservedIds \cup ReadyIds \cup ShownIds)' : id < next'
  BY <1>1, <1>5, <1>6 DEF IdsInv
<1>8. QED
  BY <1>1, <1>3, <1>4, <1>5, <1>7 DEF IdsInv

LEMMA OpenIds ==
  ASSUME TypeOK, OrderInv, IdsInv, NEW t \in Threads, Open(t)
  PROVE  /\ IdsInv' /\ UNCHANGED <<ShownIds, next>>
         /\ Innermost(t) \in ReservedIds
         /\ ReservedIds' = ReservedIds \ {Innermost(t)}
         /\ ReadyIds' = ReadyIds \cup {Innermost(t)}
<1> DEFINE id == Innermost(t)
<1>1. id \in Ids /\ Pending \in Seq(Place)
  BY MakingIs, PendingIs DEF Open, TypeOK, OrderInv, ArePlaces
<1> HIDE DEF id
<1>2. PICK k \in DOMAIN Pending :
        Pending[k] = Reserved(id) /\ Pending' = [Pending EXCEPT ![k] = Ready(Ask(id))]
  BY <1>1, FillFills DEF Open, id
<1>3. /\ Tidy(Pending') /\ id \in ReservedIn(Pending)
      /\ ReservedIn(Pending') = ReservedIn(Pending) \ {id}
      /\ ReadyIn(Pending') = ReadyIn(Pending) \cup {id}
  BY <1>1, <1>2, FillOne DEF IdsInv
<1>4. /\ id \in ReservedIds /\ ReservedIds' = ReservedIds \ {id}
      /\ ReadyIds' = ReadyIds \cup {id} /\ ShownIds' = ShownIds /\ next' = next
  BY <1>3 DEF ReservedIds, ReadyIds, ShownIds, Open
<1>5. IdsInv'
  BY <1>3, <1>4 DEF IdsInv
<1>6. QED
  BY <1>4, <1>5 DEF id

LEMMA UnreserveIds ==
  ASSUME TypeOK, OrderInv, IdsInv, NEW t \in Threads, Unreserve(t)
  PROVE  /\ IdsInv' /\ UNCHANGED <<ReadyIds, ShownIds, next>>
         /\ Innermost(t) \in ReservedIds
         /\ ReservedIds' = ReservedIds \ {Innermost(t)}
<1> DEFINE id == Innermost(t)
<1>1. id \in Ids /\ Pending \in Seq(Place)
  BY MakingIs, PendingIs DEF Unreserve, TypeOK, OrderInv, ArePlaces
<1> HIDE DEF id
<1>2. PICK k \in DOMAIN Pending : Pending[k] = Reserved(id) /\ Pending' = Without(Pending, k)
  BY <1>1, GiveUpRemoves DEF Unreserve, id
<1>3. /\ Tidy(Pending') /\ id \in ReservedIn(Pending)
      /\ ReservedIn(Pending') = ReservedIn(Pending) \ {id}
      /\ ReadyIn(Pending') = ReadyIn(Pending)
  BY <1>1, <1>2, RemoveOne DEF IdsInv
<1>4. /\ id \in ReservedIds /\ ReservedIds' = ReservedIds \ {id}
      /\ ReadyIds' = ReadyIds /\ ShownIds' = ShownIds /\ next' = next
  BY <1>3 DEF ReservedIds, ReadyIds, ShownIds, Unreserve
<1>5. IdsInv'
  BY <1>3, <1>4 DEF IdsInv
<1>6. QED
  BY <1>4, <1>5 DEF id

LEMMA DrainIds ==
  ASSUME TypeOK, OrderInv, IdsInv, Drain
  PROVE  /\ IdsInv' /\ UNCHANGED <<ReservedIds, next>>
         /\ Asked(effects) \subseteq ReadyIds
         /\ ReadyIds' = ReadyIds \ Asked(effects)
         /\ ShownIds' = ShownIds \cup Asked(effects)
<1>1. Pending \in Seq(Place) /\ effects \in Seq(Effects) /\ shown \in Seq(Effects)
  BY PendingIs DEF TypeOK, OrderInv, ArePlaces
<1>2. /\ Len(effects) \in 0 .. Len(Pending)
      /\ \A i \in 1 .. Len(effects) : Pending[i] = Ready(effects[i])
      /\ Pending' = SubSeq(Pending, Len(effects) + 1, Len(Pending))
  BY DrainTakesReady
<1>3. /\ Tidy(Pending') /\ ReservedIn(Pending') = ReservedIn(Pending)
      /\ ReadyIn(Pending') = ReadyIn(Pending) \ Asked(effects)
      /\ Asked(effects) \subseteq ReadyIn(Pending)
  BY <1>1, <1>2, DropFront DEF IdsInv
<1>4. Asked(shown \o effects) = Asked(shown) \cup Asked(effects)
  <2>1. /\ shown \o effects \in Seq(Effects)
        /\ Len(shown \o effects) = Len(shown) + Len(effects)
        /\ \A i \in 1 .. Len(shown) + Len(effects) :
             (shown \o effects)[i] = IF i <= Len(shown) THEN shown[i] ELSE effects[i - Len(shown)]
    BY <1>1, ConcatProperties
  <2> DEFINE both == shown \o effects
  <2>2. /\ DOMAIN both = 1 .. Len(shown) + Len(effects)
        /\ DOMAIN shown = 1 .. Len(shown) /\ Len(shown) \in Nat
        /\ DOMAIN effects = 1 .. Len(effects) /\ Len(effects) \in Nat
    BY <1>1, <2>1, LenProperties
  <2> HIDE DEF both
  <2>3. ASSUME NEW i \in DOMAIN both
        PROVE  \/ i \in DOMAIN shown /\ both[i] = shown[i]
               \/ i - Len(shown) \in DOMAIN effects /\ both[i] = effects[i - Len(shown)]
    BY <2>1, <2>2 DEF both
  <2>4. \A i \in DOMAIN shown : i \in DOMAIN both /\ both[i] = shown[i]
    BY <2>1, <2>2 DEF both
  <2>5. ASSUME NEW i \in DOMAIN effects
        PROVE  Len(shown) + i \in DOMAIN both /\ both[Len(shown) + i] = effects[i]
    <3> DEFINE j == Len(shown) + i
    <3>1. j \in DOMAIN both /\ ~(j <= Len(shown)) /\ j - Len(shown) = i
      BY <2>2
    <3> HIDE DEF j
    <3>2. both[j] = effects[i]
      BY <2>1, <2>2, <3>1 DEF both
    <3>3. QED
      BY <3>1, <3>2 DEF j
  <2>6. /\ \A id : id \in Asked(both) <=> id \in Ids /\ \E i \in DOMAIN both : both[i] = Ask(id)
        /\ \A id : id \in Asked(shown) <=> id \in Ids /\ \E i \in DOMAIN shown : shown[i] = Ask(id)
        /\ \A id : id \in Asked(effects) <=> id \in Ids /\ \E i \in DOMAIN effects : effects[i] = Ask(id)
    BY <1>1, <2>1, AskedIs DEF both
  <2>7. Asked(both) = Asked(shown) \cup Asked(effects)
    <3>1. ASSUME NEW id PROVE id \in Asked(both) => id \in Asked(shown) \/ id \in Asked(effects)
      BY <2>3, <2>6
    <3>2. ASSUME NEW id PROVE id \in Asked(shown) \/ id \in Asked(effects) => id \in Asked(both)
      BY <2>4, <2>5, <2>6
    <3>3. QED
      BY <3>1, <3>2
  <2>8. QED
    BY <2>7 DEF both
<1>5. /\ ReservedIds' = ReservedIds /\ ReadyIds' = ReadyIds \ Asked(effects)
      /\ Asked(effects) \subseteq ReadyIds
      /\ ShownIds' = ShownIds \cup Asked(effects) /\ next' = next
  BY <1>3, <1>4 DEF ReservedIds, ReadyIds, ShownIds, Drain
<1>6. ReservedIds \cap ReadyIds = {}
  BY OneOrOther DEF IdsInv, ReservedIds, ReadyIds
<1>7. IdsInv'
  BY <1>3, <1>5, <1>6 DEF IdsInv
<1>8. QED
  BY <1>5, <1>7

LEMMA RestIds ==
  ASSUME IdsInv, UNCHANGED <<inner, shown, next>>
  PROVE  IdsInv' /\ UNCHANGED <<ReservedIds, ReadyIds, ShownIds>>
<1>1. Pending' = Pending
  BY DEF Pending, inner
<1>2. ReservedIds' = ReservedIds /\ ReadyIds' = ReadyIds /\ ShownIds' = ShownIds
  BY <1>1 DEF ReservedIds, ReadyIds, ShownIds
<1>3. QED
  BY <1>1, <1>2 DEF IdsInv

\* The steps that leave the places alone.
LEMMA RestSteps ==
  ASSUME [Next]_vars
  PROVE  \/ \E t \in Threads : TellEffect(t) \/ Mint(t) \/ Open(t) \/ Unreserve(t)
         \/ Drain
         \/ UNCHANGED <<inner, shown, next>>
<1>1. ASSUME NEW t \in Threads, NEW id \in Ids,
             Collect(t, id) \/ KeepWaker(t, id) \/ Close(t, id) \/ \E u \in Threads : Move(t, u, id)
      PROVE  UNCHANGED <<inner, shown, next>>
  BY <1>1 DEF Collect, KeepWaker, Close, Move
<1>2. ASSUME NEW id \in Ids, Deliver(id) PROVE UNCHANGED <<inner, shown, next>>
  BY <1>2 DEF Deliver
<1>3. UNCHANGED vars => UNCHANGED <<inner, shown, next>>
  BY DEF vars, inner
<1>4. QED
  BY <1>1, <1>2, <1>3, Actions

LEMMA IdsKept == TypeOK /\ OrderInv /\ IdsInv /\ [Next]_vars => IdsInv'
  BY RestSteps, TellIds, MintIds, OpenIds, UnreserveIds, DrainIds, RestIds

LEMMA IdsInit == Init => IdsInv
<1> SUFFICES ASSUME Init PROVE IdsInv
  OBVIOUS
<1>1. Pending = << >> /\ shown = << >>
  BY DEF Init, Pending, None
<1>2. DOMAIN << >> = {}
  OBVIOUS
<1>3. ReservedIds = {} /\ ReadyIds = {} /\ ShownIds = {} /\ Tidy(Pending)
  BY <1>1, <1>2 DEF ReservedIds, ReadyIds, ShownIds, ReservedIn, ReadyIn, Asked, Tidy
<1>4. QED
  BY <1>3 DEF IdsInv

-----------------------------------------------------------------------------
(* Slots, handles and what is reported closed *)

RecordedIds == ReadyIds \cup ShownIds

\* What a slot says of its request.  A request still held is one whose effect
\* was recorded; it waits until its reply is accepted, and only then; and it
\* waits as long as its effect is not drained or its handle not spent.
MailInv ==
  /\ \A id \in Ids :
       /\ slots[id] # "none" => owner[id] # Nobody
       /\ id \in wakers => slots[id] = "waiting"
       /\ owner[id] # Nobody => /\ id \in RecordedIds
                                /\ slots[id] = "waiting" <=> id \notin accepted
                                /\ id \in ReadyIds \cup handles => slots[id] = "waiting"
  /\ handles \subseteq ShownIds
  /\ accepted \subseteq ShownIds

LEMMA RecordedIs ==
  ASSUME OrderInv
  PROVE  Recorded = RecordedIds
<1>1. Pending \in Seq(Place)
  BY PendingIs DEF OrderInv, ArePlaces
<1>2. DOMAIN Pending = 1 .. Len(Pending) /\ \A i \in DOMAIN Pending : Pending[i] \in Place
  BY <1>1, LenProperties, ElementOfSeq
<1> DEFINE ready == {Pending[i].effect.id :
              i \in {j \in DOMAIN Pending : Pending[j].ready /\ Pending[j].effect.kind = "ask"}}
<1>3. ASSUME NEW id \in ready PROVE id \in ReadyIds
  <2>1. PICK i \in DOMAIN Pending : /\ Pending[i].ready /\ Pending[i].effect.kind = "ask"
                                    /\ id = Pending[i].effect.id
    OBVIOUS
  <2>2. Pending[i].effect \in Effects /\ Pending[i].ready = TRUE
    BY <1>2, <2>1, PlacesAre
  <2>3. id \in Ids /\ Pending[i].effect = Ask(id)
    BY <2>1, <2>2, KindsDiffer
  <2>4. Pending[i] = Ready(Ask(id))
    BY <1>2, <2>2, <2>3 DEF Place, Ready
  <2>5. QED
    BY <2>3, <2>4 DEF ReadyIds, ReadyIn
<1>4. ASSUME NEW id \in ReadyIds PROVE id \in ready
  <2>1. PICK i \in DOMAIN Pending : Pending[i] = Ready(Ask(id))
    BY <1>4 DEF ReadyIds, ReadyIn
  <2>2. Pending[i].ready /\ Pending[i].effect = Ask(id)
    BY <2>1, ReadyAndReserved
  <2>3. QED
    BY <2>2, KindsDiffer
<1> HIDE DEF ready
<1>5. ready = ReadyIds
  BY <1>3, <1>4
<1>6. QED
  BY <1>5 DEF Recorded, RecordedIds, ShownIds, ready

\* The ids by name, their types at hand.
LEMMA IdsAre ==
  ASSUME TypeOK
  PROVE  ReservedIds \subseteq Ids /\ ReadyIds \subseteq Ids /\ ShownIds \subseteq Ids
  BY AskedAre DEF TypeOK, ReservedIds, ReservedIn, ReadyIds, ReadyIn, ShownIds

LEMMA NobodyIs == \A t \in Threads : t # Nobody
  BY NobodyAssumption

LEMMA MailKept ==
  TypeOK /\ OrderInv /\ IdsInv /\ MailInv /\ [Next]_vars => MailInv'
<1> SUFFICES ASSUME TypeOK, OrderInv, IdsInv, MailInv, [Next]_vars PROVE MailInv'
  OBVIOUS
<1>1. ASSUME UNCHANGED <<mail, owner, handles, accepted>>, UNCHANGED <<ReadyIds, ShownIds>>
      PROVE  MailInv'
  BY <1>1 DEF MailInv, RecordedIds, mail
<1>2. ASSUME NEW t \in Threads, TellEffect(t) \/ Mint(t) \/ Unreserve(t) PROVE MailInv'
  <2>1. UNCHANGED <<mail, owner, handles, accepted>>
    BY <1>2 DEF TellEffect, Mint, Unreserve
  <2>2. UNCHANGED <<ReadyIds, ShownIds>>
    BY <1>2, TellIds, MintIds, UnreserveIds
  <2>3. QED
    BY <1>1, <2>1, <2>2
<1>3. ASSUME NEW t \in Threads, Open(t) PROVE MailInv'
  <2> DEFINE id == Innermost(t)
  <2>1. /\ id \in ReservedIds /\ id \in Ids
        /\ ReadyIds' = ReadyIds \cup {id} /\ ShownIds' = ShownIds
    BY <1>3, OpenIds, IdsAre
  <2>2. /\ slots' = [slots EXCEPT ![id] = "waiting"] /\ owner' = [owner EXCEPT ![id] = t]
        /\ UNCHANGED <<wakers, handles, accepted>>
    BY <1>3 DEF Open
  <2> HIDE DEF id
  <2>3. id \notin ShownIds
    BY <2>1 DEF IdsInv
  <2>4. QED
    BY <2>1, <2>2, <2>3, NobodyIs DEF MailInv, RecordedIds, TypeOK
<1>4. CASE Drain
  <2>1. /\ ReadyIds' = ReadyIds \ Asked(effects) /\ Asked(effects) \subseteq ReadyIds
        /\ ShownIds' = ShownIds \cup Asked(effects)
    BY <1>4, DrainIds
  <2>2. handles' = handles \cup Asked(effects) /\ UNCHANGED <<slots, wakers, owner, accepted>>
    BY <1>4 DEF Drain
  <2>3. QED
    BY <2>1, <2>2 DEF MailInv, RecordedIds
<1>5. CASE UNCHANGED <<inner, shown, next>>
  <2>1. ReadyIds' = ReadyIds /\ ShownIds' = ShownIds
    BY <1>5, RestIds
  <2>2. ASSUME NEW t \in Threads, NEW id \in Ids, Collect(t, id) PROVE MailInv'
    BY <2>1, <2>2 DEF Collect, MailInv, RecordedIds, TypeOK
  <2>3. ASSUME NEW t \in Threads, NEW id \in Ids, KeepWaker(t, id) PROVE MailInv'
    BY <2>1, <2>3 DEF KeepWaker, MailInv, RecordedIds, TypeOK
  <2>4. ASSUME NEW t \in Threads, NEW id \in Ids, Close(t, id) PROVE MailInv'
    BY <2>1, <2>4 DEF Close, MailInv, RecordedIds, TypeOK
  <2>5. ASSUME NEW t \in Threads, NEW u \in Threads, NEW id \in Ids, Move(t, u, id) PROVE MailInv'
    BY <2>1, <2>5, NobodyIs DEF Move, mail, MailInv, RecordedIds, TypeOK
  <2>6. ASSUME NEW id \in Ids, Deliver(id) PROVE MailInv'
    <3>1. id \notin ReadyIds
      BY <2>6 DEF Deliver, MailInv, IdsInv
    <3>2. QED
      BY <2>1, <2>6, <3>1 DEF Deliver, MailInv, RecordedIds, TypeOK
  <2>7. CASE UNCHANGED vars
    BY <1>1, <2>1, <2>7 DEF vars, mail
  <2>8. QED
    BY <1>2, <1>3, <1>4, <2>2, <2>3, <2>4, <2>5, <2>6, <2>7, Actions
<1>6. QED
  BY <1>2, <1>3, <1>4, <1>5, RestSteps

LEMMA MailInit == Init => MailInv
  BY DEF Init, MailInv

OutboxInv == TypeOK /\ OrderInv /\ IdsInv /\ MailInv

LEMMA InvHolds == Spec => []OutboxInv
<1>1. Init => OutboxInv
  BY TypeInit, OrderInit, IdsInit, MailInit DEF OutboxInv
<1>2. OutboxInv /\ [Next]_vars => OutboxInv'
  BY TypeKept, OrderKept, IdsKept, MailKept DEF OutboxInv
<1>3. QED
  BY <1>1, <1>2, PTL DEF Spec

\* Slots, wakers and handles go with requests somebody still holds, and no
\* handle reaches the host before its slot is there (asking.rs, mail.rs).
THEOREM SlotsStayOwned == Spec => []SlotsAreOwned
<1>1. OutboxInv => SlotsAreOwned
  BY RecordedIs DEF OutboxInv, MailInv, SlotsAreOwned, RecordedIds, TypeOK
<1>2. QED
  BY <1>1, InvHolds, PTL

-----------------------------------------------------------------------------
(* What is reported closed *)

OnceEach(s) == \A i, j \in DOMAIN s : s[i] = s[j] => i = j

LEMMA AppendOnce ==
  ASSUME NEW s \in Seq(Ids), NEW id \in Ids
  PROVE  /\ Elements(Append(s, id)) = Elements(s) \cup {id}
         /\ OnceEach(s) /\ id \notin Elements(s) => OnceEach(Append(s, id))
<1> DEFINE new == Append(s, id)
<1>1. /\ DOMAIN s = 1 .. Len(s) /\ Len(s) \in Nat /\ DOMAIN new = 1 .. Len(s) + 1
      /\ \A i \in 1 .. Len(s) : new[i] = s[i]
      /\ new[Len(s) + 1] = id
  BY AppendProperties, LenProperties
<1> HIDE DEF new
<1>2. \A i \in DOMAIN new : (i \in DOMAIN s /\ new[i] = s[i]) \/ (i = Len(s) + 1 /\ new[i] = id)
  BY <1>1
<1>3. /\ \A i \in DOMAIN s : i \in DOMAIN new /\ new[i] = s[i]
      /\ Len(s) + 1 \in DOMAIN new
  BY <1>1
<1>4. Elements(new) = Elements(s) \cup {id}
  <2>1. \A x : x \in Elements(new) => x \in Elements(s) \cup {id}
    BY <1>2 DEF Elements
  <2>2. \A x : x \in Elements(s) \cup {id} => x \in Elements(new)
    BY <1>1, <1>3 DEF Elements
  <2>3. QED
    BY <2>1, <2>2
<1>5. ASSUME OnceEach(s), id \notin Elements(s) PROVE OnceEach(new)
  <2>1. \A i \in DOMAIN s : s[i] # id
    BY <1>5 DEF Elements
  <2>2. QED
    BY <1>2, <1>5, <2>1 DEF OnceEach
<1>6. QED
  BY <1>4, <1>5 DEF new

Reports == reported \o closed
Abandoned == {id \in RecordedIds : owner[id] = Nobody /\ id \notin accepted}

ClosedInv == Elements(Reports) = Abandoned /\ OnceEach(Reports)

LEMMA ReportsAre ==
  ASSUME TypeOK
  PROVE  /\ Reports \in Seq(Ids)
         /\ \A id \in Ids : reported \o Append(closed, id) = Append(Reports, id)
         /\ Reports \o << >> = Reports
<1>1. reported \in Seq(Ids) /\ closed \in Seq(Ids)
  BY DEF TypeOK
<1>2. Reports \in Seq(Ids)
  BY <1>1, ConcatProperties DEF Reports
<1>3. QED
  BY <1>1, <1>2, ConcatAssociative, ConcatEmptySeq, AppendIsConcat, EmptySeq DEF Reports

LEMMA ClosedKept == OutboxInv /\ ClosedInv /\ [Next]_vars => ClosedInv'
<1> SUFFICES ASSUME OutboxInv, ClosedInv, [Next]_vars PROVE ClosedInv'
  OBVIOUS
<1> USE DEF OutboxInv
<1>1. ASSUME UNCHANGED <<reported, closed>>, UNCHANGED Abandoned PROVE ClosedInv'
  <2>1. Reports' = Reports
    BY <1>1 DEF Reports
  <2>2. QED
    BY <1>1, <2>1 DEF ClosedInv
<1>2. ASSUME NEW t \in Threads, TellEffect(t) \/ Mint(t) \/ Unreserve(t) PROVE ClosedInv'
  <2>1. UNCHANGED <<mail, owner, accepted, reported>>
    BY <1>2 DEF TellEffect, Mint, Unreserve
  <2>2. UNCHANGED <<ReadyIds, ShownIds>>
    BY <1>2, TellIds, MintIds, UnreserveIds
  <2>3. QED
    BY <1>1, <2>1, <2>2 DEF Abandoned, RecordedIds, mail
<1>3. ASSUME NEW t \in Threads, Open(t) PROVE ClosedInv'
  <2> DEFINE id == Innermost(t)
  <2>1. /\ id \in ReservedIds /\ id \in Ids
        /\ ReadyIds' = ReadyIds \cup {id} /\ ShownIds' = ShownIds
    BY <1>3, OpenIds, IdsAre
  <2>2. owner' = [owner EXCEPT ![id] = t] /\ UNCHANGED <<closed, reported, accepted>>
    BY <1>3 DEF Open
  <2> HIDE DEF id
  <2>3. id \notin RecordedIds
    BY <2>1, OneOrOther DEF IdsInv, RecordedIds, ReservedIds, ReadyIds
  <2>4. Abandoned' = Abandoned
    <3>1. \A n \in Ids : owner'[n] = IF n = id THEN t ELSE owner[n]
      BY <2>1, <2>2 DEF TypeOK
    <3>2. RecordedIds' = RecordedIds \cup {id} /\ RecordedIds \subseteq Ids /\ accepted' = accepted
      BY <2>1, <2>2, IdsAre DEF RecordedIds
    <3>3. QED
      BY <2>1, <2>3, <3>1, <3>2, NobodyIs DEF Abandoned
  <2>5. QED
    BY <1>1, <2>2, <2>4
<1>4. CASE Drain
  <2>1. /\ ReadyIds' = ReadyIds \ Asked(effects) /\ Asked(effects) \subseteq ReadyIds
        /\ ShownIds' = ShownIds \cup Asked(effects)
    BY <1>4, DrainIds
  <2>2. RecordedIds' = RecordedIds
    BY <2>1 DEF RecordedIds
  <2>3. Abandoned' = Abandoned
    BY <1>4, <2>2 DEF Abandoned, Drain
  <2>4. Reports' = Reports
    <3>1. Reports' = Reports \o << >>
      BY <1>4 DEF Drain, Reports
    <3>2. QED
      BY <3>1, ReportsAre
  <2>5. QED
    BY <2>3, <2>4 DEF ClosedInv
<1>5. CASE UNCHANGED <<inner, shown, next>>
  <2>1. RecordedIds' = RecordedIds
    BY <1>5, RestIds DEF RecordedIds
  <2>2. ASSUME NEW t \in Threads, NEW id \in Ids, Collect(t, id) \/ KeepWaker(t, id) PROVE ClosedInv'
    BY <1>1, <2>1, <2>2 DEF Collect, KeepWaker, Abandoned
  <2>3. ASSUME NEW t \in Threads, NEW id \in Ids, Close(t, id) PROVE ClosedInv'
    <3>1. id \in RecordedIds /\ (slots[id] = "waiting" <=> id \notin accepted) /\ id \notin Abandoned
      BY <2>3, NobodyIs DEF Close, MailInv, Abandoned
    <3>2. \A n \in Ids : owner'[n] = IF n = id THEN Nobody ELSE owner[n]
      BY <2>3 DEF Close, TypeOK
    <3>3. RecordedIds \subseteq Ids
      BY IdsAre DEF RecordedIds
    <3>4. accepted' = accepted /\ reported' = reported
      BY <2>3 DEF Close
    <3>5. CASE slots[id] = "waiting"
      <4>1. Abandoned' = Abandoned \cup {id}
        BY <2>1, <3>1, <3>2, <3>3, <3>4, <3>5 DEF Abandoned
      <4>2. Reports' = Append(Reports, id)
        BY <2>3, <3>4, <3>5, ReportsAre DEF Close, Reports
      <4>3. QED
        BY <3>1, <4>1, <4>2, AppendOnce, ReportsAre DEF ClosedInv
    <3>6. CASE slots[id] # "waiting"
      <4>1. Abandoned' = Abandoned
        BY <2>1, <3>1, <3>2, <3>3, <3>4, <3>6 DEF Abandoned
      <4>2. QED
        BY <1>1, <2>3, <3>4, <3>6, <4>1 DEF Close
    <3>7. QED
      BY <3>5, <3>6
  <2>4. ASSUME NEW t \in Threads, NEW u \in Threads, NEW id \in Ids, Move(t, u, id) PROVE ClosedInv'
    <3>1. \A n \in Ids : owner'[n] = IF n = id THEN u ELSE owner[n]
      BY <2>4 DEF Move, TypeOK
    <3>2. RecordedIds \subseteq Ids
      BY IdsAre DEF RecordedIds
    <3>3. Abandoned' = Abandoned
      BY <2>1, <2>4, <3>1, <3>2, NobodyIs DEF Abandoned, Move
    <3>4. QED
      BY <1>1, <2>4, <3>3 DEF Move, mail
  <2>5. ASSUME NEW id \in Ids, Deliver(id) PROVE ClosedInv'
    <3>1. accepted' = accepted \/ (accepted' = accepted \cup {id} /\ slots[id] = "waiting")
      BY <2>5 DEF Deliver
    <3>2. slots[id] = "waiting" => owner[id] # Nobody
      BY DEF MailInv
    <3>3. Abandoned' = Abandoned
      BY <2>1, <2>5, <3>1, <3>2 DEF Abandoned, Deliver
    <3>4. QED
      BY <1>1, <2>5, <3>3 DEF Deliver
  <2>6. CASE UNCHANGED vars
    BY <1>1, <2>1, <2>6 DEF vars, Abandoned
  <2>7. QED
    BY <1>2, <1>3, <1>4, <2>2, <2>3, <2>4, <2>5, <2>6, Actions
<1>6. QED
  BY <1>2, <1>3, <1>4, <1>5, RestSteps

LEMMA ClosedInit == Init => ClosedInv
<1> SUFFICES ASSUME Init PROVE ClosedInv
  OBVIOUS
<1>1. Pending = << >> /\ shown = << >>
  BY DEF Init, Pending, None
<1>2. DOMAIN << >> = {} /\ Reports = << >>
  BY ConcatEmptySeq, EmptySeq DEF Init, Reports
<1>3. RecordedIds = {}
  BY <1>1, <1>2 DEF RecordedIds, ReadyIds, ShownIds, ReadyIn, Asked
<1>4. QED
  BY <1>2, <1>3 DEF ClosedInv, Elements, OnceEach, Abandoned

\* The host is told to stop the work of every request abandoned unanswered, of
\* no other, and once (Awaiting's drop, Outbox::drain).
THEOREM ClosedOnceEach == Spec => []ClosedExactly
<1>1. Spec => []ClosedInv
  BY InvHolds, ClosedInit, ClosedKept, PTL DEF Spec
<1>2. OutboxInv /\ ClosedInv => ClosedExactly
  BY RecordedIs DEF OutboxInv, ClosedInv, ClosedExactly, Reports, Abandoned, OnceEach
<1>3. QED
  BY <1>1, <1>2, InvHolds, PTL

-----------------------------------------------------------------------------
(* Places and their builders *)

\* A request is being built, by one thread and in one `make`, exactly while it
\* has a place reserved.
MakingInv ==
  /\ \A t \in Threads : \A i \in DOMAIN making[t] : making[t][i] \in ReservedIds
  /\ \A id \in ReservedIds : \E t \in Threads : \E i \in DOMAIN making[t] : making[t][i] = id
  /\ \A t, u \in Threads : \A i \in DOMAIN making[t], j \in DOMAIN making[u] :
       making[t][i] = making[u][j] => t = u /\ i = j

LEMMA ReservedIs ==
  ASSUME OrderInv, NEW id \in Ids
  PROVE  id \in ReservedIds <=> building = id \/ \E i \in DOMAIN held : held[i] = Reserved(id)
<1> DEFINE m == Len(effects) + Under(building)
<1>1. ArePlaces(Pending, effects, building, held)
  BY PendingIs DEF OrderInv
<1>2. /\ Pending \in Seq(Place) /\ held \in Seq(Place)
      /\ DOMAIN Pending = 1 .. Len(Pending) /\ DOMAIN held = 1 .. Len(held)
      /\ Len(Pending) = m + Len(held) /\ m \in Nat /\ Len(held) \in Nat
  BY <1>1, LenProperties DEF ArePlaces, OrderInv, InnerOK
<1>3. ASSUME NEW i \in DOMAIN Pending, Pending[i] = Reserved(id)
      PROVE  building = id \/ \E j \in DOMAIN held : held[j] = Reserved(id)
  <2>1. CASE i <= Len(effects)
    <3>1. Pending[i] = Ready(effects[i])
      BY <1>1, <1>2, <2>1 DEF ArePlaces
    <3>2. QED
      BY <1>3, <3>1, KindsDiffer
  <2>2. CASE i > Len(effects) /\ i <= m
    <3>1. building # None /\ i = Len(effects) + 1
      BY <1>1, <1>2, <2>2 DEF Under, ArePlaces
    <3>2. Reserved(building) = Reserved(id)
      BY <1>1, <1>3, <3>1 DEF ArePlaces
    <3>3. QED
      BY <3>2, ReadyAndReserved, KindsDiffer
  <2>3. CASE i > m
    <3> DEFINE j == i - m
    <3>1. j \in DOMAIN held /\ m + j = i
      BY <1>2, <2>3
    <3> HIDE DEF j
    <3>2. held[j] = Pending[m + j]
      BY <1>1, <1>2, <3>1 DEF ArePlaces
    <3>3. QED
      BY <1>3, <3>1, <3>2
  <2>4. i <= Len(effects) \/ (i > Len(effects) /\ i <= m) \/ i > m
    BY <1>1, <1>2 DEF ArePlaces
  <2>5. QED
    BY <2>1, <2>2, <2>3, <2>4
<1>4. ASSUME building = id PROVE id \in ReservedIds
  <2>1. building # None /\ Under(building) = 1
    BY <1>4 DEF Ids, None, Under
  <2>2. Len(effects) + 1 \in DOMAIN Pending /\ Pending[Len(effects) + 1] = Reserved(id)
    BY <1>1, <1>2, <1>4, <2>1 DEF ArePlaces
  <2>3. QED
    BY <2>2 DEF ReservedIds, ReservedIn
<1>5. ASSUME NEW j \in DOMAIN held, held[j] = Reserved(id) PROVE id \in ReservedIds
  <2>1. m + j \in DOMAIN Pending
    BY <1>2
  <2>2. Pending[m + j] = held[j]
    BY <1>1, <1>2 DEF ArePlaces
  <2>3. QED
    BY <1>5, <2>1, <2>2 DEF ReservedIds, ReservedIn
<1>6. QED
  BY <1>3, <1>4, <1>5 DEF ReservedIds, ReservedIn

\* A place of `held` not ready is some request's.
LEMMA HeldIsReserved ==
  ASSUME OrderInv, IdsInv, NEW j \in DOMAIN held, ~held[j].ready
  PROVE  \E id \in Ids : held[j] = Reserved(id)
<1> DEFINE m == Len(effects) + Under(building)
<1>1. ArePlaces(Pending, effects, building, held)
  BY PendingIs DEF OrderInv
<1>2. /\ Pending \in Seq(Place) /\ held \in Seq(Place)
      /\ DOMAIN Pending = 1 .. Len(Pending) /\ DOMAIN held = 1 .. Len(held)
      /\ Len(Pending) = m + Len(held) /\ m \in Nat /\ Len(held) \in Nat
  BY <1>1, LenProperties DEF ArePlaces, OrderInv, InnerOK
<1>3. m + j \in DOMAIN Pending /\ Pending[m + j] = held[j]
  BY <1>1, <1>2 DEF ArePlaces
<1>4. held[j].ready = FALSE
  <2>1. held[j] \in Place
    BY <1>2, ElementOfSeq
  <2>2. QED
    BY <2>1, PlacesAre
<1> HIDE DEF m
<1>5. QED
  BY <1>3, <1>4 DEF IdsInv, Tidy

\* What a thread is building, after it begins one more and after it ends one.
LEMMA MakingMore ==
  ASSUME TypeOK, MakingInv, NEW t \in Threads, NEW id \in Ids, id \notin ReservedIds,
         making' = [making EXCEPT ![t] = Append(@, id)],
         ReservedIds' = ReservedIds \cup {id}
  PROVE  MakingInv'
<1> DEFINE n == Len(making[t]) + 1
<1>1. /\ making[t] \in Seq(Ids) /\ n \in Nat
      /\ DOMAIN making[t] = 1 .. Len(making[t]) /\ Len(making[t]) \in Nat
      /\ DOMAIN Append(making[t], id) = 1 .. n
      /\ Append(making[t], id)[n] = id
      /\ \A i \in 1 .. Len(making[t]) : Append(making[t], id)[i] = making[t][i]
  BY AppendProperties, LenProperties DEF TypeOK
<1>2. /\ making'[t] = Append(making[t], id)
      /\ \A u \in Threads : u # t => making'[u] = making[u]
  BY DEF TypeOK
<1>3. ASSUME NEW u \in Threads, NEW i \in DOMAIN making'[u]
      PROVE  \/ u = t /\ i = n /\ making'[u][i] = id
             \/ i \in DOMAIN making[u] /\ making'[u][i] = making[u][i]
  BY <1>1, <1>2
<1>4. ASSUME NEW u \in Threads, NEW i \in DOMAIN making[u]
      PROVE  i \in DOMAIN making'[u] /\ making'[u][i] = making[u][i]
  BY <1>1, <1>2
<1>5. n \in DOMAIN making'[t] /\ making'[t][n] = id
  BY <1>1, <1>2
<1> HIDE DEF n
<1>6. \A u \in Threads : \A i \in DOMAIN making'[u] : making'[u][i] \in ReservedIds'
  BY <1>3 DEF MakingInv
<1>7. \A x \in ReservedIds' : \E u \in Threads : \E i \in DOMAIN making'[u] : making'[u][i] = x
  BY <1>4, <1>5 DEF MakingInv
<1>8. ASSUME NEW u \in Threads, NEW v \in Threads, NEW i \in DOMAIN making'[u], NEW j \in DOMAIN making'[v],
             making'[u][i] = making'[v][j]
      PROVE  u = v /\ i = j
  BY <1>3, <1>8 DEF MakingInv
<1>9. QED
  BY <1>6, <1>7, <1>8 DEF MakingInv

LEMMA MakingLess ==
  ASSUME TypeOK, MakingInv, NEW t \in Threads, making[t] # << >>,
         making' = Outer(t), ReservedIds' = ReservedIds \ {Innermost(t)}
  PROVE  MakingInv'
<1> DEFINE n == Len(making[t])
           id == Innermost(t)
<1>1. /\ making[t] \in Seq(Ids) /\ n \in Nat \ {0}
      /\ DOMAIN making[t] = 1 .. n
  BY LenProperties, EmptySeq DEF TypeOK
<1>2. /\ DOMAIN SubSeq(making[t], 1, n - 1) = 1 .. n - 1
      /\ \A i \in 1 .. n - 1 : SubSeq(making[t], 1, n - 1)[i] = making[t][i]
  <2>1. /\ SubSeq(making[t], 1, n - 1) \in Seq(Ids)
        /\ Len(SubSeq(making[t], 1, n - 1)) = IF 1 <= n - 1 THEN n - 1 - 1 + 1 ELSE 0
        /\ \A i \in 1 .. n - 1 - 1 + 1 : SubSeq(making[t], 1, n - 1)[i] = making[t][1 + i - 1]
    <3>1. \A i \in 1 .. n : making[t][i] \in Ids
      BY <1>1, ElementOfSeq
    <3>2. QED
      BY <1>1, <3>1, SubSeqProperties
  <2>2. QED
    BY <1>1, <2>1, LenProperties
<1>3. /\ making'[t] = SubSeq(making[t], 1, n - 1)
      /\ \A u \in Threads : u # t => making'[u] = making[u]
  BY DEF Outer, TypeOK
<1>4. n \in DOMAIN making[t] /\ making[t][n] = id
  BY <1>1 DEF Innermost
<1>5. ASSUME NEW u \in Threads, NEW i \in DOMAIN making'[u]
      PROVE  i \in DOMAIN making[u] /\ making'[u][i] = making[u][i] /\ (u = t => i # n)
  BY <1>1, <1>2, <1>3
<1>6. ASSUME NEW u \in Threads, NEW i \in DOMAIN making[u], ~(u = t /\ i = n)
      PROVE  i \in DOMAIN making'[u] /\ making'[u][i] = making[u][i]
  BY <1>1, <1>2, <1>3, <1>6
<1> HIDE DEF n, id
<1>7. ASSUME NEW u \in Threads, NEW i \in DOMAIN making'[u] PROVE making'[u][i] \in ReservedIds'
  <2>1. making[u][i] # id
    BY <1>4, <1>5 DEF MakingInv
  <2>2. QED
    BY <1>5, <2>1 DEF MakingInv, id
<1>8. ASSUME NEW x \in ReservedIds'
      PROVE  \E u \in Threads : \E i \in DOMAIN making'[u] : making'[u][i] = x
  <2>1. x \in ReservedIds /\ x # id
    BY DEF id
  <2>2. PICK u \in Threads : \E i \in DOMAIN making[u] : making[u][i] = x
    BY <2>1 DEF MakingInv
  <2>3. PICK i \in DOMAIN making[u] : making[u][i] = x
    BY <2>2
  <2>4. QED
    BY <1>4, <1>6, <2>1, <2>3
<1>9. ASSUME NEW u \in Threads, NEW v \in Threads, NEW i \in DOMAIN making'[u], NEW j \in DOMAIN making'[v],
             making'[u][i] = making'[v][j]
      PROVE  u = v /\ i = j
  BY <1>5, <1>9 DEF MakingInv
<1>10. QED
  BY <1>7, <1>8, <1>9 DEF MakingInv

LEMMA MakingKept ==
  TypeOK /\ OrderInv /\ IdsInv /\ MakingInv /\ [Next]_vars => MakingInv'
<1> SUFFICES ASSUME TypeOK, OrderInv, IdsInv, MakingInv, [Next]_vars PROVE MakingInv'
  OBVIOUS
<1>1. ASSUME UNCHANGED making, UNCHANGED ReservedIds PROVE MakingInv'
  BY <1>1 DEF MakingInv
<1>2. ASSUME NEW t \in Threads, TellEffect(t) PROVE MakingInv'
  BY <1>1, <1>2, TellIds DEF TellEffect
<1>3. ASSUME NEW t \in Threads, Mint(t) PROVE MakingInv'
  <2>1. next \in Ids /\ next \notin ReservedIds /\ ReservedIds' = ReservedIds \cup {next}
    BY <1>3, MintIds
  <2>2. QED
    BY <1>3, <2>1, MakingMore DEF Mint
<1>4. ASSUME NEW t \in Threads, Open(t) \/ Unreserve(t) PROVE MakingInv'
  <2>1. ReservedIds' = ReservedIds \ {Innermost(t)}
    BY <1>4, OpenIds, UnreserveIds
  <2>2. QED
    BY <1>4, <2>1, MakingLess DEF Open, Unreserve
<1>5. CASE Drain
  BY <1>1, <1>5, DrainIds DEF Drain
<1>6. CASE UNCHANGED <<inner, shown, next>>
  <2>1. UNCHANGED ReservedIds
    BY <1>6, RestIds
  <2>2. ASSUME NEW t \in Threads, NEW id \in Ids,
               Collect(t, id) \/ KeepWaker(t, id) \/ Close(t, id) \/ \E u \in Threads : Move(t, u, id)
        PROVE  UNCHANGED making
    BY <2>2 DEF Collect, KeepWaker, Close, Move
  <2>3. ASSUME NEW id \in Ids, Deliver(id) PROVE UNCHANGED making
    BY <2>3 DEF Deliver
  <2>4. CASE UNCHANGED vars
    BY <1>1, <2>1, <2>4 DEF vars
  <2>5. QED
    BY <1>1, <1>2, <1>3, <1>4, <1>5, <2>1, <2>2, <2>3, <2>4, Actions
<1>7. QED
  BY <1>2, <1>3, <1>4, <1>5, <1>6, RestSteps

LEMMA MakingInit == Init => MakingInv
<1> SUFFICES ASSUME Init PROVE MakingInv
  OBVIOUS
<1>1. Pending = << >>
  BY DEF Init, Pending, None
<1>2. DOMAIN << >> = {}
  OBVIOUS
<1>3. ReservedIds = {} /\ \A t \in Threads : DOMAIN making[t] = {}
  BY <1>1, <1>2 DEF ReservedIds, ReservedIn, Init
<1>4. QED
  BY <1>3 DEF MakingInv

LEMMA InvBuilds == OutboxInv /\ MakingInv => PlacesHaveBuilders
<1> SUFFICES ASSUME OutboxInv, MakingInv PROVE PlacesHaveBuilders
  OBVIOUS
<1> USE DEF OutboxInv
<1> DEFINE reserved == [t \in Threads |-> {id \in Ids :
                         /\ id \in Elements(making[t])
                         /\ building = id \/ Reserved(id) \in Elements(held)}]
<1>1. \A id \in Ids : id \in ReservedIds <=> building = id \/ Reserved(id) \in Elements(held)
  BY ReservedIs DEF Elements
<1>2. ASSUME NEW t \in Threads PROVE Elements(making[t]) \subseteq ReservedIds
  <2>1. \A i \in DOMAIN making[t] : making[t][i] \in ReservedIds
    BY DEF MakingInv
  <2>2. QED
    BY <2>1 DEF Elements
<1>3. \A t \in Threads : reserved[t] = Elements(making[t])
  BY <1>1, <1>2, IdsAre
<1>4. \A id \in ReservedIds : \E t \in Threads : id \in Elements(making[t])
  BY DEF MakingInv, Elements
<1> HIDE DEF reserved
<1>5. ASSUME NEW i \in DOMAIN held, ~held[i].ready
      PROVE  \E t \in Threads : held[i].effect.id \in reserved[t]
  <2>1. PICK id \in Ids : held[i] = Reserved(id)
    BY <1>5, HeldIsReserved
  <2>2. id \in ReservedIds /\ held[i].effect.id = id
    BY <2>1, ReservedIs, ReadyAndReserved, KindsDiffer
  <2>3. QED
    BY <1>3, <1>4, <2>2
<1>6. ASSUME building # None PROVE \E t \in Threads : building \in reserved[t]
  <2>1. building \in Ids
    BY <1>6 DEF TypeOK
  <2>2. QED
    BY <1>1, <1>3, <1>4, <2>1
<1>7. QED
  BY <1>3, <1>5, <1>6 DEF PlacesHaveBuilders, reserved

\* Each effect being built has a place to go, and no place is left behind by a
\* `make` that ended (asking.rs, Outbox::open and unreserve).
THEOREM PlacesKeepBuilders == Spec => []PlacesHaveBuilders
<1>1. Spec => []OutboxInv
  BY InvHolds
<1>2. OutboxInv /\ MakingInv /\ [Next]_vars => MakingInv'
  BY MakingKept DEF OutboxInv
<1>3. Spec => []MakingInv
  BY <1>1, <1>2, MakingInit, PTL DEF Spec
<1>4. QED
  BY <1>1, <1>3, InvBuilds, PTL


-----------------------------------------------------------------------------
(* The machine around it                                                     *)

\* What a step is: of the host's calls, a reply that is delivered and the end
\* of a poll change more than the phase.
LEMMA HostSteps ==
  ASSUME [MachineNext]_allVars
  PROVE  \/ /\ UNCHANGED <<vars, status, pending, highest_shown, never_shown, alone>>
            /\ \/ phase' = phase
               \/ phase = "idle" /\ phase' = "polling"
               \/ phase = "polling" /\ making[Poller] = << >> /\ phase' = "ending"
         \/ \E id \in Ids : ReplyOk(id)
         \/ RoutineStep \/ PassAwaiting \/ OtherStep \/ Suspend \/ Complete
<1> DEFINE Quiet == UNCHANGED <<vars, status, pending, highest_shown, never_shown, alone>>
<1>1. CASE Resume
  BY <1>1 DEF Resume, hostVars
<1>2. ASSUME NEW id \in 0 .. MaxId + 1, ReplyRefused(id) PROVE Quiet /\ phase' = phase
  BY <1>2 DEF ReplyRefused, allVars, machineVars
<1>3. ASSUME NEW id \in Ids, ReplyWrongKind(id) \/ ReplyMalformed(id)
      PROVE  Quiet /\ phase' = phase
  <2>1. id \in pending
    BY <1>3 DEF ReplyWrongKind, ReplyMalformed, CodeOf
  <2>2. pending' = pending
    BY <1>3, <2>1 DEF ReplyWrongKind, ReplyMalformed
  <2>3. QED
    BY <1>3, <2>2 DEF ReplyWrongKind, ReplyMalformed
<1>4. CASE Return
  BY <1>4 DEF Return, hostVars
<1>5. CASE UNCHANGED allVars
  BY <1>5 DEF allVars, machineVars
<1>6. QED
  BY <1>1, <1>2, <1>3, <1>4, <1>5 DEF MachineNext

\* A machine's steps, as the outbox's.
LEMMA StepsAre ==
  /\ RoutineStep => /\ \/ TellEffect(Poller) \/ Mint(Poller) \/ Open(Poller) \/ Unreserve(Poller)
                       \/ \E id \in Ids : Collect(Poller, id) \/ KeepWaker(Poller, id) \/ Close(Poller, id)
                    /\ phase \in {"polling", "ending"}
                    /\ UNCHANGED <<phase, status, pending, highest_shown, never_shown, alone>>
                    /\ phase = "ending" => UNCHANGED making
  /\ PassAwaiting => /\ \E t \in Threads, u \in Threads, id \in Ids : Move(t, u, id)
                     /\ phase = "polling" /\ alone' = FALSE
                     /\ UNCHANGED <<phase, status, pending, highest_shown, never_shown>>
  /\ OtherStep => /\ \E t \in Threads \ {Poller} :
                       \/ TellEffect(t) \/ Mint(t) \/ Open(t) \/ Unreserve(t)
                       \/ \E id \in Ids : Collect(t, id) \/ KeepWaker(t, id) \/ Close(t, id)
                  /\ alone' = FALSE
                  /\ UNCHANGED <<phase, status, pending, highest_shown, never_shown>>
<1>1. ASSUME RoutineStep, phase = "ending" PROVE UNCHANGED making
  BY <1>1 DEF RoutineStep, TellEffect, Close
<1>2. QED
  BY <1>1, PollerAssumption DEF RoutineStep, PassAwaiting, OtherStep, machineVars, hostVars

LEMMA StepIsOutboxStep == [MachineNext]_allVars => [Next]_vars
<1> SUFFICES ASSUME [MachineNext]_allVars PROVE [Next]_vars
  OBVIOUS
<1>1. ASSUME NEW id \in Ids, ReplyOk(id) PROVE Next
  BY <1>1 DEF ReplyOk, Next
<1>2. ASSUME NEW t \in Threads,
             \/ TellEffect(t) \/ Mint(t) \/ Open(t) \/ Unreserve(t)
             \/ \E id \in Ids : Collect(t, id) \/ KeepWaker(t, id) \/ Close(t, id)
      PROVE  Next
  BY <1>2 DEF Next, Recording, Awaiting
<1>3. ASSUME NEW t \in Threads, NEW u \in Threads, NEW id \in Ids, Move(t, u, id) PROVE Next
  BY <1>3 DEF Next, Awaiting
<1>4. Suspend \/ Complete => Next
  BY DEF Suspend, Complete, Next
<1>5. UNCHANGED vars \/ Next
  BY <1>1, <1>2, <1>3, <1>4, HostSteps, StepsAre, PollerAssumption
<1>6. QED
  BY <1>5

\* What holds of every outbox.
Beneath == OutboxInv /\ ClosedInv /\ MakingInv

LEMMA BeneathHolds == MachineSpec => []Beneath
<1>1. Init => Beneath
  BY TypeInit, OrderInit, IdsInit, MailInit, ClosedInit, MakingInit DEF OutboxInv, Beneath
<1>2. Beneath /\ [Next]_vars => Beneath'
  BY TypeKept, OrderKept, IdsKept, MailKept, ClosedKept, MakingKept DEF OutboxInv, Beneath
<1>3. MachineInit => Init
  BY DEF MachineInit
<1>4. QED
  BY <1>1, <1>2, <1>3, StepIsOutboxStep, PTL DEF MachineSpec

-----------------------------------------------------------------------------
(* The ids a batch shows *)

LEMMA LeastExists ==
  ASSUME NEW T, T \subseteq Nat, T # {}
  PROVE  \E x \in T : \A y \in T : ~(y < x)
<1>1. \E x \in T : \A y \in T : ~(<<y, x>> \in OpToRel(<, Nat))
  BY NatLessThanWellFounded, WFMin, Zenon
<1>2. \A x, y \in Nat : y < x => <<y, x>> \in OpToRel(<, Nat)
  BY Zenon DEF OpToRel
<1>3. QED
  BY <1>1, <1>2

LEMMA GreatestExists ==
  ASSUME NEW S, S \subseteq Ids, S # {}
  PROVE  \E top \in S : \A id \in S : id <= top
<1> DEFINE Above == {m \in Nat : \A id \in S : id <= m}
<1>1. MaxId \in Above /\ \A id \in S : id \in Nat \ {0}
  BY BoundsAssumption DEF Ids
<1>2. \E top \in Above : \A m \in Above : ~(m < top)
  <2>1. Above \subseteq Nat /\ Above # {}
    BY <1>1
  <2> HIDE DEF Above
  <2>2. QED
    BY <2>1, LeastExists
<1> PICK top \in Above : \A m \in Above : ~(m < top)
  BY <1>2
<1>3. \A m \in Above : ~(m < top)
  OBVIOUS
<1>4. top \in S
  <2> SUFFICES ASSUME top \notin S PROVE FALSE
    OBVIOUS
  <2>1. \A id \in S : id < top
    BY <1>1
  <2>2. top - 1 \in Above /\ top - 1 < top
    <3>1. PICK id \in S : TRUE
      OBVIOUS
    <3>2. top - 1 \in Nat
      BY <1>1, <2>1, <3>1
    <3>3. \A x \in S : x <= top - 1
      BY <1>1, <2>1
    <3>4. QED
      BY <3>2, <3>3
  <2>3. QED
    BY <1>3, <2>2
<1>5. QED
  BY <1>4

LEMMA ShowIs ==
  ASSUME TypeOK, highest_shown \in 0 .. MaxId, Show
  PROVE  /\ Asked(effects) \subseteq Ids
         /\ pending' = (pending \cup Asked(effects)) \ Elements(closed)
         /\ highest_shown' \in 0 .. MaxId
         /\ Asked(effects) = {} => highest_shown' = highest_shown
         /\ Asked(effects) # {} => highest_shown' \in Asked(effects)
         /\ \A id \in Asked(effects) : id <= highest_shown'
         /\ never_shown' = never_shown \cup {id \in highest_shown + 1 .. highest_shown' : id \notin Asked(effects)}
<1> DEFINE ids == Asked(effects)
           greatest == CHOOSE id \in ids : \A other \in ids : other <= id
<1>1. ids \subseteq Ids
  BY AskedAre DEF TypeOK
<1> HIDE DEF ids
<1>2. ids # {} => greatest \in ids /\ \A other \in ids : other <= greatest
  BY <1>1, GreatestExists
<1>3. /\ pending' = (pending \cup ids) \ Elements(closed)
      /\ highest_shown' = IF ids = {} THEN highest_shown ELSE greatest
      /\ never_shown' = never_shown \cup {id \in highest_shown + 1 .. highest_shown' : id \notin ids}
  BY DEF Show, ids
<1> HIDE DEF greatest
<1>4. QED
  BY <1>1, <1>2, <1>3 DEF ids, Ids

LEMMA ElementsAre ==
  ASSUME NEW S, NEW s \in Seq(S)
  PROVE  Elements(s) \subseteq S
<1>1. \A i \in DOMAIN s : s[i] \in S
  BY LenProperties, ElementOfSeq
<1>2. QED
  BY <1>1 DEF Elements

LEMMA MachineTypeKept == MachineTypeOK /\ [MachineNext]_allVars => MachineTypeOK'
<1> SUFFICES ASSUME MachineTypeOK, [MachineNext]_allVars PROVE MachineTypeOK'
  OBVIOUS
<1>1. TypeOK'
  BY StepIsOutboxStep, TypeKept DEF MachineTypeOK
<1>2. CASE \/ UNCHANGED <<status, pending, highest_shown, never_shown, alone>>
           \/ UNCHANGED <<status, pending, highest_shown, never_shown>> /\ alone' = FALSE
  <2>1. phase' \in Phases
    <3>1. \A id \in Ids : ReplyOk(id) => phase' \in Phases
      BY DEF ReplyOk, Phases
    <3>2. Suspend \/ Complete => phase' \in Phases
      BY DEF Suspend, Complete, Phases
    <3>3. QED
      BY <3>1, <3>2, HostSteps, StepsAre DEF MachineTypeOK, Phases
  <2>2. QED
    BY <1>1, <1>2, <2>1 DEF MachineTypeOK
<1>3. ASSUME NEW id \in Ids, ReplyOk(id) PROVE MachineTypeOK'
  BY <1>1, <1>3 DEF MachineTypeOK, ReplyOk, Phases
<1>4. CASE Suspend \/ Complete
  <2>1. Show
    BY <1>4 DEF Suspend, Complete
  <2>2. pending' \subseteq Ids /\ highest_shown' \in 0 .. MaxId
    BY <2>1, ShowIs DEF MachineTypeOK
  <2>3. {id \in highest_shown + 1 .. highest_shown' : id \notin Asked(effects)} \subseteq Ids
    <3>1. \A a, b \in 0 .. MaxId : a + 1 .. b \subseteq 1 .. MaxId
      BY BoundsAssumption
    <3>2. QED
      BY <2>2, <3>1 DEF MachineTypeOK, Ids
  <2>4. never_shown' \subseteq Ids
    BY <2>1, <2>3, ShowIs DEF MachineTypeOK
  <2>5. phase' \in Phases /\ status' \in {"Awaiting", "Idle", "Complete"} /\ alone' = alone
    BY <1>4 DEF Suspend, Complete, Phases, PendingStatus
  <2>6. QED
    BY <1>1, <2>2, <2>4, <2>5 DEF MachineTypeOK
<1>5. QED
  BY <1>2, <1>3, <1>4, HostSteps, StepsAre

LEMMA MachineTypeInit == MachineInit => MachineTypeOK
  BY TypeInit, BoundsAssumption DEF MachineInit, MachineTypeOK, Phases

\* The machine's tables keep their types (machine.rs).
THEOREM MachineTypeCorrect == MachineSpec => []MachineTypeOK
  BY MachineTypeInit, MachineTypeKept, PTL DEF MachineSpec

-----------------------------------------------------------------------------
(* Ids ascend *)

\* Requests are in the order of their ids, among the places not yet drained.
Ascending(s) ==
  \A i, j \in DOMAIN s : \A a, b \in Ids :
    s[i].effect = Ask(a) /\ s[j].effect = Ask(b) /\ i < j => a < b

Placed == ReservedIds \cup ReadyIds

LEMMA PlacedIn ==
  ASSUME NEW s \in Seq(Place), NEW id \in Ids
  PROVE  id \in ReservedIn(s) \cup ReadyIn(s) <=> \E i \in DOMAIN s : s[i].effect = Ask(id)
<1>1. ASSUME NEW i \in DOMAIN s, s[i].effect = Ask(id)
      PROVE  s[i] = Reserved(id) \/ s[i] = Ready(Ask(id))
  <2>1. s[i] \in Place
    BY LenProperties, ElementOfSeq
  <2>2. QED
    BY <1>1, <2>1 DEF Place, Reserved, Ready
<1>2. Reserved(id).effect = Ask(id) /\ Ready(Ask(id)).effect = Ask(id)
  BY ReadyAndReserved
<1>3. QED
  BY <1>1, <1>2 DEF ReservedIn, ReadyIn

LEMMA AscendsAlong ==
  ASSUME NEW s, NEW t, NEW f \in [DOMAIN t -> DOMAIN s], Ascending(s),
         \A i \in DOMAIN t : t[i].effect = s[f[i]].effect,
         \A i, j \in DOMAIN t : i < j => f[i] < f[j]
  PROVE  Ascending(t)
<1> SUFFICES ASSUME NEW i \in DOMAIN t, NEW j \in DOMAIN t, NEW a \in Ids, NEW b \in Ids,
                    t[i].effect = Ask(a), t[j].effect = Ask(b), i < j
             PROVE  a < b
  BY DEF Ascending
<1>1. f[i] \in DOMAIN s /\ f[j] \in DOMAIN s /\ f[i] < f[j]
  OBVIOUS
<1>2. s[f[i]].effect = Ask(a) /\ s[f[j]].effect = Ask(b)
  OBVIOUS
<1>3. QED
  BY <1>1, <1>2 DEF Ascending

LEMMA AppendAscends ==
  ASSUME NEW s \in Seq(Place), NEW place \in Place, Ascending(s),
         \A id \in Ids : place.effect = Ask(id) =>
           \A a \in ReservedIn(s) \cup ReadyIn(s) : a < id
  PROVE  Ascending(Append(s, place))
<1> DEFINE new == Append(s, place)
<1>1. /\ DOMAIN s = 1 .. Len(s) /\ Len(s) \in Nat /\ DOMAIN new = 1 .. Len(s) + 1
      /\ \A i \in 1 .. Len(s) : new[i] = s[i]
      /\ new[Len(s) + 1] = place
  BY AppendProperties, LenProperties
<1> HIDE DEF new
<1>2. ASSUME NEW i \in DOMAIN new, NEW j \in DOMAIN new, NEW a \in Ids, NEW b \in Ids,
             new[i].effect = Ask(a), new[j].effect = Ask(b), i < j
      PROVE  a < b
  <2>1. i \in DOMAIN s /\ s[i].effect = Ask(a)
    BY <1>1, <1>2
  <2>2. CASE j \in DOMAIN s
    BY <1>1, <1>2, <2>1, <2>2 DEF Ascending
  <2>3. CASE j \notin DOMAIN s
    <3>1. place.effect = Ask(b)
      BY <1>1, <1>2, <2>3
    <3>2. a \in ReservedIn(s) \cup ReadyIn(s)
      BY <2>1, PlacedIn
    <3>3. QED
      BY <3>1, <3>2
  <2>4. QED
    BY <2>2, <2>3
<1>3. QED
  BY <1>2 DEF Ascending, new

LEMMA FillAscends ==
  ASSUME NEW s \in Seq(Place), NEW id \in Ids, NEW k \in DOMAIN s,
         Ascending(s), s[k] = Reserved(id)
  PROVE  Ascending([s EXCEPT ![k] = Ready(Ask(id))])
<1> DEFINE new == [s EXCEPT ![k] = Ready(Ask(id))]
<1>1. Ready(Ask(id)).effect = s[k].effect
  BY ReadyAndReserved
<1>2. DOMAIN new = DOMAIN s /\ \A i \in DOMAIN s : new[i].effect = s[i].effect
  BY <1>1
<1> HIDE DEF new
<1>3. Ascending(new)
  BY <1>2 DEF Ascending
<1>4. QED
  BY <1>3 DEF new

LEMMA RemoveAscends ==
  ASSUME NEW s \in Seq(Place), NEW k \in DOMAIN s, Ascending(s)
  PROVE  Ascending(Without(s, k))
<1> DEFINE t == Without(s, k)
           f == [j \in DOMAIN t |-> IF j < k THEN j ELSE j + 1]
<1>1. /\ DOMAIN s = 1 .. Len(s) /\ Len(s) \in Nat /\ k \in 1 .. Len(s)
      /\ t \in Seq(Place) /\ Len(t) = Len(s) - 1
      /\ \A j \in 1 .. Len(s) - 1 : t[j] = IF j < k THEN s[j] ELSE s[j + 1]
  BY WithoutIs, LenProperties
<1>2. DOMAIN t = 1 .. Len(s) - 1
  BY <1>1, LenProperties
<1> HIDE DEF t
<1>3. f \in [DOMAIN t -> DOMAIN s] /\ \A i, j \in DOMAIN t : i < j => f[i] < f[j]
  BY <1>1, <1>2
<1>4. \A j \in DOMAIN t : t[j].effect = s[f[j]].effect
  BY <1>1, <1>2
<1> HIDE DEF f
<1>5. Ascending(t)
  BY <1>3, <1>4, AscendsAlong
<1>6. QED
  BY <1>5 DEF t

LEMMA TailIs ==
  ASSUME NEW S, NEW s \in Seq(S), NEW m \in 0 .. Len(s)
  PROVE  LET t == SubSeq(s, m + 1, Len(s)) IN
         t \in Seq(S) /\ DOMAIN t = 1 .. Len(s) - m /\ \A j \in DOMAIN t : t[j] = s[m + j]
<1> DEFINE t == SubSeq(s, m + 1, Len(s))
           n == Len(s)
<1>1. n \in Nat /\ m \in Nat /\ m <= n /\ \A i \in 1 .. n : s[i] \in S
  BY LenProperties, ElementOfSeq
<1>2. /\ t \in Seq(S)
      /\ Len(t) = IF m + 1 <= n THEN n - (m + 1) + 1 ELSE 0
      /\ \A i \in 1 .. n - (m + 1) + 1 : t[i] = s[m + 1 + i - 1]
  BY <1>1, SubSeqProperties
<1> HIDE DEF t, n
<1>3. Len(t) = n - m /\ n - (m + 1) + 1 = n - m
  BY <1>1, <1>2
<1>4. DOMAIN t = 1 .. n - m
  BY <1>2, <1>3, LenProperties
<1>5. ASSUME NEW j \in 1 .. n - m PROVE t[j] = s[m + j]
  <2>1. m + 1 + j - 1 = m + j
    BY <1>1
  <2>2. t[j] = s[m + 1 + j - 1]
    BY <1>2, <1>3
  <2>3. QED
    BY <2>1, <2>2
<1>6. QED
  BY <1>2, <1>4, <1>5 DEF t, n

\* What is drained has smaller ids than what stays.
LEMMA DropAscends ==
  ASSUME NEW s \in Seq(Place), NEW e \in Seq(Effects), Ascending(s),
         Len(e) \in 0 .. Len(s), \A i \in 1 .. Len(e) : s[i] = Ready(e[i])
  PROVE  LET t == SubSeq(s, Len(e) + 1, Len(s)) IN
         /\ Ascending(t)
         /\ \A a \in Asked(e), b \in ReservedIn(t) \cup ReadyIn(t) : a < b
<1> DEFINE m == Len(e)
           t == SubSeq(s, m + 1, Len(s))
           f == [j \in DOMAIN t |-> m + j]
<1>1. /\ DOMAIN s = 1 .. Len(s) /\ Len(s) \in Nat /\ m \in Nat /\ m <= Len(s)
      /\ DOMAIN e = 1 .. m
      /\ \A i \in 1 .. Len(s) : s[i] \in Place
  BY LenProperties, ElementOfSeq
<1>2. t \in Seq(Place) /\ DOMAIN t = 1 .. Len(s) - m /\ \A j \in DOMAIN t : t[j] = s[m + j]
  BY <1>1, TailIs
<1> HIDE DEF t
<1>3. f \in [DOMAIN t -> DOMAIN s] /\ \A i, j \in DOMAIN t : i < j => f[i] < f[j]
  BY <1>1, <1>2
<1>4. \A j \in DOMAIN t : t[j].effect = s[f[j]].effect
  BY <1>2
<1>5. Ascending(t)
  <2> HIDE DEF f
  <2>1. QED
    BY <1>3, <1>4, AscendsAlong
<1>6. ASSUME NEW a \in Asked(e), NEW b \in ReservedIn(t) \cup ReadyIn(t) PROVE a < b
  <2>1. a \in Ids /\ \E i \in DOMAIN e : e[i] = Ask(a)
    BY AskedIs
  <2>2. PICK i \in DOMAIN e : e[i] = Ask(a)
    BY <2>1
  <2>3. b \in Ids /\ \E j \in DOMAIN t : t[j].effect = Ask(b)
    BY <1>2, PlacedIn DEF ReservedIn, ReadyIn
  <2>4. PICK j \in DOMAIN t : t[j].effect = Ask(b)
    BY <2>3
  <2>5. i \in DOMAIN s /\ m + j \in DOMAIN s /\ i < m + j
    BY <1>1, <1>2
  <2>6. s[i].effect = Ask(a) /\ s[m + j].effect = Ask(b)
    BY <1>1, <1>2, <2>2, <2>4, ReadyAndReserved
  <2>7. QED
    BY <2>1, <2>3, <2>5, <2>6 DEF Ascending
<1>7. QED
  BY <1>5, <1>6 DEF t

AscInv == Ascending(Pending)

LEMMA DrainAscends ==
  ASSUME Beneath, AscInv, Drain
  PROVE  AscInv' /\ \A a \in Asked(effects), b \in Placed' : a < b
<1>1. Pending \in Seq(Place) /\ effects \in Seq(Effects)
  BY PendingIs DEF Beneath, OutboxInv, TypeOK, OrderInv, ArePlaces
<1>2. /\ Len(effects) \in 0 .. Len(Pending)
      /\ \A i \in 1 .. Len(effects) : Pending[i] = Ready(effects[i])
      /\ Pending' = SubSeq(Pending, Len(effects) + 1, Len(Pending))
  BY DrainTakesReady DEF Beneath, OutboxInv
<1>3. /\ Ascending(Pending')
      /\ \A a \in Asked(effects), b \in ReservedIn(Pending') \cup ReadyIn(Pending') : a < b
  BY <1>1, <1>2, DropAscends DEF AscInv
<1>4. QED
  BY <1>3 DEF AscInv, Placed, ReservedIds, ReadyIds

LEMMA AscKept == Beneath /\ AscInv /\ [Next]_vars => AscInv'
<1> SUFFICES ASSUME Beneath, AscInv, [Next]_vars PROVE AscInv'
  OBVIOUS
<1> USE DEF Beneath, OutboxInv
<1>1. Pending \in Seq(Place) /\ Ascending(Pending)
  BY PendingIs DEF OrderInv, ArePlaces, AscInv
<1>2. ASSUME NEW t \in Threads, TellEffect(t) PROVE AscInv'
  <2> DEFINE p == Ready(Tell(told + 1))
  <2>1. p \in Place /\ Pending' = Append(Pending, p)
    BY <1>2, Recordable, RecordAppends DEF TellEffect
  <2>2. \A id \in Ids : p.effect # Ask(id)
    BY ReadyAndReserved, KindsDiffer
  <2> HIDE DEF p
  <2>3. QED
    BY <1>1, <2>1, <2>2, AppendAscends DEF AscInv
<1>3. ASSUME NEW t \in Threads, Mint(t) PROVE AscInv'
  <2> DEFINE p == Reserved(next)
  <2>1. p \in Place /\ Pending' = Append(Pending, p)
    BY <1>3, Recordable, RecordAppends DEF Mint
  <2>2. \A id \in Ids : p.effect = Ask(id) => id = next
    BY ReadyAndReserved, KindsDiffer
  <2>3. \A a \in ReservedIn(Pending) \cup ReadyIn(Pending) : a < next
    BY DEF IdsInv, ReservedIds, ReadyIds
  <2> HIDE DEF p
  <2>4. QED
    BY <1>1, <2>1, <2>2, <2>3, AppendAscends DEF AscInv
<1>4. ASSUME NEW t \in Threads, Open(t) \/ Unreserve(t) PROVE AscInv'
  <2>1. Innermost(t) \in Ids
    BY <1>4, MakingIs DEF Open, Unreserve, TypeOK
  <2>2. CASE Open(t)
    BY <1>1, <2>1, <2>2, FillFills, FillAscends DEF Open, AscInv
  <2>3. CASE Unreserve(t)
    BY <1>1, <2>1, <2>3, GiveUpRemoves, RemoveAscends DEF Unreserve, AscInv
  <2>4. QED
    BY <1>4, <2>2, <2>3
<1>5. CASE Drain
  BY <1>5, DrainAscends
<1>6. CASE UNCHANGED <<inner, shown, next>>
  <2>1. Pending' = Pending
    BY <1>6 DEF Pending, inner
  <2>2. QED
    BY <2>1 DEF AscInv
<1>7. QED
  BY <1>2, <1>3, <1>4, <1>5, <1>6, RestSteps

LEMMA AscInit == Init => AscInv
<1> SUFFICES ASSUME Init PROVE AscInv
  OBVIOUS
<1>1. Pending = << >>
  BY DEF Init, Pending, None
<1>2. DOMAIN << >> = {}
  OBVIOUS
<1>3. QED
  BY <1>1, <1>2 DEF AscInv, Ascending

-----------------------------------------------------------------------------
(* The reply codes *)

\* What the machine knows of the ids it has shown, and of those it has not.
CodeInv ==
  /\ \A id \in ShownIds : id <= highest_shown
  /\ \A id \in Placed : highest_shown < id
  /\ highest_shown = 0 \/ highest_shown \in ShownIds
  /\ never_shown = {id \in 1 .. highest_shown : id \notin ShownIds}

\* A handle is in `pending` until it is replied to or reported closed.
PendInv ==
  /\ pending \subseteq handles
  /\ handles \subseteq pending \cup Elements(reported)
  /\ \A id \in ShownIds : slots[id] = "waiting" => id \in pending

\* What a step but a reply or the end of a poll does to the requests.
LEMMA QuietSteps ==
  ASSUME Beneath,
         \/ \E t \in Threads :
              \/ TellEffect(t) \/ Mint(t) \/ Open(t) \/ Unreserve(t)
              \/ \E id \in Ids : Collect(t, id) \/ KeepWaker(t, id) \/ Close(t, id)
         \/ \E t \in Threads, u \in Threads, id \in Ids : Move(t, u, id)
         \/ UNCHANGED vars
  PROVE  /\ UNCHANGED <<ShownIds, handles, reported, accepted>>
         /\ \A id \in Placed' : id \in Placed \/ (id = next /\ next \in Ids)
         /\ \A id \in ShownIds : slots'[id] = "waiting" => slots[id] = "waiting"
<1> USE DEF Beneath, OutboxInv
<1>1. CASE UNCHANGED vars
  <2>1. UNCHANGED <<inner, shown, next, slots, handles, reported, accepted>>
    BY <1>1 DEF vars, inner
  <2>2. QED
    BY <2>1, RestIds DEF Placed
<1>2. ASSUME NEW t \in Threads, TellEffect(t) \/ Mint(t) \/ Unreserve(t)
      PROVE  /\ UNCHANGED <<ShownIds, handles, reported, accepted, slots>>
             /\ \A id \in Placed' : id \in Placed \/ (id = next /\ next \in Ids)
  <2>1. UNCHANGED <<slots, handles, reported, accepted>>
    BY <1>2 DEF TellEffect, Mint, Unreserve, mail
  <2>2. QED
    BY <1>2, <2>1, TellIds, MintIds, UnreserveIds DEF Placed
<1>3. ASSUME NEW t \in Threads, Open(t)
      PROVE  /\ UNCHANGED <<ShownIds, handles, reported, accepted>> /\ Placed' \subseteq Placed
             /\ \A id \in ShownIds : slots'[id] = "waiting" => slots[id] = "waiting"
  <2>1. /\ UNCHANGED ShownIds /\ Innermost(t) \in ReservedIds
        /\ Placed' \subseteq Placed
    BY <1>3, OpenIds DEF Placed
  <2>2. Innermost(t) \notin ShownIds
    BY <2>1 DEF IdsInv
  <2>3. slots' = [slots EXCEPT ![Innermost(t)] = "waiting"] /\ UNCHANGED <<handles, reported, accepted>>
    BY <1>3 DEF Open
  <2>4. \A id \in ShownIds : slots'[id] = slots[id]
    BY <2>2, <2>3, IdsAre DEF TypeOK
  <2>5. QED
    BY <2>1, <2>3, <2>4
<1>4. ASSUME NEW t \in Threads, NEW u \in Threads, NEW id \in Ids,
             Collect(t, id) \/ KeepWaker(t, id) \/ Close(t, id) \/ Move(t, u, id)
      PROVE  /\ UNCHANGED <<ShownIds, handles, reported, accepted, Placed>>
             /\ \A n \in ShownIds : slots'[n] = "waiting" => slots[n] = "waiting"
  <2>1. UNCHANGED <<inner, shown, next, handles, reported, accepted>>
    BY <1>4 DEF Collect, KeepWaker, Close, Move
  <2>2. UNCHANGED <<ShownIds, Placed>>
    BY <2>1, RestIds DEF Placed
  <2>3. slots' = [slots EXCEPT ![id] = "none"] \/ slots' = slots
    BY <1>4 DEF Collect, KeepWaker, Close, Move, mail
  <2>4. \A n \in ShownIds : slots'[n] = "waiting" => slots[n] = "waiting"
    BY <2>3, IdsAre DEF TypeOK
  <2>5. QED
    BY <2>1, <2>2, <2>4
<1>5. QED
  BY <1>1, <1>2, <1>3, <1>4

LEMMA QuietKeeps ==
  ASSUME Beneath, MachineTypeOK, CodeInv, PendInv,
         UNCHANGED <<pending, highest_shown, never_shown>>,
         UNCHANGED <<ShownIds, handles, reported>>,
         \A id \in Placed' : id \in Placed \/ (id = next /\ next \in Ids),
         \A id \in ShownIds : slots'[id] = "waiting" => slots[id] = "waiting"
  PROVE  CodeInv' /\ PendInv'
<1>1. next \in Ids => highest_shown < next
  BY DEF CodeInv, IdsInv, Beneath, OutboxInv, Ids
<1>2. CodeInv'
  BY <1>1 DEF CodeInv
<1>3. PendInv'
  BY DEF PendInv
<1>4. QED
  BY <1>2, <1>3

LEMMA ElementsOfReports ==
  ASSUME TypeOK
  PROVE  Elements(reported \o closed) = Elements(reported) \cup Elements(closed)
<1> DEFINE both == reported \o closed
           m == Len(reported)
<1>1. /\ reported \in Seq(Ids) /\ closed \in Seq(Ids)
      /\ DOMAIN reported = 1 .. m /\ m \in Nat
      /\ DOMAIN closed = 1 .. Len(closed) /\ Len(closed) \in Nat
      /\ DOMAIN both = 1 .. m + Len(closed)
      /\ \A i \in 1 .. m + Len(closed) : both[i] = IF i <= m THEN reported[i] ELSE closed[i - m]
  BY ConcatProperties, LenProperties DEF TypeOK
<1> HIDE DEF both, m
<1>2. ASSUME NEW i \in DOMAIN both
      PROVE  both[i] \in Elements(reported) \cup Elements(closed)
  <2>1. CASE i <= m
    BY <1>1, <2>1 DEF Elements
  <2>2. CASE ~(i <= m)
    <3>1. i - m \in DOMAIN closed
      BY <1>1, <2>2
    <3>2. QED
      BY <1>1, <2>2, <3>1 DEF Elements
  <2>3. QED
    BY <2>1, <2>2
<1>3. ASSUME NEW i \in DOMAIN reported PROVE reported[i] \in Elements(both)
  <2>1. i \in DOMAIN both /\ both[i] = reported[i]
    BY <1>1
  <2>2. QED
    BY <2>1 DEF Elements
<1>4. ASSUME NEW i \in DOMAIN closed PROVE closed[i] \in Elements(both)
  <2> DEFINE j == m + i
  <2>1. j \in DOMAIN both /\ ~(j <= m) /\ j - m = i
    BY <1>1
  <2> HIDE DEF j
  <2>2. both[j] = closed[i]
    BY <1>1, <2>1
  <2>3. QED
    BY <2>1, <2>2 DEF Elements
<1>5. Elements(both) = Elements(reported) \cup Elements(closed)
  BY <1>2, <1>3, <1>4 DEF Elements
<1>6. QED
  BY <1>5 DEF both

\* A drain, shown.
LEMMA ShowKeeps ==
  ASSUME Beneath, AscInv, MachineTypeOK, CodeInv, PendInv, Drain, Show
  PROVE  CodeInv' /\ PendInv'
<1> USE DEF Beneath, OutboxInv
<1> DEFINE ids == Asked(effects)
<1>1. /\ pending' = (pending \cup ids) \ Elements(closed)
      /\ highest_shown' \in 0 .. MaxId
      /\ ids = {} => highest_shown' = highest_shown
      /\ ids # {} => highest_shown' \in ids
      /\ \A id \in ids : id <= highest_shown'
      /\ never_shown' = never_shown \cup {id \in highest_shown + 1 .. highest_shown' : id \notin ids}
  BY ShowIs DEF MachineTypeOK
<1>2. /\ ids \subseteq ReadyIds /\ Placed' \subseteq Placed
      /\ ShownIds' = ShownIds \cup ids
  BY DrainIds DEF Placed
<1>3. \A a \in ids, b \in Placed' : a < b
  BY DrainAscends
<1>4. /\ ids \subseteq Ids /\ ShownIds \subseteq Ids /\ Placed \subseteq Ids
      /\ ids \subseteq Placed
  BY <1>2, IdsAre DEF Placed
<1>5. handles' = handles \cup ids /\ UNCHANGED slots /\ reported' = reported \o closed
  BY DEF Drain
<1>6. /\ highest_shown \in 0 .. MaxId /\ MaxId \in Nat
      /\ \A id \in ids : highest_shown < id
      /\ highest_shown <= highest_shown'
  BY <1>1, <1>4, BoundsAssumption DEF CodeInv, MachineTypeOK, Ids
<1> HIDE DEF ids
<1>7. CodeInv'
  <2>1. \A id \in ShownIds' : id <= highest_shown'
    BY <1>1, <1>2, <1>4, <1>6 DEF CodeInv, Ids
  <2>2. \A id \in Placed' : highest_shown' < id
    BY <1>1, <1>2, <1>3 DEF CodeInv
  <2>3. highest_shown' = 0 \/ highest_shown' \in ShownIds'
    BY <1>1, <1>2 DEF CodeInv
  <2>4. never_shown' = {id \in 1 .. highest_shown' : id \notin ShownIds'}
    <3>1. \A id \in Nat : id \in 1 .. highest_shown' <=>
            id \in 1 .. highest_shown \/ id \in highest_shown + 1 .. highest_shown'
      BY <1>1, <1>6
    <3>2. ASSUME NEW id \in 1 .. highest_shown PROVE id \notin ids
      BY <1>6
    <3>3. ASSUME NEW id \in highest_shown + 1 .. highest_shown' PROVE id \notin ShownIds
      BY <1>6 DEF CodeInv
    <3>4. \A id \in 1 .. highest_shown : id \in Nat
      OBVIOUS
    <3>5. \A id \in highest_shown + 1 .. highest_shown' : id \in Nat
      BY <1>6
    <3>6. \A id \in 1 .. highest_shown' : id \in Nat
      OBVIOUS
    <3>7. ASSUME NEW id PROVE id \in never_shown' <=> id \in 1 .. highest_shown' /\ id \notin ShownIds'
      BY <1>1, <1>2, <3>1, <3>2, <3>3, <3>4, <3>5, <3>6 DEF CodeInv
    <3>8. QED
      BY <3>7
  <2>5. QED
    BY <2>1, <2>2, <2>3, <2>4 DEF CodeInv
<1>8. PendInv'
  <2>1. Elements(reported') = Elements(reported) \cup Elements(closed)
    BY <1>5, ElementsOfReports
  <2>2. pending' \subseteq handles' /\ handles' \subseteq pending' \cup Elements(reported')
    BY <1>1, <1>5, <2>1 DEF PendInv
  <2>3. ASSUME NEW id \in ShownIds', slots'[id] = "waiting" PROVE id \in pending'
    <3>1. slots[id] = "waiting" /\ id \in pending \cup ids /\ id \in Ids
      BY <1>2, <1>4, <1>5, <2>3 DEF PendInv
    <3>2. id \notin Abandoned
      BY <3>1 DEF MailInv, Abandoned
    <3>3. id \notin Elements(closed)
      BY <3>2, ElementsOfReports DEF ClosedInv, Reports
    <3>4. QED
      BY <1>1, <3>1, <3>3
  <2>4. QED
    BY <2>2, <2>3 DEF PendInv
<1>9. QED
  BY <1>7, <1>8

LEMMA CodeKept ==
  /\ Beneath /\ AscInv /\ MachineTypeOK /\ CodeInv /\ PendInv /\ [MachineNext]_allVars
  => CodeInv' /\ PendInv'
<1> SUFFICES ASSUME Beneath, AscInv, MachineTypeOK, CodeInv, PendInv, [MachineNext]_allVars
             PROVE  CodeInv' /\ PendInv'
  OBVIOUS
<1>1. ASSUME NEW id \in Ids, ReplyOk(id) PROVE CodeInv' /\ PendInv'
  <2>1. /\ UNCHANGED <<inner, shown, next, reported, highest_shown, never_shown>>
        /\ pending' = pending \ {id} /\ handles' = handles \ {id}
    BY <1>1 DEF ReplyOk, Deliver
  <2>2. UNCHANGED <<ShownIds, Placed>>
    BY <2>1, RestIds DEF Beneath, OutboxInv, Placed
  <2>3. \A n \in Ids : slots'[n] = "waiting" => slots[n] = "waiting" /\ n # id
    BY <1>1 DEF ReplyOk, Deliver, Beneath, OutboxInv, TypeOK
  <2>4. CodeInv'
    BY <2>1, <2>2 DEF CodeInv
  <2>5. PendInv'
    BY <2>1, <2>2, <2>3, IdsAre DEF PendInv, Beneath, OutboxInv
  <2>6. QED
    BY <2>4, <2>5
<1>2. CASE Suspend \/ Complete
  BY <1>2, ShowKeeps DEF Suspend, Complete
<1>3. CASE /\ UNCHANGED <<pending, highest_shown, never_shown>>
           /\ \/ \E t \in Threads :
                   \/ TellEffect(t) \/ Mint(t) \/ Open(t) \/ Unreserve(t)
                   \/ \E id \in Ids : Collect(t, id) \/ KeepWaker(t, id) \/ Close(t, id)
              \/ \E t \in Threads, u \in Threads, id \in Ids : Move(t, u, id)
              \/ UNCHANGED vars
  BY <1>3, QuietSteps, QuietKeeps
<1>4. QED
  BY <1>1, <1>2, <1>3, HostSteps, StepsAre, PollerAssumption

LEMMA CodeInit == MachineInit => CodeInv /\ PendInv
<1> SUFFICES ASSUME MachineInit PROVE CodeInv /\ PendInv
  OBVIOUS
<1>1. Pending = << >> /\ shown = << >>
  BY DEF MachineInit, Init, Pending, None
<1>2. DOMAIN << >> = {}
  OBVIOUS
<1>3. ShownIds = {} /\ Placed = {}
  BY <1>1, <1>2 DEF ShownIds, Placed, ReservedIds, ReadyIds, ReservedIn, ReadyIn, Asked
<1>4. QED
  BY <1>3 DEF MachineInit, Init, CodeInv, PendInv

HostInv == Beneath /\ AscInv /\ MachineTypeOK /\ CodeInv /\ PendInv

LEMMA HostInvHolds == MachineSpec => []HostInv
<1>1. MachineInit => AscInv /\ MachineTypeOK /\ CodeInv /\ PendInv
  BY AscInit, MachineTypeInit, CodeInit DEF MachineInit
<1>2. HostInv /\ [MachineNext]_allVars => AscInv' /\ MachineTypeOK' /\ CodeInv' /\ PendInv'
  BY StepIsOutboxStep, AscKept, MachineTypeKept, CodeKept DEF HostInv
<1>3. QED
  BY <1>1, <1>2, BeneathHolds, PTL DEF MachineSpec, HostInv

LEMMA CodesFollow == HostInv => CodesAreExact
<1> SUFFICES ASSUME HostInv, phase = "idle", NEW id \in 0 .. MaxId + 1
             PROVE  /\ CodeOf(id) = "BadInput" <=> id \notin Asked(shown)
                    /\ CodeOf(id) = "Stale" => id \in Replied \cup Elements(reported)
                    /\ id \in Replied => CodeOf(id) = "Stale"
                    /\ id \in Asked(shown) /\ slots[id] = "waiting" => id \in pending
  BY DEF CodesAreExact
<1> USE DEF HostInv, Beneath, OutboxInv
<1>1. /\ ShownIds = Asked(shown) /\ ShownIds \subseteq Ids
      /\ pending \subseteq handles /\ handles \subseteq ShownIds
  BY IdsAre DEF ShownIds, PendInv, MailInv
<1>2. id # 0 /\ id <= highest_shown /\ id \notin never_shown <=> id \in ShownIds
  <2>1. id \in Nat /\ highest_shown \in Nat /\ \A n \in Ids : n # 0
    BY BoundsAssumption DEF MachineTypeOK, Ids
  <2>2. id \in ShownIds => id # 0 /\ id <= highest_shown /\ id \notin never_shown
    BY <1>1, <2>1 DEF CodeInv
  <2>3. ASSUME id # 0, id <= highest_shown, id \notin never_shown PROVE id \in ShownIds
    <3>1. id \in 1 .. highest_shown
      BY <2>1, <2>3
    <3>2. QED
      BY <2>3, <3>1 DEF CodeInv
  <2>4. QED
    BY <2>2, <2>3
<1>3. /\ CodeOf(id) = "Ok" <=> id \in pending
      /\ CodeOf(id) = "Stale" <=> id \in ShownIds \ pending
      /\ CodeOf(id) = "BadInput" <=> id \notin ShownIds
  BY <1>1, <1>2 DEF CodeOf
<1>4. QED
  BY <1>1, <1>3 DEF PendInv, Replied

\* A host is told its mistakes apart exactly: an id it was never shown, one it
\* has answered or was told had closed, and one it can still answer, whatever
\* ids other threads minted or skipped in between (machine.rs, ABI.md).
THEOREM CodesStayExact == MachineSpec => []CodesAreExact
  BY HostInvHolds, CodesFollow, PTL

-----------------------------------------------------------------------------
(* What a status owes *)

LEMMA IdleKept == HostInv /\ IdleOwesNothing /\ [MachineNext]_allVars => IdleOwesNothing'
<1> SUFFICES ASSUME HostInv, IdleOwesNothing, [MachineNext]_allVars PROVE IdleOwesNothing'
  OBVIOUS
<1> USE DEF HostInv, Beneath, OutboxInv
<1>1. ASSUME NEW id \in Ids, ReplyOk(id) PROVE IdleOwesNothing'
  BY <1>1 DEF ReplyOk, Deliver, IdleOwesNothing
<1>2. CASE RoutineStep \/ PassAwaiting
  BY <1>2, StepsAre DEF IdleOwesNothing
<1>3. CASE OtherStep
  <2>1. PICK t \in Threads \ {Poller} :
          \/ TellEffect(t) \/ Mint(t) \/ Open(t) \/ Unreserve(t)
          \/ \E id \in Ids : Collect(t, id) \/ KeepWaker(t, id) \/ Close(t, id)
    BY <1>3, StepsAre
  <2>2. \/ owner' = owner
        \/ \E id \in Ids : owner' = [owner EXCEPT ![id] = t] \/ owner' = [owner EXCEPT ![id] = Nobody]
    <3>1. Open(t) => Innermost(t) \in Ids
      BY MakingIs DEF Open, TypeOK
    <3>2. QED
      BY <2>1, <3>1 DEF TellEffect, Mint, Open, Unreserve, Collect, KeepWaker, Close
  <2>3. \A id \in Ids : owner'[id] = Poller => owner[id] = Poller
    BY <2>2, NobodyIs, PollerAssumption DEF TypeOK
  <2>4. UNCHANGED <<phase, status, pending>> /\ pending \subseteq Ids
    BY <1>3, StepsAre DEF MachineTypeOK
  <2>5. QED
    BY <2>3, <2>4 DEF IdleOwesNothing
<1>4. CASE Suspend
  <2> SUFFICES ASSUME status' = "Idle", NEW id \in pending', owner'[id] = Poller PROVE FALSE
    BY DEF IdleOwesNothing
  <2>1. id \in Ids /\ id \in handles \cup ReadyIds
    <3>1. Drain /\ Show
      BY <1>4 DEF Suspend
    <3>2. pending' \subseteq pending \cup Asked(effects) /\ Asked(effects) \subseteq ReadyIds
      BY <3>1, ShowIs, DrainIds DEF MachineTypeOK
    <3>3. QED
      BY <3>2, IdsAre DEF PendInv, TypeOK
  <2>2. slots[id] = "none"
    BY <1>4, <2>1 DEF Suspend, PendingStatus
  <2>3. owner[id] = Poller
    BY <1>4 DEF Suspend, Drain
  <2>4. QED
    BY <2>1, <2>2, <2>3, NobodyIs, PollerAssumption DEF MailInv
<1>5. CASE Complete
  BY <1>5 DEF Complete, IdleOwesNothing
<1>6. CASE /\ UNCHANGED <<vars, status, pending, highest_shown, never_shown, alone>>
           /\ \/ phase' = phase
              \/ phase = "idle" /\ phase' = "polling"
              \/ phase = "polling" /\ making[Poller] = << >> /\ phase' = "ending"
  BY <1>6 DEF IdleOwesNothing, vars
<1>7. QED
  BY <1>1, <1>2, <1>3, <1>4, <1>5, <1>6, HostSteps

\* A machine that reports Idle waits for no reply: what its host may still
\* answer is another thread's request (status.rs, Status::classify).
THEOREM IdleStaysFree == MachineSpec => []IdleOwesNothing
<1>1. MachineInit => IdleOwesNothing
  BY DEF MachineInit, IdleOwesNothing
<1>2. QED
  BY <1>1, HostInvHolds, IdleKept, PTL DEF MachineSpec

-----------------------------------------------------------------------------
(* What a call hands over *)

\* No reply is accepted while its handle is unspent.
SpentInv == accepted \cap handles = {}

\* As long as no other thread has used the outbox.
AloneInv ==
  alone =>
    /\ \A t \in Threads : t # Poller => making[t] = << >>
    /\ \A id \in Ids : owner[id] \in {Poller, Nobody}
    /\ phase # "polling" => making[Poller] = << >>
    /\ Elements(reported) \subseteq ShownIds
    /\ pending \cap Elements(reported) = {}
    /\ BetweenCalls => effects = << >> /\ building = None /\ held = << >> /\ closed = << >>
    /\ phase = "done" => \A id \in Ids : owner[id] = Nobody

LEMMA SpentKept == HostInv /\ SpentInv /\ [Next]_vars => SpentInv'
<1> SUFFICES ASSUME HostInv, SpentInv, [Next]_vars PROVE SpentInv'
  OBVIOUS
<1> USE DEF HostInv, Beneath, OutboxInv
<1>1. ASSUME NEW id \in Ids, Deliver(id) PROVE SpentInv'
  BY <1>1 DEF Deliver, SpentInv
<1>2. CASE Drain
  <2>1. Asked(effects) \cap ShownIds = {}
    BY <1>2, DrainIds DEF IdsInv
  <2>2. QED
    BY <1>2, <2>1 DEF Drain, SpentInv, MailInv
<1>3. ASSUME \/ \E t \in Threads :
                  \/ TellEffect(t) \/ Mint(t) \/ Open(t) \/ Unreserve(t)
                  \/ \E id \in Ids : Collect(t, id) \/ KeepWaker(t, id) \/ Close(t, id)
             \/ \E t \in Threads, u \in Threads, id \in Ids : Move(t, u, id)
             \/ UNCHANGED vars
      PROVE  SpentInv'
  BY <1>3, QuietSteps DEF SpentInv
<1>4. QED
  BY <1>1, <1>2, <1>3, Actions

\* With no request being built, nothing is left behind in the outbox.
LEMMA NothingBuilt ==
  ASSUME Beneath, \A t \in Threads : making[t] = << >>
  PROVE  building = None /\ held = << >>
<1> USE DEF Beneath, OutboxInv
<1>1. ReservedIds = {}
  <2>1. DOMAIN << >> = {}
    OBVIOUS
  <2>2. \A t \in Threads : DOMAIN making[t] = {}
    BY <2>1
  <2>3. QED
    BY <2>2 DEF MakingInv
<1>2. building = None
  BY <1>1, ReservedIs DEF TypeOK
<1>3. ASSUME held # << >> PROVE FALSE
  <2>1. 1 \in DOMAIN held
    BY <1>3, LenProperties, EmptySeq DEF TypeOK
  <2>2. ~held[1].ready
    BY <1>3 DEF OrderInv, FirstIsReserved
  <2>3. PICK id \in Ids : held[1] = Reserved(id)
    BY <2>1, <2>2, HeldIsReserved
  <2>4. id \in ReservedIds
    BY <2>1, <2>3, ReservedIs
  <2>5. QED
    BY <1>1, <2>4
<1>4. QED
  BY <1>2, <1>3

\* With nothing waiting at all, every recorded request has been shown.
LEMMA NothingReady ==
  /\ effects = << >> /\ building = None /\ held = << >> => ReadyIds = {}
  /\ (effects = << >> /\ building = None /\ held = << >> => ReadyIds = {})'
<1>1. DOMAIN << >> = {}
  OBVIOUS
<1>2. ASSUME effects = << >>, building = None, held = << >> PROVE ReadyIds = {}
  <2>1. Pending = << >>
    BY <1>2 DEF Pending
  <2>2. QED
    BY <1>1, <2>1 DEF ReadyIds, ReadyIn
<1>3. ASSUME effects' = << >>, building' = None, held' = << >> PROVE ReadyIds' = {}
  <2>1. Pending' = << >>
    BY <1>3 DEF Pending
  <2>2. QED
    BY <1>1, <2>1 DEF ReadyIds, ReadyIn
<1>4. QED
  BY <1>2, <1>3

\* The end of a poll.
LEMMA EndKeepsAlone ==
  ASSUME HostInv, AloneInv, alone, Drain, Show, UNCHANGED alone,
         \A t \in Threads : making[t] = << >>,
         phase' = "done" => \A id \in Ids : owner[id] # Poller
  PROVE  AloneInv'
<1> USE DEF HostInv, Beneath, OutboxInv
<1>1. effects' = << >> /\ building' = None /\ held' = << >> /\ closed' = << >>
  BY NothingBuilt DEF Drain
<1>2. /\ making' = making /\ owner' = owner
      /\ reported' = reported \o closed
  BY DEF Drain
<1>3. ReadyIds \subseteq Asked(effects) /\ ShownIds' = ShownIds \cup Asked(effects) /\ Asked(effects) \subseteq ReadyIds
  <2>1. ReadyIds' = {}
    BY <1>1, NothingReady
  <2>2. QED
    BY <2>1, DrainIds
<1>4. Elements(reported') = Elements(reported) \cup Elements(closed)
  BY <1>2, ElementsOfReports
<1>5. Elements(closed) \subseteq ReadyIds \cup ShownIds
  BY ElementsOfReports DEF ClosedInv, Reports, Abandoned, RecordedIds
<1>6. Elements(reported') \subseteq ShownIds'
  BY <1>3, <1>4, <1>5 DEF AloneInv
<1>7. pending' \cap Elements(reported') = {}
  <2>1. pending' = (pending \cup Asked(effects)) \ Elements(closed)
    BY ShowIs DEF MachineTypeOK
  <2>2. Asked(effects) \cap Elements(reported) = {}
    BY <1>3 DEF IdsInv, AloneInv
  <2>3. QED
    BY <1>4, <2>1, <2>2 DEF AloneInv
<1>8. QED
  BY <1>1, <1>2, <1>6, <1>7, PollerAssumption DEF AloneInv, BetweenCalls

LEMMA AloneKept == HostInv /\ AloneInv /\ [MachineNext]_allVars => AloneInv'
<1> SUFFICES ASSUME HostInv, AloneInv, [MachineNext]_allVars PROVE AloneInv'
  OBVIOUS
<1> USE DEF HostInv, Beneath, OutboxInv
<1>1. ASSUME NEW id \in Ids, ReplyOk(id) PROVE AloneInv'
  <2>1. /\ UNCHANGED <<inner, shown, closed, reported, making, owner, alone>>
        /\ pending' \subseteq pending /\ phase = "idle" /\ phase' \in {"idle", "polling"}
    BY <1>1 DEF ReplyOk, Deliver
  <2>2. UNCHANGED <<effects, building, held, ShownIds>>
    BY <2>1 DEF inner, ShownIds
  <2>3. QED
    BY <2>1, <2>2 DEF AloneInv, BetweenCalls
<1>2. CASE RoutineStep
  <2>1. /\ UNCHANGED <<phase, pending, alone>> /\ phase \in {"polling", "ending"}
        /\ phase = "ending" => UNCHANGED making
    BY <1>2, StepsAre
  <2>2. UNCHANGED <<ShownIds, reported>>
    BY <1>2, StepsAre, QuietSteps, PollerAssumption
  <2>3. \A t \in Threads : t # Poller => making'[t] = making[t]
    BY <1>2, StepsAre, PollerAssumption
       DEF TellEffect, Mint, Open, Unreserve, Collect, KeepWaker, Close, Outer, TypeOK
  <2>4. \/ owner' = owner
        \/ \E id \in Ids : owner' = [owner EXCEPT ![id] = Poller] \/ owner' = [owner EXCEPT ![id] = Nobody]
    <3>1. Open(Poller) => Innermost(Poller) \in Ids
      BY MakingIs, PollerAssumption DEF Open, TypeOK
    <3>2. QED
      BY <1>2, <3>1, StepsAre DEF TellEffect, Mint, Open, Unreserve, Collect, KeepWaker, Close
  <2>5. \A id \in Ids : owner[id] \in {Poller, Nobody} => owner'[id] \in {Poller, Nobody}
    BY <2>4 DEF TypeOK
  <2>6. QED
    BY <2>1, <2>2, <2>3, <2>5 DEF AloneInv, BetweenCalls
<1>3. CASE PassAwaiting \/ OtherStep
  BY <1>3, StepsAre DEF AloneInv
<1>4. CASE Suspend \/ Complete
  <2>1. Drain /\ Show /\ UNCHANGED alone
    BY <1>4 DEF Suspend, Complete
  <2>2. CASE alone
    <3>1. \A t \in Threads : making[t] = << >>
      BY <1>4, <2>2 DEF Suspend, Complete, AloneInv
    <3>2. phase' = "done" => \A id \in Ids : owner[id] # Poller
      BY <1>4 DEF Suspend, Complete
    <3>3. QED
      BY <2>1, <2>2, <3>1, <3>2, EndKeepsAlone
  <2>3. CASE ~alone
    BY <2>1, <2>3 DEF AloneInv
  <2>4. QED
    BY <2>2, <2>3
<1>5. CASE /\ UNCHANGED <<vars, status, pending, highest_shown, never_shown, alone>>
           /\ \/ phase' = phase
              \/ phase = "idle" /\ phase' = "polling"
              \/ phase = "polling" /\ making[Poller] = << >> /\ phase' = "ending"
  <2>1. UNCHANGED <<effects, building, held, closed, making, owner, reported, ShownIds>>
    BY <1>5 DEF vars, ShownIds
  <2>2. QED
    BY <1>5, <2>1 DEF AloneInv, BetweenCalls
<1>6. QED
  BY <1>1, <1>2, <1>3, <1>4, <1>5, HostSteps

LEMMA AloneInit == MachineInit => AloneInv /\ SpentInv
<1> SUFFICES ASSUME MachineInit PROVE AloneInv /\ SpentInv
  OBVIOUS
<1>1. DOMAIN << >> = {}
  OBVIOUS
<1>2. Elements(reported) = {} /\ pending = {}
  BY <1>1 DEF MachineInit, Init, Elements
<1>3. QED
  BY <1>2, PollerAssumption DEF MachineInit, Init, AloneInv, SpentInv

LEMMA HandedOver == HostInv /\ AloneInv /\ SpentInv => CallsHandOverEverything
<1> SUFFICES ASSUME HostInv, AloneInv, SpentInv, alone, BetweenCalls
             PROVE  /\ effects = << >> /\ building = None /\ held = << >> /\ closed = << >>
                    /\ pending = {id \in Ids : slots[id] = "waiting"}
                    /\ phase = "done" => \A id \in Ids : slots[id] = "none"
  BY DEF CallsHandOverEverything
<1> USE DEF HostInv, Beneath, OutboxInv
<1>1. effects = << >> /\ building = None /\ held = << >> /\ closed = << >>
  BY DEF AloneInv
<1>2. RecordedIds = ShownIds
  BY <1>1, NothingReady DEF RecordedIds
<1>3. ASSUME NEW id \in pending PROVE id \in Ids /\ slots[id] = "waiting"
  <2>1. id \in handles /\ id \in ShownIds /\ id \in Ids /\ id \notin accepted
    BY IdsAre DEF PendInv, MailInv, SpentInv
  <2>2. id \notin Abandoned
    <3>1. DOMAIN << >> = {}
      OBVIOUS
    <3>2. Elements(closed) = {}
      BY <1>1, <3>1 DEF Elements
    <3>3. id \notin Elements(Reports)
      BY <3>2, ElementsOfReports DEF AloneInv, Reports
    <3>4. QED
      BY <3>3 DEF ClosedInv
  <2>3. owner[id] # Nobody
    BY <1>2, <2>1, <2>2 DEF Abandoned
  <2>4. QED
    BY <2>1, <2>3 DEF MailInv
<1>4. ASSUME NEW id \in Ids, slots[id] = "waiting" PROVE id \in pending
  BY <1>2, <1>4 DEF MailInv, PendInv
<1>5. phase = "done" => \A id \in Ids : slots[id] = "none"
  BY DEF AloneInv, MailInv
<1>6. QED
  BY <1>1, <1>3, <1>4, <1>5

\* While only the poll uses the outbox, each call ends with the host's table
\* exactly the open requests, all else handed over, and Complete leaves
\* nothing (machine.rs, Machine::show; stepper.rs, the future dropped first).
THEOREM CallsLeaveNothing == MachineSpec => []CallsHandOverEverything
<1>1. MachineSpec => [](HostInv /\ AloneInv /\ SpentInv)
  BY HostInvHolds, AloneInit, AloneKept, SpentKept, StepIsOutboxStep, PTL DEF MachineSpec
<1>2. QED
  BY <1>1, HandedOver, PTL

=============================================================================
