---------------------------- MODULE MailboxProofs ---------------------------
(***************************************************************************)
(* The properties of Mailbox.tla, for any number of requests, and that the *)
(* slot vector implements MailMap.                                         *)
(***************************************************************************)
EXTENDS Mailbox, SequenceTheorems, FiniteSetTheorems, TLAPS

LEMMA LeastExists ==
  ASSUME NEW T, T \subseteq Nat, T # {}
  PROVE  \E x \in T : \A y \in T : ~(y < x)
<1>1. \E x \in T : \A y \in T : ~(<<y, x>> \in OpToRel(<, Nat))
  BY NatLessThanWellFounded, WFMin, Zenon
<1>2. \A x, y \in Nat : y < x => <<y, x>> \in OpToRel(<, Nat)
  BY Zenon DEF OpToRel
<1>3. QED
  BY <1>1, <1>2

-----------------------------------------------------------------------------
(* Slot vectors *)

\* Ids ascend, and a closed slot keeps nothing.
Good(vec) ==
  /\ vec \in Seq(Slot)
  /\ \A i, j \in DOMAIN vec : i < j => vec[i].id < vec[j].id
  /\ \A i \in DOMAIN vec : ~vec[i].open => ~vec[i].value /\ ~vec[i].waker

OpenAt(vec) == {i \in DOMAIN vec : vec[i].open}
OpenIn(vec) == {vec[i] : i \in OpenAt(vec)}
IdsOf(set) == {slot.id : slot \in set}
Count(vec) == Cardinality(OpenAt(vec))
EndsOpen(vec) == vec # << >> => vec[Len(vec)].open
NamesIn(vec) == {vec[i].id : i \in DOMAIN vec}

LEMMA VecIs ==
  ASSUME NEW vec \in Seq(Slot)
  PROVE  /\ DOMAIN vec = 1 .. Len(vec) /\ Len(vec) \in Nat
         /\ \A i \in 1 .. Len(vec) : vec[i] \in Slot
         /\ OpenIn(vec) \subseteq Slot
         /\ vec = << >> <=> Len(vec) = 0
  BY LenProperties, ElementOfSeq, EmptySeq DEF OpenIn, OpenAt

LEMMA SlotIs ==
  /\ \A slot \in Slot : /\ slot.id \in Ids /\ slot.id \in Nat
                        /\ slot.open \in BOOLEAN /\ slot.value \in BOOLEAN /\ slot.waker \in BOOLEAN
  /\ \A a, b \in Slot : a.id = b.id /\ a.open = b.open /\ a.value = b.value /\ a.waker = b.waker => a = b
<1>1. \A slot \in Slot : /\ slot.id \in Ids /\ slot.id \in Nat
                         /\ slot.open \in BOOLEAN /\ slot.value \in BOOLEAN /\ slot.waker \in BOOLEAN
  BY DEF Slot, Ids
<1>2. \A a, b \in Slot : a.id = b.id /\ a.open = b.open /\ a.value = b.value /\ a.waker = b.waker => a = b
  BY DEF Slot
<1>3. QED
  BY <1>1, <1>2

\* Ids name slots and positions.
LEMMA IdsName ==
  ASSUME NEW vec, Good(vec)
  PROVE  /\ \A i, j \in DOMAIN vec : vec[i].id = vec[j].id => i = j
         /\ \A a, b \in OpenIn(vec) : a.id = b.id => a = b
         /\ \A a \in OpenIn(vec) : a \in Slot /\ a.open
<1>1. /\ DOMAIN vec = 1 .. Len(vec) /\ Len(vec) \in Nat
      /\ \A i \in 1 .. Len(vec) : vec[i] \in Slot /\ vec[i].id \in Nat
  BY VecIs, SlotIs DEF Good
<1>2. ASSUME NEW i \in DOMAIN vec, NEW j \in DOMAIN vec, vec[i].id = vec[j].id PROVE i = j
  <2>1. i \in Nat /\ j \in Nat /\ (i < j \/ j < i \/ i = j)
    BY <1>1
  <2>2. ~(i < j) /\ ~(j < i)
    BY <1>1, <1>2 DEF Good
  <2>3. QED
    BY <2>1, <2>2
<1>3. QED
  BY <1>1, <1>2 DEF OpenIn, OpenAt

\* The count of open slots is that of their ids.
LEMMA CountIs ==
  ASSUME NEW vec, Good(vec)
  PROVE  /\ IdsOf(OpenIn(vec)) \subseteq Ids
         /\ IsFiniteSet(IdsOf(OpenIn(vec)))
         /\ IsFiniteSet(OpenAt(vec))
         /\ Count(vec) = Cardinality(IdsOf(OpenIn(vec)))
         /\ Count(vec) \in 0 .. MaxId
<1> DEFINE S == OpenAt(vec)
           T == IdsOf(OpenIn(vec))
           f == [i \in S |-> vec[i].id]
<1>1. /\ DOMAIN vec = 1 .. Len(vec) /\ Len(vec) \in Nat
      /\ \A i \in 1 .. Len(vec) : vec[i] \in Slot /\ vec[i].id \in Ids
  BY VecIs, SlotIs DEF Good
<1>2. T \subseteq Ids
  BY IdsName, SlotIs DEF IdsOf
<1>3. IsFiniteSet(Ids) /\ Cardinality(Ids) = MaxId /\ MaxId \in Nat
  BY FS_Interval, BoundsAssumption DEF Ids
<1>4. IsFiniteSet(T) /\ Cardinality(T) <= MaxId /\ Cardinality(T) \in Nat
  BY <1>2, <1>3, FS_Subset, FS_CardinalityType
<1>5. IsFiniteSet(S)
  <2>1. IsFiniteSet(1 .. Len(vec)) /\ S \in SUBSET (1 .. Len(vec))
    BY <1>1, FS_Interval DEF OpenAt
  <2>2. QED
    BY <2>1, FS_Subset
<1>6. f \in Bijection(S, T)
  <2>1. f \in [S -> T]
    BY DEF IdsOf, OpenIn
  <2>2. \A a, b \in S : f[a] = f[b] => a = b
    BY IdsName DEF OpenAt
  <2>3. ASSUME NEW x \in T PROVE \E i \in S : f[i] = x
    BY DEF IdsOf, OpenIn
  <2> HIDE DEF f, S, T
  <2>4. QED
    BY <2>1, <2>2, <2>3 DEF Bijection, Injection, Surjection, IsInjective
<1>7. Cardinality(T) = Cardinality(S)
  BY <1>5, <1>6, FS_Bijection DEF ExistsBijection
<1>8. QED
  BY <1>2, <1>4, <1>5, <1>7 DEF Count

\* Some of a vector's slots, in their order.
LEMMA SomeAre ==
  ASSUME NEW vec, Good(vec), NEW new \in Seq(Slot),
         NEW f \in [DOMAIN new -> DOMAIN vec],
         \A k \in DOMAIN new : new[k] = vec[f[k]],
         \A k, l \in DOMAIN new : k < l => f[k] < f[l]
  PROVE  /\ Good(new)
         /\ NamesIn(new) \subseteq NamesIn(vec)
         /\ OpenIn(new) \subseteq OpenIn(vec)
         /\ (\A i \in OpenAt(vec) : \E k \in DOMAIN new : f[k] = i) => OpenIn(new) = OpenIn(vec)
<1>1. \A k \in DOMAIN new : f[k] \in DOMAIN vec
  OBVIOUS
<1>2. Good(new)
  BY <1>1 DEF Good
<1>3. NamesIn(new) \subseteq NamesIn(vec) /\ OpenIn(new) \subseteq OpenIn(vec)
  BY <1>1 DEF OpenIn, OpenAt, NamesIn
<1>4. ASSUME \A i \in OpenAt(vec) : \E k \in DOMAIN new : f[k] = i
      PROVE  OpenIn(vec) \subseteq OpenIn(new)
  <2> SUFFICES ASSUME NEW i \in OpenAt(vec) PROVE vec[i] \in OpenIn(new)
    BY DEF OpenIn
  <2>1. PICK k \in DOMAIN new : f[k] = i
    BY <1>4
  <2>2. new[k] = vec[i] /\ vec[i].open
    BY <2>1 DEF OpenAt
  <2>3. QED
    BY <2>2 DEF OpenIn, OpenAt
<1>5. QED
  BY <1>2, <1>3, <1>4

\* mail.rs, take: the closed slots at the end are popped.
LEMMA PoppedIs ==
  ASSUME NEW vec, Good(vec)
  PROVE  /\ Good(Popped(vec)) /\ OpenIn(Popped(vec)) = OpenIn(vec)
         /\ NamesIn(Popped(vec)) \subseteq NamesIn(vec)
         /\ EndsOpen(Popped(vec))
<1> DEFINE P(n) == /\ n > 0 => vec[n].open
                   /\ \A i \in n + 1 .. Len(vec) : ~vec[i].open
           N == {n \in 0 .. Len(vec) : \A i \in n + 1 .. Len(vec) : ~vec[i].open}
           n == CHOOSE m \in 0 .. Len(vec) : P(m)
           new == SubSeq(vec, 1, n)
<1>1. /\ vec \in Seq(Slot) /\ DOMAIN vec = 1 .. Len(vec) /\ Len(vec) \in Nat
      /\ \A i \in 1 .. Len(vec) : vec[i] \in Slot
  BY VecIs DEF Good
<1>2. \E m \in 0 .. Len(vec) : P(m)
  <2>1. N \subseteq Nat /\ Len(vec) \in N
    BY <1>1
  <2>2. PICK m \in N : \A k \in N : ~(k < m)
    BY <2>1, LeastExists
  <2>3. m > 0 => vec[m].open
    <3> SUFFICES ASSUME m > 0, ~vec[m].open PROVE FALSE
      OBVIOUS
    <3>1. m - 1 \in N
      <4>1. m - 1 \in 0 .. Len(vec)
        BY <1>1
      <4>2. \A i \in m - 1 + 1 .. Len(vec) : i = m \/ i \in m + 1 .. Len(vec)
        BY <1>1
      <4>3. QED
        BY <4>1, <4>2
    <3>2. m - 1 < m
      BY <1>1
    <3>3. QED
      BY <2>2, <3>1, <3>2
  <2>4. QED
    BY <2>3
<1>3. n \in 0 .. Len(vec) /\ P(n)
  <2> HIDE DEF P
  <2>1. QED
    BY <1>2
<1>4. Popped(vec) = new
  BY DEF Popped
<1> HIDE DEF n, N
<1>5. /\ new \in Seq(Slot) /\ DOMAIN new = 1 .. n /\ Len(new) = n
      /\ \A i \in 1 .. n : new[i] = vec[i]
  <2>1. /\ new \in Seq(Slot) /\ Len(new) = IF 1 <= n THEN n - 1 + 1 ELSE 0
        /\ \A i \in 1 .. n - 1 + 1 : new[i] = vec[1 + i - 1]
    BY <1>1, <1>3, SubSeqProperties
  <2>2. QED
    BY <1>1, <1>3, <2>1, LenProperties
<1> HIDE DEF new
<1> DEFINE f == [k \in DOMAIN new |-> k]
<1>6. f \in [DOMAIN new -> DOMAIN vec] /\ \A k \in DOMAIN new : f[k] = k
  BY <1>1, <1>3, <1>5
<1>7. \A i \in OpenAt(vec) : i \in DOMAIN new
  BY <1>1, <1>3, <1>5 DEF OpenAt
<1> HIDE DEF f
<1>8. Good(new) /\ OpenIn(new) = OpenIn(vec) /\ NamesIn(new) \subseteq NamesIn(vec)
  BY <1>5, <1>6, <1>7, SomeAre
<1>9. EndsOpen(new)
  BY <1>3, <1>5, VecIs DEF EndsOpen
<1>10. QED
  BY <1>4, <1>8, <1>9

\* How many of the first i slots are open.
LEMMA OpenUpToIs ==
  ASSUME NEW vec, Good(vec)
  PROVE  /\ \A i \in 0 .. Len(vec) : OpenUpTo(vec, i) \in Nat
         /\ OpenUpTo(vec, 0) = 0
         /\ \A i \in 1 .. Len(vec) :
              OpenUpTo(vec, i) = IF vec[i].open THEN OpenUpTo(vec, i - 1) + 1 ELSE OpenUpTo(vec, i - 1)
         /\ OpenUpTo(vec, Len(vec)) = Count(vec)
<1> DEFINE S(i) == {j \in 1 .. i : vec[j].open}
<1>1. DOMAIN vec = 1 .. Len(vec) /\ Len(vec) \in Nat
  BY VecIs DEF Good
<1>2. ASSUME NEW i \in 0 .. Len(vec) PROVE IsFiniteSet(S(i)) /\ Cardinality(S(i)) \in Nat
  <2>1. IsFiniteSet(1 .. i) /\ S(i) \in SUBSET (1 .. i)
    BY FS_Interval
  <2> HIDE DEF S
  <2>2. QED
    BY <2>1, FS_Subset, FS_CardinalityType
<1>3. ASSUME NEW i \in 1 .. Len(vec)
      PROVE  Cardinality(S(i)) = IF vec[i].open THEN Cardinality(S(i - 1)) + 1 ELSE Cardinality(S(i - 1))
  <2>1. i - 1 \in 0 .. Len(vec) /\ i \notin S(i - 1)
    BY <1>1
  <2>2. S(i) = IF vec[i].open THEN S(i - 1) \cup {i} ELSE S(i - 1)
    <3>1. \A j : j \in 1 .. i <=> j \in 1 .. i - 1 \/ j = i
      BY <1>1
    <3>2. QED
      BY <3>1
  <2>3. IsFiniteSet(S(i - 1))
    BY <1>2, <2>1
  <2> HIDE DEF S
  <2>4. QED
    BY <2>1, <2>2, <2>3, FS_AddElement
<1>4. S(0) = {} /\ Cardinality({}) = 0
  <2>1. 1 .. 0 = {}
    OBVIOUS
  <2>2. QED
    BY <2>1, FS_EmptySet
<1>5. S(Len(vec)) = OpenAt(vec)
  BY <1>1 DEF OpenAt
<1>6. \A i : OpenUpTo(vec, i) = Cardinality(S(i))
  BY DEF OpenUpTo
<1> HIDE DEF S
<1>7. QED
  BY <1>2, <1>3, <1>4, <1>5, <1>6 DEF Count

\* It grows with each open slot, and by one.
LEMMA OpenUpToGrows ==
  ASSUME NEW vec, Good(vec)
  PROVE  /\ \A i, j \in 0 .. Len(vec) : i <= j => OpenUpTo(vec, i) <= OpenUpTo(vec, j)
         /\ \A i, j \in OpenAt(vec) : i < j => OpenUpTo(vec, i) < OpenUpTo(vec, j)
<1>1. DOMAIN vec = 1 .. Len(vec) /\ Len(vec) \in Nat
  BY VecIs DEF Good
<1>2. ASSUME NEW i \in 0 .. Len(vec), NEW j \in 0 .. Len(vec), i <= j
      PROVE  OpenUpTo(vec, i) <= OpenUpTo(vec, j)
  <2>1. IsFiniteSet({k \in 1 .. j : vec[k].open})
    <3>1. IsFiniteSet(1 .. j) /\ {k \in 1 .. j : vec[k].open} \in SUBSET (1 .. j)
      BY FS_Interval
    <3>2. QED
      BY <3>1, FS_Subset
  <2>2. {k \in 1 .. i : vec[k].open} \in SUBSET {k \in 1 .. j : vec[k].open}
    BY <1>2
  <2>3. QED
    BY <2>1, <2>2, FS_Subset DEF OpenUpTo
<1>3. ASSUME NEW i \in OpenAt(vec), NEW j \in OpenAt(vec), i < j
      PROVE  OpenUpTo(vec, i) < OpenUpTo(vec, j)
  <2>1. /\ i \in 0 .. Len(vec) /\ j \in 1 .. Len(vec) /\ j - 1 \in 0 .. Len(vec) /\ i <= j - 1
        /\ vec[j].open
    BY <1>1, <1>3 DEF OpenAt
  <2>2. OpenUpTo(vec, i) <= OpenUpTo(vec, j - 1)
    BY <1>2, <2>1
  <2>3. /\ OpenUpTo(vec, j) = OpenUpTo(vec, j - 1) + 1
        /\ OpenUpTo(vec, j - 1) \in Nat /\ OpenUpTo(vec, i) \in Nat
    BY <2>1, OpenUpToIs
  <2>4. QED
    BY <2>2, <2>3
<1>4. QED
  BY <1>2, <1>3

\* mail.rs, take: the closed slots are swept out.
LEMMA RetainedIs ==
  ASSUME NEW vec, Good(vec)
  PROVE  /\ Good(Retained(vec)) /\ OpenIn(Retained(vec)) = OpenIn(vec)
         /\ NamesIn(Retained(vec)) \subseteq NamesIn(vec)
         /\ Len(Retained(vec)) = Count(vec)
         /\ EndsOpen(Retained(vec))
<1> DEFINE m == Count(vec)
           At(k) == CHOOSE i \in DOMAIN vec : vec[i].open /\ OpenUpTo(vec, i) = k
           new == Retained(vec)
<1>1. /\ DOMAIN vec = 1 .. Len(vec) /\ Len(vec) \in Nat /\ m \in Nat
      /\ \A i \in 1 .. Len(vec) : vec[i] \in Slot
  BY VecIs, CountIs DEF Good
<1>2. ASSUME NEW k \in 1 .. m
      PROVE  \E i \in DOMAIN vec : vec[i].open /\ OpenUpTo(vec, i) = k
  <2> DEFINE T == {i \in 0 .. Len(vec) : k <= OpenUpTo(vec, i)}
  <2>1. T \subseteq Nat /\ Len(vec) \in T
    BY <1>1, OpenUpToIs
  <2>2. PICK i \in T : \A j \in T : ~(j < i)
    BY <2>1, LeastExists
  <2>3. i \in 1 .. Len(vec)
    BY <1>1, OpenUpToIs
  <2>4. i - 1 \in 0 .. Len(vec) /\ i - 1 < i
    BY <1>1, <2>3
  <2>5. ~(k <= OpenUpTo(vec, i - 1))
    BY <2>2, <2>4
  <2>6. QED
    BY <1>1, <2>3, <2>4, <2>5, OpenUpToIs
<1>3. ASSUME NEW k \in 1 .. m PROVE At(k) \in DOMAIN vec /\ vec[At(k)].open /\ OpenUpTo(vec, At(k)) = k
  BY <1>2
<1>4. new = [k \in 1 .. m |-> vec[At(k)]]
  BY OpenUpToIs DEF Retained
<1> DEFINE f == [k \in 1 .. m |-> At(k)]
<1>5. \A k \in 1 .. m : f[k] = At(k)
  OBVIOUS
<1> HIDE DEF At, new, f
<1>6. new \in [1 .. m -> Slot]
  BY <1>1, <1>3, <1>4
<1>7. new \in Seq(Slot) /\ Len(new) = m /\ DOMAIN new = 1 .. m
  BY <1>1, <1>6, SeqDef, LenProperties
<1>8. f \in [DOMAIN new -> DOMAIN vec] /\ \A k \in DOMAIN new : new[k] = vec[f[k]]
  BY <1>3, <1>4, <1>5, <1>7 DEF f
<1>9. ASSUME NEW k \in DOMAIN new, NEW l \in DOMAIN new, k < l PROVE f[k] < f[l]
  <2>1. /\ f[k] \in 1 .. Len(vec) /\ f[l] \in 1 .. Len(vec)
        /\ OpenUpTo(vec, f[k]) = k /\ OpenUpTo(vec, f[l]) = l
    BY <1>1, <1>3, <1>5, <1>7
  <2>2. ~(f[l] <= f[k])
    <3> SUFFICES ASSUME f[l] <= f[k] PROVE FALSE
      OBVIOUS
    <3>1. l <= k
      BY <1>1, <2>1, OpenUpToGrows
    <3>2. QED
      BY <1>7, <1>9, <3>1
  <2>3. QED
    BY <2>1, <2>2
<1>10. ASSUME NEW i \in OpenAt(vec) PROVE \E k \in DOMAIN new : f[k] = i
  <2> DEFINE k == OpenUpTo(vec, i)
  <2>1. i \in 1 .. Len(vec) /\ i - 1 \in 0 .. Len(vec) /\ vec[i].open
    BY <1>1 DEF OpenAt
  <2>2. k \in 1 .. m
    <3>1. k = OpenUpTo(vec, i - 1) + 1 /\ OpenUpTo(vec, i - 1) \in Nat
      BY <2>1, OpenUpToIs
    <3>2. k <= OpenUpTo(vec, Len(vec))
      BY <1>1, <2>1, OpenUpToGrows
    <3>3. QED
      BY <1>1, <3>1, <3>2, OpenUpToIs
  <2> HIDE DEF k
  <2>3. f[k] \in OpenAt(vec) /\ OpenUpTo(vec, f[k]) = k
    BY <1>3, <1>5, <2>2 DEF OpenAt
  <2>4. ~(f[k] < i) /\ ~(i < f[k])
    <3>1. OpenUpTo(vec, i) = k /\ k \in Nat
      BY <2>2 DEF k
    <3>2. QED
      BY <2>3, <3>1, OpenUpToGrows
  <2>5. f[k] \in Nat /\ i \in Nat
    BY <1>1, <2>1, <2>3 DEF OpenAt
  <2>6. QED
    BY <1>7, <2>2, <2>4, <2>5
<1>11. Good(new) /\ OpenIn(new) = OpenIn(vec) /\ NamesIn(new) \subseteq NamesIn(vec)
  BY <1>7, <1>8, <1>9, <1>10, SomeAre
<1>12. EndsOpen(new)
  BY <1>1, <1>3, <1>4, <1>7, VecIs DEF EndsOpen
<1>13. QED
  BY <1>7, <1>11, <1>12 DEF new

\* mail.rs, a slot is changed where it is, or closed.
LEMMA SetIs ==
  ASSUME NEW vec, Good(vec), NEW i \in OpenAt(vec),
         NEW slot \in Slot, slot.id = vec[i].id,
         ~slot.open => ~slot.value /\ ~slot.waker
  PROVE  LET new == [vec EXCEPT ![i] = slot]
         IN  /\ Good(new)
             /\ NamesIn(new) = NamesIn(vec)
             /\ OpenIn(new) = (OpenIn(vec) \ {vec[i]}) \cup (IF slot.open THEN {slot} ELSE {})
             /\ Len(new) = Len(vec)
             /\ Count(new) = IF slot.open THEN Count(vec) ELSE Count(vec) - 1
             /\ slot.open /\ EndsOpen(vec) => EndsOpen(new)
<1> DEFINE new == [vec EXCEPT ![i] = slot]
<1>1. /\ vec \in Seq(Slot) /\ DOMAIN vec = 1 .. Len(vec) /\ Len(vec) \in Nat
      /\ \A j \in 1 .. Len(vec) : vec[j] \in Slot
      /\ i \in 1 .. Len(vec) /\ vec[i].open
  BY VecIs DEF Good, OpenAt
<1>2. /\ new \in Seq(Slot) /\ DOMAIN new = 1 .. Len(vec) /\ Len(new) = Len(vec)
      /\ \A j \in 1 .. Len(vec) : new[j] = IF j = i THEN slot ELSE vec[j]
  BY <1>1, ExceptSeq
<1>3. \A j \in 1 .. Len(vec) : new[j].id = vec[j].id
  BY <1>2
<1> HIDE DEF new
<1>4. Good(new)
  <2>1. \A j \in DOMAIN new : ~new[j].open => ~new[j].value /\ ~new[j].waker
    BY <1>1, <1>2 DEF Good
  <2>2. \A j, k \in DOMAIN new : j < k => new[j].id < new[k].id
    BY <1>1, <1>2, <1>3 DEF Good
  <2>3. QED
    BY <1>2, <2>1, <2>2 DEF Good
<1>5. NamesIn(new) = NamesIn(vec)
  BY <1>1, <1>2, <1>3 DEF NamesIn
<1>6. OpenAt(new) = IF slot.open THEN OpenAt(vec) ELSE OpenAt(vec) \ {i}
  BY <1>1, <1>2 DEF OpenAt
<1>7. \A j \in OpenAt(vec) : vec[j] = vec[i] => j = i
  BY IdsName DEF OpenAt
<1>8. OpenIn(new) = (OpenIn(vec) \ {vec[i]}) \cup (IF slot.open THEN {slot} ELSE {})
  <2>1. \A j \in OpenAt(new) : new[j] = IF j = i THEN slot ELSE vec[j]
    BY <1>2 DEF OpenAt
  <2>2. ASSUME NEW x \in OpenIn(new)
        PROVE  x \in (OpenIn(vec) \ {vec[i]}) \cup (IF slot.open THEN {slot} ELSE {})
    <3>1. PICK j \in OpenAt(new) : x = new[j]
      BY DEF OpenIn
    <3>2. CASE j = i
      BY <1>6, <2>1, <3>1, <3>2
    <3>3. CASE j # i
      <4>1. j \in OpenAt(vec) /\ x = vec[j] /\ vec[j] # vec[i]
        BY <1>6, <1>7, <2>1, <3>1, <3>3
      <4>2. QED
        BY <4>1 DEF OpenIn
    <3>4. QED
      BY <3>2, <3>3
  <2>3. ASSUME NEW x \in OpenIn(vec) \ {vec[i]} PROVE x \in OpenIn(new)
    <3>1. PICK j \in OpenAt(vec) : x = vec[j]
      BY DEF OpenIn
    <3>2. j # i /\ j \in OpenAt(new) /\ new[j] = x
      BY <1>6, <2>1, <2>3, <3>1
    <3>3. QED
      BY <3>2 DEF OpenIn
  <2>4. slot.open => slot \in OpenIn(new)
    <3>1. slot.open => i \in OpenAt(new) /\ new[i] = slot
      BY <1>6, <2>1
    <3>2. QED
      BY <3>1 DEF OpenIn
  <2>5. QED
    BY <2>2, <2>3, <2>4
<1>9. Count(new) = IF slot.open THEN Count(vec) ELSE Count(vec) - 1
  <2>1. IsFiniteSet(OpenAt(vec))
    BY CountIs
  <2>2. ~slot.open => Cardinality(OpenAt(vec) \ {i}) = Cardinality(OpenAt(vec)) - 1
    BY <2>1, FS_RemoveElement
  <2>3. QED
    BY <1>6, <2>2 DEF Count
<1>10. slot.open /\ EndsOpen(vec) => EndsOpen(new)
  BY <1>1, <1>2, VecIs DEF EndsOpen
<1>11. QED
  BY <1>2, <1>4, <1>5, <1>8, <1>9, <1>10 DEF new

\* A slot put in after the first n.
Inserted(vec, n, slot) == SubSeq(vec, 1, n) \o <<slot>> \o SubSeq(vec, n + 1, Len(vec))

LEMMA InsertedAt ==
  ASSUME NEW vec \in Seq(Slot), NEW slot \in Slot, NEW n \in Nat, n <= Len(vec)
  PROVE  /\ Inserted(vec, n, slot) \in Seq(Slot)
         /\ DOMAIN Inserted(vec, n, slot) = 1 .. Len(vec) + 1
         /\ Len(Inserted(vec, n, slot)) = Len(vec) + 1
         /\ \A k \in 1 .. Len(vec) + 1 :
              Inserted(vec, n, slot)[k] = IF k <= n THEN vec[k] ELSE IF k = n + 1 THEN slot ELSE vec[k - 1]
<1> DEFINE S == Slot
           new == Inserted(vec, n, slot)
           len == Len(vec)
           a == SubSeq(vec, 1, n)
           b == <<slot>>
           c == SubSeq(vec, n + 1, len)
<1>1. len \in Nat /\ \A k \in 1 .. len : vec[k] \in S
  BY LenProperties, ElementOfSeq
<1>2. n <= len
  OBVIOUS
<1>3. new = (a \o b) \o c
  BY DEF Inserted
<1> HIDE DEF len, S, new
<1>4. a \in Seq(S) /\ Len(a) = n /\ \A k \in 1 .. n : a[k] = vec[k]
  <2>1. \A k \in 1 .. n : vec[k] \in S
    BY <1>1, <1>2
  <2>2. /\ a \in Seq(S) /\ Len(a) = IF 1 <= n THEN n - 1 + 1 ELSE 0
        /\ \A k \in 1 .. n - 1 + 1 : a[k] = vec[1 + k - 1]
    BY <2>1, SubSeqProperties
  <2> HIDE DEF a
  <2>3. Len(a) = n /\ n - 1 + 1 = n
    BY <2>2
  <2>4. \A k \in 1 .. n : 1 + k - 1 = k
    OBVIOUS
  <2>5. QED
    BY <2>2, <2>3, <2>4
<1>5. b \in Seq(S) /\ Len(b) = 1 /\ b[1] = slot
  BY DEF S
<1>6. c \in Seq(S) /\ Len(c) = len - n /\ \A k \in 1 .. len - n : c[k] = vec[n + k]
  <2>1. \A k \in n + 1 .. len : vec[k] \in S
    BY <1>1, <1>2
  <2>2. /\ c \in Seq(S) /\ Len(c) = IF n + 1 <= len THEN len - (n + 1) + 1 ELSE 0
        /\ \A k \in 1 .. len - (n + 1) + 1 : c[k] = vec[n + 1 + k - 1]
    BY <1>1, <2>1, SubSeqProperties
  <2> HIDE DEF c
  <2>3. Len(c) = len - n /\ len - (n + 1) + 1 = len - n
    BY <1>1, <1>2, <2>2
  <2>4. \A k \in 1 .. len - n : n + 1 + k - 1 = n + k
    OBVIOUS
  <2>5. QED
    BY <2>2, <2>3, <2>4
<1> HIDE DEF a, b, c
<1>7. /\ a \o b \in Seq(S) /\ Len(a \o b) = n + 1
      /\ \A k \in 1 .. n + 1 : (a \o b)[k] = IF k <= n THEN a[k] ELSE b[k - n]
  <2>1. /\ a \o b \in Seq(S) /\ Len(a \o b) = Len(a) + Len(b)
        /\ \A k \in 1 .. Len(a) + Len(b) : (a \o b)[k] = IF k <= Len(a) THEN a[k] ELSE b[k - Len(a)]
    BY <1>4, <1>5, ConcatProperties
  <2>2. Len(a) = n /\ Len(a) + Len(b) = n + 1
    BY <1>4, <1>5
  <2>3. QED
    BY <2>1, <2>2, Zenon
<1>8. /\ new \in Seq(S) /\ Len(new) = (n + 1) + (len - n)
      /\ \A k \in 1 .. (n + 1) + (len - n) :
           new[k] = IF k <= n + 1 THEN (a \o b)[k] ELSE c[k - (n + 1)]
  <2> DEFINE d == a \o b
  <2>1. new = d \o c /\ d \in Seq(S) /\ Len(d) = n + 1
    BY <1>3, <1>7
  <2> HIDE DEF d
  <2>2. /\ d \o c \in Seq(S) /\ Len(d \o c) = Len(d) + Len(c)
        /\ \A k \in 1 .. Len(d) + Len(c) : (d \o c)[k] = IF k <= Len(d) THEN d[k] ELSE c[k - Len(d)]
    BY <1>6, <2>1, ConcatProperties
  <2>3. QED
    BY <1>6, <2>1, <2>2, Zenon DEF d
<1>9. (n + 1) + (len - n) = len + 1
  BY <1>1
<1>10. DOMAIN new = 1 .. len + 1
  BY <1>8, <1>9, LenProperties
<1>11. ASSUME NEW k \in 1 .. len + 1
      PROVE  new[k] = IF k <= n THEN vec[k] ELSE IF k = n + 1 THEN slot ELSE vec[k - 1]
  <2>0. new[k] = IF k <= n + 1 THEN (a \o b)[k] ELSE c[k - (n + 1)]
    BY <1>8, <1>9
  <2>1. CASE k <= n
    <3>1. k \in 1 .. n /\ k \in 1 .. n + 1 /\ k <= n + 1
      BY <1>1, <2>1
    <3>2. QED
      BY <1>4, <1>7, <2>0, <2>1, <3>1
  <2>2. CASE k = n + 1
    <3>1. k \in 1 .. n + 1 /\ k <= n + 1 /\ ~(k <= n) /\ k - n = 1
      BY <2>2
    <3>2. QED
      BY <1>5, <1>7, <2>0, <2>2, <3>1
  <2>3. CASE k > n + 1
    <3>1. /\ k - (n + 1) \in 1 .. len - n /\ n + (k - (n + 1)) = k - 1
          /\ ~(k <= n + 1) /\ ~(k <= n) /\ k # n + 1
      BY <1>1, <1>2, <2>3
    <3>2. QED
      BY <1>6, <2>0, <3>1
  <2>4. k \in Nat /\ (k <= n \/ k = n + 1 \/ k > n + 1)
    BY <1>1
  <2>5. QED
    BY <2>1, <2>2, <2>3, <2>4
<1>12. QED
  BY <1>8, <1>9, <1>10, <1>11 DEF len, new, S

\* mail.rs, open: a new slot goes where its id does.
Below(vec, id) == Cardinality({i \in DOMAIN vec : vec[i].id < id})

LEMMA BelowIs ==
  ASSUME NEW vec, Good(vec), NEW slot \in Slot, slot.id \notin NamesIn(vec),
         NEW n, n = Below(vec, slot.id)
  PROVE  /\ n \in Nat /\ n <= Len(vec)
         /\ \A i \in 1 .. n : vec[i].id < slot.id
         /\ \A i \in n + 1 .. Len(vec) : slot.id < vec[i].id
<1> DEFINE len == Len(vec)
           Less == {i \in DOMAIN vec : vec[i].id < slot.id}
           Over == {k \in 0 .. len : \A i \in k + 1 .. len : ~(vec[i].id < slot.id)}
<1>1. /\ vec \in Seq(Slot) /\ DOMAIN vec = 1 .. len /\ len \in Nat
      /\ \A i \in 1 .. len : vec[i] \in Slot /\ vec[i].id \in Nat
      /\ slot.id \in Nat
  BY VecIs, SlotIs DEF Good
<1>2. n \in 0 .. len /\ Less = 1 .. n
  <2>1. Over \subseteq Nat /\ len \in Over
    BY <1>1
  <2>2. PICK m \in Over : \A k \in Over : ~(k < m)
    BY <2>1, LeastExists
  <2>3. m \in 0 .. len /\ \A i \in m + 1 .. len : ~(vec[i].id < slot.id)
    OBVIOUS
  <2>4. m > 0 => vec[m].id < slot.id
    <3> SUFFICES ASSUME m > 0, ~(vec[m].id < slot.id) PROVE FALSE
      OBVIOUS
    <3>1. m - 1 \in Over
      <4>1. m - 1 \in 0 .. len
        BY <1>1, <2>3
      <4>2. \A i \in m - 1 + 1 .. len : i = m \/ i \in m + 1 .. len
        BY <1>1, <2>3
      <4>3. QED
        BY <2>3, <4>1, <4>2
    <3>2. m - 1 < m
      BY <2>3
    <3>3. QED
      BY <2>2, <3>1, <3>2
  <2> HIDE DEF Over, len
  <2>5. \A i \in 1 .. m : vec[i].id < slot.id
    <3> SUFFICES ASSUME NEW i \in 1 .. m PROVE vec[i].id < slot.id
      OBVIOUS
    <3>1. m \in 1 .. len /\ i \in 1 .. len /\ (i = m \/ i < m)
      BY <1>1, <2>3
    <3>2. i < m => vec[i].id < vec[m].id
      BY <1>1, <3>1 DEF Good
    <3>3. vec[m].id < slot.id /\ vec[i].id \in Nat /\ vec[m].id \in Nat
      BY <1>1, <2>4, <3>1
    <3>4. QED
      BY <1>1, <3>1, <3>2, <3>3
  <2>6. Less = 1 .. m
    <3>1. \A i \in 1 .. len : i \in 1 .. m \/ i \in m + 1 .. len
      BY <1>1, <2>3
    <3>2. 1 .. m \subseteq 1 .. len
      BY <1>1, <2>3
    <3>3. QED
      BY <1>1, <2>3, <2>5, <3>1, <3>2
  <2>7. n = m
    <3>1. n = Cardinality(Less)
      BY DEF Below
    <3>2. m \in Nat /\ Cardinality(1 .. m) = m
      BY <1>1, <2>3, FS_Interval
    <3> HIDE DEF Less
    <3>3. QED
      BY <2>6, <3>1, <3>2
  <2>8. QED
    BY <2>3, <2>6, <2>7
<1>3. /\ \A i \in 1 .. n : vec[i].id < slot.id
      /\ \A i \in n + 1 .. len : slot.id < vec[i].id
  <2>1. \A i \in 1 .. n : i \in Less
    BY <1>2
  <2>2. ASSUME NEW i \in n + 1 .. len PROVE slot.id < vec[i].id
    <3>1. i \in 1 .. len /\ i \notin 1 .. n
      BY <1>1, <1>2
    <3>2. ~(vec[i].id < slot.id) /\ vec[i].id # slot.id
      BY <1>1, <1>2, <3>1 DEF NamesIn
    <3>3. QED
      BY <1>1, <3>1, <3>2
  <2>3. QED
    BY <2>1, <2>2
<1>4. QED
  BY <1>1, <1>2, <1>3

LEMMA InsertIs ==
  ASSUME NEW vec, Good(vec), NEW slot \in Slot, slot.open,
         slot.id \notin NamesIn(vec),
         NEW n \in Nat, n <= Len(vec),
         \A i \in 1 .. n : vec[i].id < slot.id,
         \A i \in n + 1 .. Len(vec) : slot.id < vec[i].id
  PROVE  LET new == Inserted(vec, n, slot)
         IN  /\ Good(new)
             /\ NamesIn(new) = NamesIn(vec) \cup {slot.id}
             /\ OpenIn(new) = OpenIn(vec) \cup {slot}
             /\ Len(new) = Len(vec) + 1
             /\ Count(new) = Count(vec) + 1
             /\ EndsOpen(vec) => EndsOpen(new)
<1> DEFINE len == Len(vec)
           new == Inserted(vec, n, slot)
           place == n + 1
<1>1. /\ vec \in Seq(Slot) /\ DOMAIN vec = 1 .. len /\ len \in Nat
      /\ \A i \in 1 .. len : vec[i] \in Slot /\ vec[i].id \in Nat
      /\ slot.id \in Nat
  BY VecIs, SlotIs DEF Good
<1>a. n \in Nat /\ len \in Nat /\ n <= len
  BY <1>1
<1>3. /\ \A i \in 1 .. n : vec[i].id < slot.id
      /\ \A i \in n + 1 .. len : slot.id < vec[i].id
  OBVIOUS
<1>4. /\ new \in Seq(Slot) /\ DOMAIN new = 1 .. len + 1 /\ Len(new) = len + 1
      /\ \A k \in 1 .. len + 1 : new[k] = IF k <= n THEN vec[k]
                                         ELSE IF k = n + 1 THEN slot ELSE vec[k - 1]
  <2>1. vec \in Seq(Slot) /\ slot \in Slot /\ n \in Nat /\ n <= Len(vec)
    BY <1>1
  <2>2. new \in Seq(Slot)
    BY <2>1, InsertedAt
  <2>3. DOMAIN new = 1 .. len + 1 /\ Len(new) = len + 1
    BY <2>1, InsertedAt
  <2>4. \A k \in 1 .. len + 1 : new[k] = IF k <= n THEN vec[k]
                                         ELSE IF k = n + 1 THEN slot ELSE vec[k - 1]
    BY <2>1, InsertedAt
  <2>5. QED
    BY <2>2, <2>3, <2>4, Zenon
<1> HIDE DEF len, new
<1>5. place \in 1 .. len + 1 /\ new[place] = slot
  <2>1. place \in 1 .. len + 1 /\ ~(place <= n)
    BY <1>a
  <2>2. QED
    BY <1>4, <2>1
<1>6. ASSUME NEW k \in 1 .. len
      PROVE  \E l \in 1 .. len + 1 : new[l] = vec[k]
  <2>1. CASE k <= n
    <3>1. k \in 1 .. len + 1
      BY <1>a
    <3>2. QED
      BY <1>4, <2>1, <3>1
  <2>2. CASE ~(k <= n)
    <3> DEFINE l == k + 1
    <3>1. l \in 1 .. len + 1 /\ ~(l <= n) /\ l - 1 = k /\ l # n + 1
      BY <1>a, <2>2
    <3> HIDE DEF l
    <3>2. new[l] = vec[k]
      BY <1>4, <3>1
    <3>3. QED
      BY <3>1, <3>2
  <2>3. QED
    BY <2>1, <2>2
<1>7. ASSUME NEW k \in 1 .. len + 1
      PROVE  k = place \/ \E j \in 1 .. len : new[k] = vec[j]
  <2>1. CASE k <= n
    <3>1. k \in 1 .. len
      BY <1>a, <2>1
    <3>2. QED
      BY <1>4, <2>1, <3>1
  <2>2. CASE k > n + 1
    <3>1. k - 1 \in 1 .. len /\ ~(k <= n) /\ k # n + 1
      BY <1>a, <2>2
    <3>2. QED
      BY <1>4, <3>1
  <2>3. k <= n \/ k = place \/ k > n + 1
    BY <1>a
  <2>4. QED
    BY <2>1, <2>2, <2>3
<1> HIDE DEF place
<1>8. Good(new)
  <2>1. ASSUME NEW k \in DOMAIN new, NEW l \in DOMAIN new, k < l
        PROVE  new[k].id < new[l].id
    <3> DEFINE From(j) == IF j <= n THEN j ELSE j - 1
    <3>0. k \in 1 .. len + 1 /\ l \in 1 .. len + 1
      BY <1>4
    <3>1. ASSUME NEW j \in 1 .. len + 1, j # n + 1
          PROVE  From(j) \in 1 .. len /\ new[j] = vec[From(j)]
      <4>1. CASE j <= n
        <5>1. j \in 1 .. len
          BY <1>a, <4>1
        <5>2. QED
          BY <1>4, <4>1, <5>1
      <4>2. CASE ~(j <= n)
        <5>1. j - 1 \in 1 .. len
          BY <1>a, <3>1, <4>2
        <5>2. QED
          BY <1>4, <3>1, <4>2, <5>1
      <4>3. QED
        BY <4>1, <4>2
    <3>2. CASE k # n + 1 /\ l # n + 1
      <4>1. From(k) < From(l)
        BY <1>a, <2>1, <3>0, <3>2
      <4> HIDE DEF From
      <4>2. vec[From(k)].id < vec[From(l)].id
        BY <1>1, <3>0, <3>1, <3>2, <4>1 DEF Good
      <4>3. QED
        BY <3>0, <3>1, <3>2, <4>2
    <3>3. CASE k = n + 1
      <4>1. /\ l # n + 1 /\ From(l) = l - 1 /\ l - 1 \in n + 1 .. len
            /\ new[k] = slot
        <5>1. l # n + 1 /\ l - 1 \in n + 1 .. len /\ ~(l <= n)
          BY <1>a, <2>1, <3>0, <3>3
        <5>2. new[k] = slot
          BY <1>5, <3>3 DEF place
        <5>3. QED
          BY <5>1, <5>2
      <4> HIDE DEF From
      <4>2. QED
        BY <1>3, <3>0, <3>1, <4>1
    <3>4. CASE l = n + 1
      <4>1. k # n + 1 /\ From(k) = k /\ k \in 1 .. n /\ new[l] = slot
        <5>1. k # n + 1 /\ k <= n /\ k \in 1 .. n
          BY <1>a, <2>1, <3>0, <3>4
        <5>2. new[l] = slot
          BY <1>5, <3>4 DEF place
        <5>3. QED
          BY <5>1, <5>2
      <4> HIDE DEF From
      <4>2. QED
        BY <1>3, <3>0, <3>1, <4>1
    <3>5. QED
      BY <3>2, <3>3, <3>4
  <2>2. ASSUME NEW k \in DOMAIN new, ~new[k].open PROVE ~new[k].value /\ ~new[k].waker
    <3>1. k # place
      BY <1>5, <2>2
    <3>2. PICK j \in 1 .. len : new[k] = vec[j]
      BY <1>4, <1>7, <3>1
    <3>3. QED
      BY <1>1, <2>2, <3>2 DEF Good
  <2>3. QED
    BY <1>4, <2>1, <2>2 DEF Good
<1>9. NamesIn(new) = NamesIn(vec) \cup {slot.id}
  <2>1. ASSUME NEW k \in 1 .. len + 1 PROVE new[k].id \in NamesIn(vec) \cup {slot.id}
    <3>1. CASE k = place
      BY <1>5, <3>1
    <3>2. CASE k # place
      <4>1. PICK j \in 1 .. len : new[k] = vec[j]
        BY <1>7, <3>2
      <4>2. QED
        BY <1>1, <4>1 DEF NamesIn
    <3>3. QED
      BY <3>1, <3>2
  <2>2. ASSUME NEW k \in 1 .. len PROVE vec[k].id \in NamesIn(new)
    BY <1>4, <1>6 DEF NamesIn
  <2>3. slot.id \in NamesIn(new)
    BY <1>4, <1>5 DEF NamesIn
  <2>4. NamesIn(new) = {new[k].id : k \in 1 .. len + 1} /\ NamesIn(vec) = {vec[k].id : k \in 1 .. len}
    BY <1>1, <1>4 DEF NamesIn
  <2>5. \A x \in NamesIn(new) : x \in NamesIn(vec) \cup {slot.id}
    BY <2>1, <2>4
  <2>6. \A x \in NamesIn(vec) : x \in NamesIn(new)
    BY <2>2, <2>4
  <2>7. QED
    BY <2>3, <2>5, <2>6
<1>10. OpenIn(new) = OpenIn(vec) \cup {slot}
  <2>1. ASSUME NEW k \in OpenAt(new) PROVE new[k] \in OpenIn(vec) \cup {slot}
    <3>1. k \in 1 .. len + 1 /\ new[k].open
      BY <1>4 DEF OpenAt
    <3>2. CASE k = place
      BY <1>5, <3>2
    <3>3. CASE k # place
      <4>1. PICK j \in 1 .. len : new[k] = vec[j]
        BY <1>7, <3>1, <3>3
      <4>2. QED
        BY <1>1, <3>1, <4>1 DEF OpenAt, OpenIn
    <3>4. QED
      BY <3>2, <3>3
  <2>2. ASSUME NEW k \in OpenAt(vec) PROVE vec[k] \in OpenIn(new)
    <3>1. k \in 1 .. len /\ vec[k].open
      BY <1>1 DEF OpenAt
    <3>2. PICK l \in OpenAt(new) : new[l] = vec[k]
      BY <1>4, <1>6, <3>1 DEF OpenAt
    <3>3. QED
      BY <3>2 DEF OpenIn
  <2>3. slot \in OpenIn(new)
    BY <1>4, <1>5 DEF OpenAt, OpenIn
  <2>4. \A x \in OpenIn(new) : x \in OpenIn(vec) \cup {slot}
    BY <2>1 DEF OpenIn
  <2>5. \A x \in OpenIn(vec) : x \in OpenIn(new)
    BY <2>2 DEF OpenIn
  <2>6. QED
    BY <2>3, <2>4, <2>5
<1>11. Count(new) = Count(vec) + 1
  <2>1. IdsOf(OpenIn(new)) = IdsOf(OpenIn(vec)) \cup {slot.id}
    BY <1>10 DEF IdsOf
  <2>2. slot.id \notin IdsOf(OpenIn(vec))
    BY DEF IdsOf, OpenIn, OpenAt, NamesIn
  <2>3. IsFiniteSet(IdsOf(OpenIn(vec)))
    BY CountIs
  <2>4. Cardinality(IdsOf(OpenIn(new))) = Cardinality(IdsOf(OpenIn(vec))) + 1
    BY <2>1, <2>2, <2>3, FS_AddElement
  <2>5. QED
    BY <1>8, <2>4, CountIs
<1>12. EndsOpen(vec) => EndsOpen(new)
  <2>1. CASE n = len
    <3>1. len + 1 = place
      BY <2>1 DEF place
    <3>2. QED
      BY <1>4, <1>5, <3>1 DEF EndsOpen
  <2>2. CASE n # len
    <3>1. /\ len # 0 /\ len + 1 \in 1 .. len + 1 /\ ~(len + 1 <= n) /\ len + 1 # n + 1
          /\ len + 1 - 1 = len
      BY <1>a, <2>2
    <3>2. new[len + 1] = vec[len] /\ vec # << >>
      BY <1>1, <1>4, <3>1, VecIs DEF len
    <3>3. QED
      BY <1>4, <3>2 DEF EndsOpen, len
  <2>3. QED
    BY <2>1, <2>2
<1>13. QED
  BY <1>4, <1>8, <1>9, <1>10, <1>11, <1>12 DEF len, new

-----------------------------------------------------------------------------
(* The operations *)

Kept ==
  /\ Good(slots)
  /\ EndsOpen(slots)
  /\ open = Count(slots)
  /\ Len(slots) - open <= open

\* Every slot's id is minted, and not still to be opened.
Fresh ==
  /\ \A id \in unopened : id < next /\ id \notin NamesIn(slots)
  /\ \A id \in NamesIn(slots) : id < next

Inv == TypeOK /\ Kept /\ Fresh

LEMMA PositionsAre ==
  ASSUME Kept, NEW id
  PROVE  /\ Positions(id) = {i \in OpenAt(slots) : slots[i].id = id}
         /\ \A i, j \in Positions(id) : i = j
<1>1. DOMAIN slots = 1 .. Len(slots) /\ Len(slots) \in Nat /\ (slots = << >> <=> Len(slots) = 0)
  BY VecIs DEF Kept, Good
<1>2. \A i \in DOMAIN slots : i = Len(slots) => slots[i].open
  BY <1>1 DEF Kept, EndsOpen
<1>3. Positions(id) = {i \in OpenAt(slots) : slots[i].id = id}
  BY <1>2 DEF Positions, OpenAt
<1>4. \A i, j \in Positions(id) : i = j
  BY <1>3, IdsName DEF Kept, OpenAt
<1>5. QED
  BY <1>3, <1>4

LEMMA SweptIs ==
  ASSUME NEW vec, Good(vec), EndsOpen(vec)
  PROVE  LET new == Swept(vec, Count(vec))
         IN  /\ Good(new) /\ OpenIn(new) = OpenIn(vec) /\ EndsOpen(new)
             /\ NamesIn(new) \subseteq NamesIn(vec)
             /\ Count(new) = Count(vec)
             /\ Len(new) - Count(vec) <= Count(vec)
<1>1. Count(vec) \in Nat /\ Len(vec) \in Nat
  BY CountIs, VecIs DEF Good
<1>2. CASE Len(vec) - Count(vec) > Count(vec)
  <2>1. Swept(vec, Count(vec)) = Retained(vec)
    BY <1>2 DEF Swept
  <2>2. /\ Good(Retained(vec)) /\ OpenIn(Retained(vec)) = OpenIn(vec)
        /\ NamesIn(Retained(vec)) \subseteq NamesIn(vec)
        /\ Len(Retained(vec)) = Count(vec)
        /\ EndsOpen(Retained(vec))
    BY RetainedIs
  <2>3. Count(Retained(vec)) = Count(vec)
    BY <2>2, CountIs
  <2>4. Len(Retained(vec)) - Count(vec) <= Count(vec)
    BY <1>1, <2>2
  <2>5. QED
    BY <2>1, <2>2, <2>3, <2>4
<1>3. CASE ~(Len(vec) - Count(vec) > Count(vec))
  <2>1. Swept(vec, Count(vec)) = vec
    BY <1>3 DEF Swept
  <2>2. Len(vec) - Count(vec) <= Count(vec)
    BY <1>1, <1>3
  <2>3. QED
    BY <2>1, <2>2
<1>4. QED
  BY <1>2, <1>3

LEMMA TakeIs ==
  ASSUME Kept, NEW i \in OpenAt(slots), Take(i)
  PROVE  /\ Kept'
         /\ NamesIn(slots') \subseteq NamesIn(slots)
         /\ OpenIn(slots') = OpenIn(slots) \ {slots[i]}
<1> DEFINE shut == [slots[i] EXCEPT !.open = FALSE, !.waker = FALSE, !.value = FALSE]
           vec == [slots EXCEPT ![i] = shut]
           popped == Popped(vec)
<1>1. i \in DOMAIN slots /\ slots[i].open /\ slots[i] \in Slot
  BY VecIs DEF Kept, Good, OpenAt
<1>2. /\ shut \in Slot /\ shut.id = slots[i].id
      /\ ~shut.open /\ ~shut.value /\ ~shut.waker
  BY <1>1 DEF Slot
<1>3. open' = open - 1 /\ slots' = Swept(popped, open - 1)
  <2>1. vec = [slots EXCEPT ![i] = [@ EXCEPT !.open = FALSE, !.waker = FALSE, !.value = FALSE]]
    BY <1>1
  <2>2. QED
    BY <1>1, <2>1 DEF Take
<1>4. Good(slots) /\ open = Count(slots)
  BY DEF Kept
<1> HIDE DEF shut
<1>5. /\ Good(vec) /\ NamesIn(vec) = NamesIn(slots)
      /\ OpenIn(vec) = OpenIn(slots) \ {slots[i]}
      /\ Count(vec) = Count(slots) - 1
  <2>1. /\ Good(vec) /\ NamesIn(vec) = NamesIn(slots)
        /\ OpenIn(vec) = (OpenIn(slots) \ {slots[i]}) \cup (IF shut.open THEN {shut} ELSE {})
        /\ Count(vec) = IF shut.open THEN Count(slots) ELSE Count(slots) - 1
    BY <1>2, <1>4, SetIs
  <2> HIDE DEF vec
  <2>2. QED
    BY <1>2, <2>1
<1> HIDE DEF vec
<1>6. /\ Good(popped) /\ OpenIn(popped) = OpenIn(vec) /\ EndsOpen(popped)
      /\ NamesIn(popped) \subseteq NamesIn(vec)
  BY <1>5, PoppedIs
<1>7. Count(popped) = open - 1
  BY <1>4, <1>5, <1>6, CountIs
<1> HIDE DEF popped
<1> DEFINE swept == Swept(popped, Count(popped))
<1>8. /\ Good(swept) /\ OpenIn(swept) = OpenIn(popped) /\ EndsOpen(swept)
      /\ NamesIn(swept) \subseteq NamesIn(popped)
      /\ Count(swept) = Count(popped)
      /\ Len(swept) - Count(popped) <= Count(popped)
  BY <1>6, SweptIs
<1>9. slots' = swept /\ open' = Count(popped)
  BY <1>3, <1>7
<1> HIDE DEF swept
<1>10. Kept'
  BY <1>8, <1>9 DEF Kept
<1>11. QED
  BY <1>5, <1>6, <1>8, <1>9, <1>10

\* A slot is changed where it is.
LEMMA ChangeIs ==
  ASSUME Kept, NEW i \in OpenAt(slots),
         NEW slot \in Slot, slot.id = slots[i].id, slot.open,
         slots' = [slots EXCEPT ![i] = slot], UNCHANGED open
  PROVE  /\ Kept'
         /\ NamesIn(slots') = NamesIn(slots)
         /\ OpenIn(slots') = (OpenIn(slots) \ {slots[i]}) \cup {slot}
<1> DEFINE new == [slots EXCEPT ![i] = slot]
<1>1. Good(slots) /\ EndsOpen(slots) /\ open = Count(slots) /\ Len(slots) - open <= open
  BY DEF Kept
<1>2. /\ Good(new)
      /\ NamesIn(new) = NamesIn(slots)
      /\ OpenIn(new) = (OpenIn(slots) \ {slots[i]}) \cup {slot}
      /\ Len(new) = Len(slots)
      /\ Count(new) = Count(slots)
      /\ EndsOpen(new)
  BY <1>1, SetIs
<1>3. slots' = new /\ open' = open
  OBVIOUS
<1> HIDE DEF new
<1>4. QED
  BY <1>1, <1>2, <1>3 DEF Kept

LEMMA OpenIs ==
  ASSUME Inv, NEW id \in Ids, Open(id)
  PROVE  LET slot == [id |-> id, open |-> TRUE, value |-> FALSE, waker |-> FALSE]
         IN  /\ Kept'
             /\ slot \in Slot
             /\ id \notin NamesIn(slots)
             /\ NamesIn(slots') = NamesIn(slots) \cup {id}
             /\ OpenIn(slots') = OpenIn(slots) \cup {slot}
<1> DEFINE slot == [id |-> id, open |-> TRUE, value |-> FALSE, waker |-> FALSE]
           n == Before(id)
           new == Inserted(slots, n, slot)
<1>1. slot \in Slot /\ slot.id = id /\ slot.open
  BY DEF Slot
<1>2. id \in unopened /\ open' = open + 1 /\ slots' = new
  BY DEF Open, Inserted
<1>3. id \notin NamesIn(slots)
  BY <1>2 DEF Inv, Fresh
<1>4. Good(slots) /\ EndsOpen(slots) /\ open = Count(slots) /\ Len(slots) - open <= open
  BY DEF Inv, Kept
<1> HIDE DEF slot
<1>5. n = Below(slots, slot.id)
  BY <1>1 DEF Before, Below
<1> HIDE DEF n
<1>6. /\ n \in Nat /\ n <= Len(slots)
      /\ \A i \in 1 .. n : slots[i].id < slot.id
      /\ \A i \in n + 1 .. Len(slots) : slot.id < slots[i].id
  BY <1>1, <1>3, <1>4, <1>5, BelowIs
<1>7. /\ Good(new)
      /\ NamesIn(new) = NamesIn(slots) \cup {slot.id}
      /\ OpenIn(new) = OpenIn(slots) \cup {slot}
      /\ Len(new) = Len(slots) + 1
      /\ Count(new) = Count(slots) + 1
      /\ EndsOpen(new)
  BY <1>1, <1>3, <1>4, <1>6, InsertIs
<1> HIDE DEF new
<1>8. Len(slots) + 1 - (open + 1) <= open + 1
  <2>1. Count(slots) \in Nat /\ Len(slots) \in Nat
    BY <1>4, CountIs, VecIs DEF Good
  <2>2. QED
    BY <1>4, <2>1
<1>9. Kept'
  BY <1>2, <1>4, <1>7, <1>8 DEF Kept
<1>10. QED
  BY <1>1, <1>2, <1>3, <1>7, <1>9 DEF slot

\* What Deliver, Collect and Close do to the slots: nothing, a change of one
\* where it is, or its end.
Changes(id, slot) ==
  \E i \in OpenAt(slots) :
    /\ slots[i].id = id
    /\ slot \in Slot /\ slot.id = id /\ slot.open
    /\ slots' = [slots EXCEPT ![i] = slot]
    /\ UNCHANGED open

Ends(id) == \E i \in OpenAt(slots) : slots[i].id = id /\ Take(i)

LEMMA DeliverDoes ==
  ASSUME Kept, NEW id, NEW valid, Deliver(id, valid)
  PROVE  \/ \E i \in OpenAt(slots) :
              /\ slots[i].id = id
              /\ Changes(id, [slots[i] EXCEPT !.value = TRUE, !.waker = FALSE])
              /\ result' = IF slots[i].waker THEN "delivered, wake" ELSE "delivered"
         \/ UNCHANGED <<slots, open>> /\ result' = "refused" /\ Positions(id) # {}
         \/ UNCHANGED <<slots, open>> /\ result' = "gone" /\ Positions(id) = {}
<1>1. CASE \E i \in Positions(id) :
             /\ slots' = [slots EXCEPT ![i] = [@ EXCEPT !.value = TRUE, !.waker = FALSE]]
             /\ result' = IF slots[i].waker THEN "delivered, wake" ELSE "delivered"
  <2>1. PICK i \in Positions(id) :
             /\ slots' = [slots EXCEPT ![i] = [@ EXCEPT !.value = TRUE, !.waker = FALSE]]
             /\ result' = IF slots[i].waker THEN "delivered, wake" ELSE "delivered"
    BY <1>1
  <2>2. i \in OpenAt(slots) /\ slots[i].id = id
    BY PositionsAre
  <2>3. i \in DOMAIN slots /\ slots[i] \in Slot /\ slots[i].open
    BY <2>2, VecIs DEF Kept, Good, OpenAt
  <2> DEFINE slot == [slots[i] EXCEPT !.value = TRUE, !.waker = FALSE]
  <2>4. slot \in Slot /\ slot.id = slots[i].id /\ slot.open
    BY <2>3 DEF Slot
  <2>5. slots' = [slots EXCEPT ![i] = slot]
    BY <2>1, <2>3
  <2> HIDE DEF slot
  <2>6. Changes(id, slot)
    BY <2>2, <2>4, <2>5 DEF Changes, Deliver
  <2>7. QED
    BY <2>1, <2>2, <2>6 DEF slot
<1>2. CASE ~ \E i \in Positions(id) :
             /\ slots' = [slots EXCEPT ![i] = [@ EXCEPT !.value = TRUE, !.waker = FALSE]]
             /\ result' = IF slots[i].waker THEN "delivered, wake" ELSE "delivered"
  BY <1>2 DEF Deliver
<1>3. QED
  BY <1>1, <1>2

LEMMA CollectDoes ==
  ASSUME Kept, NEW id, NEW waker \in BOOLEAN, Collect(id, waker)
  PROVE  \/ \E i \in OpenAt(slots) : slots[i].id = id /\ slots[i].value /\ Take(i) /\ result' = "value"
         \/ \E i \in OpenAt(slots) :
              /\ slots[i].id = id /\ ~slots[i].value
              /\ Changes(id, [slots[i] EXCEPT !.waker = @ \/ waker])
              /\ result' = "nothing"
         \/ UNCHANGED <<slots, open>> /\ result' = "nothing" /\ Positions(id) = {}
<1>1. CASE \E i \in Positions(id) : slots[i].value /\ Take(i) /\ result' = "value"
  BY <1>1, PositionsAre
<1>2. CASE \E i \in Positions(id) :
             /\ ~slots[i].value
             /\ slots' = [slots EXCEPT ![i].waker = @ \/ waker]
             /\ result' = "nothing"
             /\ UNCHANGED open
  <2>1. PICK i \in Positions(id) :
             /\ ~slots[i].value
             /\ slots' = [slots EXCEPT ![i].waker = @ \/ waker]
             /\ result' = "nothing"
             /\ UNCHANGED open
    BY <1>2
  <2>2. i \in OpenAt(slots) /\ slots[i].id = id
    BY PositionsAre
  <2>3. i \in DOMAIN slots /\ slots[i] \in Slot /\ slots[i].open
    BY <2>2, VecIs DEF Kept, Good, OpenAt
  <2> DEFINE slot == [slots[i] EXCEPT !.waker = @ \/ waker]
  <2>4. slot \in Slot /\ slot.id = slots[i].id /\ slot.open
    BY <2>3 DEF Slot
  <2>5. slots' = [slots EXCEPT ![i] = slot]
    BY <2>1, <2>3
  <2> HIDE DEF slot
  <2>6. Changes(id, slot)
    BY <2>1, <2>2, <2>4, <2>5 DEF Changes
  <2>7. QED
    BY <2>1, <2>2, <2>6 DEF slot
<1>3. CASE Positions(id) = {} /\ UNCHANGED <<slots, open>> /\ result' = "nothing"
  BY <1>3
<1>4. QED
  BY <1>1, <1>2, <1>3 DEF Collect

LEMMA ChangeKeeps ==
  ASSUME Kept, NEW id, NEW slot, Changes(id, slot)
  PROVE  /\ Kept' /\ NamesIn(slots') = NamesIn(slots)
         /\ \E old \in OpenIn(slots) : /\ old.id = id
                                      /\ OpenIn(slots') = (OpenIn(slots) \ {old}) \cup {slot}
<1>1. PICK i \in OpenAt(slots) : /\ slots[i].id = id
                                 /\ slot \in Slot /\ slot.id = id /\ slot.open
                                 /\ slots' = [slots EXCEPT ![i] = slot]
                                 /\ UNCHANGED open
  BY DEF Changes
<1>2. /\ Kept' /\ NamesIn(slots') = NamesIn(slots)
      /\ OpenIn(slots') = (OpenIn(slots) \ {slots[i]}) \cup {slot}
  BY <1>1, ChangeIs
<1>3. slots[i] \in OpenIn(slots)
  BY <1>1 DEF OpenIn
<1>4. QED
  BY <1>1, <1>2, <1>3

LEMMA InvHolds == Init => Inv
<1> SUFFICES ASSUME Init PROVE Inv
  OBVIOUS
<1>1. /\ slots = << >> /\ open = 0 /\ closed = << >> /\ next = 1
      /\ unopened = {} /\ awaited = {} /\ handles = {} /\ result = "nothing"
  BY DEF Init
<1>2. slots \in Seq(Slot) /\ closed \in Seq(Ids) /\ Len(slots) = 0 /\ DOMAIN slots = {}
  BY <1>1
<1>3. OpenAt(slots) = {} /\ NamesIn(slots) = {}
  BY <1>2 DEF OpenAt, NamesIn
<1>4. Count(slots) = 0
  BY <1>3, FS_EmptySet DEF Count
<1>5. Kept
  BY <1>1, <1>2, <1>4 DEF Kept, Good, EndsOpen
<1>6. MaxId \in Nat
  BY BoundsAssumption
<1>7. TypeOK
  BY <1>1, <1>2, <1>6 DEF TypeOK
<1>8. QED
  BY <1>1, <1>3, <1>5, <1>7 DEF Inv, Fresh

LEMMA InvKept == Inv /\ [Next]_vars => Inv'
<1> SUFFICES ASSUME Inv, [Next]_vars PROVE Inv'
  OBVIOUS
<1>0. MaxId \in Nat
  BY BoundsAssumption
<1>1. TypeOK /\ Kept /\ Fresh
  BY DEF Inv
<1>2. Kept' => slots' \in Seq(Slot) /\ open' \in 0 .. MaxId
  BY CountIs DEF Kept, Good
<1>3. ASSUME Kept', NamesIn(slots') \subseteq NamesIn(slots), UNCHANGED <<next, unopened>>
      PROVE  Fresh'
  BY <1>1, <1>3 DEF Fresh
<1>4. UNCHANGED <<slots, open>> => Kept' /\ NamesIn(slots') \subseteq NamesIn(slots)
  BY <1>1 DEF Kept
<1>5. CASE Mint
  <2>1. Kept'
    BY <1>4, <1>5 DEF Mint
  <2>2. \A id \in NamesIn(slots) : id \in Nat
    BY <1>1, VecIs, SlotIs DEF Kept, Good, NamesIn
  <2>a. next \in 1 .. MaxId + 1 /\ next <= MaxId /\ unopened \subseteq 1 .. MaxId
    BY <1>1, <1>5, Zenon DEF Mint, TypeOK, Ids
  <2>3. next \in Nat /\ next <= MaxId /\ next \in Ids /\ next + 1 \in 1 .. MaxId + 1
    BY <1>0, <2>a DEF Ids
  <2>4. \A id \in unopened : id \in Nat
    BY <2>a
  <2>5. Fresh'
    BY <1>1, <1>5, <2>2, <2>3, <2>4 DEF Fresh, Mint
  <2>6. TypeOK'
    BY <1>1, <1>2, <1>5, <2>1, <2>3 DEF TypeOK, Mint
  <2>7. QED
    BY <2>1, <2>5, <2>6 DEF Inv
<1>6. ASSUME NEW id \in Ids, Open(id) PROVE Inv'
  <2>1. Kept' /\ NamesIn(slots') = NamesIn(slots) \cup {id}
    BY <1>6, OpenIs
  <2>2. id \in unopened /\ unopened' = unopened \ {id} /\ next' = next
    BY <1>6 DEF Open
  <2>3. Fresh'
    BY <1>1, <2>1, <2>2 DEF Fresh
  <2>4. TypeOK'
    BY <1>1, <1>2, <1>6, <2>1 DEF TypeOK, Open
  <2>5. QED
    BY <2>1, <2>3, <2>4 DEF Inv
<1>7. ASSUME NEW id \in Ids, NEW valid \in BOOLEAN, Deliver(id, valid) PROVE Inv'
  <2>1. Kept' /\ NamesIn(slots') \subseteq NamesIn(slots)
    BY <1>1, <1>4, <1>7, DeliverDoes, ChangeKeeps
  <2>2. Fresh'
    BY <1>3, <1>7, <2>1 DEF Deliver
  <2>3. TypeOK'
    BY <1>1, <1>2, <1>7, <2>1 DEF TypeOK, Deliver
  <2>4. QED
    BY <2>1, <2>2, <2>3 DEF Inv
<1>8. ASSUME NEW id \in Ids, NEW waker \in BOOLEAN, Collect(id, waker) PROVE Inv'
  <2>1. Kept' /\ NamesIn(slots') \subseteq NamesIn(slots)
    BY <1>1, <1>4, <1>8, CollectDoes, ChangeKeeps, TakeIs
  <2>2. Fresh'
    BY <1>3, <1>8, <2>1 DEF Collect
  <2>3. TypeOK'
    BY <1>1, <1>2, <1>8, <2>1 DEF TypeOK, Collect
  <2>4. QED
    BY <2>1, <2>2, <2>3 DEF Inv
<1>9. ASSUME NEW id \in Ids, Close(id) PROVE Inv'
  <2>1. Kept' /\ NamesIn(slots') \subseteq NamesIn(slots)
    BY <1>1, <1>4, <1>9, PositionsAre, TakeIs DEF Close
  <2>2. Fresh'
    BY <1>3, <1>9, <2>1 DEF Close
  <2>3. closed' \in Seq(Ids)
    <3>1. closed \in Seq(Ids) /\ Append(closed, id) \in Seq(Ids)
      BY <1>1, AppendProperties DEF TypeOK
    <3>2. closed' = closed \/ closed' = Append(closed, id)
      BY <1>9 DEF Close
    <3>3. QED
      BY <3>1, <3>2
  <2>4. TypeOK'
    BY <1>1, <1>2, <1>9, <2>1, <2>3 DEF TypeOK, Close
  <2>5. QED
    BY <2>1, <2>2, <2>4 DEF Inv
<1>10. CASE TakeClosed \/ UNCHANGED vars
  <2>1. Kept' /\ NamesIn(slots') \subseteq NamesIn(slots)
    BY <1>4, <1>10 DEF TakeClosed, vars
  <2>2. Fresh'
    BY <1>3, <1>10, <2>1 DEF TakeClosed, vars
  <2>3. TypeOK'
    <3>1. << >> \in Seq(Ids)
      OBVIOUS
    <3>2. QED
      BY <1>1, <1>10, <3>1 DEF TypeOK, TakeClosed, vars
  <2>4. QED
    BY <2>1, <2>2, <2>3 DEF Inv
<1>11. QED
  BY <1>5, <1>6, <1>7, <1>8, <1>9, <1>10 DEF Next

LEMMA InvAlways == Spec => []Inv
  BY InvHolds, InvKept, PTL DEF Spec

\* Every variable of the mailbox keeps its type (mail.rs, Mail).
THEOREM MailboxTypeCorrect == Spec => []TypeOK
<1>1. Inv => TypeOK
  BY DEF Inv
<1>2. QED
  BY <1>1, InvAlways, PTL

\* The slot vector keeps its shape under any requests, in any order: ids
\* ascend, the count is right, the last slot is open, and no more slots are
\* closed than open (mail.rs, take and assert_shape).
THEOREM ShapeKept == Spec => []Shape
<1>1. Inv => Shape
  BY DEF Inv, Kept, Good, EndsOpen, Count, OpenAt, Shape
<1>2. QED
  BY <1>1, InvAlways, PTL

-----------------------------------------------------------------------------
(* The map of open requests *)

\* StateOf and the kept wakers, of the open slots alone.
StateIn(set) ==
  [id \in Ids |-> IF \E slot \in set : slot.id = id /\ slot.value THEN "answered"
                  ELSE IF \E slot \in set : slot.id = id /\ ~slot.value THEN "waiting" ELSE "none"]

WakersIn(set) == {slot.id : slot \in {other \in set : other.waker}}

Wakers == {slots[i].id : i \in {j \in DOMAIN slots : slots[j].waker}}

LEMMA MappedIs ==
  ASSUME Good(slots)
  PROVE  StateOf = StateIn(OpenIn(slots)) /\ Wakers = WakersIn(OpenIn(slots))
<1> DEFINE answered == {slots[i].id : i \in {j \in DOMAIN slots : slots[j].open /\ slots[j].value}}
           waiting == {slots[i].id : i \in {j \in DOMAIN slots : slots[j].open /\ ~slots[j].value}}
<1>1. \A id : id \in answered <=> \E slot \in OpenIn(slots) : slot.id = id /\ slot.value
  BY DEF OpenIn, OpenAt
<1>2. \A id : id \in waiting <=> \E slot \in OpenIn(slots) : slot.id = id /\ ~slot.value
  BY DEF OpenIn, OpenAt
<1>3. StateOf = [id \in Ids |-> IF id \in answered THEN "answered"
                                ELSE IF id \in waiting THEN "waiting" ELSE "none"]
  BY DEF StateOf
<1> HIDE DEF answered, waiting
<1>4. StateOf = StateIn(OpenIn(slots))
  BY <1>1, <1>2, <1>3 DEF StateIn
<1>5. ASSUME NEW id PROVE id \in Wakers <=> id \in WakersIn(OpenIn(slots))
  <2>1. id \in Wakers => \E i \in OpenAt(slots) : slots[i].waker /\ slots[i].id = id
    BY DEF Wakers, Good, OpenAt
  <2>2. (\E i \in OpenAt(slots) : slots[i].waker /\ slots[i].id = id) => id \in Wakers
    BY DEF Wakers, OpenAt
  <2>3. id \in WakersIn(OpenIn(slots)) <=> \E i \in OpenAt(slots) : slots[i].waker /\ slots[i].id = id
    BY DEF WakersIn, OpenIn
  <2>4. QED
    BY <2>1, <2>2, <2>3
<1>6. QED
  BY <1>4, <1>5

\* What a request's slot shows of it.
StateOfSlot(slot) == IF slot.value THEN "answered" ELSE "waiting"

LEMMA FoundIs ==
  ASSUME Kept, NEW i \in OpenAt(slots), NEW id \in Ids, slots[i].id = id
  PROVE  /\ StateIn(OpenIn(slots))[id] = StateOfSlot(slots[i])
         /\ id \in WakersIn(OpenIn(slots)) <=> slots[i].waker
<1>1. slots[i] \in OpenIn(slots)
  BY DEF OpenIn
<1>2. \A slot \in OpenIn(slots) : slot.id = id => slot = slots[i]
  BY <1>1, IdsName DEF Kept
<1>3. StateIn(OpenIn(slots))[id] = StateOfSlot(slots[i])
  BY <1>1, <1>2 DEF StateIn, StateOfSlot
<1>4. id \in WakersIn(OpenIn(slots)) <=> slots[i].waker
  BY <1>1, <1>2 DEF WakersIn
<1>5. QED
  BY <1>3, <1>4

LEMMA MissingIs ==
  ASSUME NEW set, NEW id \in Ids, \A slot \in set : slot.id # id
  PROVE  StateIn(set)[id] = "none" /\ id \notin WakersIn(set)
  BY DEF StateIn, WakersIn

\* Sets of slots that differ in one id's alone.
Apart(a, b, id) == \A other : other.id # id => (other \in a <=> other \in b)

LEMMA ElsewhereIs ==
  ASSUME NEW a, NEW b, NEW id \in Ids,
         Apart(a, b, id)
  PROVE  /\ StateIn(b) = [StateIn(a) EXCEPT ![id] = StateIn(b)[id]]
         /\ \A x : x # id => (x \in WakersIn(b) <=> x \in WakersIn(a))
<1>1. ASSUME NEW other \in Ids, other # id PROVE StateIn(b)[other] = StateIn(a)[other]
  BY <1>1 DEF StateIn, Apart
<1>2. StateIn(b) = [StateIn(a) EXCEPT ![id] = StateIn(b)[id]]
  <2>1. /\ DOMAIN StateIn(a) = Ids /\ DOMAIN StateIn(b) = Ids
        /\ StateIn(a) = [x \in Ids |-> StateIn(a)[x]]
        /\ StateIn(b) = [x \in Ids |-> StateIn(b)[x]]
    BY DEF StateIn
  <2>2. QED
    BY <1>1, <2>1
<1>3. \A x : x # id => (x \in WakersIn(b) <=> x \in WakersIn(a))
  BY DEF WakersIn, Apart
<1>4. QED
  BY <1>2, <1>3

MapSlots == StateIn(OpenIn(slots))
MapWakers == WakersIn(OpenIn(slots))

LEMMA AbsentIs ==
  ASSUME Kept, NEW id \in Ids, Positions(id) = {}
  PROVE  MapSlots[id] = "none" /\ id \notin MapWakers
<1>1. \A slot \in OpenIn(slots) : slot.id # id
  BY PositionsAre DEF OpenIn
<1>2. QED
  BY <1>1, MissingIs DEF MapSlots, MapWakers

LEMMA ChangeMaps ==
  ASSUME Kept, NEW id \in Ids, NEW new, Changes(id, new)
  PROVE  /\ MapSlots[id] # "none"
         /\ MapSlots' = [MapSlots EXCEPT ![id] = StateOfSlot(new)]
         /\ MapWakers' = IF new.waker THEN MapWakers \cup {id} ELSE MapWakers \ {id}
<1>1. PICK i \in OpenAt(slots) : slots[i].id = id /\ new \in Slot /\ new.id = id /\ new.open
  BY DEF Changes
<1>2. Kept'
  BY ChangeKeeps
<1>3. PICK old \in OpenIn(slots) : /\ old.id = id
                                   /\ OpenIn(slots') = (OpenIn(slots) \ {old}) \cup {new}
  BY ChangeKeeps
<1>4. \A other \in OpenIn(slots) : other.id = id => other = old
  BY <1>3, IdsName DEF Kept
<1> DEFINE a == OpenIn(slots)
           b == OpenIn(slots')
<1>5. /\ new \in b
      /\ \A other \in b : other.id = id => other = new
      /\ Apart(a, b, id)
  BY <1>1, <1>3, <1>4 DEF Apart
<1>6. MapSlots = StateIn(a) /\ MapSlots' = StateIn(b) /\ MapWakers = WakersIn(a) /\ MapWakers' = WakersIn(b)
  BY DEF MapSlots, MapWakers
<1>7. MapSlots[id] # "none"
  BY <1>1, <1>6, FoundIs DEF StateOfSlot
<1> HIDE DEF a, b
<1>8. /\ StateIn(b) = [StateIn(a) EXCEPT ![id] = StateIn(b)[id]]
      /\ \A x : x # id => (x \in WakersIn(b) <=> x \in WakersIn(a))
  BY <1>5, ElsewhereIs
<1>9. StateIn(b)[id] = StateOfSlot(new)
  BY <1>1, <1>5 DEF StateIn, StateOfSlot
<1>10. id \in WakersIn(b) <=> new.waker
  BY <1>1, <1>5 DEF WakersIn
<1>11. WakersIn(b) = IF new.waker THEN WakersIn(a) \cup {id} ELSE WakersIn(a) \ {id}
  BY <1>8, <1>10
<1>12. QED
  BY <1>6, <1>7, <1>8, <1>9, <1>11

LEMMA EndMaps ==
  ASSUME Kept, NEW id \in Ids, NEW i \in OpenAt(slots), slots[i].id = id, Take(i)
  PROVE  /\ MapSlots[id] = StateOfSlot(slots[i])
         /\ MapSlots' = [MapSlots EXCEPT ![id] = "none"]
         /\ MapWakers' = MapWakers \ {id}
<1> DEFINE a == OpenIn(slots)
           b == OpenIn(slots')
<1>1. b = a \ {slots[i]}
  BY TakeIs
<1>2. slots[i] \in a /\ \A other \in a : other.id = id => other = slots[i]
  <2>1. slots[i] \in OpenIn(slots)
    BY DEF OpenIn
  <2>2. QED
    BY <2>1, IdsName DEF Kept
<1>3. MapSlots = StateIn(a) /\ MapSlots' = StateIn(b) /\ MapWakers = WakersIn(a) /\ MapWakers' = WakersIn(b)
  BY DEF MapSlots, MapWakers
<1>4. MapSlots[id] = StateOfSlot(slots[i])
  BY <1>3, FoundIs
<1> HIDE DEF a, b
<1>5. /\ \A other \in b : other.id # id
      /\ Apart(a, b, id)
  BY <1>1, <1>2 DEF Apart
<1>6. /\ StateIn(b) = [StateIn(a) EXCEPT ![id] = StateIn(b)[id]]
      /\ \A x : x # id => (x \in WakersIn(b) <=> x \in WakersIn(a))
  BY <1>5, ElsewhereIs
<1>7. StateIn(b)[id] = "none" /\ id \notin WakersIn(b)
  BY <1>5, MissingIs
<1>8. WakersIn(b) = WakersIn(a) \ {id}
  BY <1>6, <1>7
<1>9. QED
  BY <1>3, <1>4, <1>6, <1>7, <1>8

LEMMA OpenMaps ==
  ASSUME Inv, NEW id \in Ids, Open(id)
  PROVE  /\ MapSlots[id] = "none"
         /\ MapSlots' = [MapSlots EXCEPT ![id] = "waiting"]
         /\ MapWakers' = MapWakers
<1> DEFINE slot == [id |-> id, open |-> TRUE, value |-> FALSE, waker |-> FALSE]
           a == OpenIn(slots)
           b == OpenIn(slots')
<1>1. b = a \cup {slot} /\ id \notin NamesIn(slots)
  BY OpenIs
<1>2. \A other \in a : other.id # id
  BY <1>1 DEF OpenIn, OpenAt, NamesIn
<1>3. slot.id = id /\ slot.value = FALSE /\ slot.waker = FALSE
  OBVIOUS
<1>4. MapSlots = StateIn(a) /\ MapSlots' = StateIn(b) /\ MapWakers = WakersIn(a) /\ MapWakers' = WakersIn(b)
  BY DEF MapSlots, MapWakers
<1> HIDE DEF a, b, slot
<1>5. /\ slot \in b /\ \A other \in b : other.id = id => other = slot
      /\ Apart(a, b, id)
  BY <1>1, <1>2, <1>3 DEF Apart
<1>6. /\ StateIn(b) = [StateIn(a) EXCEPT ![id] = StateIn(b)[id]]
      /\ \A x : x # id => (x \in WakersIn(b) <=> x \in WakersIn(a))
  BY <1>5, ElsewhereIs
<1>7. StateIn(a)[id] = "none" /\ id \notin WakersIn(a)
  BY <1>2, MissingIs
<1>8. StateIn(b)[id] = "waiting" /\ id \notin WakersIn(b)
  BY <1>3, <1>5 DEF StateIn, WakersIn
<1>9. WakersIn(b) = WakersIn(a)
  BY <1>6, <1>7, <1>8
<1>10. QED
  BY <1>4, <1>6, <1>7, <1>8, <1>9

LEMMA KeptMaps == Kept => StateOf = MapSlots /\ Wakers = MapWakers
  BY MappedIs DEF Kept, MapSlots, MapWakers

LEMMA MapSlotsAre ==
  /\ DOMAIN MapSlots = Ids
  /\ \A id \in Ids : /\ MapSlots[id] \in {"none", "waiting", "answered"}
                     /\ MapSlots = [MapSlots EXCEPT ![id] = MapSlots[id]]
  BY DEF MapSlots, StateIn

LEMMA InitMaps == Init => Map!Init
<1> SUFFICES ASSUME Init PROVE Map!Init
  OBVIOUS
<1>1. Good(slots) /\ slots = << >> /\ DOMAIN slots = {}
  BY InvHolds DEF Inv, Kept, Init
<1>2. OpenIn(slots) = {}
  BY <1>1 DEF OpenIn, OpenAt
<1>3. StateIn({}) = [id \in Ids |-> "none"] /\ WakersIn({}) = {}
  BY DEF StateIn, WakersIn
<1>4. StateOf = [id \in Ids |-> "none"] /\ Wakers = {}
  BY <1>1, <1>2, <1>3, MappedIs
<1>5. QED
  BY <1>4 DEF Map!Init, Init, Wakers

\* Every step is one of the map's, or none of its business.
LEMMA StepMaps == Inv /\ Inv' /\ [Next]_vars => [Map!Next]_(Map!vars)
<1> SUFFICES ASSUME Inv, Inv', [Next]_vars PROVE [Map!Next]_(Map!vars)
  OBVIOUS
<1>1. Kept /\ Kept'
  BY DEF Inv
<1>2. /\ StateOf = MapSlots /\ Wakers = MapWakers
      /\ StateOf' = MapSlots' /\ Wakers' = MapWakers'
  <2>1. StateOf = MapSlots /\ Wakers = MapWakers
    BY <1>1, KeptMaps
  <2>2. (StateOf = MapSlots /\ Wakers = MapWakers)'
    BY <1>1, KeptMaps, PTL
  <2>3. QED
    BY <2>1, <2>2
<1>3. UNCHANGED slots => UNCHANGED <<MapSlots, MapWakers>>
  BY DEF MapSlots, MapWakers
<1> DEFINE MapOpen(id) ==
             /\ MapSlots[id] = "none"
             /\ MapSlots' = [MapSlots EXCEPT ![id] = "waiting"]
             /\ result' = "nothing"
             /\ MapWakers' = MapWakers /\ closed' = closed
           MapDeliver(id) ==
             /\ \/ /\ MapSlots[id] # "none"
                   /\ MapSlots' = [MapSlots EXCEPT ![id] = "answered"]
                   /\ MapWakers' = MapWakers \ {id}
                   /\ result' = IF id \in MapWakers THEN "delivered, wake" ELSE "delivered"
                \/ /\ MapSlots[id] # "none"
                   /\ result' = "refused"
                   /\ MapSlots' = MapSlots /\ MapWakers' = MapWakers
                \/ /\ MapSlots[id] = "none"
                   /\ result' = "gone"
                   /\ MapSlots' = MapSlots /\ MapWakers' = MapWakers
             /\ closed' = closed
           MapCollect(id) ==
             /\ \/ /\ MapSlots[id] = "answered"
                   /\ MapSlots' = [MapSlots EXCEPT ![id] = "none"]
                   /\ MapWakers' = MapWakers \ {id}
                   /\ result' = "value"
                \/ /\ MapSlots[id] # "answered"
                   /\ MapWakers' \in {MapWakers, MapWakers \cup {id}}
                   /\ MapSlots[id] = "none" => MapWakers' = MapWakers
                   /\ result' = "nothing"
                   /\ MapSlots' = MapSlots
             /\ closed' = closed
           MapClose(id) ==
             /\ MapSlots' = [MapSlots EXCEPT ![id] = "none"]
             /\ MapWakers' = MapWakers \ {id}
             /\ closed' = IF MapSlots[id] = "waiting" THEN Append(closed, id) ELSE closed
             /\ result' = "nothing"
<1>4. ASSUME NEW id \in Ids, Open(id) PROVE MapOpen(id)
  <2>1. closed' = closed /\ result' = "nothing"
    BY <1>4 DEF Open
  <2>2. QED
    BY <1>4, <2>1, OpenMaps
<1>5. ASSUME NEW id \in Ids, NEW valid \in BOOLEAN, Deliver(id, valid) PROVE MapDeliver(id)
  <2>0. closed' = closed
    BY <1>5 DEF Deliver
  <2>1. CASE \E i \in OpenAt(slots) :
               /\ slots[i].id = id
               /\ Changes(id, [slots[i] EXCEPT !.value = TRUE, !.waker = FALSE])
               /\ result' = IF slots[i].waker THEN "delivered, wake" ELSE "delivered"
    <3>1. PICK i \in OpenAt(slots) :
               /\ slots[i].id = id
               /\ Changes(id, [slots[i] EXCEPT !.value = TRUE, !.waker = FALSE])
               /\ result' = IF slots[i].waker THEN "delivered, wake" ELSE "delivered"
      BY <2>1
    <3> DEFINE slot == [slots[i] EXCEPT !.value = TRUE, !.waker = FALSE]
    <3>2. slot.value = TRUE /\ slot.waker = FALSE
      <4>1. slots[i] \in Slot
        BY <1>1, VecIs DEF Kept, Good, OpenAt
      <4>2. QED
        BY <4>1 DEF Slot
    <3>3. Changes(id, slot)
      BY <3>1
    <3> HIDE DEF slot
    <3>4. /\ MapSlots[id] # "none"
          /\ MapSlots' = [MapSlots EXCEPT ![id] = StateOfSlot(slot)]
          /\ MapWakers' = IF slot.waker THEN MapWakers \cup {id} ELSE MapWakers \ {id}
      BY <1>1, <3>3, ChangeMaps
    <3>5. StateOfSlot(slot) = "answered" /\ MapWakers' = MapWakers \ {id}
      BY <3>2, <3>4 DEF StateOfSlot
    <3>6. id \in MapWakers <=> slots[i].waker
      BY <1>1, <3>1, FoundIs DEF MapWakers
    <3>7. result' = IF id \in MapWakers THEN "delivered, wake" ELSE "delivered"
      BY <3>1, <3>6
    <3>8. QED
      BY <2>0, <3>4, <3>5, <3>7
  <2>2. CASE UNCHANGED <<slots, open>> /\ result' = "refused" /\ Positions(id) # {}
    <3>1. PICK i \in OpenAt(slots) : slots[i].id = id
      BY <1>1, <2>2, PositionsAre
    <3>2. MapSlots[id] # "none"
      BY <1>1, <3>1, FoundIs DEF MapSlots, StateOfSlot
    <3>3. QED
      BY <1>3, <2>0, <2>2, <3>2
  <2>3. CASE UNCHANGED <<slots, open>> /\ result' = "gone" /\ Positions(id) = {}
    <3>1. MapSlots[id] = "none"
      BY <1>1, <2>3, AbsentIs
    <3>2. QED
      BY <1>3, <2>0, <2>3, <3>1
  <2>4. QED
    BY <1>1, <1>5, <2>1, <2>2, <2>3, DeliverDoes
<1>6. ASSUME NEW id \in Ids, NEW waker \in BOOLEAN, Collect(id, waker) PROVE MapCollect(id)
  <2>0. closed' = closed
    BY <1>6 DEF Collect
  <2>1. ASSUME NEW i \in OpenAt(slots), slots[i].id = id, slots[i].value, Take(i), result' = "value"
        PROVE  MapCollect(id)
    <3>1. /\ MapSlots[id] = StateOfSlot(slots[i])
          /\ MapSlots' = [MapSlots EXCEPT ![id] = "none"]
          /\ MapWakers' = MapWakers \ {id}
      BY <1>1, <2>1, EndMaps
    <3>2. MapSlots[id] = "answered"
      BY <2>1, <3>1 DEF StateOfSlot
    <3>3. QED
      BY <2>0, <2>1, <3>1, <3>2
  <2>2. ASSUME NEW i \in OpenAt(slots), slots[i].id = id, ~slots[i].value,
               Changes(id, [slots[i] EXCEPT !.waker = @ \/ waker]), result' = "nothing"
        PROVE  MapCollect(id)
    <3> DEFINE slot == [slots[i] EXCEPT !.waker = @ \/ waker]
    <3>1. slot.value = FALSE /\ (slots[i].waker => slot.waker) /\ slots[i].waker \in BOOLEAN
      <4>1. slots[i] \in Slot
        BY <1>1, VecIs DEF Kept, Good, OpenAt
      <4>2. QED
        BY <2>2, <4>1 DEF Slot
    <3>2. Changes(id, slot)
      BY <2>2
    <3> HIDE DEF slot
    <3>3. /\ MapSlots' = [MapSlots EXCEPT ![id] = StateOfSlot(slot)]
          /\ MapWakers' = IF slot.waker THEN MapWakers \cup {id} ELSE MapWakers \ {id}
      BY <1>1, <3>2, ChangeMaps
    <3>4. MapSlots[id] = "waiting" /\ (id \in MapWakers <=> slots[i].waker)
      BY <1>1, <2>2, FoundIs DEF MapSlots, MapWakers, StateOfSlot
    <3>5. StateOfSlot(slot) = "waiting"
      BY <3>1 DEF StateOfSlot
    <3>6. MapSlots' = MapSlots
      BY <3>3, <3>4, <3>5, MapSlotsAre
    <3>7. MapWakers' \in {MapWakers, MapWakers \cup {id}}
      BY <3>1, <3>3, <3>4
    <3>8. QED
      BY <2>0, <2>2, <3>4, <3>6, <3>7
  <2>3. CASE UNCHANGED <<slots, open>> /\ result' = "nothing" /\ Positions(id) = {}
    <3>1. MapSlots[id] = "none"
      BY <1>1, <2>3, AbsentIs
    <3>2. QED
      BY <1>3, <2>0, <2>3, <3>1
  <2> HIDE DEF MapCollect
  <2>4. QED
    BY <1>1, <1>6, <2>1, <2>2, <2>3, CollectDoes
<1>7. ASSUME NEW id \in Ids, Close(id) PROVE MapClose(id)
  <2>0. result' = "nothing"
    BY <1>7 DEF Close
  <2>1. ASSUME NEW i \in OpenAt(slots), slots[i].id = id, Take(i),
               closed' = IF slots[i].value THEN closed ELSE Append(closed, id)
        PROVE  MapClose(id)
    <3>1. /\ MapSlots[id] = StateOfSlot(slots[i])
          /\ MapSlots' = [MapSlots EXCEPT ![id] = "none"]
          /\ MapWakers' = MapWakers \ {id}
      BY <1>1, <2>1, EndMaps
    <3>2. closed' = IF MapSlots[id] = "waiting" THEN Append(closed, id) ELSE closed
      BY <2>1, <3>1 DEF StateOfSlot
    <3>3. QED
      BY <2>0, <3>1, <3>2
  <2>2. CASE Positions(id) = {} /\ UNCHANGED <<slots, open, closed>>
    <3>1. MapSlots[id] = "none" /\ id \notin MapWakers
      BY <1>1, <2>2, AbsentIs
    <3>2. MapSlots' = MapSlots /\ MapWakers' = MapWakers /\ MapWakers = MapWakers \ {id}
      BY <1>3, <2>2, <3>1
    <3>3. MapSlots' = [MapSlots EXCEPT ![id] = "none"]
      BY <3>1, <3>2, MapSlotsAre
    <3>4. QED
      BY <2>0, <2>2, <3>1, <3>2, <3>3
  <2> HIDE DEF MapClose
  <2>3. QED
    BY <1>1, <1>7, <2>1, <2>2, PositionsAre DEF Close
<1> HIDE DEF MapOpen, MapDeliver, MapCollect, MapClose
<1>8. \A id \in Ids : /\ MapOpen(id) => Map!Open(id)
                      /\ MapDeliver(id) => Map!Deliver(id)
                      /\ MapCollect(id) => Map!Collect(id)
                      /\ MapClose(id) => Map!Close(id)
  BY <1>2 DEF MapOpen, MapDeliver, MapCollect, MapClose, Wakers,
              Map!Open, Map!Deliver, Map!Collect, Map!Close, Map!Remove
<1>9. CASE Mint \/ UNCHANGED vars
  <2>1. UNCHANGED <<slots, closed, result>>
    BY <1>9 DEF Mint, vars
  <2>2. StateOf' = StateOf /\ Wakers' = Wakers
    BY <1>2, <1>3, <2>1
  <2>3. QED
    BY <2>1, <2>2 DEF Map!vars, Wakers
<1>10. CASE TakeClosed
  <2>1. closed' = << >> /\ result' = "nothing" /\ slots' = slots
    BY <1>10 DEF TakeClosed
  <2>2. StateOf' = StateOf /\ Wakers' = Wakers
    BY <1>2, <1>3, <2>1
  <2>3. Map!TakeClosed
    BY <2>1, <2>2 DEF Map!TakeClosed, Wakers
  <2>4. QED
    BY <2>3 DEF Map!Next
<1>11. QED
  BY <1>4, <1>5, <1>6, <1>7, <1>8, <1>9, <1>10 DEF Next, Map!Next

\* The mailbox behaves, results included, as a map of open requests, however
\* many there are: no sweep loses an open slot and no stale one is found
\* (mail.rs, Mail).
THEOREM MailboxIsAMap == Spec => ImplementsMailMap
  BY InvAlways, InitMaps, StepMaps, PTL DEF Spec, ImplementsMailMap, Map!Spec

=============================================================================
