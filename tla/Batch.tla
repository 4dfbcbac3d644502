------------------------------- MODULE Batch --------------------------------
(***************************************************************************)
(* The effects of one yield (driver/batch.rs): none, one or two held in    *)
(* place, more in a vector.  The outbox pushes into one; a poll takes it   *)
(* with the ids closed (Outbox::drain, Yield in driver.rs); the machine    *)
(* maps it (Machine::show); the host iterates over it from either end, or  *)
(* takes it as a vector and may build a yield of one.  Vectors, arrays and *)
(* their iterators are external: sequences, and what is left of them.      *)
(***************************************************************************)
EXTENDS Naturals, Sequences, SequencesExt

CONSTANTS
  Effects,      \* what a routine may yield
  Requests,     \* requests it may abandon
  MaxEffects    \* bound: effects recorded

ASSUME BatchAssumption == MaxEffects \in Nat

VARIABLES
  batch,      \* the outbox's: Inner.effects
  dropped,    \* the mail's closed ids
  yielded,    \* a Yield no host has taken apart, or Nothing
  numbered,   \* effects the map has numbered: its handles
  draining,   \* an IntoIter, or Nothing
  given,      \* what its last next or next_back returned
  recorded    \* bound: effects so far

batching == <<batch, dropped, yielded, numbered, draining, given, recorded>>

Nothing == << >>
Shown(effect, number) == [effect |-> effect, number |-> number]
Given(end, item) == [end |-> end, item |-> item]

Form(form, items) == [form |-> form, items |-> items]
Empty == Form("empty", << >>)
One(a) == Form("one", <<a>>)
Two(a, b) == Form("two", <<a, b>>)
Many(items) == Form("many", items)

AsSlice(b) == b.items

\* Faulty: the third is moved in front of the two it found.
PushSpilling(b, e) ==
  IF b.form = "many" THEN Many(Append(b.items, e))
  ELSE CASE b.form = "empty" -> One(e)
         [] b.form = "one" -> Two(b.items[1], e)
         [] b.form = "two" -> Many(<<e, b.items[1], b.items[2]>>)

\* push: the third moves them all to a vector.
Push(b, e) ==
  IF b.form = "many" THEN Many(Append(b.items, e))
  ELSE CASE b.form = "empty" -> One(e)
         [] b.form = "one" -> Two(b.items[1], e)
         [] b.form = "two" -> Many(<<b.items[1], b.items[2], e>>)

\* map, with a function that counts its calls: in order, each form its own.
NumberAll(b, n) ==
  Form(b.form, [i \in DOMAIN b.items |-> Shown(b.items[i].effect, n + i)])

\* From<Vec>: pushed one by one.
FromVec(items) == FoldLeft(Push, Empty, items)

\* From<Batch> for Vec.
ToVec(b) == IF b.form = "empty" THEN << >> ELSE b.items

\* into_iter: what is left, in an array's iterator or a vector's.
IntoIter(b) == IF b.form = "empty" THEN Many(<< >>) ELSE b

Yield(effects, ids) == [effects |-> effects, closed |-> ids]

\* What the iterator has not given.
Left == IF draining = Nothing THEN << >> ELSE draining.items

\* The list this implements.
List == INSTANCE EffectList WITH
  Ids <- Requests,
  closed <- dropped,
  recorded <- AsSlice(batch),
  yielded <- IF yielded = Nothing THEN Nothing
             ELSE <<AsSlice(yielded.effects), yielded.closed>>,
  leaving <- Left

BatchInit ==
  /\ batch = Empty /\ dropped = << >> /\ yielded = Nothing
  /\ numbered = 0 /\ draining = Nothing /\ given = Nothing /\ recorded = 0

\* Outbox::tell and ask.
Record(e) ==
  /\ recorded < MaxEffects
  /\ recorded' = recorded + 1
  /\ batch' = Push(batch, Shown(e, 0))
  /\ UNCHANGED <<dropped, yielded, numbered, draining, given>>

\* Mail::close.
DropRequest ==
  /\ \E id \in Requests \ Range(dropped) : dropped' = Append(dropped, id)
  /\ UNCHANGED <<batch, yielded, numbered, draining, given, recorded>>

\* Outbox::drain: both are taken whole.
Drain ==
  /\ yielded = Nothing
  /\ yielded' = Yield(batch, dropped)
  /\ batch' = Empty /\ dropped' = << >>
  /\ UNCHANGED <<numbered, draining, given, recorded>>

\* Yield::map, as Machine::show does, once: the closed ids are kept.
Show ==
  /\ yielded # Nothing
  /\ \A i \in DOMAIN yielded.effects.items : yielded.effects.items[i].number = 0
  /\ yielded' = Yield(NumberAll(yielded.effects, numbered), yielded.closed)
  /\ numbered' = numbered + Len(yielded.effects.items)
  /\ UNCHANGED <<batch, dropped, draining, given, recorded>>

\* Taken apart as vectors, and a Yield built of them again.
Rebuild ==
  /\ yielded # Nothing
  /\ yielded' = Yield(FromVec(ToVec(yielded.effects)), yielded.closed)
  /\ UNCHANGED <<batch, dropped, numbered, draining, given, recorded>>

\* The host takes it: into_parts, and into_iter of the effects.
TakeYield ==
  /\ yielded # Nothing
  /\ Left = << >>
  /\ draining' = IntoIter(yielded.effects)
  /\ yielded' = Nothing
  /\ UNCHANGED <<batch, dropped, numbered, given, recorded>>

\* next, whatever the iterator's form.
NextFront ==
  /\ draining # Nothing
  /\ IF Left = << >>
     THEN given' = Nothing /\ UNCHANGED draining
     ELSE /\ given' = Given("front", Head(Left))
          /\ draining' = [draining EXCEPT !.items = Tail(Left)]
  /\ UNCHANGED <<batch, dropped, yielded, numbered, recorded>>

\* next_back.
NextBack ==
  /\ draining # Nothing
  /\ IF Left = << >>
     THEN given' = Nothing /\ UNCHANGED draining
     ELSE /\ given' = Given("back", Last(Left))
          /\ draining' = [draining EXCEPT !.items = Front(Left)]
  /\ UNCHANGED <<batch, dropped, yielded, numbered, recorded>>

BatchNext ==
  \/ \E e \in Effects : Record(e)
  \/ DropRequest \/ Drain \/ Show \/ Rebuild \/ TakeYield \/ NextFront \/ NextBack

BatchSpec == BatchInit /\ [][BatchNext]_batching

-----------------------------------------------------------------------------
(* Property *)

\* Whatever forms it passes through, a batch is the list of its effects: in
\* recording order, each in one yield, numbered in order, from either end.
BatchIsAList == List!Spec

=============================================================================
