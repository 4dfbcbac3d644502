----------------------------- MODULE EffectList -----------------------------
(***************************************************************************)
(* What a batch of effects promises (driver/batch.rs, and Yield in         *)
(* driver.rs): a list.  The outbox records into one, a poll takes it whole *)
(* with the ids closed, the machine numbers its effects in order, and the  *)
(* host takes them from either end.                                        *)
(***************************************************************************)
EXTENDS Naturals, Sequences, SequencesExt

CONSTANTS
  Effects,   \* what a routine may yield
  Ids        \* requests it may abandon

VARIABLES
  recorded,   \* effects since the last drain
  closed,     \* ids closed since the last drain
  yielded,    \* what a poll took, until the host takes it: at most one
  numbered,   \* effects numbered so far
  leaving,    \* what the host has not taken yet
  given       \* the effect it took last, and from which end, or Nothing

vars == <<recorded, closed, yielded, numbered, leaving, given>>

Nothing == << >>

Shown(effect, number) == [effect |-> effect, number |-> number]

Given(end, item) == [end |-> end, item |-> item]

\* Not numbered yet.
Plain(effect) == Shown(effect, 0)

Init ==
  /\ recorded = << >> /\ closed = << >> /\ yielded = Nothing
  /\ numbered = 0 /\ leaving = << >> /\ given = Nothing

Record ==
  /\ \E e \in Effects : recorded' = Append(recorded, Plain(e))
  /\ UNCHANGED <<closed, yielded, numbered, leaving, given>>

Close ==
  /\ \E id \in Ids : closed' = Append(closed, id)
  /\ UNCHANGED <<recorded, yielded, numbered, leaving, given>>

Drain ==
  /\ yielded = Nothing
  /\ yielded' = <<recorded, closed>>
  /\ recorded' = << >> /\ closed' = << >>
  /\ UNCHANGED <<numbered, leaving, given>>

Number ==
  /\ yielded # Nothing
  /\ LET list == yielded[1]
     IN /\ yielded' = <<[i \in DOMAIN list |-> Shown(list[i].effect, numbered + i)],
                        yielded[2]>>
        /\ numbered' = numbered + Len(list)
  /\ UNCHANGED <<recorded, closed, leaving, given>>

Take ==
  /\ yielded # Nothing /\ leaving = << >>
  /\ leaving' = yielded[1]
  /\ yielded' = Nothing
  /\ UNCHANGED <<recorded, closed, numbered, given>>

First ==
  /\ leaving # << >>
  /\ given' = Given("front", Head(leaving)) /\ leaving' = Tail(leaving)
  /\ UNCHANGED <<recorded, closed, yielded, numbered>>

Latest ==
  /\ leaving # << >>
  /\ given' = Given("back", Last(leaving)) /\ leaving' = Front(leaving)
  /\ UNCHANGED <<recorded, closed, yielded, numbered>>

NoMore ==
  /\ leaving = << >>
  /\ given' = Nothing
  /\ UNCHANGED <<recorded, closed, yielded, numbered, leaving>>

Next ==
  Record \/ Close \/ Drain \/ Number \/ Take \/ First \/ Latest \/ NoMore

Spec == Init /\ [][Next]_vars

=============================================================================
