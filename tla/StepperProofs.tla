--------------------------- MODULE StepperProofs ----------------------------
(***************************************************************************)
(* The safety properties of Stepper.tla, for any finite set of waking      *)
(* threads and any number of sends and polls.                              *)
(*                                                                         *)
(* NoLostWake is not inductive: a second thread's wake is absorbed by      *)
(* `woken`, so the thread that set it must still be on its way, and a      *)
(* routine that suspends on an empty channel must have left its waker      *)
(* there.  WakeInv states both.                                            *)
(***************************************************************************)
EXTENDS Stepper, FiniteSetTheorems, TLAPS

\* The counters' types and the others', which different provers check.
CountersOK ==
  /\ inbox \in Nat
  /\ sent \in 0 .. MaxSends
  /\ spared \in 0 .. MaxPolls
  /\ polls \in Nat
  /\ told \in Nat

ControlOK ==
  /\ phase \in Phases
  /\ woken \in BOOLEAN
  /\ waking \subseteq Wakers
  /\ telling \subseteq Wakers
  /\ noticed \in BOOLEAN
  /\ armed \in BOOLEAN
  /\ listening \in BOOLEAN
  /\ request \in Requests

LEMMA TypeParts == TypeOK <=> CountersOK /\ ControlOK
  BY DEF TypeOK, CountersOK, ControlOK

\* Every variable keeps its type (stepper.rs, wake.rs).
THEOREM TypeCorrect == Spec => []TypeOK
<1>1. Init => TypeOK
  <2>1. Init => CountersOK
    BY BoundsAssumption DEF BoundsAssumption, Init, CountersOK
  <2>2. Init => ControlOK
    BY DEF Init, ControlOK, Phases, Requests
  <2>3. QED
    BY <2>1, <2>2, TypeParts
<1>2. CountersOK /\ [Next]_vars => CountersOK'
  <2> SUFFICES ASSUME CountersOK, [Next]_vars PROVE CountersOK'
    OBVIOUS
  <2> USE BoundsAssumption DEF BoundsAssumption, CountersOK, hostVars, channel
  <2>1. ASSUME NEW w \in Wakers, Send(w) PROVE CountersOK'
    BY <2>1 DEF Send
  <2>2. ASSUME NEW w \in Wakers, Swap(w) PROVE CountersOK'
    BY <2>2 DEF Swap
  <2>3. ASSUME NEW w \in Wakers, CallHook(w) PROVE CountersOK'
    BY <2>3 DEF CallHook
  <2>4. CASE LoseRequest
    BY <2>4 DEF LoseRequest
  <2>5. CASE ResumeNoticed
    BY <2>5 DEF ResumeNoticed, BeginPoll
  <2>6. CASE ResumeAnyway
    BY <2>6 DEF ResumeAnyway, BeginPoll
  <2>7. CASE ReplyDelivered
    BY <2>7 DEF ReplyDelivered
  <2>8. CASE PollAfterReply
    BY <2>8 DEF PollAfterReply, BeginPoll
  <2>9. CASE ReplyGone
    BY <2>9 DEF ReplyGone
  <2>10. CASE Receive
    BY <2>10 DEF Receive
  <2>11. CASE Suspend
    BY <2>11 DEF Suspend
  <2>12. CASE Finish
    BY <2>12 DEF Finish
  <2>13. CASE UNCHANGED vars
    BY <2>13 DEF vars
  <2>14. QED
    BY <2>1, <2>2, <2>3, <2>4, <2>5, <2>6, <2>7, <2>8, <2>9,
       <2>10, <2>11, <2>12, <2>13 DEF Next
<1>3. ControlOK /\ [Next]_vars => ControlOK'
  <2> SUFFICES ASSUME ControlOK, [Next]_vars PROVE ControlOK'
    OBVIOUS
  <2> USE DEF ControlOK, Phases, Requests, hostVars, channel
  <2>1. ASSUME NEW w \in Wakers, Send(w) PROVE ControlOK'
    BY <2>1 DEF Send
  <2>2. ASSUME NEW w \in Wakers, Swap(w) PROVE ControlOK'
    BY <2>2 DEF Swap
  <2>3. ASSUME NEW w \in Wakers, CallHook(w) PROVE ControlOK'
    BY <2>3 DEF CallHook
  <2>4. CASE LoseRequest
    BY <2>4 DEF LoseRequest
  <2>5. CASE ResumeNoticed
    BY <2>5 DEF ResumeNoticed, BeginPoll
  <2>6. CASE ResumeAnyway
    BY <2>6 DEF ResumeAnyway, BeginPoll
  <2>7. CASE ReplyDelivered
    BY <2>7 DEF ReplyDelivered
  <2>8. CASE PollAfterReply
    BY <2>8 DEF PollAfterReply, BeginPoll
  <2>9. CASE ReplyGone
    BY <2>9 DEF ReplyGone
  <2>10. CASE Receive
    BY <2>10 DEF Receive
  <2>11. CASE Suspend
    BY <2>11 DEF Suspend
  <2>12. CASE Finish
    BY <2>12 DEF Finish
  <2>13. CASE UNCHANGED vars
    BY <2>13 DEF vars
  <2>14. QED
    BY <2>1, <2>2, <2>3, <2>4, <2>5, <2>6, <2>7, <2>8, <2>9,
       <2>10, <2>11, <2>12, <2>13 DEF Next
<1>4. QED
  BY <1>1, <1>2, <1>3, TypeParts, PTL DEF Spec

-----------------------------------------------------------------------------

\* A wake that finds `woken` set is covered: the thread that set it is on its
\* way to the hook or the host was told (a reply's `hold` aside, which the
\* poll directly after it clears).
WokenIsCovered ==
  phase \in {"idle", "polling"} /\ woken => noticed \/ telling # {}

\* A routine suspended on an empty channel has its waker in it.
EmptyIsArmed ==
  phase = "idle" /\ listening /\ inbox = 0 => armed

WakeInv == WokenIsCovered /\ EmptyIsArmed /\ NoLostWake

\* No wake of a suspended routine is lost, however many threads send at once.
THEOREM WakesAreKept == Spec => []NoLostWake
<1>1. Init => WakeInv
  BY DEF Init, WakeInv, WokenIsCovered, EmptyIsArmed, NoLostWake
<1>2. TypeOK /\ WakeInv /\ [Next]_vars => WakeInv'
  <2> SUFFICES ASSUME TypeOK, WakeInv, [Next]_vars
               PROVE (WokenIsCovered /\ EmptyIsArmed /\ NoLostWake)'
    BY DEF WakeInv
  <2> USE DEF TypeOK, WakeInv, hostVars, channel, WokenIsCovered,
              EmptyIsArmed, NoLostWake
  <2>1. ASSUME NEW w \in Wakers, Send(w)
        PROVE (WokenIsCovered /\ EmptyIsArmed /\ NoLostWake)'
    BY <2>1 DEF Send
  <2>2. ASSUME NEW w \in Wakers, Swap(w)
        PROVE (WokenIsCovered /\ EmptyIsArmed /\ NoLostWake)'
    BY <2>2 DEF Swap
  <2>3. ASSUME NEW w \in Wakers, CallHook(w)
        PROVE (WokenIsCovered /\ EmptyIsArmed /\ NoLostWake)'
    BY <2>3 DEF CallHook
  <2>4. CASE LoseRequest
    BY <2>4 DEF LoseRequest
  <2>5. CASE ResumeNoticed
    BY <2>5 DEF ResumeNoticed, BeginPoll
  <2>6. CASE ResumeAnyway
    BY <2>6 DEF ResumeAnyway, BeginPoll
  <2>7. CASE ReplyDelivered
    BY <2>7 DEF ReplyDelivered
  <2>8. CASE PollAfterReply
    BY <2>8 DEF PollAfterReply, BeginPoll
  <2>9. CASE ReplyGone
    BY <2>9 DEF ReplyGone
  <2>10. CASE Receive
    BY <2>10 DEF Receive
  <2>11. CASE Suspend
    BY <2>11 DEF Suspend
  <2>12. CASE Finish
    BY <2>12 DEF Finish
  <2>13. CASE UNCHANGED vars
    BY <2>13 DEF vars
  <2>14. QED
    BY <2>1, <2>2, <2>3, <2>4, <2>5, <2>6, <2>7, <2>8, <2>9, <2>10, <2>11,
       <2>12, <2>13 DEF Next
<1>3. WakeInv => NoLostWake
  BY DEF WakeInv
<1>4. QED
  BY <1>1, <1>2, <1>3, TypeCorrect, PTL DEF Spec

-----------------------------------------------------------------------------

\* The calls of the hook, made and about to be made, are one per poll begun,
\* and one more only once `woken` is set again.
Calls == told + Cardinality(telling)
HookInv == Calls <= polls + (IF woken THEN 1 ELSE 0)

LEMMA TellingIsFinite ==
  ASSUME TypeOK
  PROVE  /\ IsFiniteSet(telling) /\ IsFiniteSet(waking)
         /\ IsFiniteSet(telling \cup waking)
         /\ Cardinality(telling) \in Nat
         /\ Cardinality(telling \cup waking) \in Nat
<1>1. telling \subseteq Wakers /\ waking \subseteq Wakers
  BY DEF TypeOK
<1>2. IsFiniteSet(Wakers)
  BY WakersAssumption DEF WakersAssumption
<1>3. IsFiniteSet(telling) /\ IsFiniteSet(waking)
  BY <1>1, <1>2, FS_Subset
<1>4. IsFiniteSet(telling \cup waking)
  BY <1>1, <1>2, FS_Subset
<1>5. QED
  BY <1>3, <1>4, FS_CardinalityType

\* One element more or less counts one more or less at most.
LEMMA CountWith ==
  ASSUME NEW S, NEW x, IsFiniteSet(S)
  PROVE  /\ Cardinality(S \cup {x}) \in Nat
         /\ Cardinality(S \cup {x}) <= Cardinality(S) + 1
<1>1. Cardinality(S) \in Nat
  BY FS_CardinalityType
<1>2. Cardinality(S \cup {x}) = IF x \in S THEN Cardinality(S) ELSE Cardinality(S) + 1
  BY FS_AddElement
<1>3. QED
  BY <1>1, <1>2

LEMMA CountWithout ==
  ASSUME NEW S, NEW x, IsFiniteSet(S)
  PROVE  /\ Cardinality(S \ {x}) \in Nat
         /\ Cardinality(S \ {x}) <= Cardinality(S)
<1>1. Cardinality(S) \in Nat
  BY FS_CardinalityType
<1>2. /\ IsFiniteSet(S \ {x})
      /\ Cardinality(S \ {x}) = IF x \in S THEN Cardinality(S) - 1 ELSE Cardinality(S)
  BY FS_RemoveElement
<1>3. Cardinality(S \ {x}) \in Nat
  BY <1>2, FS_CardinalityType
<1>4. QED
  BY <1>1, <1>2, <1>3

\* Only the first wake since a poll began calls the hook: never twice in one
\* wait, whichever threads wake how often (Wakeup::wake_up).
THEOREM HookIsCalledOnce == Spec => []HookOncePerPoll
<1>1. Init => HookInv
  BY FS_EmptySet DEF Init, HookInv, Calls
<1>2. TypeOK /\ HookInv /\ [Next]_vars => HookInv'
  <2> SUFFICES ASSUME TypeOK, HookInv, [Next]_vars PROVE HookInv'
    OBVIOUS
  <2>0. /\ IsFiniteSet(telling)
        /\ Cardinality(telling) \in Nat
        /\ told \in Nat
        /\ polls \in Nat
    BY TellingIsFinite DEF TypeOK
  <2> USE DEF HookInv, Calls
  \* Every step but these leaves the count alone, or begins a poll.
  <2>1. ASSUME NEW w \in Wakers, Swap(w) PROVE HookInv'
    <3>1. CASE woken
      BY <2>1, <3>1, <2>0 DEF Swap, hostVars
    <3>2. CASE ~woken
      <4>1. /\ telling' = telling \cup {w}
            /\ woken' = TRUE
            /\ told' = told /\ polls' = polls
        BY <2>1, <3>2 DEF Swap, hostVars
      <4>2. /\ Cardinality(telling') \in Nat
            /\ Cardinality(telling') <= Cardinality(telling) + 1
        BY <4>1, <2>0, FS_AddElement
      <4>3. told + Cardinality(telling) <= polls
        BY <3>2, <2>0
      <4>4. told' + Cardinality(telling') <= polls' + 1
        BY <4>1, <4>2, <4>3, <2>0
      <4>5. QED
        BY <4>1, <4>4
    <3>3. QED
      BY <3>1, <3>2
  <2>2. ASSUME NEW w \in Wakers, CallHook(w) PROVE HookInv'
    <3>1. /\ w \in telling
          /\ telling' = telling \ {w}
          /\ told' = told + 1
          /\ woken' = woken /\ polls' = polls
      BY <2>2 DEF CallHook
    <3>2. /\ Cardinality(telling') \in Nat
          /\ Cardinality(telling') = Cardinality(telling) - 1
      BY <3>1, <2>0, FS_RemoveElement, FS_CardinalityType
    <3>3. told' + Cardinality(telling') = told + Cardinality(telling)
      BY <3>1, <3>2, <2>0
    <3>4. QED
      BY <3>1, <3>3
  <2>3. ASSUME BeginPoll, UNCHANGED <<telling, told>> PROVE HookInv'
    <3>1. woken' = FALSE /\ polls' = polls + 1 /\ Cardinality(telling') = Cardinality(telling)
      BY <2>3 DEF BeginPoll
    <3>2. told + Cardinality(telling) <= polls + 1
      BY <2>0
    <3>3. QED
      BY <2>3, <3>1, <3>2
  <2>4. ASSUME UNCHANGED <<telling, told, polls, woken>> PROVE HookInv'
    BY <2>4
  <2>5. CASE ReplyDelivered
    <3>1. /\ telling' = telling /\ told' = told /\ polls' = polls
          /\ woken' = woken \/ woken' = TRUE
      BY <2>5 DEF ReplyDelivered
    <3>2. CASE woken' = woken
      BY <2>4, <3>1, <3>2
    <3>3. CASE woken' = TRUE
      <4>1. told + Cardinality(telling) <= polls + 1
        BY <2>0
      <4>2. QED
        BY <3>1, <3>3, <4>1
    <3>4. QED
      BY <3>1, <3>2, <3>3
  <2>6. CASE ResumeNoticed \/ ResumeAnyway \/ PollAfterReply
    BY <2>3, <2>6 DEF ResumeNoticed, ResumeAnyway, PollAfterReply
  <2>7. CASE \/ \E w \in Wakers : Send(w)
             \/ LoseRequest \/ ReplyGone \/ Receive \/ Suspend \/ Finish
             \/ UNCHANGED vars
    BY <2>4, <2>7 DEF Send, LoseRequest, ReplyGone, Receive, Suspend, Finish, hostVars, vars
  <2>8. QED
    BY <2>1, <2>2, <2>5, <2>6, <2>7 DEF Next
<1>3. TypeOK /\ HookInv => HookOncePerPoll
  <2> SUFFICES ASSUME TypeOK, HookInv PROVE HookOncePerPoll
    OBVIOUS
  <2>1. Cardinality(telling) \in Nat /\ told \in Nat /\ polls \in Nat
    BY TellingIsFinite DEF TypeOK
  <2>2. QED
    BY <2>1 DEF HookInv, Calls, HookOncePerPoll
<1>4. QED
  BY <1>1, <1>2, <1>3, TypeCorrect, PTL DEF Spec

-----------------------------------------------------------------------------

\* A thread is in wake_up once at a time: before its swap or after it.
OnceInside == telling \cap waking = {}
NewsInv == OnceInside /\ told + Cardinality(telling \cup waking) <= sent

LEMMA NewsIsNoticesAreNews == NewsInv => NoticesAreNews
  BY DEF NewsInv, NoticesAreNews

\* Each call of the hook answers a send of another thread: delivering a reply
\* never tells the host to resume the machine it is calling (Wakeup::hold).
THEOREM HookIsNews == Spec => []NoticesAreNews
<1>1. Init => NewsInv
  <2>1. Init => telling \cup waking = {} /\ OnceInside
    BY DEF Init, OnceInside
  <2>2. Init => told = 0 /\ sent = 0
    BY DEF Init
  <2>3. QED
    BY <2>1, <2>2, FS_EmptySet DEF NewsInv
<1>2. TypeOK /\ NewsInv /\ [Next]_vars => NewsInv'
  <2> SUFFICES ASSUME TypeOK, NewsInv, [Next]_vars PROVE NewsInv'
    OBVIOUS
  <2> DEFINE Inside == telling \cup waking
  <2>0. /\ IsFiniteSet(Inside)
        /\ Cardinality(Inside) \in Nat
        /\ told \in Nat
        /\ sent \in Nat
    BY TellingIsFinite, BoundsAssumption DEF TypeOK, BoundsAssumption
  <2>1. ASSUME NEW w \in Wakers, Send(w) PROVE NewsInv'
    <3>1. /\ Inside' = Inside \/ Inside' = Inside \cup {w}
          /\ OnceInside'
      BY <2>1 DEF Send, NewsInv, OnceInside
    <3>2. told' = told /\ sent' = sent + 1
      BY <2>1 DEF Send
    <3>3. /\ Cardinality(Inside') \in Nat
          /\ Cardinality(Inside') <= Cardinality(Inside) + 1
      <4> HIDE DEF Inside
      <4>1. /\ Cardinality(Inside \cup {w}) \in Nat
            /\ Cardinality(Inside \cup {w}) <= Cardinality(Inside) + 1
        BY <2>0, CountWith
      <4>2. CASE Inside' = Inside
        BY <4>2, <2>0
      <4>3. CASE Inside' = Inside \cup {w}
        BY <4>3, <4>1
      <4>4. QED
        BY <3>1, <4>2, <4>3
    <3>4. told + Cardinality(Inside) <= sent
      BY DEF NewsInv
    <3>5. told' + Cardinality(Inside') <= sent'
      BY <3>2, <3>3, <3>4, <2>0
    <3>6. QED
      BY <3>1, <3>5 DEF NewsInv
  <2>2. ASSUME NEW w \in Wakers, Swap(w) PROVE NewsInv'
    <3>1. /\ Inside' = Inside \/ Inside' = Inside \ {w}
          /\ OnceInside'
      BY <2>2 DEF Swap, NewsInv, OnceInside
    <3>2. told' = told /\ sent' = sent
      BY <2>2 DEF Swap, hostVars, channel
    <3>3. /\ Cardinality(Inside') \in Nat
          /\ Cardinality(Inside') <= Cardinality(Inside)
      <4> HIDE DEF Inside
      <4>1. /\ Cardinality(Inside \ {w}) \in Nat
            /\ Cardinality(Inside \ {w}) <= Cardinality(Inside)
        BY <2>0, CountWithout
      <4>2. CASE Inside' = Inside
        BY <4>2, <2>0
      <4>3. CASE Inside' = Inside \ {w}
        BY <4>3, <4>1
      <4>4. QED
        BY <3>1, <4>2, <4>3
    <3>4. told + Cardinality(Inside) <= sent
      BY DEF NewsInv
    <3>5. told' + Cardinality(Inside') <= sent'
      BY <3>2, <3>3, <3>4, <2>0
    <3>6. QED
      BY <3>1, <3>5 DEF NewsInv
  <2>3. ASSUME NEW w \in Wakers, CallHook(w) PROVE NewsInv'
    <3>1. /\ w \in Inside
          /\ Inside' = Inside \ {w}
          /\ OnceInside'
      BY <2>3 DEF CallHook, NewsInv, OnceInside
    <3>2. told' = told + 1 /\ sent' = sent
      BY <2>3 DEF CallHook, channel
    <3>3. /\ Cardinality(Inside') \in Nat
          /\ Cardinality(Inside') = Cardinality(Inside) - 1
      BY <3>1, <2>0, FS_RemoveElement, FS_CardinalityType
    <3>4. told + Cardinality(Inside) <= sent
      BY DEF NewsInv
    <3>5. told' + Cardinality(Inside') <= sent'
      BY <3>2, <3>3, <3>4, <2>0
    <3>6. QED
      BY <3>1, <3>5 DEF NewsInv
  <2>4. CASE \/ LoseRequest \/ ResumeNoticed \/ ResumeAnyway \/ ReplyDelivered
             \/ PollAfterReply \/ ReplyGone \/ Receive \/ Suspend \/ Finish
             \/ UNCHANGED vars
    <3>1. UNCHANGED <<waking, telling, told, sent>>
      BY <2>4 DEF LoseRequest, ResumeNoticed, ResumeAnyway, ReplyDelivered,
                  PollAfterReply, ReplyGone, Receive, Suspend, Finish, hostVars,
                  channel, vars
    <3>2. QED
      BY <3>1 DEF NewsInv, OnceInside
  <2>5. QED
    BY <2>1, <2>2, <2>3, <2>4 DEF Next
<1>3. QED
  BY <1>1, <1>2, NewsIsNoticesAreNews, TypeCorrect, PTL DEF Spec

=============================================================================
