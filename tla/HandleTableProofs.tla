-------------------------- MODULE HandleTableProofs --------------------------
(***************************************************************************)
(* The safety properties of HandleTable.tla, for any threads, any number   *)
(* of machines and any depth of calls.                                     *)
(*                                                                         *)
(* The properties speak of the frames of `calls`; every action changes one *)
(* thread's stack, by a push, a pop, or an update of one frame.  The       *)
(* lemmas of the first part say what each does to the frames, and the      *)
(* proofs of the theorems use only them.                                   *)
(***************************************************************************)
EXTENDS HandleTable, SequenceTheorems, TLAPS

CallsOK == calls \in [Threads -> Seq(Frame)]

\* The frame f of a thread's stack becomes g.
Sets(t, i, g) == calls' = [calls EXCEPT ![t] = [@ EXCEPT ![i] = g]]
Pushes(t, g) == calls' = [calls EXCEPT ![t] = Append(@, g)]
Pops(t) == calls' = [calls EXCEPT ![t] = SubSeq(@, 1, Depth(t) - 1)]

LEMMA Stack ==
  ASSUME CallsOK, NEW t \in Threads
  PROVE  /\ calls[t] \in Seq(Frame)
         /\ Depth(t) \in Nat
         /\ DOMAIN calls[t] = 1 .. Depth(t)
         /\ \A i \in DOMAIN calls[t] : calls[t][i] \in Frame
         /\ calls[t] # << >> => Depth(t) \in DOMAIN calls[t]
  BY LenProperties, ElementOfSeq, EmptySeq DEF CallsOK, Depth

LEMMA SetsFrame ==
  ASSUME CallsOK, NEW t \in Threads, NEW i \in DOMAIN calls[t],
         NEW g \in Frame, Sets(t, i, g)
  PROVE  /\ CallsOK'
         /\ \A u \in Threads :
              /\ DOMAIN calls'[u] = DOMAIN calls[u]
              /\ \A j \in DOMAIN calls[u] :
                   calls'[u][j] = IF u = t /\ j = i THEN g ELSE calls[u][j]
<1> DEFINE s == [calls[t] EXCEPT ![i] = g]
<1>1. /\ s \in Seq(Frame)
      /\ Len(s) = Depth(t)
      /\ \A j \in 1 .. Depth(t) : s[j] = IF j = i THEN g ELSE calls[t][j]
  BY Stack, ExceptSeq DEF Depth
<1>2. DOMAIN s = DOMAIN calls[t]
  OBVIOUS
<1>3. calls' = [calls EXCEPT ![t] = s]
  BY DEF Sets
<1> HIDE DEF s
<1>4. \A u \in Threads : calls'[u] = IF u = t THEN s ELSE calls[u]
  BY <1>3 DEF CallsOK
<1>5. CallsOK'
  BY <1>1, <1>3 DEF CallsOK
<1>6. QED
  BY <1>1, <1>2, <1>4, <1>5, Stack

LEMMA PushesFrame ==
  ASSUME CallsOK, NEW t \in Threads, NEW g \in Frame, Pushes(t, g)
  PROVE  /\ CallsOK'
         /\ \A u \in Threads : \A j \in DOMAIN calls[u] :
              j \in DOMAIN calls'[u] /\ calls'[u][j] = calls[u][j]
         /\ \A u \in Threads : \A j \in DOMAIN calls'[u] :
              \/ j \in DOMAIN calls[u] /\ calls'[u][j] = calls[u][j]
              \/ u = t /\ j = Depth(t) + 1 /\ calls'[u][j] = g
<1> DEFINE s == Append(calls[t], g)
<1>1. /\ s \in Seq(Frame)
      /\ Len(s) = Depth(t) + 1
      /\ \A j \in 1 .. Depth(t) : s[j] = calls[t][j]
      /\ s[Depth(t) + 1] = g
  BY Stack, AppendProperties DEF Depth
<1>2. calls' = [calls EXCEPT ![t] = s]
  BY DEF Pushes
<1>3. DOMAIN s = 1 .. Depth(t) + 1
  BY <1>1, LenProperties
<1> HIDE DEF s
<1>4. \A u \in Threads : calls'[u] = IF u = t THEN s ELSE calls[u]
  BY <1>2 DEF CallsOK
<1>5. CallsOK'
  BY <1>1, <1>2 DEF CallsOK
<1>6. QED
  BY <1>1, <1>3, <1>4, <1>5, Stack

LEMMA PopsFrame ==
  ASSUME CallsOK, NEW t \in Threads, calls[t] # << >>, Pops(t)
  PROVE  /\ CallsOK'
         /\ \A u \in Threads : \A j \in DOMAIN calls'[u] :
              j \in DOMAIN calls[u] /\ calls'[u][j] = calls[u][j]
         /\ \A u \in Threads : \A j \in DOMAIN calls[u] :
              j \in DOMAIN calls'[u] \/ (u = t /\ j = Depth(t))
<1> DEFINE s == SubSeq(calls[t], 1, Depth(t) - 1)
<1>1. Depth(t) \in Nat \ {0}
  BY Stack, EmptySeq DEF Depth
<1>2. /\ s \in Seq(Frame)
      /\ Len(s) = Depth(t) - 1
      /\ \A j \in 1 .. Depth(t) - 1 : s[j] = calls[t][j]
  BY <1>1, Stack, SubSeqProperties
<1>3. calls' = [calls EXCEPT ![t] = s]
  BY DEF Pops
<1>4. DOMAIN s = 1 .. Depth(t) - 1
  BY <1>2, LenProperties
<1> HIDE DEF s
<1>5. \A u \in Threads : calls'[u] = IF u = t THEN s ELSE calls[u]
  BY <1>3 DEF CallsOK
<1>6. CallsOK'
  BY <1>2, <1>3 DEF CallsOK
<1>7. QED
  BY <1>1, <1>2, <1>4, <1>5, <1>6, Stack

LEMMA GoesSets ==
  ASSUME CallsOK, NEW t \in Threads, calls[t] # << >>,
         NEW stage \in Stages, Goes(t, stage)
  PROVE  /\ [Top(t) EXCEPT !.stage = stage] \in Frame
         /\ Sets(t, Depth(t), [Top(t) EXCEPT !.stage = stage])
<1>1. Top(t) \in Frame
  BY Stack DEF Top
<1>2. QED
  BY <1>1 DEF Goes, Sets, Frame, Top

LEMMA AnswersSets ==
  ASSUME CallsOK, NEW t \in Threads, calls[t] # << >>,
         NEW code \in Codes, Answers(t, code)
  PROVE  /\ [Top(t) EXCEPT !.stage = "returning", !.code = code] \in Frame
         /\ Sets(t, Depth(t),
                 [Top(t) EXCEPT !.stage = "returning", !.code = code])
<1>1. Top(t) \in Frame
  BY Stack DEF Top
<1>2. QED
  BY <1>1 DEF Answers, Sets, Frame, Stages, Top

LEMMA WakeSets ==
  ASSUME CallsOK, NEW t \in Threads, NEW h \in Handles,
         NEW i \in DOMAIN calls[t],
         calls' = [calls EXCEPT ![t][i].woken = @ \cup {h}]
  PROVE  /\ [calls[t][i] EXCEPT !.woken = @ \cup {h}] \in Frame
         /\ Sets(t, i, [calls[t][i] EXCEPT !.woken = @ \cup {h}])
<1>1. calls[t][i] \in Frame
  BY Stack
<1>2. QED
  BY <1>1 DEF Sets, Frame

LEMMA BeginKeeps ==
  ASSUME NEW t, NEW h, NEW stage, Begin(t, h, stage)
  PROVE  /\ h \in Issued
         /\ UNCHANGED <<machines, next, local, hooked, wakes, ended, owed, gone,
                       panicked>>
  BY Zenon DEF Begin

LEMMA BeginPushes ==
  ASSUME CallsOK, NEW t \in Threads, NEW h \in Handles,
         NEW stage \in {"building", "finding"}, Begin(t, h, stage)
  PROVE  \E g \in Frame :
           /\ Pushes(t, g)
           /\ g.handle = h /\ g.stage = stage /\ g.woken = {}
           /\ g.code = "none" /\ g.late = (h \in gone)
<1> DEFINE g == [handle |-> h, stage |-> stage, code |-> "none",
                 woken |-> {}, late |-> h \in gone]
<1>1. g \in Frame
  BY DEF Frame, Stages, Codes
<1>2. Pushes(t, g)
  BY DEF Begin, Pushes
<1>3. QED
  BY <1>1, <1>2

-----------------------------------------------------------------------------

\* The types of what is not a call.
TableOK ==
  /\ machines \subseteq Handles
  /\ parked \subseteq Handles
  /\ pinned \in [Handles -> Threads \cup {Nobody}]
  /\ next \in 1 .. MaxHandle + 1
  /\ local \in [Handles -> Threads \cup {Nobody}]
  /\ hooked \subseteq Handles
  /\ wakes \subseteq Handles
  /\ ended \subseteq Threads
  /\ owed \subseteq Handles
  /\ gone \subseteq Handles
  /\ panicked \subseteq Handles
  /\ home \in [Handles -> Threads \cup {Nobody}]

LEMMA TypeParts == TypeOK <=> TableOK /\ CallsOK
  BY DEF TypeOK, TableOK, CallsOK

\* Every step is a step of one of the actions.
LEMMA Actions ==
  ASSUME [Next]_vars
  PROVE  \/ UNCHANGED vars
         \/ \E t \in Threads :
              \/ New(t) \/ NewPinned(t) \/ TakeWakes(t) \/ ThreadEnds(t)
              \/ \E h \in Handles :
                   Free(t, h) \/ Wake(t, h) \/ Resume(t, h) \/ Reply(t, h)
              \/ Built(t) \/ BuildPanics(t) \/ Find(t) \/ TryLock(t)
              \/ Stepped(t) \/ Panic(t) \/ Remove(t) \/ Unlock(t) \/ Return(t)
  BY DEF Next

\* The stacks of calls keep their type.
LEMMA CallsKept ==
  ASSUME CallsOK, [Next]_vars
  PROVE  CallsOK'
<1>1. CASE UNCHANGED vars
  BY <1>1 DEF CallsOK, vars
<1>2. CASE UNCHANGED calls
  BY <1>2 DEF CallsOK
<1>3. ASSUME NEW t \in Threads, NEW h \in Handles, Wake(t, h) PROVE CallsOK'
  BY <1>2, <1>3, WakeSets, SetsFrame DEF Wake
<1>4. ASSUME NEW t \in Threads, NEW h \in Handles, Resume(t, h) \/ Reply(t, h)
      PROVE CallsOK'
  BY <1>4, BeginPushes, PushesFrame DEF Resume, Reply
<1>5. ASSUME NEW t \in Threads, calls[t] # << >>, NEW stage \in Stages,
             Goes(t, stage)
      PROVE CallsOK'
  BY <1>5, GoesSets, SetsFrame, Stack
<1>6. ASSUME NEW t \in Threads, calls[t] # << >>, NEW code \in Codes,
             Answers(t, code)
      PROVE CallsOK'
  BY <1>6, AnswersSets, SetsFrame, Stack
<1>7. ASSUME NEW t \in Threads, calls[t] # << >>, Pops(t) PROVE CallsOK'
  BY <1>7, PopsFrame
<1>8. ASSUME NEW t \in Threads, BuildPanics(t) \/ Return(t) PROVE CallsOK'
  BY <1>7, <1>8 DEF BuildPanics, Return, At, Pops
<1>9. ASSUME NEW t \in Threads,
             \/ Built(t) \/ Find(t) \/ TryLock(t) \/ Stepped(t) \/ Panic(t)
             \/ Remove(t) \/ Unlock(t)
      PROVE CallsOK'
  BY <1>5, <1>6, <1>9
     DEF Built, Find, TryLock, Stepped, Panic, Remove, Unlock, At, Stages, Codes
<1>10. ASSUME NEW t \in Threads,
              \/ New(t) \/ NewPinned(t) \/ TakeWakes(t) \/ ThreadEnds(t)
              \/ \E h \in Handles : Free(t, h)
       PROVE CallsOK'
  BY <1>2, <1>10 DEF New, NewPinned, TakeWakes, ThreadEnds, Free
<1>11. QED
  BY <1>1, <1>3, <1>4, <1>8, <1>9, <1>10, Actions

\* The table and the histories keep theirs.
LEMMA TableKept ==
  ASSUME TableOK, CallsOK, [Next]_vars
  PROVE  TableOK'
<1> USE BoundsAssumption DEF TableOK, table, history, Handles
<1>1. CASE UNCHANGED vars
  BY <1>1 DEF vars
<1>2. ASSUME NEW t \in Threads, New(t) \/ NewPinned(t) PROVE TableOK'
  <2>1. next \in Handles /\ next' \in 1 .. MaxHandle + 1
    BY <1>2 DEF New, NewPinned, BoundsAssumption
  <2>2. CASE New(t)
    BY <2>1, <2>2 DEF New
  <2>3. CASE NewPinned(t)
    BY <2>1, <2>3 DEF NewPinned
  <2>4. QED
    BY <1>2, <2>2, <2>3
<1>3. ASSUME NEW t \in Threads, TakeWakes(t) \/ ThreadEnds(t) PROVE TableOK'
  BY <1>3 DEF TakeWakes, ThreadEnds
<1>4. ASSUME NEW t \in Threads, NEW h \in Handles, Free(t, h) \/ Wake(t, h)
      PROVE TableOK'
  BY <1>4 DEF Free, Wake
<1>5. ASSUME NEW t \in Threads, NEW h \in Handles, Resume(t, h) \/ Reply(t, h)
      PROVE TableOK'
  <2>1. UNCHANGED <<machines, next, local, hooked, wakes, ended, owed, gone,
                    panicked>>
    <3>1. Begin(t, h, "building") \/ Begin(t, h, "finding")
      BY <1>5 DEF Resume, Reply
    <3>2. QED
      BY <3>1, BeginKeeps
  <2>2. \/ UNCHANGED <<parked, pinned, home>>
        \/ /\ parked' = parked \ {h}
           /\ pinned' = [pinned EXCEPT ![h] = t]
           /\ home' = [home EXCEPT ![h] = t]
    BY <1>5 DEF Resume, Reply
  <2>3. CASE UNCHANGED <<parked, pinned, home>>
    BY <2>1, <2>3
  <2>4. CASE /\ parked' = parked \ {h}
             /\ pinned' = [pinned EXCEPT ![h] = t]
             /\ home' = [home EXCEPT ![h] = t]
    <3>1. /\ pinned' \in [Handles -> Threads \cup {Nobody}]
          /\ home' \in [Handles -> Threads \cup {Nobody}]
      BY <2>4
    <3>2. QED
      BY <2>1, <2>4, <3>1
  <2>5. QED
    BY <2>2, <2>3, <2>4
<1>6. ASSUME NEW t \in Threads, calls[t] # << >>
      PROVE Top(t).handle \in Handles /\ Top(t).woken \subseteq Handles
  BY <1>6, Stack DEF Top, Frame
<1>7. ASSUME NEW t \in Threads, Built(t) PROVE TableOK'
  BY <1>6, <1>7 DEF Built, At
<1>8. ASSUME NEW t \in Threads, BuildPanics(t) PROVE TableOK'
  BY <1>6, <1>8 DEF BuildPanics, At
<1>9. ASSUME NEW t \in Threads, Find(t) \/ TryLock(t) \/ Stepped(t) \/ Unlock(t)
      PROVE TableOK'
  BY <1>9 DEF Find, TryLock, Stepped, Unlock
<1>10. ASSUME NEW t \in Threads, Panic(t) PROVE TableOK'
  BY <1>6, <1>10 DEF Panic, At
<1>11. ASSUME NEW t \in Threads, Remove(t) PROVE TableOK'
  BY <1>6, <1>11 DEF Remove, At
<1>12. ASSUME NEW t \in Threads, Return(t) PROVE TableOK'
  BY <1>6, <1>12 DEF Return, At
<1>13. QED
  BY <1>1, <1>2, <1>3, <1>4, <1>5, <1>7, <1>8, <1>9, <1>10, <1>11, <1>12,
     Actions

\* Every variable keeps its type (table.rs).
THEOREM TypeCorrect == Spec => []TypeOK
<1>1. Init => TypeOK
  BY BoundsAssumption, EmptySeq
     DEF Init, TypeOK, Handles, BoundsAssumption
<1>2. TypeOK /\ [Next]_vars => TypeOK'
  BY TypeParts, CallsKept, TableKept DEF TypeOK, TableOK, CallsOK
<1>3. QED
  BY <1>1, <1>2, PTL DEF Spec

-----------------------------------------------------------------------------

\* The frames are the entries of the stacks.
LEMMA FramesAre ==
  /\ \A t \in Threads : \A i \in DOMAIN calls[t] :
       <<t, i>> \in Frames /\ FrameOf(<<t, i>>) = calls[t][i]
  /\ \A f \in Frames :
       \E t \in Threads : \E i \in DOMAIN calls[t] : f = <<t, i>>
  BY DEF Frames, FrameOf

Noted(h) == \E t \in Threads : \E i \in DOMAIN calls[t] : h \in calls[t][i].woken

\* A call that has no CALL yet has noted nothing.
Silent ==
  \A t \in Threads : \A i \in DOMAIN calls[t] :
    calls[t][i].stage = "building" => calls[t][i].woken = {}

LEMMA SilentKept ==
  ASSUME CallsOK, Silent, [Next]_vars
  PROVE  Silent'
<1>1. CASE UNCHANGED calls
  BY <1>1 DEF Silent
<1>2. ASSUME NEW t \in Threads, NEW i \in DOMAIN calls[t], NEW g \in Frame,
             Sets(t, i, g), g.stage = "building" => g.woken = {}
      PROVE Silent'
  BY <1>2, SetsFrame DEF Silent
<1>3. ASSUME NEW t \in Threads, calls[t] # << >>,
             NEW stage \in Stages \ {"building"}, Goes(t, stage)
      PROVE Silent'
  <2>1. Top(t) \in Frame /\ Depth(t) \in DOMAIN calls[t]
    BY <1>3, Stack DEF Top
  <2>2. [Top(t) EXCEPT !.stage = stage].stage # "building"
    BY <2>1, <1>3 DEF Frame
  <2>3. QED
    BY <1>2, <1>3, <2>1, <2>2, GoesSets
<1>4. ASSUME NEW t \in Threads, calls[t] # << >>, NEW code \in Codes,
             Answers(t, code)
      PROVE Silent'
  <2>1. Top(t) \in Frame /\ Depth(t) \in DOMAIN calls[t]
    BY <1>4, Stack DEF Top
  <2>2. [Top(t) EXCEPT !.stage = "returning", !.code = code].stage # "building"
    BY <2>1 DEF Frame
  <2>3. QED
    BY <1>2, <1>4, <2>1, <2>2, AnswersSets
<1>5. ASSUME NEW t \in Threads, NEW h \in Handles, Wake(t, h) PROVE Silent'
  <2>1. ASSUME NEW i \in DOMAIN calls[t], Reporting(t, i),
               calls' = [calls EXCEPT ![t][i].woken = @ \cup {h}]
        PROVE Silent'
    <3>1. calls[t][i] \in Frame
      BY Stack
    <3>2. [calls[t][i] EXCEPT !.woken = @ \cup {h}].stage # "building"
      BY <2>1, <3>1 DEF Reporting, Frame
    <3>3. QED
      BY <1>2, <2>1, <3>2, WakeSets
  <2>2. QED
    BY <1>1, <1>5, <2>1 DEF Wake
<1>6. ASSUME NEW t \in Threads, NEW h \in Handles, Resume(t, h) \/ Reply(t, h)
      PROVE Silent'
  BY <1>6, BeginPushes, PushesFrame DEF Resume, Reply, Silent
<1>7. ASSUME NEW t \in Threads, BuildPanics(t) \/ Return(t) PROVE Silent'
  BY <1>7, PopsFrame DEF BuildPanics, Return, At, Pops, Silent
<1>8. ASSUME NEW t \in Threads,
             \/ Built(t) \/ Find(t) \/ TryLock(t) \/ Stepped(t) \/ Panic(t)
             \/ Remove(t) \/ Unlock(t)
      PROVE Silent'
  BY <1>3, <1>4, <1>8
     DEF Built, Find, TryLock, Stepped, Panic, Remove, Unlock, At, Stages, Codes
<1>9. ASSUME NEW t \in Threads,
             \/ New(t) \/ NewPinned(t) \/ TakeWakes(t) \/ ThreadEnds(t)
             \/ \E h \in Handles : Free(t, h)
      PROVE Silent'
  BY <1>1, <1>9 DEF New, NewPinned, TakeWakes, ThreadEnds, Free
<1>10. CASE UNCHANGED vars
  BY <1>1, <1>10 DEF vars
<1>11. QED
  BY <1>5, <1>6, <1>7, <1>8, <1>9, <1>10, Actions

OwedIsNoted == \A h \in owed : h \in wakes \/ Noted(h)

LEMMA OwedKept ==
  ASSUME CallsOK, Silent, OwedIsNoted, [Next]_vars
  PROVE  OwedIsNoted'
<1>1. CASE UNCHANGED <<calls, owed, wakes>>
  BY <1>1 DEF OwedIsNoted, Noted
<1>2. ASSUME NEW t \in Threads, NEW i \in DOMAIN calls[t], NEW g \in Frame,
             Sets(t, i, g), calls[t][i].woken \subseteq g.woken
      PROVE \A h : Noted(h) => Noted(h)'
  BY <1>2, SetsFrame DEF Noted
<1>3. ASSUME NEW t \in Threads, calls[t] # << >>, NEW stage \in Stages,
             Goes(t, stage)
      PROVE \A h : Noted(h) => Noted(h)'
  <2>1. Top(t) \in Frame /\ Depth(t) \in DOMAIN calls[t] /\ Top(t) = calls[t][Depth(t)]
    BY <1>3, Stack DEF Top
  <2>2. [Top(t) EXCEPT !.stage = stage].woken = Top(t).woken
    BY <2>1 DEF Frame
  <2>3. QED
    BY <1>2, <1>3, <2>1, <2>2, GoesSets
<1>4. ASSUME NEW t \in Threads, calls[t] # << >>, NEW code \in Codes,
             Answers(t, code)
      PROVE \A h : Noted(h) => Noted(h)'
  <2>1. Top(t) \in Frame /\ Depth(t) \in DOMAIN calls[t] /\ Top(t) = calls[t][Depth(t)]
    BY <1>4, Stack DEF Top
  <2>2. [Top(t) EXCEPT !.stage = "returning", !.code = code].woken = Top(t).woken
    BY <2>1 DEF Frame
  <2>3. QED
    BY <1>2, <1>4, <2>1, <2>2, AnswersSets
<1>5. ASSUME NEW t \in Threads, NEW h \in Handles, Wake(t, h)
      PROVE OwedIsNoted'
  <2>1. ASSUME NEW i \in DOMAIN calls[t],
               calls' = [calls EXCEPT ![t][i].woken = @ \cup {h}]
        PROVE Noted(h)' /\ \A k : Noted(k) => Noted(k)'
    <3> DEFINE g == [calls[t][i] EXCEPT !.woken = @ \cup {h}]
    <3>1. calls[t][i] \in Frame
      BY Stack
    <3>2. g.woken = calls[t][i].woken \cup {h}
      BY <3>1 DEF Frame
    <3>3. g \in Frame /\ Sets(t, i, g)
      BY <2>1, WakeSets
    <3> HIDE DEF g
    <3>4. Noted(h)'
      BY <3>2, <3>3, SetsFrame DEF Noted
    <3>5. QED
      BY <1>2, <3>2, <3>3, <3>4
  <2>2. CASE UNCHANGED calls /\ wakes' = wakes \cup {h}
    BY <1>5, <2>2 DEF Wake, OwedIsNoted, Noted
  <2>3. owed' = owed \cup {h}
    BY <1>5 DEF Wake
  <2>4. CASE \E i \in DOMAIN calls[t] :
               /\ calls' = [calls EXCEPT ![t][i].woken = @ \cup {h}]
               /\ UNCHANGED wakes
    BY <2>1, <2>3, <2>4 DEF OwedIsNoted
  <2>5. QED
    BY <1>5, <2>2, <2>4 DEF Wake
<1>6. ASSUME NEW t \in Threads, NEW h \in Handles, Resume(t, h) \/ Reply(t, h)
      PROVE OwedIsNoted'
  <2>1. Begin(t, h, "building") \/ Begin(t, h, "finding")
    BY <1>6 DEF Resume, Reply
  <2>2. UNCHANGED <<owed, wakes>>
    BY <2>1, BeginKeeps
  <2>3. \A k : Noted(k) => Noted(k)'
    BY <2>1, BeginPushes, PushesFrame DEF Noted
  <2>4. QED
    BY <2>2, <2>3 DEF OwedIsNoted
<1>7. ASSUME NEW t \in Threads, calls[t] # << >>, Pops(t)
      PROVE \A h : Noted(h) /\ h \notin Top(t).woken => Noted(h)'
  BY <1>7, PopsFrame DEF Noted, Top
<1>8. ASSUME NEW t \in Threads, BuildPanics(t) PROVE OwedIsNoted'
  <2>1. calls[t] # << >> /\ Pops(t) /\ Top(t).stage = "building"
    BY <1>8 DEF BuildPanics, At, Pops
  <2>2. Top(t).woken = {}
    BY <2>1, Stack DEF Silent, Top
  <2>3. UNCHANGED <<owed, wakes>>
    BY <1>8 DEF BuildPanics
  <2>4. QED
    BY <1>7, <2>1, <2>2, <2>3 DEF OwedIsNoted
<1>9. ASSUME NEW t \in Threads, Return(t) PROVE OwedIsNoted'
  <2>1. calls[t] # << >> /\ Pops(t)
    BY <1>9 DEF Return, At, Pops
  <2>2. \/ owed' = owed \ Top(t).woken /\ UNCHANGED wakes
        \/ wakes' = wakes \cup Top(t).woken /\ UNCHANGED owed
    BY <1>9 DEF Return
  <2>3. QED
    BY <1>7, <2>1, <2>2 DEF OwedIsNoted
<1>10. ASSUME NEW t \in Threads,
              \/ Built(t) \/ Find(t) \/ TryLock(t) \/ Stepped(t) \/ Panic(t)
              \/ Remove(t) \/ Unlock(t)
       PROVE OwedIsNoted'
  <2>1. UNCHANGED <<owed, wakes>>
    BY <1>10
       DEF Built, Find, TryLock, Stepped, Panic, Remove, Unlock, history
  <2>2. \A h : Noted(h) => Noted(h)'
    BY <1>3, <1>4, <1>10
       DEF Built, Find, TryLock, Stepped, Panic, Remove, Unlock, At, Stages,
           Codes
  <2>3. QED
    BY <2>1, <2>2 DEF OwedIsNoted
<1>11. ASSUME NEW t \in Threads,
              New(t) \/ NewPinned(t) \/ \E h \in Handles : Free(t, h)
       PROVE OwedIsNoted'
  BY <1>1, <1>11 DEF New, NewPinned, Free, history
<1>12. ASSUME NEW t \in Threads, TakeWakes(t) PROVE OwedIsNoted'
  BY <1>12 DEF TakeWakes, OwedIsNoted, Noted
<1>13. ASSUME NEW t \in Threads, ThreadEnds(t) PROVE OwedIsNoted'
  <2>1. PICK woken : wakes' = wakes \cup woken /\ owed' = owed \cup woken
    BY <1>13 DEF ThreadEnds
  <2>2. UNCHANGED calls
    BY <1>13 DEF ThreadEnds
  <2>3. QED
    BY <2>1, <2>2 DEF OwedIsNoted, Noted
<1>14. CASE UNCHANGED vars
  BY <1>1, <1>14 DEF vars
<1>15. QED
  BY <1>5, <1>6, <1>8, <1>9, <1>10, <1>11, <1>12, <1>13, <1>14, Actions

\* No wake is lost on the way from the hook to a caller, whatever calls fail,
\* panic, nest or overlap, and whichever threads end (reporting_wakes, woke).
THEOREM WakesReachACaller == Spec => []NoWakeLost
<1> DEFINE Inv == CallsOK /\ Silent /\ OwedIsNoted
<1>1. Init => Inv
  BY EmptySeq DEF Init, CallsOK, Silent, OwedIsNoted
<1>2. Inv /\ [Next]_vars => Inv'
  BY CallsKept, SilentKept, OwedKept
<1>3. Inv => NoWakeLost
  <2> SUFFICES ASSUME Inv, NEW h \in owed, h \notin wakes
               PROVE \E f \in Frames : h \in FrameOf(f).woken
    BY DEF NoWakeLost
  <2>1. PICK t \in Threads : \E i \in DOMAIN calls[t] : h \in calls[t][i].woken
    BY DEF OwedIsNoted, Noted
  <2>2. PICK i \in DOMAIN calls[t] : h \in calls[t][i].woken
    BY <2>1
  <2>3. <<t, i>> \in Frames /\ FrameOf(<<t, i>>) = calls[t][i]
    BY FramesAre
  <2>4. QED
    BY <2>2, <2>3
<1>4. QED
  BY <1>1, <1>2, <1>3, PTL DEF Spec

-----------------------------------------------------------------------------

\* A machine that a call holds is in use.
LEMMA HeldIsInUse ==
  ASSUME NEW t \in Threads, NEW i \in DOMAIN calls[t], NEW h, Holds(calls[t][i], h)
  PROVE  InUse(h)
<1>1. <<t, i>> \in Frames /\ Holds(FrameOf(<<t, i>>), h)
  BY FramesAre
<1>2. QED
  BY <1>1 DEF InUse

\* Two entries of the stacks that hold one machine are one.
OneHolder ==
  \A t, u \in Threads : \A i \in DOMAIN calls[t], j \in DOMAIN calls[u] : \A h \in Handles :
    Holds(calls[t][i], h) /\ Holds(calls[u][j], h) => t = u /\ i = j

\* A frame comes to hold a machine only when none does.
LEMMA OneHolderKept ==
  ASSUME CallsOK, OneHolder, [Next]_vars
  PROVE  OneHolder'
<1>1. CASE UNCHANGED calls
  BY <1>1 DEF OneHolder
<1>2. ASSUME NEW t \in Threads, NEW i \in DOMAIN calls[t], NEW g \in Frame, Sets(t, i, g),
             \A h \in Handles : Holds(g, h) => Holds(calls[t][i], h) \/ ~InUse(h)
      PROVE OneHolder'
  <2> SUFFICES ASSUME NEW u \in Threads, NEW v \in Threads,
                      NEW j \in DOMAIN calls'[u], NEW k \in DOMAIN calls'[v], NEW h \in Handles,
                      Holds(calls'[u][j], h), Holds(calls'[v][k], h)
               PROVE u = v /\ j = k
    BY DEF OneHolder, Holds
  <2>1. /\ j \in DOMAIN calls[u] /\ k \in DOMAIN calls[v]
        /\ calls'[u][j] = IF u = t /\ j = i THEN g ELSE calls[u][j]
        /\ calls'[v][k] = IF v = t /\ k = i THEN g ELSE calls[v][k]
    BY <1>2, SetsFrame
  <2>2. \/ Holds(calls[u][j], h) /\ Holds(calls[v][k], h)
        \/ (u = t /\ j = i) /\ (v = t /\ k = i)
    BY <1>2, <2>1, HeldIsInUse
  <2>3. QED
    BY <2>1, <2>2 DEF OneHolder
<1>3. ASSUME NEW t \in Threads, calls[t] # << >>, NEW stage \in Stages, Goes(t, stage),
             \/ stage \notin {"running", "unwound", "removed"}
             \/ Top(t).stage \in {"running", "unwound"}
             \/ ~InUse(Top(t).handle)
      PROVE OneHolder'
  <2>1. Top(t) \in Frame /\ Depth(t) \in DOMAIN calls[t] /\ Top(t) = calls[t][Depth(t)]
    BY <1>3, Stack DEF Top
  <2>2. \A h \in Handles : Holds([Top(t) EXCEPT !.stage = stage], h)
                             => Holds(Top(t), h) \/ ~InUse(h)
    BY <1>3, <2>1 DEF Frame, Holds
  <2>3. QED
    BY <1>2, <1>3, <2>1, <2>2, GoesSets
<1>4. ASSUME NEW t \in Threads, calls[t] # << >>, NEW code \in Codes, Answers(t, code)
      PROVE OneHolder'
  <2>1. Top(t) \in Frame /\ Depth(t) \in DOMAIN calls[t]
    BY <1>4, Stack DEF Top
  <2>2. \A h \in Handles : ~Holds([Top(t) EXCEPT !.stage = "returning", !.code = code], h)
    BY <2>1 DEF Frame, Holds
  <2>3. QED
    BY <1>2, <1>4, <2>1, <2>2, AnswersSets
<1>5. ASSUME NEW t \in Threads, NEW h \in Handles, Wake(t, h) PROVE OneHolder'
  <2>1. ASSUME NEW i \in DOMAIN calls[t], calls' = [calls EXCEPT ![t][i].woken = @ \cup {h}]
        PROVE OneHolder'
    <3>1. calls[t][i] \in Frame
      BY Stack
    <3>2. \A k \in Handles : Holds([calls[t][i] EXCEPT !.woken = @ \cup {h}], k)
                               => Holds(calls[t][i], k)
      BY <3>1 DEF Frame, Holds
    <3>3. QED
      BY <1>2, <2>1, <3>2, WakeSets
  <2>2. QED
    BY <1>1, <1>5, <2>1 DEF Wake
<1>6. ASSUME NEW t \in Threads, NEW h \in Handles, Resume(t, h) \/ Reply(t, h)
      PROVE OneHolder'
  <2>1. PICK g \in Frame : Pushes(t, g) /\ g.stage \in {"building", "finding"}
    BY <1>6, BeginPushes DEF Resume, Reply
  <2>2. \A u \in Threads : \A j \in DOMAIN calls'[u] : \A k :
          Holds(calls'[u][j], k) => j \in DOMAIN calls[u] /\ Holds(calls[u][j], k)
    BY <2>1, PushesFrame DEF Holds
  <2>3. QED
    BY <2>2 DEF OneHolder, Holds
<1>7. ASSUME NEW t \in Threads, BuildPanics(t) \/ Return(t) PROVE OneHolder'
  <2>1. \A u \in Threads : \A j \in DOMAIN calls'[u] :
          j \in DOMAIN calls[u] /\ calls'[u][j] = calls[u][j]
    BY <1>7, PopsFrame DEF BuildPanics, Return, At, Pops
  <2>2. QED
    BY <2>1 DEF OneHolder, Holds
<1>8. ASSUME NEW t \in Threads, Built(t) \/ Find(t) \/ TryLock(t) PROVE OneHolder'
  BY <1>3, <1>4, <1>8 DEF Built, Find, TryLock, At, Stages, Codes
<1>9. ASSUME NEW t \in Threads, Stepped(t) \/ Panic(t) \/ Remove(t) \/ Unlock(t)
      PROVE OneHolder'
  BY <1>3, <1>4, <1>9 DEF Stepped, Panic, Remove, Unlock, At, Stages, Codes
<1>10. ASSUME NEW t \in Threads,
              \/ New(t) \/ NewPinned(t) \/ TakeWakes(t) \/ ThreadEnds(t)
              \/ \E h \in Handles : Free(t, h)
       PROVE OneHolder'
  BY <1>1, <1>10 DEF New, NewPinned, TakeWakes, ThreadEnds, Free
<1>11. CASE UNCHANGED vars
  BY <1>1, <1>11 DEF vars
<1>12. QED
  BY <1>5, <1>6, <1>7, <1>8, <1>9, <1>10, <1>11, Actions

\* Calls on one machine never overlap: a call takes a machine only when no
\* other holds it, and only its own return lets it go (Entry::try_lock, the
\* RefCell of LOCAL, guarded).
THEOREM CallsNeverOverlap == Spec => []OneCallAtATime
<1> DEFINE Inv == CallsOK /\ OneHolder
<1>1. Init => Inv
  BY EmptySeq DEF Init, CallsOK, OneHolder
<1>2. Inv /\ [Next]_vars => Inv'
  BY CallsKept, OneHolderKept
<1>3. Inv => OneCallAtATime
  BY FramesAre DEF OneCallAtATime, OneHolder
<1>4. QED
  BY <1>1, <1>2, <1>3, PTL DEF Spec

-----------------------------------------------------------------------------

\* What a call knows of its machine, of the table `n, p, o`: its next handle,
\* its parked handles and who owns which.
FrameHome(t, frame, n, p, o) ==
  /\ frame.handle < n
  /\ frame.stage = "building" => o[frame.handle] = t
  /\ frame.stage = "locking" => o[frame.handle] = Nobody /\ frame.handle \notin p
  /\ frame.stage \in {"running", "unwound"} =>
       o[frame.handle] \in {Nobody, t} /\ frame.handle \notin p

FramesHome ==
  \A t \in Threads : \A i \in DOMAIN calls[t] : FrameHome(t, calls[t][i], next, parked, home)

\* A machine is in the table in one way, a pinned one on its owner's thread.
TableHome ==
  /\ \A h \in machines \cup parked : h < next /\ home[h] = Nobody
  /\ machines \cap parked = {}
  /\ \A h \in Handles : home[h] # Nobody => h < next
  /\ \A h \in Handles : local[h] # Nobody => local[h] = home[h]
  /\ \A h \in Handles : pinned[h] # Nobody => pinned[h] = home[h]

\* Every call of another action is one on a table that changed no owner but
\* a parked machine's, and parked none of those issued.
LEMMA FrameStaysHome ==
  ASSUME TableOK, TableHome, next' \in Nat, next' >= next,
         \A h \in Handles : h < next /\ h \in parked' => h \in parked,
         \A h \in Handles : home'[h] = home[h] \/ h \in parked,
         NEW t \in Threads, NEW frame \in Frame, FrameHome(t, frame, next, parked, home)
  PROVE  FrameHome(t, frame, next', parked', home')
<1>1. frame.handle \in Handles /\ next \in Nat
  BY BoundsAssumption DEF Frame, TableOK, BoundsAssumption
<1>2. frame.handle \in Nat
  BY <1>1 DEF Handles
<1>3. t # Nobody
  BY NobodyAssumption
<1>4. CASE frame.handle \in parked
  <2>1. home[frame.handle] = Nobody
    BY <1>4 DEF TableHome
  <2>2. frame.stage \notin {"building", "locking", "running", "unwound"}
    BY <1>3, <1>4, <2>1 DEF FrameHome
  <2>3. QED
    BY <1>1, <1>2, <2>2 DEF FrameHome
<1>5. CASE frame.handle \notin parked
  <2>1. home'[frame.handle] = home[frame.handle] /\ frame.handle \notin parked'
    BY <1>1, <1>5 DEF FrameHome
  <2>2. QED
    BY <1>1, <1>2, <2>1 DEF FrameHome
<1>6. QED
  BY <1>4, <1>5

LEMMA FramesHomeKept ==
  ASSUME TableOK, CallsOK, FramesHome, TableHome, [Next]_vars
  PROVE  FramesHome'
<1> USE BoundsAssumption, NobodyAssumption DEF BoundsAssumption
\* The table changes, the calls do not.
<1>1. ASSUME UNCHANGED calls, next' \in Nat, next' >= next,
             \A h \in Handles : h < next /\ h \in parked' => h \in parked, UNCHANGED home
      PROVE FramesHome'
  <2> SUFFICES ASSUME NEW t \in Threads, NEW i \in DOMAIN calls[t]
               PROVE FrameHome(t, calls[t][i], next', parked', home')
    BY <1>1 DEF FramesHome
  <2>1. calls[t][i] \in Frame /\ FrameHome(t, calls[t][i], next, parked, home)
    BY Stack DEF FramesHome
  <2>2. QED
    BY <1>1, <2>1, FrameStaysHome
\* One call goes on, the table's order of handles and owners unchanged.
<1>2. ASSUME UNCHANGED <<next, parked, home>>,
             NEW t \in Threads, NEW i \in DOMAIN calls[t], NEW g \in Frame, Sets(t, i, g),
             FrameHome(t, g, next, parked, home)
      PROVE FramesHome'
  BY <1>2, SetsFrame DEF FramesHome
<1>3. ASSUME UNCHANGED <<next, parked, home>>,
             NEW t \in Threads, calls[t] # << >>, NEW stage \in Stages, Goes(t, stage),
             FrameHome(t, [Top(t) EXCEPT !.stage = stage], next, parked, home)
      PROVE FramesHome'
  BY <1>2, <1>3, GoesSets, Stack
<1>4. ASSUME UNCHANGED <<next, parked, home>>,
             NEW t \in Threads, calls[t] # << >>, NEW code \in Codes, Answers(t, code)
      PROVE FramesHome'
  <2> DEFINE g == [Top(t) EXCEPT !.stage = "returning", !.code = code]
  <2>1. /\ Top(t) \in Frame /\ Depth(t) \in DOMAIN calls[t]
        /\ FrameHome(t, Top(t), next, parked, home)
    BY <1>4, Stack DEF Top, FramesHome
  <2>2. g.handle = Top(t).handle /\ g.stage = "returning"
    BY <2>1 DEF Frame
  <2>3. FrameHome(t, g, next, parked, home)
    BY <2>1, <2>2 DEF FrameHome
  <2>4. QED
    BY <1>2, <1>4, <2>1, <2>3, AnswersSets
<1>5. ASSUME NEW t \in Threads, NEW h \in Handles, Wake(t, h) PROVE FramesHome'
  <2>1. UNCHANGED <<next, parked, home>>
    BY <1>5 DEF Wake, table
  <2>2. ASSUME NEW i \in DOMAIN calls[t], calls' = [calls EXCEPT ![t][i].woken = @ \cup {h}]
        PROVE FramesHome'
    <3>1. calls[t][i] \in Frame /\ FrameHome(t, calls[t][i], next, parked, home)
      BY Stack DEF FramesHome
    <3>2. FrameHome(t, [calls[t][i] EXCEPT !.woken = @ \cup {h}], next, parked, home)
      BY <3>1 DEF Frame, FrameHome
    <3>3. QED
      BY <1>2, <2>1, <2>2, <3>2, WakeSets
  <2>3. CASE UNCHANGED calls
    BY <2>1, <2>3 DEF FramesHome
  <2>4. QED
    BY <1>5, <2>2, <2>3 DEF Wake
<1>6. ASSUME NEW t \in Threads, NEW h \in Handles, Resume(t, h) \/ Reply(t, h)
      PROVE FramesHome'
  <2>1. h \in Issued /\ UNCHANGED next
    BY <1>6, BeginKeeps DEF Resume, Reply
  <2>2. h < next /\ next \in Nat
    BY <2>1 DEF Issued, TableOK, Handles
  <2>3. \/ parked' = parked \ {h} /\ h \in parked /\ home' = [home EXCEPT ![h] = t]
        \/ UNCHANGED <<parked, home>>
    BY <1>6 DEF Resume, Reply
  <2>4. PICK g \in Frame : /\ Pushes(t, g) /\ g.handle = h
                           /\ \/ g.stage = "building" /\ home' = [home EXCEPT ![h] = t]
                              \/ g.stage = "finding"
    BY <1>6, BeginPushes DEF Resume, Reply
  <2>5. home'[h] = t \/ g.stage = "finding"
    BY <2>4 DEF TableOK
  <2>6. FrameHome(t, g, next', parked', home')
    BY <2>1, <2>2, <2>4, <2>5 DEF FrameHome
  <2>7. \A k \in Handles : home'[k] = home[k] \/ k \in parked
    BY <2>3 DEF TableOK
  <2>8. ASSUME NEW u \in Threads, NEW j \in DOMAIN calls[u]
        PROVE FrameHome(u, calls[u][j], next', parked', home')
    <3>1. calls[u][j] \in Frame /\ FrameHome(u, calls[u][j], next, parked, home)
      BY Stack DEF FramesHome
    <3>2. next' \in Nat /\ next' >= next /\ \A k \in Handles : k \in parked' => k \in parked
      BY <2>1, <2>2, <2>3
    <3>3. QED
      BY <2>7, <3>1, <3>2, FrameStaysHome
  <2>9. QED
    BY <2>4, <2>6, <2>8, PushesFrame DEF FramesHome
<1>7. ASSUME NEW t \in Threads, BuildPanics(t) \/ Return(t) PROVE FramesHome'
  <2>1. UNCHANGED <<next, parked, home>>
    BY <1>7 DEF BuildPanics, Return, table
  <2>2. QED
    BY <1>7, <2>1, PopsFrame DEF BuildPanics, Return, At, Pops, FramesHome
<1>8. ASSUME NEW t \in Threads, calls[t] # << >>
      PROVE /\ Top(t) \in Frame
            /\ FrameHome(t, Top(t), next, parked, home)
  BY <1>8, Stack DEF Top, FramesHome
<1>9. ASSUME NEW t \in Threads, Built(t) PROVE FramesHome'
  <2>1. calls[t] # << >> /\ Goes(t, "finding") /\ UNCHANGED <<next, parked, home>>
    BY <1>9 DEF Built, At, table, history
  <2>2. FrameHome(t, [Top(t) EXCEPT !.stage = "finding"], next, parked, home)
    BY <1>8, <2>1 DEF FrameHome, Frame
  <2>3. QED
    BY <1>3, <2>1, <2>2 DEF Stages
<1>10. ASSUME NEW t \in Threads, Find(t) PROVE FramesHome'
  <2>1. calls[t] # << >> /\ UNCHANGED <<next, parked, home>>
    BY <1>10 DEF Find, At, table, history
  <2>2. CASE Top(t).handle \in machines /\ Goes(t, "locking")
    <3>1. home[Top(t).handle] = Nobody /\ Top(t).handle \notin parked
      BY <2>2 DEF TableHome
    <3>2. FrameHome(t, [Top(t) EXCEPT !.stage = "locking"], next, parked, home)
      BY <1>8, <2>1, <3>1 DEF FrameHome, Frame
    <3>3. QED
      BY <1>3, <2>1, <2>2, <3>2 DEF Stages
  <2>3. CASE pinned[Top(t).handle] = t /\ Goes(t, "running")
    <3>1. Top(t).handle \in Handles
      BY <1>8, <2>1 DEF Frame
    <3>2. home[Top(t).handle] = t /\ Top(t).handle \notin parked
      BY <2>3, <3>1 DEF TableHome
    <3>3. FrameHome(t, [Top(t) EXCEPT !.stage = "running"], next, parked, home)
      BY <1>8, <2>1, <3>2 DEF FrameHome, Frame
    <3>4. QED
      BY <1>3, <2>1, <2>3, <3>3 DEF Stages
  <2>4. CASE \E code \in Codes : Answers(t, code)
    BY <1>4, <2>1, <2>4
  <2>5. QED
    BY <1>10, <2>2, <2>3, <2>4 DEF Find, Codes
<1>11. ASSUME NEW t \in Threads, TryLock(t) PROVE FramesHome'
  <2>1. /\ calls[t] # << >> /\ Top(t).stage = "locking"
        /\ UNCHANGED <<next, parked, home>>
    BY <1>11 DEF TryLock, At, table, history
  <2>2. FrameHome(t, [Top(t) EXCEPT !.stage = "running"], next, parked, home)
    BY <1>8, <2>1 DEF FrameHome, Frame
  <2>3. QED
    BY <1>3, <1>4, <1>11, <2>1, <2>2 DEF TryLock, Stages, Codes
<1>12. ASSUME NEW t \in Threads, Panic(t) PROVE FramesHome'
  <2>1. /\ calls[t] # << >> /\ Top(t).stage = "running" /\ Goes(t, "unwound")
        /\ UNCHANGED <<next, parked, home>>
    BY <1>12 DEF Panic, At, table
  <2>2. FrameHome(t, [Top(t) EXCEPT !.stage = "unwound"], next, parked, home)
    BY <1>8, <2>1 DEF FrameHome, Frame
  <2>3. QED
    BY <1>3, <2>1, <2>2 DEF Stages
<1>13. ASSUME NEW t \in Threads, Remove(t) PROVE FramesHome'
  <2>1. calls[t] # << >> /\ UNCHANGED <<next, parked, home>>
    BY <1>13 DEF Remove, At, history
  <2>2. FrameHome(t, [Top(t) EXCEPT !.stage = "removed"], next, parked, home)
    BY <1>8, <2>1 DEF FrameHome, Frame
  <2>3. QED
    BY <1>3, <1>4, <1>13, <2>1, <2>2 DEF Remove, Stages, Codes
<1>14. ASSUME NEW t \in Threads, Stepped(t) \/ Unlock(t) PROVE FramesHome'
  <2>1. calls[t] # << >> /\ UNCHANGED <<next, parked, home>>
    BY <1>14 DEF Stepped, Unlock, At, table, history
  <2>2. QED
    BY <1>4, <1>14, <2>1 DEF Stepped, Unlock, Codes
<1>15. ASSUME NEW t \in Threads, New(t) \/ NewPinned(t) PROVE FramesHome'
  <2>1. next \in Nat /\ next' = next + 1 /\ UNCHANGED <<calls, home>>
    BY <1>15 DEF New, NewPinned, TableOK, history
  <2>2. parked' = parked \/ parked' = parked \cup {next}
    BY <1>15 DEF New, NewPinned
  <2>3. \A h \in Handles : h < next /\ h \in parked' => h \in parked
    BY <2>1, <2>2 DEF Handles
  <2>4. QED
    BY <1>1, <2>1, <2>3
<1>16. ASSUME NEW t \in Threads,
              TakeWakes(t) \/ ThreadEnds(t) \/ \E h \in Handles : Free(t, h)
       PROVE FramesHome'
  <2>1. next' = next /\ parked' \subseteq parked /\ UNCHANGED <<calls, home>>
    BY <1>16 DEF TakeWakes, ThreadEnds, Free, table
  <2>2. next \in Nat
    BY DEF TableOK
  <2>3. QED
    BY <1>1, <2>1, <2>2
<1>17. CASE UNCHANGED vars
  BY <1>17 DEF vars, FramesHome
<1>18. QED
  BY <1>5, <1>6, <1>7, <1>9, <1>10, <1>11, <1>12, <1>13, <1>14, <1>15, <1>16, <1>17, Actions

LEMMA TableHomeKept ==
  ASSUME TableOK, CallsOK, FramesHome, TableHome, [Next]_vars
  PROVE  TableHome'
<1> USE NobodyAssumption DEF table, history, TableHome
<1>1. CASE UNCHANGED vars
  BY <1>1 DEF vars
<1>2. ASSUME NEW t \in Threads, New(t) \/ NewPinned(t) PROVE TableHome'
  <2>1. next \in Handles /\ home[next] = Nobody /\ next \notin machines \cup parked
    BY <1>2, BoundsAssumption DEF New, NewPinned, TableOK, Handles, BoundsAssumption
  <2>2. \/ machines' = machines \cup {next} /\ UNCHANGED parked
        \/ parked' = parked \cup {next} /\ UNCHANGED machines
    BY <1>2 DEF New, NewPinned
  <2>3. next' = next + 1 /\ UNCHANGED <<pinned, local, home>>
    BY <1>2 DEF New, NewPinned
  <2>4. \A h \in Handles : h < next => h < next'
    BY <2>1, <2>3 DEF Handles
  <2>5. next < next'
    BY <2>1, <2>3 DEF Handles
  <2>6. machines \cup parked \subseteq Handles
    BY DEF TableOK
  <2>7. QED
    BY <2>1, <2>2, <2>3, <2>4, <2>5, <2>6
<1>3. ASSUME NEW t \in Threads, TakeWakes(t) \/ ThreadEnds(t) PROVE TableHome'
  BY <1>3 DEF TakeWakes, ThreadEnds
<1>4. ASSUME NEW t \in Threads, NEW h \in Handles, Free(t, h) \/ Wake(t, h)
      PROVE TableHome'
  BY <1>4 DEF Free, Wake, TableOK
<1>5. ASSUME NEW t \in Threads, NEW h \in Handles, Resume(t, h) \/ Reply(t, h)
      PROVE TableHome'
  <2>1. h \in Issued /\ UNCHANGED <<machines, next, local>>
    BY <1>5, BeginKeeps DEF Resume, Reply
  <2>2. CASE UNCHANGED <<parked, pinned, home>>
    BY <2>1, <2>2
  <2>3. CASE /\ h \in parked
             /\ parked' = parked \ {h}
             /\ pinned' = [pinned EXCEPT ![h] = t]
             /\ home' = [home EXCEPT ![h] = t]
    <3>1. h \notin machines /\ h < next /\ home[h] = Nobody /\ local[h] = Nobody
      BY <2>3
    <3>2. \A k \in Handles : /\ home'[k] = IF k = h THEN t ELSE home[k]
                             /\ pinned'[k] = IF k = h THEN t ELSE pinned[k]
      BY <2>3 DEF TableOK
    <3>3. machines \subseteq Handles /\ parked \subseteq Handles
      BY DEF TableOK
    <3>4. QED
      BY <2>1, <2>3, <3>1, <3>2, <3>3
  <2>4. QED
    BY <1>5, <2>2, <2>3 DEF Resume, Reply
<1>6. ASSUME NEW t \in Threads, calls[t] # << >>
      PROVE /\ Top(t).handle \in Handles
            /\ Top(t).stage = "building" => home[Top(t).handle] = t
  BY <1>6, Stack DEF Top, Frame, FramesHome, FrameHome
<1>7. ASSUME NEW t \in Threads, Built(t) PROVE TableHome'
  BY <1>6, <1>7 DEF Built, At, TableOK
<1>8. ASSUME NEW t \in Threads, BuildPanics(t) PROVE TableHome'
  BY <1>6, <1>8 DEF BuildPanics, At, TableOK
<1>9. ASSUME NEW t \in Threads,
             Find(t) \/ TryLock(t) \/ Stepped(t) \/ Panic(t) \/ Unlock(t) \/ Return(t)
      PROVE TableHome'
  BY <1>9 DEF Find, TryLock, Stepped, Panic, Unlock, Return
<1>10. ASSUME NEW t \in Threads, Remove(t) PROVE TableHome'
  BY <1>6, <1>10 DEF Remove, At, TableOK
<1>11. QED
  BY <1>1, <1>2, <1>3, <1>4, <1>5, <1>7, <1>8, <1>9, <1>10, Actions

\* A call of t is building h, below or at the top of its stack.
Building(t, h) ==
  t \in Threads /\ \E i \in DOMAIN calls[t] :
                     calls[t][i].handle = h /\ calls[t][i].stage = "building"

\* The machine of an entry in `pinned` is where it says, unless its thread
\* ended or has not built it yet.
PinnedIsHome ==
  \A h \in Handles : pinned[h] # Nobody =>
    local[h] = home[h] \/ home[h] \in ended \/ Building(home[h], h)

LEMMA PinnedIsHomeKept ==
  ASSUME TableOK, CallsOK, FramesHome, TableHome, PinnedIsHome, [Next]_vars
  PROVE  PinnedIsHome'
<1> USE NobodyAssumption DEF table, history
<1>1. CASE UNCHANGED <<pinned, local, home, ended, calls>>
  BY <1>1 DEF PinnedIsHome, Building
<1>2. ASSUME NEW t \in Threads, NEW i \in DOMAIN calls[t], NEW g \in Frame, Sets(t, i, g),
             calls[t][i].stage = "building" => g.stage = "building",
             g.handle = calls[t][i].handle, NEW u, NEW h, Building(u, h)
      PROVE Building(u, h)'
  BY <1>2, SetsFrame DEF Building
<1>3. ASSUME NEW t \in Threads, calls[t] # << >>, Top(t).stage # "building",
             \/ \E stage \in Stages : Goes(t, stage)
             \/ \E code \in Codes : Answers(t, code),
             NEW u, NEW h, Building(u, h)
      PROVE Building(u, h)'
  <2>1. /\ Top(t) \in Frame /\ Depth(t) \in DOMAIN calls[t]
        /\ Top(t) = calls[t][Depth(t)]
    BY <1>3, Stack DEF Top
  <2>2. ASSUME NEW stage \in Stages, Goes(t, stage) PROVE Building(u, h)'
    BY <1>2, <1>3, <2>1, <2>2, GoesSets DEF Frame
  <2>3. ASSUME NEW code \in Codes, Answers(t, code) PROVE Building(u, h)'
    BY <1>2, <1>3, <2>1, <2>3, AnswersSets DEF Frame
  <2>4. QED
    BY <1>3, <2>2, <2>3
<1>4. ASSUME UNCHANGED <<home, ended>>, \A u, h : Building(u, h) => Building(u, h)',
             \A h \in Handles : pinned'[h] = Nobody
                                \/ (pinned'[h] = pinned[h] /\ local'[h] = local[h])
      PROVE PinnedIsHome'
  BY <1>4 DEF PinnedIsHome
<1>5. ASSUME NEW t \in Threads, NEW h \in Handles, Wake(t, h) PROVE PinnedIsHome'
  <2>1. ASSUME NEW i \in DOMAIN calls[t], calls' = [calls EXCEPT ![t][i].woken = @ \cup {h}],
               NEW u, NEW k, Building(u, k)
        PROVE Building(u, k)'
    <3>1. calls[t][i] \in Frame
      BY Stack
    <3>2. LET g == [calls[t][i] EXCEPT !.woken = @ \cup {h}]
          IN g.stage = calls[t][i].stage /\ g.handle = calls[t][i].handle
      BY <3>1 DEF Frame
    <3>3. QED
      BY <1>2, <2>1, <3>2, WakeSets
  <2>2. UNCHANGED calls \/ \A u, k : Building(u, k) => Building(u, k)'
    BY <1>5, <2>1 DEF Wake
  <2>3. QED
    BY <1>1, <1>4, <1>5, <2>2 DEF Wake
<1>6. ASSUME NEW t \in Threads, NEW h \in Handles, Resume(t, h) \/ Reply(t, h)
      PROVE PinnedIsHome'
  <2>1. h \in Issued /\ UNCHANGED <<local, ended>>
    BY <1>6, BeginKeeps DEF Resume, Reply
  <2>2. PICK g \in Frame :
          /\ Pushes(t, g) /\ g.handle = h
          /\ \/ UNCHANGED <<parked, pinned, home>>
             \/ /\ g.stage = "building"
                /\ h \in parked
                /\ pinned' = [pinned EXCEPT ![h] = t]
                /\ home' = [home EXCEPT ![h] = t]
    BY <1>6, BeginPushes DEF Resume, Reply
  <2>3. \A u, k : Building(u, k) => Building(u, k)'
    BY <2>2, PushesFrame DEF Building
  <2>4. CASE UNCHANGED <<pinned, home>>
    BY <1>4, <2>1, <2>3, <2>4
  <2>5. CASE /\ g.stage = "building"
             /\ pinned' = [pinned EXCEPT ![h] = t]
             /\ home' = [home EXCEPT ![h] = t]
    <3>1. Building(t, h)'
      <4> DEFINE s == Append(calls[t], g)
      <4>1. /\ Len(s) = Depth(t) + 1 /\ s[Depth(t) + 1] = g /\ s \in Seq(Frame)
            /\ Depth(t) \in Nat
        BY Stack, AppendProperties DEF Depth
      <4>2. calls'[t] = s
        BY <2>2 DEF Pushes, CallsOK
      <4> HIDE DEF s
      <4>3. Depth(t) + 1 \in DOMAIN s
        BY <4>1, LenProperties
      <4>4. QED
        BY <2>2, <2>5, <4>1, <4>2, <4>3 DEF Building
    <3>2. \A k \in Handles : /\ home'[k] = IF k = h THEN t ELSE home[k]
                             /\ pinned'[k] = IF k = h THEN t ELSE pinned[k]
      BY <2>5 DEF TableOK
    <3>3. QED
      BY <2>1, <2>3, <3>1, <3>2 DEF PinnedIsHome
  <2>6. QED
    BY <2>2, <2>4, <2>5
<1>7. ASSUME NEW t \in Threads, calls[t] # << >>
      PROVE /\ Top(t).handle \in Handles
            /\ Top(t).stage = "building" => home[Top(t).handle] = t
  BY <1>7, Stack DEF Top, Frame, FramesHome, FrameHome
<1>8. ASSUME NEW t \in Threads, Built(t) PROVE PinnedIsHome'
  <2> DEFINE h == Top(t).handle
  <2>1. /\ calls[t] # << >> /\ Top(t).stage = "building" /\ Goes(t, "finding")
        /\ local' = [local EXCEPT ![h] = t] /\ UNCHANGED <<pinned, home, ended>>
    BY <1>8 DEF Built, At
  <2>2. h \in Handles /\ home[h] = t
    BY <1>7, <2>1
  <2>3. ASSUME NEW u, NEW k, k # h, Building(u, k) PROVE Building(u, k)'
    <3>1. Sets(t, Depth(t), [Top(t) EXCEPT !.stage = "finding"])
          /\ [Top(t) EXCEPT !.stage = "finding"] \in Frame
      BY <2>1, GoesSets DEF Stages
    <3>2. Depth(t) \in DOMAIN calls[t] /\ calls[t][Depth(t)] = Top(t)
      BY <2>1, Stack DEF Top
    <3>3. QED
      BY <2>3, <3>1, <3>2, SetsFrame DEF Building
  <2> HIDE DEF h
  <2>4. \A k \in Handles : local'[k] = IF k = h THEN t ELSE local[k]
    BY <2>1 DEF TableOK
  <2>5. QED
    BY <2>1, <2>2, <2>3, <2>4 DEF PinnedIsHome
<1>9. ASSUME NEW t \in Threads, BuildPanics(t) PROVE PinnedIsHome'
  <2> DEFINE h == Top(t).handle
  <2>1. /\ calls[t] # << >> /\ Pops(t)
        /\ pinned' = [pinned EXCEPT ![h] = Nobody] /\ UNCHANGED <<local, home, ended>>
    BY <1>9 DEF BuildPanics, At, Pops
  <2>2. h \in Handles
    BY <1>7, <2>1
  <2>3. ASSUME NEW u, NEW k, k # h, Building(u, k) PROVE Building(u, k)'
    BY <2>1, <2>3, PopsFrame DEF Building, Top
  <2> HIDE DEF h
  <2>4. \A k \in Handles : pinned'[k] = IF k = h THEN Nobody ELSE pinned[k]
    BY <2>1 DEF TableOK
  <2>5. QED
    BY <2>1, <2>2, <2>3, <2>4 DEF PinnedIsHome
<1>10. ASSUME NEW t \in Threads, Return(t) PROVE PinnedIsHome'
  <2>1. /\ calls[t] # << >> /\ Pops(t) /\ Top(t).stage = "returning"
        /\ UNCHANGED <<pinned, local, home, ended>>
    BY <1>10 DEF Return, At, Pops
  <2>2. \A u, k : Building(u, k) => Building(u, k)'
    BY <2>1, PopsFrame DEF Building, Top
  <2>3. QED
    BY <1>4, <2>1, <2>2
<1>11. ASSUME NEW t \in Threads,
              Find(t) \/ TryLock(t) \/ Stepped(t) \/ Panic(t) \/ Unlock(t)
       PROVE PinnedIsHome'
  <2>1. calls[t] # << >> /\ Top(t).stage # "building" /\ UNCHANGED <<pinned, local, home, ended>>
    BY <1>11 DEF Find, TryLock, Stepped, Panic, Unlock, At
  <2>2. \/ \E stage \in Stages : Goes(t, stage)
        \/ \E code \in Codes : Answers(t, code)
    BY <1>11 DEF Find, TryLock, Stepped, Panic, Unlock, Stages, Codes
  <2>3. QED
    BY <1>3, <1>4, <2>1, <2>2
<1>12. ASSUME NEW t \in Threads, Remove(t) PROVE PinnedIsHome'
  <2>1. calls[t] # << >> /\ Top(t).stage # "building" /\ UNCHANGED <<home, ended>>
    BY <1>12 DEF Remove, At
  <2>2. \/ \E stage \in Stages : Goes(t, stage)
        \/ \E code \in Codes : Answers(t, code)
    BY <1>12 DEF Remove, Stages, Codes
  <2>3. Top(t).handle \in Handles
    BY <1>7, <2>1
  <2>4. \A h \in Handles : pinned'[h] = Nobody
                           \/ (pinned'[h] = pinned[h] /\ local'[h] = local[h])
    BY <1>12, <2>3 DEF Remove, TableOK
  <2>5. QED
    BY <1>3, <1>4, <2>1, <2>2, <2>4
<1>13. ASSUME NEW t \in Threads, NEW h \in Handles, Free(t, h) PROVE PinnedIsHome'
  <2>1. UNCHANGED <<home, ended, calls>>
    BY <1>13 DEF Free
  <2>2. \A k \in Handles : pinned'[k] = Nobody
                           \/ (pinned'[k] = pinned[k] /\ local'[k] = local[k])
    BY <1>13 DEF Free, TableOK
  <2>3. QED
    BY <1>4, <2>1, <2>2 DEF Building
<1>14. ASSUME NEW t \in Threads, New(t) \/ NewPinned(t) \/ TakeWakes(t) PROVE PinnedIsHome'
  BY <1>1, <1>14 DEF New, NewPinned, TakeWakes
<1>15. ASSUME NEW t \in Threads, ThreadEnds(t) PROVE PinnedIsHome'
  <2>1. /\ ended' = ended \cup {t} /\ UNCHANGED <<pinned, home, calls>>
        /\ \A h \in Handles : local'[h] = IF local[h] = t THEN Nobody ELSE local[h]
    BY <1>15 DEF ThreadEnds
  <2>2. \A h \in Handles : local[h] # Nobody => local[h] = home[h]
    BY DEF TableHome
  <2>3. \A h \in Handles : pinned[h] # Nobody => home[h] # Nobody
    BY DEF TableHome
  <2>4. QED
    BY <2>1, <2>2, <2>3 DEF PinnedIsHome, Building
<1>16. CASE UNCHANGED vars
  BY <1>1, <1>16 DEF vars
<1>17. QED
  BY <1>5, <1>6, <1>8, <1>9, <1>10, <1>11, <1>12, <1>13, <1>14, <1>15, <1>16, Actions

HomeInv == TypeOK /\ FramesHome /\ TableHome /\ PinnedIsHome

LEMMA HomeInit == Init => HomeInv
<1>1. Init => TypeOK
  BY BoundsAssumption, EmptySeq DEF Init, TypeOK, Handles, BoundsAssumption
<1>2. Init => FramesHome /\ TableHome /\ PinnedIsHome
  BY EmptySeq DEF Init, FramesHome, TableHome, PinnedIsHome
<1>3. QED
  BY <1>1, <1>2 DEF HomeInv

LEMMA HomeKept == HomeInv /\ [Next]_vars => HomeInv'
<1> SUFFICES ASSUME HomeInv, [Next]_vars PROVE HomeInv'
  OBVIOUS
<1>1. TableOK /\ CallsOK
  BY TypeParts DEF HomeInv
<1>2. TableOK' /\ CallsOK'
  BY <1>1, TableKept, CallsKept
<1>3. TypeOK'
  BY <1>2 DEF TypeOK, TableOK, CallsOK
<1>4. QED
  BY <1>1, <1>3, FramesHomeKept, TableHomeKept, PinnedIsHomeKept DEF HomeInv

\* A pinned routine is built, run and kept on one thread, the one that first
\* resumed it (resume's parked branch, Entry::Pinned, LOCAL).
THEOREM PinnedNeverMoves == Spec => []PinnedStaysHome
<1>1. Init => HomeInv
  BY HomeInit
<1>2. HomeInv /\ [Next]_vars => HomeInv'
  BY HomeKept
<1>3. HomeInv => PinnedStaysHome
  <2> SUFFICES ASSUME HomeInv PROVE PinnedStaysHome
    OBVIOUS
  <2> USE DEF HomeInv
  <2>1. ASSUME NEW f \in Frames, FrameOf(f).stage \in {"building", "running", "unwound"}
        PROVE home[FrameOf(f).handle] \in {Nobody, f[1]}
    <3>1. PICK t \in Threads : \E i \in DOMAIN calls[t] : f = <<t, i>>
      BY FramesAre
    <3>2. PICK i \in DOMAIN calls[t] : f = <<t, i>>
      BY <3>1
    <3>3. FrameOf(f) = calls[t][i] /\ f[1] = t
      BY <3>2 DEF FrameOf
    <3>4. FrameHome(t, calls[t][i], next, parked, home)
      BY DEF FramesHome
    <3>5. QED
      BY <2>1, <3>3, <3>4 DEF FrameHome
  <2>2. ASSUME NEW h \in Handles
        PROVE /\ local[h] # Nobody => local[h] = home[h]
              /\ pinned[h] # Nobody => /\ pinned[h] = home[h]
                                       /\ \/ local[h] = home[h]
                                          \/ home[h] \in ended
                                          \/ Building(home[h], h)
    BY DEF TableHome, PinnedIsHome
  <2>3. ASSUME NEW t, NEW h, Building(t, h)
        PROVE \E f \in Frames : FrameOf(f).handle = h
                /\ FrameOf(f).stage = "building" /\ f[1] = t
    <3>1. PICK i \in DOMAIN calls[t] : calls[t][i].handle = h /\ calls[t][i].stage = "building"
      BY <2>3 DEF Building
    <3>2. <<t, i>> \in Frames /\ FrameOf(<<t, i>>) = calls[t][i]
      BY <2>3, FramesAre DEF Building
    <3>3. QED
      BY <3>1, <3>2
  <2>4. QED
    BY <2>1, <2>2, <2>3 DEF PinnedStaysHome
<1>4. QED
  BY <1>1, <1>2, <1>3, PTL DEF Spec

-----------------------------------------------------------------------------

Same(old, new) ==
  new.handle = old.handle /\ new.stage = old.stage /\ new.code = old.code /\ new.late = old.late

Out(h) == h \notin machines \cup parked /\ pinned[h] = Nobody

\* What a step of its thread t makes of the innermost call.
Advances(t, old, new) ==
  /\ new.handle = old.handle /\ new.late = old.late
  /\ \/ old.stage = "building" /\ new.stage = "finding" /\ new.code = old.code
     \/ /\ old.stage = "finding" /\ new.stage \in {"locking", "running"} /\ new.code = old.code
        /\ old.handle \in machines \/ pinned[old.handle] = t
     \/ /\ old.stage = "finding" /\ new.stage = "returning" /\ new.code = "Refused"
        /\ old.handle \in parked \/ pinned[old.handle] # Nobody
     \/ /\ old.stage = "finding" /\ new.stage = "returning" /\ new.code = "BadHandle"
        /\ Out(old.handle) \/ (pinned[old.handle] = t /\ local[old.handle] # t)
     \/ /\ old.stage \in {"locking", "running"} /\ new.stage \in {"running", "unwound"}
        /\ new.code = old.code
     \/ /\ old.stage \in {"locking", "running"} /\ new.stage = "returning"
        /\ new.code \in {"Ok", "Refused"}
     \/ /\ old.stage = "unwound" /\ new.stage = "removed" /\ new.code = old.code
        /\ home[old.handle] = Nobody /\ machines' = machines \ {old.handle}
        /\ UNCHANGED <<parked, pinned>>
     \/ /\ old.stage = "unwound" /\ new.stage = "returning" /\ new.code = "Panicked"
        /\ home[old.handle] # Nobody
        /\ pinned' = [pinned EXCEPT ![old.handle] = Nobody]
        /\ UNCHANGED <<machines, parked>>
     \/ old.stage = "removed" /\ new.stage = "returning" /\ new.code = "Panicked"

\* A call that a step begins.
Starts(t, new) ==
  /\ t \notin ended
  /\ new.handle \in Issued /\ new.code = "none" /\ new.late = (new.handle \in gone)
  /\ \/ new.stage = "finding"
     \/ new.stage = "building" /\ new.handle \in parked

\* After a step, each call is as before, or the innermost of its thread has
\* advanced, or it has just begun.
LEMMA FrameSteps ==
  ASSUME CallsOK, [Next]_vars, NEW u \in Threads, NEW j \in DOMAIN calls'[u]
  PROVE  \/ j \in DOMAIN calls[u] /\ Same(calls[u][j], calls'[u][j])
         \/ j = Depth(u) /\ j \in DOMAIN calls[u] /\ Advances(u, calls[u][j], calls'[u][j])
         \/ j = Depth(u) + 1 /\ Starts(u, calls'[u][j])
<1> DEFINE Goal == \/ j \in DOMAIN calls[u] /\ Same(calls[u][j], calls'[u][j])
                   \/ j = Depth(u) /\ j \in DOMAIN calls[u] /\ Advances(u, calls[u][j], calls'[u][j])
                   \/ j = Depth(u) + 1 /\ Starts(u, calls'[u][j])
<1>1. CASE UNCHANGED calls
  BY <1>1 DEF Same
<1>2. ASSUME NEW t \in Threads, calls[t] # << >>, NEW g \in Frame, Sets(t, Depth(t), g),
             Advances(t, Top(t), g)
      PROVE Goal
  <2>1. Depth(t) \in DOMAIN calls[t] /\ Top(t) = calls[t][Depth(t)]
    BY <1>2, Stack DEF Top
  <2>2. /\ j \in DOMAIN calls[u]
        /\ calls'[u][j] = IF u = t /\ j = Depth(t) THEN g ELSE calls[u][j]
    BY <1>2, <2>1, SetsFrame
  <2>3. QED
    BY <1>2, <2>1, <2>2 DEF Same
<1>3. ASSUME NEW t \in Threads, calls[t] # << >>, NEW stage \in Stages, Goes(t, stage),
             Advances(t, Top(t), [Top(t) EXCEPT !.stage = stage])
      PROVE Goal
  BY <1>2, <1>3, GoesSets
<1>4. ASSUME NEW t \in Threads, calls[t] # << >>, NEW code \in Codes, Answers(t, code),
             Advances(t, Top(t), [Top(t) EXCEPT !.stage = "returning", !.code = code])
      PROVE Goal
  BY <1>2, <1>4, AnswersSets
<1>5. ASSUME NEW t \in Threads, NEW h \in Handles, Wake(t, h) PROVE Goal
  <2>1. ASSUME NEW i \in DOMAIN calls[t], calls' = [calls EXCEPT ![t][i].woken = @ \cup {h}]
        PROVE Goal
    <3> DEFINE g == [calls[t][i] EXCEPT !.woken = @ \cup {h}]
    <3>1. g \in Frame /\ Sets(t, i, g)
      BY <2>1, WakeSets
    <3>2. calls[t][i] \in Frame
      BY Stack
    <3>3. Same(calls[t][i], g)
      BY <3>2 DEF Frame, Same
    <3> HIDE DEF g
    <3>4. j \in DOMAIN calls[u] /\ calls'[u][j] = IF u = t /\ j = i THEN g ELSE calls[u][j]
      BY <3>1, SetsFrame
    <3>5. QED
      BY <3>3, <3>4 DEF Same
  <2>2. QED
    BY <1>1, <1>5, <2>1 DEF Wake
<1>6. ASSUME NEW t \in Threads, NEW h \in Handles, Resume(t, h) \/ Reply(t, h) PROVE Goal
  <2>1. h \in Issued /\ t \notin ended
    BY <1>6 DEF Resume, Reply, Begin, Outside
  <2>2. PICK g \in Frame : /\ Pushes(t, g) /\ g.handle = h
                           /\ g.code = "none" /\ g.late = (h \in gone)
                           /\ \/ g.stage = "finding"
                              \/ g.stage = "building" /\ h \in parked
    BY <1>6, BeginPushes DEF Resume, Reply
  <2>3. \/ j \in DOMAIN calls[u] /\ calls'[u][j] = calls[u][j]
        \/ u = t /\ j = Depth(t) + 1 /\ calls'[u][j] = g
    BY <2>2, PushesFrame
  <2>4. QED
    BY <2>1, <2>2, <2>3 DEF Same, Starts
<1>7. ASSUME NEW t \in Threads, BuildPanics(t) \/ Return(t) PROVE Goal
  BY <1>7, PopsFrame DEF BuildPanics, Return, At, Pops, Same
<1>8. ASSUME NEW t \in Threads, calls[t] # << >>, NEW stage \in Stages
      PROVE LET g == [Top(t) EXCEPT !.stage = stage]
            IN /\ g.handle = Top(t).handle /\ g.late = Top(t).late
               /\ g.stage = stage /\ g.code = Top(t).code
  <2>1. Top(t) \in Frame
    BY <1>8, Stack DEF Top
  <2>2. QED
    BY <2>1 DEF Frame
<1>9. ASSUME NEW t \in Threads, calls[t] # << >>, NEW code \in Codes
      PROVE LET g == [Top(t) EXCEPT !.stage = "returning", !.code = code]
            IN /\ g.handle = Top(t).handle /\ g.late = Top(t).late
               /\ g.stage = "returning" /\ g.code = code
  <2>1. Top(t) \in Frame
    BY <1>9, Stack DEF Top
  <2>2. QED
    BY <2>1 DEF Frame
<1>10. ASSUME NEW t \in Threads, Built(t) PROVE Goal
  <2>1. calls[t] # << >> /\ Top(t).stage = "building" /\ Goes(t, "finding")
    BY <1>10 DEF Built, At
  <2>2. Advances(t, Top(t), [Top(t) EXCEPT !.stage = "finding"])
    BY <1>8, <2>1 DEF Advances, Stages
  <2>3. QED
    BY <1>3, <2>1, <2>2 DEF Stages
<1>11. ASSUME NEW t \in Threads, Find(t) PROVE Goal
  <2>1. calls[t] # << >> /\ Top(t).stage = "finding"
    BY <1>11 DEF Find, At
  <2>2. CASE \/ Top(t).handle \in machines /\ Goes(t, "locking")
             \/ pinned[Top(t).handle] = t /\ Goes(t, "running")
    <3>1. ASSUME NEW stage \in {"locking", "running"}, Goes(t, stage),
                 Top(t).handle \in machines \/ pinned[Top(t).handle] = t
          PROVE Goal
      <4>1. Advances(t, Top(t), [Top(t) EXCEPT !.stage = stage])
        BY <1>8, <2>1, <3>1 DEF Advances, Stages
      <4>2. QED
        BY <1>3, <2>1, <3>1, <4>1 DEF Stages
    <3>2. QED
      BY <2>2, <3>1
  <2>3. CASE /\ Answers(t, "Refused")
             /\ Top(t).handle \in parked \/ pinned[Top(t).handle] # Nobody
    <3>1. Advances(t, Top(t), [Top(t) EXCEPT !.stage = "returning", !.code = "Refused"])
      BY <1>9, <2>1, <2>3 DEF Advances, Codes
    <3>2. QED
      BY <1>4, <2>1, <2>3, <3>1 DEF Codes
  <2>4. CASE /\ Answers(t, "BadHandle")
             /\ \/ Out(Top(t).handle)
                \/ pinned[Top(t).handle] = t /\ local[Top(t).handle] # t
    <3>1. Advances(t, Top(t), [Top(t) EXCEPT !.stage = "returning", !.code = "BadHandle"])
      BY <1>9, <2>1, <2>4 DEF Advances, Codes
    <3>2. QED
      BY <1>4, <2>1, <2>4, <3>1 DEF Codes
  <2>5. t # Nobody /\ Nobody \notin Threads
    BY NobodyAssumption
  <2>6. QED
    BY <1>11, <2>2, <2>3, <2>4, <2>5 DEF Find, Out
<1>12. ASSUME NEW t \in Threads, TryLock(t) \/ Stepped(t) \/ Panic(t) PROVE Goal
  <2>1. calls[t] # << >> /\ Top(t).stage \in {"locking", "running"}
    BY <1>12 DEF TryLock, Stepped, Panic, At
  <2>2. ASSUME NEW stage \in {"running", "unwound"}, Goes(t, stage) PROVE Goal
    <3>1. Advances(t, Top(t), [Top(t) EXCEPT !.stage = stage])
      BY <1>8, <2>1 DEF Advances, Stages
    <3>2. QED
      BY <1>3, <2>1, <2>2, <3>1 DEF Stages
  <2>3. ASSUME NEW code \in {"Ok", "Refused"}, Answers(t, code) PROVE Goal
    <3>1. Advances(t, Top(t), [Top(t) EXCEPT !.stage = "returning", !.code = code])
      BY <1>9, <2>1 DEF Advances, Codes
    <3>2. QED
      BY <1>4, <2>1, <2>3, <3>1 DEF Codes
  <2>4. QED
    BY <1>12, <2>2, <2>3 DEF TryLock, Stepped, Panic
<1>13. ASSUME NEW t \in Threads, Remove(t) PROVE Goal
  <2>1. calls[t] # << >> /\ Top(t).stage = "unwound" /\ UNCHANGED parked
    BY <1>13 DEF Remove, At
  <2>2. CASE /\ home[Top(t).handle] = Nobody /\ machines' = machines \ {Top(t).handle}
             /\ Goes(t, "removed") /\ UNCHANGED pinned
    <3>1. Advances(t, Top(t), [Top(t) EXCEPT !.stage = "removed"])
      BY <1>8, <2>1, <2>2 DEF Advances, Stages
    <3>2. QED
      BY <1>3, <2>1, <2>2, <3>1 DEF Stages
  <2>3. CASE /\ home[Top(t).handle] # Nobody /\ Answers(t, "Panicked") /\ UNCHANGED machines
             /\ pinned' = [pinned EXCEPT ![Top(t).handle] = Nobody]
    <3>1. Advances(t, Top(t), [Top(t) EXCEPT !.stage = "returning", !.code = "Panicked"])
      BY <1>9, <2>1, <2>3 DEF Advances, Codes
    <3>2. QED
      BY <1>4, <2>1, <2>3, <3>1 DEF Codes
  <2>4. QED
    BY <1>13, <2>2, <2>3 DEF Remove
<1>14. ASSUME NEW t \in Threads, Unlock(t) PROVE Goal
  <2>1. calls[t] # << >> /\ Top(t).stage = "removed" /\ Answers(t, "Panicked")
    BY <1>14 DEF Unlock, At
  <2>2. Advances(t, Top(t), [Top(t) EXCEPT !.stage = "returning", !.code = "Panicked"])
    BY <1>9, <2>1 DEF Advances, Codes
  <2>3. QED
    BY <1>4, <2>1, <2>2 DEF Codes
<1>15. ASSUME NEW t \in Threads,
              \/ New(t) \/ NewPinned(t) \/ TakeWakes(t) \/ ThreadEnds(t)
              \/ \E h \in Handles : Free(t, h)
       PROVE Goal
  BY <1>1, <1>15 DEF New, NewPinned, TakeWakes, ThreadEnds, Free
<1>16. CASE UNCHANGED vars
  BY <1>1, <1>16 DEF vars
<1>17. QED
  BY <1>5, <1>6, <1>7, <1>10, <1>11, <1>12, <1>13, <1>14, <1>15, <1>16, Actions

\* Once issued and out of the table, a handle never comes back.
LEMMA OutForGood ==
  ASSUME TableOK, TableHome, CallsOK, [Next]_vars, NEW h \in Handles, h < next, Out(h)
  PROVE  Out(h)' /\ h < next'
<1> USE DEF table, history
<1>1. next' \in Nat /\ next' >= next /\ next \in Nat /\ h \in Nat
  <2>1. next \in Nat /\ h \in Nat
    BY BoundsAssumption DEF TableOK, Handles, BoundsAssumption
  <2>2. next' = next \/ next' = next + 1
    <3>1. \A t \in Threads, k \in Handles : Resume(t, k) \/ Reply(t, k) => UNCHANGED next
      BY BeginKeeps DEF Resume, Reply
    <3>2. QED
      BY <3>1, Actions
         DEF vars, New, NewPinned, TakeWakes, ThreadEnds, Free, Wake, Built, BuildPanics, Find,
             TryLock, Stepped, Panic, Remove, Unlock, Return
  <2>3. QED
    BY <2>1, <2>2
<1>2. ASSUME machines' \cup parked' \subseteq machines \cup parked \cup {next},
             pinned'[h] = pinned[h] \/ pinned'[h] = Nobody \/ h \in parked
      PROVE Out(h)' /\ h < next'
  BY <1>1, <1>2 DEF Out
<1>3. ASSUME NEW t \in Threads, NEW k \in Handles, Resume(t, k) \/ Reply(t, k)
      PROVE Out(h)' /\ h < next'
  <2>1. UNCHANGED machines
    BY <1>3, BeginKeeps DEF Resume, Reply
  <2>2. \/ UNCHANGED <<parked, pinned>>
        \/ parked' = parked \ {k} /\ k \in parked /\ pinned' = [pinned EXCEPT ![k] = t]
    BY <1>3 DEF Resume, Reply
  <2>3. QED
    BY <1>2, <2>1, <2>2 DEF TableOK
<1>4. ASSUME NEW t \in Threads, New(t) \/ NewPinned(t) \/ TakeWakes(t) \/ ThreadEnds(t)
      PROVE Out(h)' /\ h < next'
  BY <1>2, <1>4 DEF New, NewPinned, TakeWakes, ThreadEnds
<1>5. ASSUME NEW t \in Threads, NEW k \in Handles, Free(t, k) \/ Wake(t, k)
      PROVE Out(h)' /\ h < next'
  BY <1>2, <1>5 DEF Free, Wake, TableOK
<1>6. ASSUME NEW t \in Threads, calls[t] # << >> PROVE Top(t).handle \in Handles
  BY <1>6, Stack DEF Top, Frame
<1>7. ASSUME NEW t \in Threads, BuildPanics(t) \/ Remove(t) PROVE Out(h)' /\ h < next'
  BY <1>2, <1>6, <1>7 DEF BuildPanics, Remove, At, TableOK
<1>8. ASSUME NEW t \in Threads,
             \/ Built(t) \/ Find(t) \/ TryLock(t) \/ Stepped(t) \/ Panic(t)
             \/ Unlock(t) \/ Return(t)
      PROVE Out(h)' /\ h < next'
  BY <1>2, <1>8 DEF Built, Find, TryLock, Stepped, Panic, Unlock, Return
<1>9. CASE UNCHANGED vars
  BY <1>2, <1>9 DEF vars
<1>10. QED
  BY <1>3, <1>4, <1>5, <1>7, <1>8, <1>9, Actions

\* A thread that has ended makes no call.
EndedIdle == \A t \in ended : calls[t] = << >>

LEMMA EndedIdleKept ==
  ASSUME TableOK, CallsOK, EndedIdle, [Next]_vars
  PROVE  EndedIdle'
<1> SUFFICES ASSUME NEW t \in ended' PROVE calls'[t] = << >>
  BY DEF EndedIdle
<1>1. CASE t \in ended
  <2>1. t \in Threads /\ calls[t] = << >>
    BY <1>1 DEF EndedIdle, TableOK
  <2>2. DOMAIN calls[t] = {}
    BY <2>1
  <2>3. \A j \in DOMAIN calls'[t] : FALSE
    BY <1>1, <2>1, <2>2, FrameSteps DEF Starts
  <2>4. calls'[t] \in Seq(Frame)
    BY <2>1, CallsKept DEF CallsOK
  <2>5. Len(calls'[t]) \in Nat /\ DOMAIN calls'[t] = 1 .. Len(calls'[t])
    BY <2>4, LenProperties
  <2>6. Len(calls'[t]) = 0
    <3>1. 1 \notin DOMAIN calls'[t]
      BY <2>3
    <3>2. \A n \in Nat : 1 \notin 1 .. n => n = 0
      OBVIOUS
    <3>3. QED
      BY <2>5, <3>1, <3>2
  <2>7. QED
    BY <2>4, <2>6, EmptySeq
<1>2. CASE t \notin ended
  <2>1. ended' = ended \/ \E u \in Threads : ThreadEnds(u)
    <3>1. \A u \in Threads, k \in Handles : Resume(u, k) \/ Reply(u, k) => UNCHANGED ended
      BY BeginKeeps DEF Resume, Reply
    <3>2. QED
      BY <3>1, Actions
         DEF vars, New, NewPinned, TakeWakes, Free, Wake, Built, BuildPanics, Find,
             TryLock, Stepped, Panic, Remove, Unlock, Return
  <2>2. PICK u \in Threads : ThreadEnds(u)
    BY <1>2, <2>1
  <2>3. t = u /\ calls[u] = << >> /\ UNCHANGED calls
    BY <1>2, <2>2 DEF ThreadEnds
  <2>4. QED
    BY <2>3
<1>3. QED
  BY <1>1, <1>2

\* A call below the i-th of t's is building h.
Beneath(t, i, h) ==
  \E k \in DOMAIN calls[t] :
    k < i /\ calls[t][k].handle = h /\ calls[t][k].stage = "building"

\* As long as a call goes on, those below it stay as they are.
LEMMA BeneathStays ==
  ASSUME CallsOK, [Next]_vars, NEW t \in Threads,
         NEW i \in DOMAIN calls[t], i \in DOMAIN calls'[t], NEW h, Beneath(t, i, h)
  PROVE  Beneath(t, i, h)'
<1>1. PICK k \in DOMAIN calls[t] :
        k < i /\ calls[t][k].handle = h /\ calls[t][k].stage = "building"
  BY DEF Beneath
<1>2. /\ DOMAIN calls[t] = 1 .. Depth(t) /\ Depth(t) \in Nat
      /\ DOMAIN calls'[t] = 1 .. Len(calls'[t]) /\ Len(calls'[t]) \in Nat
  BY Stack, CallsKept, LenProperties DEF CallsOK, Depth
<1>3. k \in DOMAIN calls'[t] /\ k # Depth(t) /\ k # Depth(t) + 1
  BY <1>1, <1>2
<1>4. Same(calls[t][k], calls'[t][k])
  BY <1>3, FrameSteps
<1>5. QED
  BY <1>1, <1>3, <1>4 DEF Same, Beneath

\* Which handles are out of the table, and what the calls say of them.
GoneIsOut == \A h \in gone : h < next /\ Out(h)
CodeIsLast ==
  \A t \in Threads : \A i \in DOMAIN calls[t] :
    calls[t][i].code # "none" => calls[t][i].stage = "returning"
PanickedIsOut ==
  \A t \in Threads : \A i \in DOMAIN calls[t] :
    calls[t][i].stage = "removed" \/ calls[t][i].code = "Panicked" => Out(calls[t][i].handle)
LateIsRefused ==
  \A t \in Threads : \A i \in DOMAIN calls[t] :
    calls[t][i].late => /\ calls[t][i].handle \in gone
                        /\ calls[t][i].stage = "finding" \/ calls[t][i].code = "BadHandle"
BadIsOut ==
  \A t \in Threads : \A i \in DOMAIN calls[t] :
    calls[t][i].code = "BadHandle" => Out(calls[t][i].handle) \/ Beneath(t, i, calls[t][i].handle)

LEMMA CodeIsLastKept ==
  ASSUME CallsOK, CodeIsLast, [Next]_vars
  PROVE  CodeIsLast'
<1> SUFFICES ASSUME NEW t \in Threads, NEW i \in DOMAIN calls'[t], calls'[t][i].code # "none"
             PROVE calls'[t][i].stage = "returning"
  BY DEF CodeIsLast
<1>1. QED
  BY FrameSteps DEF CodeIsLast, Same, Advances, Starts

LEMMA PanickedIsOutKept ==
  ASSUME TableOK, TableHome, CallsOK, FramesHome, CodeIsLast, PanickedIsOut, [Next]_vars
  PROVE  PanickedIsOut'
<1> SUFFICES ASSUME NEW t \in Threads, NEW i \in DOMAIN calls'[t],
                    calls'[t][i].stage = "removed" \/ calls'[t][i].code = "Panicked"
             PROVE /\ calls'[t][i].handle \notin machines' \cup parked'
                   /\ pinned'[calls'[t][i].handle] = Nobody
  BY DEF PanickedIsOut, Out
<1> DEFINE old == calls[t][i]
           new == calls'[t][i]
<1>1. i \in DOMAIN calls[t] /\ new.handle = old.handle /\ (Same(old, new) \/ Advances(t, old, new))
  BY FrameSteps DEF Same, Advances, Starts
<1>2. old \in Frame /\ FrameHome(t, old, next, parked, home)
  BY <1>1, Stack DEF FramesHome
<1>3. old.handle \in Handles /\ old.handle < next
  BY <1>2 DEF Frame, FrameHome
<1>4. CASE old.stage = "removed" \/ old.code = "Panicked"
  <2>1. Out(old.handle)
    BY <1>1, <1>4 DEF PanickedIsOut
  <2>2. QED
    BY <1>1, <1>3, <2>1, OutForGood DEF Out
<1>5. CASE old.stage # "removed" /\ old.code # "Panicked"
  <2>1. old.stage = "unwound" /\ Advances(t, old, new)
    BY <1>1, <1>5 DEF Same, Advances
  <2>2. old.handle \notin parked
    BY <1>2, <2>1 DEF FrameHome
  <2>3. CASE /\ home[old.handle] = Nobody /\ machines' = machines \ {old.handle}
             /\ UNCHANGED <<parked, pinned>>
    <3>1. old.handle \notin machines' \cup parked' /\ pinned'[old.handle] = Nobody
      BY <1>3, <2>2, <2>3 DEF TableHome
    <3>2. QED
      BY <1>1, <3>1
  <2>4. CASE /\ home[old.handle] # Nobody /\ UNCHANGED <<machines, parked>>
             /\ pinned' = [pinned EXCEPT ![old.handle] = Nobody]
    <3>1. old.handle \notin machines
      BY <2>4 DEF TableHome
    <3>2. pinned'[old.handle] = Nobody
      BY <1>3, <2>4 DEF TableOK
    <3>3. QED
      BY <1>1, <2>2, <2>4, <3>1, <3>2 DEF Out
  <2>5. QED
    BY <1>5, <2>1, <2>3, <2>4 DEF Advances
<1>6. QED
  BY <1>4, <1>5

\* Only what is out of the table is known to be gone.
LEMMA GoneIsOutKept ==
  ASSUME TableOK, TableHome, CallsOK, FramesHome, PanickedIsOut, GoneIsOut, [Next]_vars
  PROVE  GoneIsOut' /\ gone \subseteq gone'
<1>1. ASSUME NEW h \in gone PROVE (h < next /\ Out(h))'
  <2>1. h \in Handles /\ h < next /\ Out(h)
    BY DEF GoneIsOut, TableOK
  <2>2. QED
    BY <2>1, OutForGood
<1>2. CASE gone' = gone
  BY <1>1, <1>2 DEF GoneIsOut
<1>3. ASSUME NEW h \in Handles, gone' = gone \cup {h}, (h < next /\ Out(h))'
      PROVE GoneIsOut' /\ gone \subseteq gone'
  BY <1>1, <1>3 DEF GoneIsOut
<1>4. ASSUME NEW t \in Threads, NEW h \in Handles, Free(t, h)
      PROVE GoneIsOut' /\ gone \subseteq gone'
  <2>1. next' = next /\ gone' = gone \cup {h} /\ h \notin machines' \cup parked'
    BY <1>4 DEF Free
  <2>2. h < next /\ pinned'[h] = Nobody
    <3>1. CASE h \in machines \cup parked /\ UNCHANGED pinned
      BY <3>1 DEF TableHome
    <3>2. CASE pinned[h] = t /\ pinned' = [pinned EXCEPT ![h] = Nobody]
      BY <3>2, NobodyAssumption DEF TableHome, TableOK
    <3>3. QED
      BY <1>4, <3>1, <3>2 DEF Free
  <2>3. QED
    BY <1>3, <2>1, <2>2 DEF Out
<1>5. ASSUME NEW t \in Threads, calls[t] # << >>
      PROVE /\ Top(t).handle \in Handles /\ Top(t).handle < next
            /\ Top(t).code = "Panicked" => Out(Top(t).handle)
            /\ Top(t).stage = "building" => home[Top(t).handle] = t
  BY <1>5, Stack DEF Top, Frame, FramesHome, FrameHome, PanickedIsOut
<1>6. ASSUME NEW t \in Threads, BuildPanics(t) PROVE GoneIsOut' /\ gone \subseteq gone'
  <2> DEFINE h == Top(t).handle
  <2>1. /\ calls[t] # << >> /\ Top(t).stage = "building" /\ gone' = gone \cup {h}
        /\ pinned' = [pinned EXCEPT ![h] = Nobody] /\ UNCHANGED <<machines, parked, next>>
    BY <1>6 DEF BuildPanics, At
  <2>2. h \in Handles /\ h < next /\ home[h] = t
    BY <1>5, <2>1
  <2> HIDE DEF h
  <2>3. h \notin machines \cup parked
    BY <2>2, NobodyAssumption DEF TableHome
  <2>4. pinned'[h] = Nobody
    BY <2>1, <2>2 DEF TableOK
  <2>5. QED
    BY <1>3, <2>1, <2>2, <2>3, <2>4 DEF Out
<1>7. ASSUME NEW t \in Threads, Return(t) PROVE GoneIsOut' /\ gone \subseteq gone'
  <2>1. calls[t] # << >> /\ UNCHANGED <<machines, parked, pinned, next>>
    BY <1>7 DEF Return, At, table
  <2>2. CASE Top(t).code = "Panicked"
    <3>1. gone' = gone \cup {Top(t).handle}
      BY <1>7, <2>2 DEF Return
    <3>2. Top(t).handle \in Handles /\ Top(t).handle < next /\ Out(Top(t).handle)
      BY <1>5, <2>1, <2>2
    <3> DEFINE h == Top(t).handle
    <3> HIDE DEF h
    <3>3. h \in Handles /\ h < next /\ Out(h) /\ gone' = gone \cup {h}
      BY <3>1, <3>2 DEF h
    <3>4. QED
      BY <1>3, <2>1, <3>3 DEF Out
  <2>3. CASE Top(t).code # "Panicked"
    BY <1>2, <1>7, <2>3 DEF Return
  <2>4. QED
    BY <2>2, <2>3
<1>8. ASSUME NEW t \in Threads, NEW h \in Handles, Wake(t, h) \/ Resume(t, h) \/ Reply(t, h)
      PROVE GoneIsOut' /\ gone \subseteq gone'
  BY <1>2, <1>8, BeginKeeps DEF Wake, Resume, Reply
<1>9. ASSUME NEW t \in Threads,
             \/ New(t) \/ NewPinned(t) \/ TakeWakes(t) \/ ThreadEnds(t)
             \/ Built(t) \/ Find(t) \/ TryLock(t) \/ Stepped(t) \/ Panic(t)
             \/ Remove(t) \/ Unlock(t)
      PROVE GoneIsOut' /\ gone \subseteq gone'
  BY <1>2, <1>9 DEF New, NewPinned, TakeWakes, ThreadEnds, Built, Find, TryLock, Stepped,
                    Panic, Remove, Unlock, history
<1>10. CASE UNCHANGED vars
  BY <1>2, <1>10 DEF vars
<1>11. QED
  BY <1>4, <1>6, <1>7, <1>8, <1>9, <1>10, Actions

\* A call that began too late is refused as one.
LEMMA LateIsRefusedKept ==
  ASSUME CallsOK, GoneIsOut, gone \subseteq gone', CodeIsLast, LateIsRefused, [Next]_vars
  PROVE  LateIsRefused'
<1> SUFFICES ASSUME NEW t \in Threads, NEW i \in DOMAIN calls'[t], calls'[t][i].late
             PROVE /\ calls'[t][i].handle \in gone'
                   /\ calls'[t][i].stage = "finding" \/ calls'[t][i].code = "BadHandle"
  BY DEF LateIsRefused
<1> DEFINE old == calls[t][i]
           new == calls'[t][i]
<1>1. CASE i \in DOMAIN calls[t] /\ Same(old, new)
  BY <1>1 DEF LateIsRefused, Same
<1>2. CASE i \in DOMAIN calls[t] /\ Advances(t, old, new)
  <2>1. /\ new.handle = old.handle /\ old.handle \in gone /\ Out(old.handle)
        /\ old.stage = "finding" \/ old.code = "BadHandle"
    BY <1>2 DEF LateIsRefused, Advances, GoneIsOut
  <2>2. old.stage # "returning"
    BY <1>2 DEF Advances
  <2>3. old.stage = "finding"
    BY <1>2, <2>1, <2>2 DEF CodeIsLast
  <2>4. old.handle \notin machines \cup parked /\ pinned[old.handle] = Nobody
    BY <2>1 DEF Out
  <2>5. new.code = "BadHandle"
    BY <1>2, <2>3, <2>4, NobodyAssumption DEF Advances
  <2>6. QED
    BY <2>1, <2>5
<1>3. CASE Starts(t, new)
  <2>1. new.handle \in gone
    BY <1>3 DEF Starts
  <2>2. new.handle \notin parked
    BY <2>1 DEF GoneIsOut, Out
  <2>3. QED
    BY <1>3, <2>1, <2>2 DEF Starts
<1>4. QED
  BY <1>1, <1>2, <1>3, FrameSteps

\* BAD_HANDLE is said of what is out of the table, or being built below.
LEMMA BadIsOutKept ==
  ASSUME TableOK, TableHome, CallsOK, FramesHome, PinnedIsHome, EndedIdle, BadIsOut,
         CodeIsLast, [Next]_vars
  PROVE  BadIsOut'
<1> SUFFICES ASSUME NEW t \in Threads, NEW i \in DOMAIN calls'[t],
                    calls'[t][i].code = "BadHandle"
             PROVE \/ /\ calls'[t][i].handle \notin machines' \cup parked'
                      /\ pinned'[calls'[t][i].handle] = Nobody
                   \/ \E k \in DOMAIN calls'[t] :
                        /\ k < i /\ calls'[t][k].handle = calls'[t][i].handle
                        /\ calls'[t][k].stage = "building"
  BY DEF BadIsOut, Out, Beneath
<1> DEFINE old == calls[t][i]
           new == calls'[t][i]
<1>1. i \in DOMAIN calls[t] /\ new.handle = old.handle
      /\ (Same(old, new) \/ (i = Depth(t) /\ Advances(t, old, new)))
  BY FrameSteps DEF Same, Advances, Starts
<1>2. old \in Frame /\ FrameHome(t, old, next, parked, home)
  BY <1>1, Stack DEF FramesHome
<1>3. old.handle \in Handles /\ old.handle < next
  BY <1>2 DEF Frame, FrameHome
<1>4. Out(old.handle) \/ Beneath(t, i, old.handle)
  <2>1. CASE old.code = "BadHandle"
    BY <1>1, <2>1 DEF BadIsOut
  <2>2. CASE old.code # "BadHandle"
    <3>1. i = Depth(t) /\ Advances(t, old, new)
      BY <1>1, <2>2 DEF Same
    <3>2. old.stage = "finding"
          /\ (Out(old.handle) \/ (pinned[old.handle] = t /\ local[old.handle] # t))
      BY <2>2, <3>1 DEF Advances
    <3>3. CASE pinned[old.handle] = t /\ local[old.handle] # t
      <4>1. t # Nobody /\ calls[t] # << >> /\ t \notin ended
        BY <1>1, NobodyAssumption DEF EndedIdle
      <4>2. home[old.handle] = t
        BY <1>3, <3>3, <4>1 DEF TableHome
      <4>3. Building(t, old.handle)
        BY <1>3, <3>3, <4>1, <4>2 DEF PinnedIsHome
      <4>4. PICK k \in DOMAIN calls[t] :
              calls[t][k].handle = old.handle /\ calls[t][k].stage = "building"
        BY <4>3 DEF Building
      <4>5. k # i /\ k \in 1 .. Depth(t) /\ Depth(t) \in Nat
        BY <3>2, <4>4, Stack
      <4>6. k < i
        BY <3>1, <4>5
      <4>7. QED
        BY <4>4, <4>6 DEF Beneath
    <3>4. QED
      BY <3>2, <3>3
  <2>3. QED
    BY <2>1, <2>2
<1>5. CASE Out(old.handle)
  <2>1. old.handle \notin machines' \cup parked' /\ pinned'[old.handle] = Nobody
    BY <1>3, <1>5, OutForGood DEF Out
  <2>2. QED
    BY <1>1, <2>1
<1>6. CASE Beneath(t, i, old.handle)
  <2>1. \E k \in DOMAIN calls'[t] :
          k < i /\ calls'[t][k].handle = old.handle /\ calls'[t][k].stage = "building"
    BY <1>1, <1>6, BeneathStays DEF Beneath
  <2>2. QED
    BY <1>1, <2>1
<1>7. QED
  BY <1>4, <1>5, <1>6

GoneInv ==
  /\ HomeInv /\ EndedIdle /\ GoneIsOut
  /\ CodeIsLast /\ PanickedIsOut /\ LateIsRefused /\ BadIsOut

\* A handle freed or panicked is a bad handle to every later call, and none
\* is called so while its routine is in the table (free, guarded, find).
THEOREM GoneForGood == Spec => []BadHandleMeansGone
<1>1. Init => GoneInv
  <2>1. Init => EndedIdle /\ GoneIsOut /\ CodeIsLast /\ PanickedIsOut /\ LateIsRefused /\ BadIsOut
    BY EmptySeq
       DEF Init, EndedIdle, GoneIsOut, CodeIsLast, PanickedIsOut, LateIsRefused, BadIsOut
  <2>2. QED
    BY <2>1, HomeInit DEF GoneInv
<1>2. GoneInv /\ [Next]_vars => GoneInv'
  <2> SUFFICES ASSUME GoneInv, [Next]_vars PROVE GoneInv'
    OBVIOUS
  <2>1. TableOK /\ CallsOK /\ FramesHome /\ TableHome /\ PinnedIsHome
    BY TypeParts DEF GoneInv, HomeInv
  <2>2. HomeInv' /\ EndedIdle'
    BY <2>1, HomeKept, EndedIdleKept DEF GoneInv
  <2>3. GoneIsOut' /\ gone \subseteq gone'
    BY <2>1, GoneIsOutKept DEF GoneInv
  <2>4. CodeIsLast' /\ PanickedIsOut'
    BY <2>1, CodeIsLastKept, PanickedIsOutKept DEF GoneInv
  <2>5. LateIsRefused' /\ BadIsOut'
    BY <2>1, <2>3, LateIsRefusedKept, BadIsOutKept DEF GoneInv
  <2>6. QED
    BY <2>2, <2>3, <2>4, <2>5 DEF GoneInv
<1>3. GoneInv => BadHandleMeansGone
  <2> SUFFICES ASSUME GoneInv, NEW f \in Frames
               PROVE LET frame == FrameOf(f) IN
                     /\ frame.late => frame.stage = "finding" \/ frame.code = "BadHandle"
                     /\ frame.code = "BadHandle" =>
                          \/ Out(frame.handle)
                          \/ \E g \in Frames : /\ g[1] = f[1]
                                               /\ FrameOf(g).stage = "building"
                                               /\ FrameOf(g).handle = frame.handle
    BY DEF BadHandleMeansGone, Out
  <2>1. PICK t \in Threads : \E i \in DOMAIN calls[t] : f = <<t, i>>
    BY FramesAre
  <2>2. PICK i \in DOMAIN calls[t] : f = <<t, i>>
    BY <2>1
  <2>3. FrameOf(f) = calls[t][i] /\ f[1] = t
    BY <2>2 DEF FrameOf
  <2>4. calls[t][i].late => calls[t][i].stage = "finding" \/ calls[t][i].code = "BadHandle"
    BY DEF GoneInv, LateIsRefused
  <2>5. ASSUME Beneath(t, i, calls[t][i].handle)
        PROVE \E g \in Frames : /\ g[1] = t
                                /\ FrameOf(g).stage = "building"
                                /\ FrameOf(g).handle = calls[t][i].handle
    <3>1. PICK k \in DOMAIN calls[t] :
            calls[t][k].handle = calls[t][i].handle /\ calls[t][k].stage = "building"
      BY <2>5 DEF Beneath
    <3>2. <<t, k>> \in Frames /\ FrameOf(<<t, k>>) = calls[t][k]
      BY FramesAre
    <3>3. QED
      BY <3>1, <3>2
  <2>6. calls[t][i].code = "BadHandle" =>
          Out(calls[t][i].handle) \/ Beneath(t, i, calls[t][i].handle)
    BY DEF GoneInv, BadIsOut
  <2>7. QED
    BY <2>3, <2>4, <2>5, <2>6
<1>4. QED
  BY <1>1, <1>2, <1>3, PTL DEF Spec

=============================================================================
