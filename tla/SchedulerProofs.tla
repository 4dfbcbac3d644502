--------------------------- MODULE SchedulerProofs ---------------------------
(***************************************************************************)
(* Proofs about the hosts' bookkeeping: in JavaHost's scheduler a machine  *)
(* is in one place at most (Placed), the requests still to be asked are    *)
(* new ones (Fresh), and the count is exact (Counted); the table refuses   *)
(* no call of PythonHost's or JavaHost's (Pythonic, Javan).                *)
(***************************************************************************)
EXTENDS HostProofs

-----------------------------------------------------------------------------
(* The Java scheduler: a machine is in one place                            *)

InLine(m) == \E w \in WorkerIds : \E i \in 1 .. Len(line[w]) : line[w][i] = m
InHands(m) == \E w \in WorkerIds : InHand(w) /\ job[w].m = m

LinesOnce ==
  \A w, x \in WorkerIds : \A i \in 1 .. Len(line[w]), j \in 1 .. Len(line[x]) :
    line[w][i] = line[x][j] => w = x /\ i = j
HandsOnce ==
  \A w, x \in WorkerIds : InHand(w) /\ InHand(x) /\ job[w].m = job[x].m => w = x
Apart ==
  \A w, x \in WorkerIds : \A i \in 1 .. Len(line[x]) : InHand(w) => line[x][i] # job[w].m
RunningIs == \A m : m \in running <=> InLine(m) \/ InHands(m)
Placed == LinesOnce /\ HandsOnce /\ Apart /\ RunningIs

LEMMA PlacedIs ==
  ASSUME PlacesOK
  PROVE  Placed <=> OneWorkerEach
<1>1. \A w \in WorkerIds : DOMAIN line[w] = 1 .. Len(line[w])
  BY DEF PlacesOK
<1>2. ASSUME NEW w \in WorkerIds, NEW m
      PROVE  m \in Range(line[w]) <=> \E i \in 1 .. Len(line[w]) : line[w][i] = m
  BY <1>1 DEF Range
<1> DEFINE L == UNION {Range(line[w]) : w \in WorkerIds}
           H == {job[w].m : w \in {x \in WorkerIds : InHand(x)}}
<1>3. \A m : (m \in L <=> InLine(m)) /\ (m \in H <=> InHands(m))
  <2> TAKE m
  <2>1. m \in L <=> \E w \in WorkerIds : m \in Range(line[w])
    OBVIOUS
  <2>2. m \in L <=> InLine(m)
    BY <2>1, <1>2 DEF InLine
  <2>3. m \in H <=> InHands(m)
    BY DEF InHands
  <2>4. QED
    BY <2>2, <2>3
<1> HIDE DEF L, H
<1>4. RunningIs <=> running = L \cup H
  <2>1. RunningIs <=> \A m : m \in running <=> m \in L \cup H
    BY <1>3 DEF RunningIs
  <2>2. QED
    BY <2>1
<1> DEFINE Out(w, x) == InHand(w) => job[w].m \notin Range(line[x])
<1>5. Apart <=> \A w, x \in WorkerIds : Out(w, x)
  <2>1. ASSUME NEW w \in WorkerIds, NEW x \in WorkerIds
        PROVE  (\A i \in 1 .. Len(line[x]) : InHand(w) => line[x][i] # job[w].m) <=> Out(w, x)
    <3>1. job[w].m \in Range(line[x]) <=> \E i \in 1 .. Len(line[x]) : line[x][i] = job[w].m
      BY <1>2
    <3>2. QED
      BY <3>1
  <2>2. QED
    BY <2>1, Zenon DEF Apart
<1>6. LinesOnce <=> \A w, x \in WorkerIds : \A i \in DOMAIN line[w], j \in DOMAIN line[x] :
                       line[w][i] = line[x][j] => w = x /\ i = j
  BY <1>1 DEF LinesOnce
<1> DEFINE A1 == \A w, x \in WorkerIds : \A i \in DOMAIN line[w], j \in DOMAIN line[x] :
                   line[w][i] = line[x][j] => w = x /\ i = j
           A3 == \A w, x \in WorkerIds : Out(w, x)
<1>7. OneWorkerEach <=> A1 /\ HandsOnce /\ A3 /\ running = L \cup H
  <2>1. OneWorkerEach => A1
    BY Zenon DEF OneWorkerEach
  <2>2. OneWorkerEach => HandsOnce
    BY Zenon DEF HandsOnce, OneWorkerEach
  <2>3. OneWorkerEach => A3
    BY Zenon DEF OneWorkerEach
  <2>4. OneWorkerEach => running = L \cup H
    <3>1. OneWorkerEach => running = (UNION {Range(line[w]) : w \in WorkerIds})
                            \cup {job[w].m : w \in {x \in WorkerIds : InHand(x)}}
      BY DEF OneWorkerEach
    <3>2. QED
      BY <3>1 DEF L, H
  <2>5. A1 /\ HandsOnce /\ A3 /\ running = L \cup H => OneWorkerEach
    <3> SUFFICES ASSUME A1, HandsOnce, A3, running = L \cup H
                 PROVE  OneWorkerEach
      OBVIOUS
    <3>1. running = (UNION {Range(line[w]) : w \in WorkerIds})
                    \cup {job[w].m : w \in {x \in WorkerIds : InHand(x)}}
      BY DEF L, H
    <3>2. QED
      BY <3>1, Zenon DEF HandsOnce, OneWorkerEach
  <2>6. QED
    BY <2>1, <2>2, <2>3, <2>4, <2>5
<1> HIDE DEF A1, A3
<1>8. Placed <=> A1 /\ HandsOnce /\ A3 /\ running = L \cup H
  <2>1. LinesOnce <=> A1
    BY <1>6 DEF A1
  <2>2. Apart <=> A3
    BY <1>5 DEF A3
  <2>3. QED
    BY <1>4, <2>1, <2>2 DEF Placed
<1>9. QED
  BY <1>7, <1>8

\* A step that leaves every machine where it is.
LEMMA PlacedRests ==
  ASSUME Placed, line' = line, running' = running,
         \A w \in WorkerIds : /\ job'[w].m = job[w].m
                              /\ job'[w].pc = "idle" <=> job[w].pc = "idle"
  PROVE  Placed'
<1>1. \A w \in WorkerIds : InHand(w)' <=> InHand(w)
  BY DEF InHand
<1>2. LinesOnce' /\ HandsOnce' /\ Apart'
  BY <1>1 DEF Placed, LinesOnce, HandsOnce, Apart
<1>3. \A m : InLine(m)' <=> InLine(m)
  BY DEF InLine
<1>4. \A m : InHands(m)' <=> InHands(m)
  BY <1>1 DEF InHands
<1>5. RunningIs'
  BY <1>3, <1>4 DEF Placed, RunningIs
<1>6. QED
  BY <1>2, <1>5 DEF Placed

\* A machine is queued for a worker only if it is nowhere yet.
LEMMA QueuePlaces ==
  ASSUME Placed, KnownOK, PlacesOK, NEW m \in Machines, NEW event, NEW here \in 0 .. threads,
         Queue(m, event, here),
         \A w \in WorkerIds : /\ job'[w].m = job[w].m
                              /\ job'[w].pc = "idle" <=> job[w].pc = "idle"
  PROVE  Placed'
<1> DEFINE v == WorkerFor(m, here)
<1>1. /\ running' = running \cup {m}
      /\ m \in running => line' = line
      /\ m \notin running => line' = [line EXCEPT ![v] = Append(@, m)]
  BY DEF Queue
<1>2. CASE m \in running
  <2>1. running' = running /\ line' = line
    BY <1>1, <1>2
  <2>2. QED
    BY <2>1, PlacedRests
<1>3. CASE m \notin running
  <2>1. v \in WorkerIds
    BY WorkerForIs
  <2> HIDE DEF v
  <2>2. /\ line[v] \in Seq(Machines) /\ Len(line[v]) \in Nat
        /\ line'[v] = Append(line[v], m)
        /\ \A x \in WorkerIds : x # v => line'[x] = line[x]
    BY <1>1, <1>3, <2>1 DEF PlacesOK
  <2> DEFINE n == Len(line[v])
  <2>3. /\ Len(line'[v]) = n + 1 /\ line'[v][n + 1] = m
        /\ \A i \in 1 .. n : line'[v][i] = line[v][i]
    BY <2>2, AppendIs
  <2>4. ~InLine(m) /\ ~InHands(m)
    BY <1>3 DEF Placed, RunningIs
  <2>5. n \in Nat
    BY <2>2
  <2> HIDE DEF n
  <2>6. \A x \in WorkerIds : \A i \in 1 .. Len(line'[x]) :
             \/ i \in 1 .. Len(line[x]) /\ line'[x][i] = line[x][i]
             \/ x = v /\ i = n + 1 /\ line'[x][i] = m
    <3> TAKE x \in WorkerIds
    <3>1. CASE x = v
      <4>1. \A i \in 1 .. n + 1 : i \in 1 .. n \/ i = n + 1
        BY <2>5
      <4>2. QED
        BY <3>1, <4>1, <2>3 DEF n
    <3>2. CASE x # v
      BY <3>2, <2>2
    <3>3. QED
      BY <3>1, <3>2
  <2>7. \A x \in WorkerIds : \A i \in 1 .. Len(line[x]) :
          i \in 1 .. Len(line'[x]) /\ line'[x][i] = line[x][i]
    <3> TAKE x \in WorkerIds
    <3>1. CASE x = v
      <4>1. \A i \in 1 .. n : i \in 1 .. n + 1
        BY <2>5
      <4>2. QED
        BY <3>1, <4>1, <2>3 DEF n
    <3>2. CASE x # v
      BY <3>2, <2>2
    <3>3. QED
      BY <3>1, <3>2
  <2>8. \A x \in WorkerIds : \A i \in 1 .. Len(line[x]) : line[x][i] # m
    BY <2>4 DEF InLine
  <2>9. \A w \in WorkerIds : (InHand(w)' <=> InHand(w)) /\ (InHand(w) => job[w].m # m)
    BY <2>4 DEF InHand, InHands
  <2>10. LinesOnce'
    <3> SUFFICES ASSUME NEW x \in WorkerIds, NEW y \in WorkerIds,
                        NEW i \in 1 .. Len(line'[x]), NEW j \in 1 .. Len(line'[y]),
                        line'[x][i] = line'[y][j]
                 PROVE  x = y /\ i = j
      BY DEF LinesOnce
    <3>1. CASE line'[x][i] = m
      <4>1. x = v /\ i = n + 1
        BY <2>6, <2>8, <3>1
      <4>2. y = v /\ j = n + 1
        BY <2>6, <2>8, <3>1
      <4>3. QED
        BY <4>1, <4>2
    <3>2. CASE line'[x][i] # m
      <4>1. i \in 1 .. Len(line[x]) /\ line'[x][i] = line[x][i]
        BY <2>6, <3>2
      <4>2. j \in 1 .. Len(line[y]) /\ line'[y][j] = line[y][j]
        BY <2>6, <3>2
      <4>3. LinesOnce /\ line[x][i] = line[y][j]
        BY <4>1, <4>2 DEF Placed
      <4>4. QED
        BY <4>1, <4>2, <4>3 DEF LinesOnce
    <3>3. QED
      BY <3>1, <3>2
  <2>11. HandsOnce'
    BY <2>9 DEF Placed, HandsOnce
  <2>12. Apart'
    BY <2>6, <2>9 DEF Placed, Apart
  <2>13. \A y : InLine(y)' <=> InLine(y) \/ y = m
    <3> TAKE y
    <3>1. InLine(y)' => InLine(y) \/ y = m
      BY <2>6 DEF InLine
    <3>2. InLine(y) => InLine(y)'
      BY <2>7 DEF InLine
    <3>3. n + 1 \in 1 .. Len(line'[v]) /\ line'[v][n + 1] = m
      BY <2>3, <2>5
    <3>4. y = m => InLine(y)'
      BY <2>1, <3>3 DEF InLine
    <3>5. QED
      BY <3>1, <3>2, <3>4
  <2>14. \A y : InHands(y)' <=> InHands(y)
    BY <2>9 DEF InHands
  <2>15. RunningIs'
    BY <1>1, <2>13, <2>14 DEF Placed, RunningIs
  <2>16. QED
    BY <2>10, <2>11, <2>12, <2>15 DEF Placed
<1>4. QED
  BY <1>2, <1>3

\* A worker takes its next machine in hand.
LEMMA TakePlaces ==
  ASSUME Placed, JavaOK, NEW w \in WorkerIds, Take(w)
  PROVE  Placed'
<1> DEFINE m == Head(line[w])
           n == Len(line[w])
<1>1. /\ job[w].pc = "idle" /\ line[w] # << >> /\ running' = running
      /\ line' = [line EXCEPT ![w] = Tail(@)]
      /\ job' = [job EXCEPT ![w] = [pc |-> "drain", m |-> m, event |-> ResumeEvent]]
  BY DEF Take, At
<1>2. line[w] \in Seq(Machines)
  BY DEF JavaOK, PlacesOK
<1>3. /\ n \in Nat /\ n > 0 /\ m = line[w][1]
      /\ line'[w] = Tail(line[w]) /\ Len(line'[w]) = n - 1
      /\ \A i \in 1 .. n - 1 : line'[w][i] = line[w][i + 1]
      /\ \A x \in WorkerIds : x # w => line'[x] = line[x]
  <2>1. n \in Nat /\ n > 0 /\ m = line[w][1]
    BY <1>1, <1>2
  <2>2. Len(Tail(line[w])) = n - 1 /\ \A i \in 1 .. n - 1 : Tail(line[w])[i] = line[w][i + 1]
    BY <1>1, <1>2, HeadTailProperties
  <2>3. line'[w] = Tail(line[w]) /\ \A x \in WorkerIds : x # w => line'[x] = line[x]
    BY <1>1 DEF JavaOK, PlacesOK
  <2> HIDE DEF m, n
  <2>4. QED
    BY <2>1, <2>2, <2>3
<1>4. /\ job'[w].m = m /\ InHand(w)' /\ ~InHand(w)
      /\ \A x \in WorkerIds : x # w => job'[x].m = job[x].m /\ (InHand(x)' <=> InHand(x))
  BY <1>1 DEF InHand, JavaOK, JobsOK
<1> HIDE DEF m, n
<1>5. \A x \in WorkerIds : \A i \in 1 .. Len(line'[x]) :
        IF x = w THEN i + 1 \in 1 .. n /\ line'[x][i] = line[w][i + 1]
                 ELSE i \in 1 .. Len(line[x]) /\ line'[x][i] = line[x][i]
  <2> TAKE x \in WorkerIds
  <2>1. CASE x = w
    <3>1. \A i \in 1 .. n - 1 : i + 1 \in 1 .. n
      BY <1>3
    <3>2. QED
      BY <2>1, <3>1, <1>3
  <2>2. CASE x # w
    BY <2>2, <1>3
  <2>3. QED
    BY <2>1, <2>2
<1>6. 1 \in 1 .. n /\ n = Len(line[w])
  BY <1>3 DEF n
<1>7. LinesOnce'
  <2> SUFFICES ASSUME NEW x \in WorkerIds, NEW y \in WorkerIds,
                      NEW i \in 1 .. Len(line'[x]), NEW j \in 1 .. Len(line'[y]),
                      line'[x][i] = line'[y][j]
               PROVE  x = y /\ i = j
    BY DEF LinesOnce
  <2> DEFINE a == IF x = w THEN i + 1 ELSE i
             b == IF y = w THEN j + 1 ELSE j
  <2>1. a \in 1 .. Len(line[x]) /\ b \in 1 .. Len(line[y])
        /\ line'[x][i] = line[x][a] /\ line'[y][j] = line[y][b]
    BY <1>5, <1>6
  <2> HIDE DEF a, b
  <2>2. line[x][a] = line[y][b]
    BY <2>1
  <2>3. x = y /\ a = b
    BY <2>1, <2>2 DEF Placed, LinesOnce
  <2>4. i \in Nat /\ j \in Nat
    OBVIOUS
  <2>5. QED
    BY <2>3, <2>4 DEF a, b
<1>8. \A x \in WorkerIds : \A i \in 1 .. Len(line'[x]) : line'[x][i] # m
  <2> SUFFICES ASSUME NEW x \in WorkerIds, NEW i \in 1 .. Len(line'[x]), line'[x][i] = m
               PROVE  FALSE
    OBVIOUS
  <2>1. CASE x = w
    <3>1. i + 1 \in 1 .. Len(line[w]) /\ line[w][i + 1] = line[w][1]
      BY <2>1, <1>3, <1>5, <1>6
    <3>2. i + 1 = 1
      BY <3>1, <1>6 DEF Placed, LinesOnce
    <3>3. QED
      BY <3>2
  <2>2. CASE x # w
    <3>1. i \in 1 .. Len(line[x]) /\ line[x][i] = line[w][1]
      BY <2>2, <1>3, <1>5
    <3>2. QED
      BY <3>1, <2>2, <1>6 DEF Placed, LinesOnce
  <2>3. QED
    BY <2>1, <2>2
<1>9. Apart'
  <2> SUFFICES ASSUME NEW x \in WorkerIds, NEW y \in WorkerIds,
                      NEW i \in 1 .. Len(line'[y]), InHand(x)'
               PROVE  line'[y][i] # job'[x].m
    BY DEF Apart
  <2>1. CASE x = w
    BY <2>1, <1>4, <1>8
  <2>2. CASE x # w
    <3>1. InHand(x) /\ job'[x].m = job[x].m
      BY <2>2, <1>4
    <3>2. \E j \in 1 .. Len(line[y]) : line'[y][i] = line[y][j]
      BY <1>5, <1>6
    <3>3. QED
      BY <3>1, <3>2 DEF Placed, Apart
  <2>3. QED
    BY <2>1, <2>2
<1>10. HandsOnce'
  <2>1. \A x \in WorkerIds : InHand(x) => job[x].m # m
    BY <1>3, <1>6 DEF Placed, Apart
  <2>2. QED
    BY <2>1, <1>4 DEF Placed, HandsOnce
<1>11. RunningIs'
  <2>1. \A y : InHands(y)' <=> InHands(y) \/ y = m
    <3> TAKE y
    <3>1. InHands(y)' => InHands(y) \/ y = m
      BY <1>4 DEF InHands
    <3>2. InHands(y) => InHands(y)'
      BY <1>4 DEF InHands
    <3>3. y = m => InHands(y)'
      BY <1>4 DEF InHands
    <3>4. QED
      BY <3>1, <3>2, <3>3
  <2>2. \A y : InLine(y) <=> InLine(y)' \/ y = m
    <3> TAKE y
    <3>1. InLine(y)' => InLine(y)
      BY <1>5, <1>6 DEF InLine
    <3>2. y = m => InLine(y)
      BY <1>3, <1>6 DEF InLine
    <3>3. ASSUME InLine(y), y # m
          PROVE  InLine(y)'
      <4>1. PICK x \in WorkerIds : \E i \in 1 .. Len(line[x]) : line[x][i] = y
        BY <3>3 DEF InLine
      <4>2. PICK i \in 1 .. Len(line[x]) : line[x][i] = y
        BY <4>1
      <4>3. CASE x # w
        BY <4>2, <4>3, <1>3 DEF InLine
      <4>4. CASE x = w
        <5>1. i # 1
          BY <3>3, <4>2, <4>4, <1>3
        <5>2. i - 1 \in 1 .. n - 1 /\ (i - 1) + 1 = i
          BY <5>1, <4>4, <1>3, <1>6
        <5>3. line'[w][i - 1] = y
          BY <5>2, <4>2, <4>4, <1>3
        <5>4. QED
          BY <5>2, <5>3, <1>3 DEF InLine
      <4>5. QED
        BY <4>3, <4>4
    <3>4. QED
      BY <3>1, <3>2, <3>3
  <2>3. QED
    BY <1>1, <2>1, <2>2 DEF Placed, RunningIs
<1>12. QED
  BY <1>7, <1>9, <1>10, <1>11 DEF Placed

\* A worker with no event left for its machine lets go of it.
LEMMA StopPlaces ==
  ASSUME Placed, JavaOK, NEW w \in WorkerIds, InHand(w), line' = line,
         running' = running \ {job[w].m}, job' = [job EXCEPT ![w] = Idle]
  PROVE  Placed'
<1>1. /\ ~InHand(w)'
      /\ \A x \in WorkerIds : x # w => job'[x].m = job[x].m /\ (InHand(x)' <=> InHand(x))
  BY IdleIs DEF InHand, JavaOK, JobsOK
<1>2. LinesOnce' /\ HandsOnce' /\ Apart'
  BY <1>1 DEF Placed, LinesOnce, HandsOnce, Apart
<1>3. \A y : InLine(y)' <=> InLine(y)
  BY DEF InLine
<1>4. \A y : InHands(y)' <=> InHands(y) /\ y # job[w].m
  <2> TAKE y
  <2>1. \A x \in WorkerIds : x # w /\ InHand(x) => job[x].m # job[w].m
    BY DEF Placed, HandsOnce
  <2>2. InHands(y)' => InHands(y) /\ y # job[w].m
    BY <1>1, <2>1 DEF InHands
  <2>3. InHands(y) /\ y # job[w].m => InHands(y)'
    BY <1>1 DEF InHands
  <2>4. QED
    BY <2>2, <2>3
<1>5. ~InLine(job[w].m)
  BY DEF Placed, Apart, InLine
<1>6. RunningIs'
  BY <1>3, <1>4, <1>5 DEF Placed, RunningIs
<1>7. QED
  BY <1>2, <1>6 DEF Placed

\* A step within a worker's work leaves every machine where it is.
LEMMA GoesRests ==
  ASSUME Placed, JobsOK, NEW w \in WorkerIds, InHand(w), NEW pc \in Pcs \ {"idle"},
         Goes(w, pc), line' = line, running' = running
  PROVE  Placed'
<1>1. \A x \in WorkerIds : /\ job'[x].m = job[x].m
                           /\ job'[x].pc = "idle" <=> job[x].pc = "idle"
  BY GoesOn DEF InHand
<1>2. QED
  BY <1>1, PlacedRests

LEMMA JobsRest ==
  ASSUME Placed, job' = job, line' = line, running' = running
  PROVE  Placed'
  BY PlacedRests

LEMMA WorkPlaces ==
  ASSUME Placed, JavaOK, NEW w \in WorkerIds, Work(w)
  PROVE  Placed'
<1>0. \A pc \in Pcs \ {"idle"} : At(w, pc) => InHand(w)
  BY DEF At, InHand
<1>00. {"drain", "handle", "call", "dispatch", "counted", "spurious", "end", "settle"}
         \subseteq Pcs \ {"idle"}
  BY DEF Pcs
<1>000. KnownOK /\ PlacesOK /\ JobsOK /\ BatchOK
  BY DEF JavaOK
<1>1. CASE Take(w)
  BY <1>1, TakePlaces
<1>2. CASE Drain(w)
  <2>1. InHand(w) /\ line' = line
    BY <1>0, <1>00, <1>2 DEF Drain
  <2>2. CASE inbox[job[w].m] = << >>
    <3>1. running' = running \ {job[w].m} /\ job' = [job EXCEPT ![w] = Idle]
      BY <1>2, <2>2 DEF Drain
    <3>2. QED
      BY <2>1, <3>1, StopPlaces
  <2>3. CASE inbox[job[w].m] # << >>
    <3>1. /\ running' = running
          /\ job' = [job EXCEPT ![w].pc = "handle", ![w].event = Head(inbox[job[w].m])]
      BY <1>2, <2>3 DEF Drain
    <3>2. job \in [WorkerIds -> Jobs] /\ job[w] \in Jobs /\ job[w].pc # "idle"
      BY <1>000, <2>1 DEF JobsOK, InHand
    <3>3. job'[w].m = job[w].m /\ job'[w].pc = "handle"
      BY <3>1, <3>2 DEF Jobs
    <3>4. \A x \in WorkerIds : x # w => job'[x] = job[x]
      BY <3>1, <3>2
    <3>5. QED
      BY <2>1, <3>1, <3>2, <3>3, <3>4, PlacedRests
  <2>4. QED
    BY <2>2, <2>3
<1>3. CASE HandleEvent(w)
  <2>1. /\ InHand(w) /\ line' = line /\ running' = running
        /\ Goes(w, "call") \/ Goes(w, "settle")
    BY <1>0, <1>00, <1>3 DEF HandleEvent, Calls, places
  <2>2. QED
    BY <1>00, <1>000, <2>1, GoesRests
<1>4. CASE Poll(w)
  BY <1>4, JobsRest DEF Poll, java, places
<1>5. CASE TakesBatch(w)
  <2>1. InHand(w) /\ line' = line /\ running' = running /\ Goes(w, "dispatch")
    BY <1>0, <1>00, <1>5 DEF TakesBatch, places
  <2>2. QED
    BY <1>00, <1>000, <2>1, GoesRests
<1>6. CASE WriteOut(w)
  BY <1>6, JobsRest DEF WriteOut, places
<1>7. CASE CountResume(w)
  <2>1. /\ InHand(w) /\ line' = line /\ running' = running
        /\ Goes(w, "counted") \/ job' = job
    BY <1>0, <1>00, <1>7 DEF CountResume, At1, places
  <2>2. QED
    BY <1>00, <1>000, <2>1, GoesRests, JobsRest
<1>8. CASE QueueResume(w)
  <2>1. /\ w <= threads /\ InHand(w) /\ Queue(Head(batch[w]).id, ResumeEvent, w)
        /\ Goes(w, "dispatch") /\ job[w].pc = "counted"
    BY <1>0, <1>00, <1>8 DEF QueueResume, At
  <2>2. Head(batch[w]).id \in Machines
    BY <1>000, <2>1, BatchIs DEF BatchOK
  <2>3. w \in 0 .. threads
    BY <1>000, <2>1, ThreadIs
  <2>4. \A x \in WorkerIds : /\ job'[x].m = job[x].m
                             /\ job'[x].pc = "idle" <=> job[x].pc = "idle"
    BY <1>00, <1>000, <2>1, GoesOn DEF InHand
  <2>5. QED
    BY <1>000, <2>1, <2>2, <2>3, <2>4, QueuePlaces
<1>9. CASE Cancel(w)
  BY <1>9, JobsRest DEF Cancel, places
<1>10. CASE AskTask(w)
  BY <1>10, JobsRest DEF AskTask, places
<1>11. CASE Dispatch(w)
  <2>1. /\ InHand(w) /\ line' = line /\ running' = running
        /\ Goes(w, "end") \/ Goes(w, "spurious")
    BY <1>0, <1>00, <1>11 DEF Dispatch, places
  <2>2. QED
    BY <1>00, <1>000, <2>1, GoesRests
<1>12. CASE QueueSpurious(w)
  <2>1. /\ w <= threads /\ InHand(w) /\ Queue(Head(batch[w]).id, ResumeEvent, w)
        /\ Goes(w, "end") /\ job[w].pc = "spurious"
    BY <1>0, <1>00, <1>12 DEF QueueSpurious, At
  <2>2. Head(batch[w]).id \in Machines
    BY <1>000, <2>1, BatchIs DEF BatchOK
  <2>3. w \in 0 .. threads
    BY <1>000, <2>1, ThreadIs
  <2>4. \A x \in WorkerIds : /\ job'[x].m = job[x].m
                             /\ job'[x].pc = "idle" <=> job[x].pc = "idle"
    BY <1>00, <1>000, <2>1, GoesOn DEF InHand
  <2>5. QED
    BY <1>000, <2>1, <2>2, <2>3, <2>4, QueuePlaces
<1>13. CASE End(w)
  <2>1. InHand(w) /\ line' = line /\ running' = running /\ Goes(w, "settle")
    BY <1>0, <1>00, <1>13 DEF End, places
  <2>2. QED
    BY <1>00, <1>000, <2>1, GoesRests
<1>14. CASE Settle(w)
  <2>1. InHand(w) /\ line' = line /\ running' = running /\ Goes(w, "drain")
    BY <1>0, <1>00, <1>14 DEF Settle, places
  <2>2. QED
    BY <1>00, <1>000, <2>1, GoesRests
<1>15. QED
  BY <1>1, <1>2, <1>3, <1>4, <1>5, <1>6, <1>7, <1>8, <1>9, <1>10, <1>11, <1>12, <1>13, <1>14
     DEF Work

LEMMA TaskPlaces ==
  ASSUME Placed, JavaOK, NEW r \in DOMAIN tasks, Task(r)
  PROVE  Placed'
<1>1. KnownOK /\ PlacesOK /\ r \in Requests
  BY DEF JavaOK, TasksOK
<1>2. CASE PerformTask(r) \/ CountReply(r)
  BY <1>2, JobsRest DEF PerformTask, CountReply, places
<1>3. CASE QueueReply(r)
  <2>1. PICK event : Queue(r[1], event, 0)
    BY <1>3 DEF QueueReply
  <2>2. job' = job
    BY <1>3 DEF QueueReply
  <2>3. r[1] \in Machines /\ 0 \in 0 .. threads
    BY <1>1, WorkersAre DEF Requests
  <2>4. QED
    BY <1>1, <2>1, <2>2, <2>3, QueuePlaces
<1>4. QED
  BY <1>2, <1>3 DEF Task

LEMMA JavaPlaces ==
  ASSUME Placed, JavaOK, JavaNext
  PROVE  Placed'
<1>1. CASE Quiet
  BY <1>1, JobsRest DEF Quiet, Decide, places
<1>2. QED
  BY <1>1, WorkPlaces, TaskPlaces DEF JavaNext, Works, Tasks

\* No machine is anywhere when the scheduler has none, and the root is where
\* `run` put it.
LEMMA PlacesStart ==
  ASSUME Init
  PROVE  Placed
<1>0. 1 \in WorkerIds
  BY LoopAssumption DEF WorkerIds
<1>1. JavaRest
  BY DEF Init, JavaInit
<1>2. \A w \in WorkerIds : ~InHand(w)
  BY <1>1 DEF JavaRest, Idle, InHand
<1>3. HandsOnce /\ Apart /\ \A m : ~InHands(m)
  BY <1>2 DEF HandsOnce, Apart, InHands
<1>4. CASE NoJava
  <2>1. \A w \in WorkerIds : \A i \in 1 .. Len(line[w]) : FALSE
    BY <1>4 DEF NoJava
  <2>2. LinesOnce /\ \A m : ~InLine(m)
    BY <2>1 DEF LinesOnce, InLine
  <2>3. QED
    BY <1>3, <1>4, <2>2 DEF NoJava, Placed, RunningIs
<1>5. CASE JavaInit
  <2>1. /\ line[1] = <<Root>> /\ \A w \in WorkerIds : w # 1 => line[w] = << >>
        /\ running = {Root}
    BY <1>0, <1>5 DEF JavaInit
  <2>2. Len(line[1]) = 1 /\ line[1][1] = Root
    BY <2>1
  <2>3. \A w \in WorkerIds : \A i \in 1 .. Len(line[w]) : w = 1 /\ i = 1
    <3>1. \A i \in 1 .. Len(line[1]) : i = 1
      BY <2>2
    <3>2. \A w \in WorkerIds : w # 1 => \A i \in 1 .. Len(line[w]) : FALSE
      BY <2>1
    <3>3. QED
      BY <3>1, <3>2
  <2>4. LinesOnce
    BY <2>3 DEF LinesOnce
  <2>5. \A m : InLine(m) <=> m = Root
    <3>1. 1 \in 1 .. Len(line[1])
      BY <2>2
    <3>2. QED
      BY <1>0, <2>2, <2>3, <3>1 DEF InLine
  <2>6. QED
    BY <1>3, <2>1, <2>4, <2>5 DEF Placed, RunningIs
<1>6. QED
  BY <1>4, <1>5 DEF Init

LEMMA PlacesStep ==
  ASSUME Placed, AllOK, [Next]_vars
  PROVE  Placed'
<1>1. JavaOK
  BY DEF AllOK, TypesOK
<1>2. CASE Parallel
  BY <1>1, <1>2, JavaPlaces DEF Parallel
<1>3. CASE ~Parallel
  <2>1. UNCHANGED java
    BY <1>3 DEF Next, Single, Native, vars
  <2>2. QED
    BY <2>1, JobsRest DEF java, places
<1>4. QED
  BY <1>2, <1>3

\* A machine is in one worker's line or hands at most, and marked running for
\* as long: no two threads call one handle.
THEOREM OneWorkerEachAlways == Spec => []OneWorkerEach
<1>1. Init => AllOK /\ Placed
  BY AllStart, PlacesStart
<1>2. AllOK /\ Placed /\ [Next]_vars => (AllOK /\ Placed)'
  BY AllSteps, PlacesStep
<1>3. AllOK /\ Placed => OneWorkerEach
  BY PlacedIs DEF AllOK, TypesOK, JavaOK
<1>4. QED
  BY <1>1, <1>2, <1>3, PTL DEF Spec

-----------------------------------------------------------------------------
(* Each request is asked once                                               *)

\* The requests of m in s are none of those in D, have ids up to top, and
\* are different.
Unasked(m, s, top, D) ==
  \A i \in 1 .. Len(s) : s[i].kind \in Asks =>
    /\ s[i].id <= top /\ <<m, s[i].id>> \notin D
    /\ \A j \in 1 .. Len(s) : s[j].kind \in Asks /\ s[j].id = s[i].id => j = i

\* The requests in t have ids after `from` and up to `to`, all different.
Minted(t, from, to) ==
  \A i \in 1 .. Len(t) : t[i].kind \in Asks =>
    /\ from < t[i].id /\ t[i].id <= to
    /\ \A j \in 1 .. Len(t) : t[j].kind \in Asks /\ t[j].id = t[i].id => j = i

\* No request is in t.
Plain(t) == \A i \in 1 .. Len(t) : t[i].kind \notin Asks

LEMMA UnaskedNone ==
  ASSUME NEW m, NEW top, NEW D
  PROVE  Unasked(m, << >>, top, D)
  BY DEF Unasked

LEMMA UnaskedLater ==
  ASSUME NEW m, NEW s \in Seq(Framed), NEW top \in Nat, NEW later \in Nat, top <= later,
         NEW D, NEW E, E \subseteq D, Unasked(m, s, top, D)
  PROVE  Unasked(m, s, later, E)
<1>1. \A i \in 1 .. Len(s) : s[i].id \in Nat
  <2>1. \A i \in 1 .. Len(s) : s[i] \in Framed
    OBVIOUS
  <2>2. QED
    BY <2>1 DEF Framed
<1>2. \A i \in 1 .. Len(s) : s[i].id <= top => s[i].id <= later
  BY <1>1
<1>3. QED
  BY <1>2 DEF Unasked

LEMMA UnaskedRest ==
  ASSUME NEW m, NEW s \in Seq(Framed), s # << >>, NEW top, NEW D, Unasked(m, s, top, D)
  PROVE  /\ Unasked(m, Tail(s), top, D)
         /\ Head(s).kind \in Asks =>
              /\ Head(s).id <= top /\ <<m, Head(s).id>> \notin D
              /\ Unasked(m, Tail(s), top, D \cup {<<m, Head(s).id>>})
<1> DEFINE n == Len(s)
           t == Tail(s)
<1>1. /\ n \in Nat /\ n >= 1 /\ Head(s) = s[1] /\ Len(t) = n - 1
      /\ \A i \in 1 .. n - 1 : t[i] = s[i + 1]
  BY HeadTailProperties
<1>2. \A i \in 1 .. n - 1 : i + 1 \in 1 .. n /\ i + 1 # 1
  BY <1>1
<1>3. \A i, j \in 1 .. n - 1 : j + 1 = i + 1 => j = i
  OBVIOUS
<1> HIDE DEF t
<1>4. ASSUME NEW i \in 1 .. Len(t), t[i].kind \in Asks
      PROVE  /\ t[i].id <= top /\ <<m, t[i].id>> \notin D
             /\ \A j \in 1 .. Len(t) : t[j].kind \in Asks /\ t[j].id = t[i].id => j = i
  <2>1. i \in 1 .. n - 1 /\ t[i] = s[i + 1] /\ i + 1 \in 1 .. n
    BY <1>1, <1>2
  <2>2. /\ s[i + 1].id <= top /\ <<m, s[i + 1].id>> \notin D
        /\ \A j \in 1 .. n : s[j].kind \in Asks /\ s[j].id = s[i + 1].id => j = i + 1
    BY <1>4, <2>1 DEF Unasked
  <2>3. ASSUME NEW j \in 1 .. Len(t), t[j].kind \in Asks, t[j].id = t[i].id
        PROVE  j = i
    <3>1. j \in 1 .. n - 1 /\ t[j] = s[j + 1] /\ j + 1 \in 1 .. n
      BY <1>1, <1>2
    <3>2. j + 1 = i + 1
      BY <2>1, <2>2, <2>3, <3>1
    <3>3. QED
      BY <1>3, <2>1, <3>1, <3>2
  <2>4. QED
    BY <2>1, <2>2, <2>3
<1>5. ASSUME s[1].kind \in Asks
      PROVE  /\ s[1].id <= top /\ <<m, s[1].id>> \notin D
             /\ \A i \in 1 .. Len(t) : t[i].kind \in Asks => t[i].id # s[1].id
  <2>1. 1 \in 1 .. n
    BY <1>1
  <2>2. /\ s[1].id <= top /\ <<m, s[1].id>> \notin D
        /\ \A j \in 1 .. n : s[j].kind \in Asks /\ s[j].id = s[1].id => j = 1
    BY <1>5, <2>1 DEF Unasked
  <2>3. QED
    BY <1>1, <1>2, <2>2
<1>6. Unasked(m, t, top, D)
  BY <1>4 DEF Unasked
<1>7. s[1].kind \in Asks => Unasked(m, t, top, D \cup {<<m, s[1].id>>})
  BY <1>4, <1>5 DEF Unasked
<1>8. QED
  BY <1>1, <1>5, <1>6, <1>7 DEF t

LEMMA UnaskedMore ==
  ASSUME NEW m, NEW s \in Seq(Framed), NEW t \in Seq(Framed), NEW top \in Nat,
         NEW later \in Nat, top <= later, NEW D, Unasked(m, s, top, D),
         Minted(t, top, later) \/ Plain(t),
         \A r \in D : r[1] = m => r[2] <= top
  PROVE  Unasked(m, s \o t, later, D)
<1> DEFINE n == Len(s)
           k == Len(t)
           u == s \o t
<1>1. /\ n \in Nat /\ k \in Nat /\ Len(u) = n + k
      /\ \A i \in 1 .. n + k : u[i] = IF i <= n THEN s[i] ELSE t[i - n]
  BY ConcatProperties
<1>2. \A i \in 1 .. n + k : IF i <= n THEN i \in 1 .. n ELSE i - n \in 1 .. k
  BY <1>1
<1>3. (\A i \in 1 .. n : s[i].id \in Nat) /\ (\A i \in 1 .. k : t[i].id \in Nat)
  <2>1. (\A i \in 1 .. n : s[i] \in Framed) /\ (\A i \in 1 .. k : t[i] \in Framed)
    OBVIOUS
  <2>2. QED
    BY <2>1 DEF Framed
<1> HIDE DEF u, n, k
<1>4. \A i \in 1 .. n : s[i].kind \in Asks =>
        /\ s[i].id <= top /\ s[i].id <= later /\ <<m, s[i].id>> \notin D
        /\ \A j \in 1 .. n : s[j].kind \in Asks /\ s[j].id = s[i].id => j = i
  BY <1>3 DEF Unasked, n
<1>5. \A i \in 1 .. k : t[i].kind \in Asks =>
        /\ ~(t[i].id <= top) /\ t[i].id <= later
        /\ \A j \in 1 .. k : t[j].kind \in Asks /\ t[j].id = t[i].id => j = i
  BY <1>3 DEF Minted, Plain, k
<1>6. \A i \in 1 .. k : t[i].kind \in Asks => <<m, t[i].id>> \notin D
  BY <1>5
<1>7. ASSUME NEW i \in 1 .. n + k, u[i].kind \in Asks
      PROVE  /\ u[i].id <= later /\ <<m, u[i].id>> \notin D
             /\ \A j \in 1 .. n + k : u[j].kind \in Asks /\ u[j].id = u[i].id => j = i
  <2>1. CASE i <= n
    <3>1. i \in 1 .. n /\ u[i] = s[i]
      BY <1>1, <1>2, <2>1
    <3>2. ASSUME NEW j \in 1 .. n + k, u[j].kind \in Asks, u[j].id = u[i].id
          PROVE  j = i
      <4>1. CASE j <= n
        <5>1. j \in 1 .. n /\ u[j] = s[j]
          BY <1>1, <1>2, <4>1
        <5>2. QED
          BY <1>4, <1>7, <3>1, <3>2, <5>1
      <4>2. CASE ~(j <= n)
        <5>1. j - n \in 1 .. k /\ u[j] = t[j - n]
          BY <1>1, <1>2, <4>2
        <5>2. ~(t[j - n].id <= top) /\ s[i].id <= top
          BY <1>4, <1>5, <1>7, <3>1, <3>2, <5>1
        <5>3. QED
          BY <3>1, <3>2, <5>1, <5>2
      <4>3. QED
        BY <4>1, <4>2
    <3>3. QED
      BY <1>4, <1>7, <3>1, <3>2
  <2>2. CASE ~(i <= n)
    <3>1. i - n \in 1 .. k /\ u[i] = t[i - n]
      BY <1>1, <1>2, <2>2
    <3>2. ASSUME NEW j \in 1 .. n + k, u[j].kind \in Asks, u[j].id = u[i].id
          PROVE  j = i
      <4>1. CASE j <= n
        <5>1. j \in 1 .. n /\ u[j] = s[j]
          BY <1>1, <1>2, <4>1
        <5>2. ~(t[i - n].id <= top) /\ s[j].id <= top
          BY <1>4, <1>5, <1>7, <3>1, <3>2, <5>1
        <5>3. QED
          BY <3>1, <3>2, <5>1, <5>2
      <4>2. CASE ~(j <= n)
        <5>1. j - n \in 1 .. k /\ u[j] = t[j - n]
          BY <1>1, <1>2, <4>2
        <5>2. j - n = i - n
          BY <1>5, <1>7, <3>1, <3>2, <5>1
        <5>3. QED
          BY <1>1, <5>2
      <4>3. QED
        BY <4>1, <4>2
    <3>3. QED
      BY <1>5, <1>6, <1>7, <3>1, <3>2
  <2>3. QED
    BY <2>1, <2>2
<1>8. Unasked(m, u, later, D)
  BY <1>1, <1>7 DEF Unasked
<1>9. QED
  BY <1>8 DEF u

\* A batch has the requests of the output it is made from.
LEMMA UnaskedFrames ==
  ASSUME NEW m, NEW o \in Outs, NEW top \in Nat, NEW D, Unasked(m, o.effects, top, D),
         \A r \in D : r[1] = m => r[2] <= top
  PROVE  Unasked(m, Frames(o), top, D)
<1> DEFINE c == [i \in DOMAIN o.closed |-> Frame("closed", o.closed[i])]
           w == [i \in DOMAIN o.woke |-> Frame("woke", o.woke[i])]
<1>1. /\ DOMAIN o.closed = 1 .. Len(o.closed) /\ Len(o.closed) \in Nat
      /\ DOMAIN o.woke = 1 .. Len(o.woke) /\ Len(o.woke) \in Nat
      /\ \A i \in 1 .. Len(o.closed) : o.closed[i] \in Nat
      /\ \A i \in 1 .. Len(o.woke) : o.woke[i] \in Machines /\ o.woke[i] \in Nat
      /\ o.effects \in Seq(GoodEffect)
  BY RangeIs, LanesAre DEF Outs
<1>2. /\ "closed" \in Kinds /\ "woke" \in Kinds /\ "closed" \notin Wakes1
      /\ "closed" \notin Asks /\ "woke" \notin Asks
  BY DEF Kinds, Wakes1, Asks
<1>3. c \in Seq(Framed) /\ Plain(c)
  <2>1. \A i \in 1 .. Len(o.closed) :
          Frame("closed", o.closed[i]) \in Framed /\ Frame("closed", o.closed[i]).kind = "closed"
    BY <1>1, <1>2, FrameIs
  <2>2. c \in Seq(Framed) /\ Len(c) = Len(o.closed)
    BY <1>1, <2>1, MappedIs
  <2>3. QED
    BY <1>1, <1>2, <2>1, <2>2 DEF Plain
<1>4. w \in Seq(Framed) /\ Plain(w)
  <2>1. \A i \in 1 .. Len(o.woke) :
          Frame("woke", o.woke[i]) \in Framed /\ Frame("woke", o.woke[i]).kind = "woke"
    BY <1>1, <1>2, FrameIs
  <2>2. w \in Seq(Framed) /\ Len(w) = Len(o.woke)
    BY <1>1, <2>1, MappedIs
  <2>3. QED
    BY <1>1, <1>2, <2>1, <2>2 DEF Plain
<1>5. Frames(o) = (o.effects \o c) \o w
  BY DEF Frames
<1> HIDE DEF c, w
<1>6. o.effects \in Seq(Framed)
  BY <1>1, EffectsFramed
<1>7. top <= top
  OBVIOUS
<1>8. Unasked(m, o.effects \o c, top, D)
  BY <1>3, <1>6, <1>7, UnaskedMore
<1>9. o.effects \o c \in Seq(Framed)
  BY <1>3, <1>6, ConcatProperties
<1>10. Unasked(m, (o.effects \o c) \o w, top, D)
  BY <1>4, <1>7, <1>8, <1>9, UnaskedMore
<1>11. QED
  BY <1>5, <1>10

\* What a poll's step adds to its machine's effects: nothing, an effect that
\* asks nothing, or requests it has just minted.
Added(m, t) ==
  /\ t \in Seq(GoodEffect)
  /\ out'[m].effects = out[m].effects \o t
  /\ \A x \in Machines : x # m => out'[x] = out[x] /\ minted'[x] = minted[x]
  /\ minted'[m] \in Nat /\ minted[m] <= minted'[m]
  /\ Minted(t, minted[m], minted'[m]) \/ Plain(t)

LEMMA AddedNone ==
  ASSUME RoutinesOK, NEW m \in Machines, minted' = minted,
         out'[m].effects = out[m].effects, \A x \in Machines : x # m => out'[x] = out[x]
  PROVE  Added(m, << >>)
<1>1. minted[m] \in Nat
  BY DEF RoutinesOK, MailOK
<1>2. minted'[m] \in Nat /\ minted[m] <= minted'[m]
  BY <1>1
<1>3. out[m].effects \in Seq(GoodEffect) /\ << >> \in Seq(GoodEffect)
  BY DEF RoutinesOK, OutOK, Outs
<1>4. out[m].effects \o << >> = out[m].effects
  BY <1>3
<1>5. Plain(<< >>)
  BY DEF Plain
<1>6. QED
  BY <1>2, <1>3, <1>4, <1>5 DEF Added

LEMMA EmitsIs ==
  ASSUME OutOK, NEW m \in Machines, NEW s, Emits(m, s)
  PROVE  /\ out'[m].effects = out[m].effects \o s
         /\ \A x \in Machines : x # m => out'[x] = out[x]
  BY DEF Emits, OutOK, Outs

LEMMA AddedOne ==
  ASSUME RoutinesOK, NEW m \in Machines, minted' = minted, NEW e \in GoodEffect,
         e.kind \notin Asks, Emits(m, <<e>>)
  PROVE  Added(m, <<e>>)
<1>1. minted[m] \in Nat
  BY DEF RoutinesOK, MailOK
<1>2. minted'[m] \in Nat /\ minted[m] <= minted'[m]
  BY <1>1
<1>3. <<e>> \in Seq(GoodEffect) /\ Plain(<<e>>)
  BY DEF Plain
<1>4. QED
  BY <1>2, <1>3, EmitsIs DEF Added, RoutinesOK

LEMMA WakesAdd ==
  ASSUME RoutinesOK, NEW m \in Machines, NEW S, Wakes(m, S)
  PROVE  /\ out'[m].effects = out[m].effects
         /\ \A x \in Machines : x # m => out'[x] = out[x]
  BY DEF Wakes, RoutinesOK, OutOK, Outs

\* The effect of a request.
Asked(kind, id, n) == [kind |-> kind, id |-> id, text |-> "", n |-> n]

LEMMA AskedIs ==
  ASSUME NEW kind \in Asks, NEW id \in Nat, NEW n \in Int
  PROVE  Asked(kind, id, n) \in GoodEffect
<1>1. kind \in Asks \cup {"write"} /\ "" \in Text
  BY DEF Text
<1>2. QED
  BY <1>1, EffectIs DEF Asked

LEMMA RecordAdds ==
  ASSUME RoutinesOK, NEW m \in Machines, Record(m)
  PROVE  \E t : Added(m, t)
<1> DEFINE kinds == Here(m).kinds
           n == Len(kinds)
           top == minted[m]
           ids == [i \in 1 .. n |-> top + i]
           nn(i) == IF kinds[i] = "write_file" THEN got[m] + 1 ELSE 0
           recorded == [i \in 1 .. n |->
                          [kind |-> kinds[i], id |-> ids[i], text |-> "", n |-> nn(i)]]
<1>1. kinds \in Seq(Asks)
  <2>1. Here(m) \in Records(demo)
    BY IsHere DEF Record
  <2>2. QED
    BY <2>1 DEF Records
<1>2. n \in Nat /\ top \in Nat /\ got[m] \in Int /\ \A i \in 1 .. n : kinds[i] \in Asks
  BY <1>1 DEF RoutinesOK, PlaceOK, MailOK
<1>3. minted' = [minted EXCEPT ![m] = @ + n] /\ Emits(m, recorded)
  BY DEF Record
<1> HIDE DEF kinds, n, top
<1>4. \A i \in 1 .. n : /\ ids[i] = top + i /\ ids[i] \in Nat
                        /\ top < ids[i] /\ ids[i] <= top + n
  BY <1>2
<1>5. \A i, j \in 1 .. n : ids[i] = ids[j] => i = j
  BY <1>2, <1>4
<1> HIDE DEF ids
<1>6. \A i \in 1 .. n : /\ recorded[i].kind = kinds[i] /\ recorded[i].id = ids[i]
                        /\ recorded[i] \in GoodEffect
  <2>1. \A i \in 1 .. n : /\ recorded[i].kind = kinds[i] /\ recorded[i].id = ids[i]
                          /\ recorded[i] = Asked(kinds[i], ids[i], nn(i))
    BY DEF Asked
  <2>2. \A i \in 1 .. n : kinds[i] \in Asks /\ ids[i] \in Nat /\ nn(i) \in Int
    BY <1>2, <1>4
  <2> HIDE DEF recorded, nn
  <2>3. \A i \in 1 .. n : Asked(kinds[i], ids[i], nn(i)) \in GoodEffect
    BY <2>2, AskedIs
  <2>4. QED
    BY <2>1, <2>3
<1>7. recorded \in Seq(GoodEffect) /\ Len(recorded) = n
  <2>1. recorded = [i \in 1 .. n |-> recorded[i]]
    OBVIOUS
  <2> HIDE DEF recorded
  <2>2. recorded \in [1 .. n -> GoodEffect]
    BY <1>6, <2>1
  <2>3. QED
    BY <1>2, <2>2
<1> HIDE DEF recorded
<1>8. minted'[m] = top + n /\ \A x \in Machines : x # m => minted'[x] = minted[x]
  BY <1>3 DEF top, RoutinesOK, MailOK
<1>9. top + n \in Nat /\ top <= top + n
  BY <1>2
<1>10. Minted(recorded, top, top + n)
  BY <1>4, <1>5, <1>6, <1>7 DEF Minted
<1>11. /\ out'[m].effects = out[m].effects \o recorded
       /\ \A x \in Machines : x # m => out'[x] = out[x]
  BY <1>3, EmitsIs DEF RoutinesOK
<1>12. Added(m, recorded)
  BY <1>7, <1>8, <1>9, <1>10, <1>11 DEF Added, top
<1>13. QED
  BY <1>12

LEMMA PollAdds ==
  ASSUME RoutinesOK, NEW m \in Machines, PollStep(m)
  PROVE  \E t : Added(m, t)
<1>1. CASE WriteLine(m)
  <2> DEFINE e == [kind |-> "write", id |-> 0, text |-> Here(m).text,
                   n |-> IF Here(m).op = "show" THEN got[m] ELSE 0]
  <2>1. Here(m).text \in Text
    <3>1. Here(m) \in Records(demo)
      BY <1>1, IsHere DEF WriteLine
    <3>2. QED
      BY <3>1 DEF Records
  <2>2. (IF Here(m).op = "show" THEN got[m] ELSE 0) \in Int
    BY DEF RoutinesOK, PlaceOK
  <2>3. e \in GoodEffect
    BY <2>1, <2>2, EffectIs
  <2>4. e.kind \notin Asks
    BY DEF Asks
  <2>5. Emits(m, <<e>>) /\ minted' = minted
    BY <1>1 DEF WriteLine
  <2> HIDE DEF e
  <2>6. QED
    BY <2>3, <2>4, <2>5, AddedOne
<1>2. CASE SpawnChild(m)
  <2>1. PICK c \in Machines : Emits(m, <<[kind |-> Here(m).op, id |-> c, text |-> "", n |-> 0]>>)
    BY <1>2 DEF SpawnChild
  <2> DEFINE e == [kind |-> Here(m).op, id |-> c, text |-> "", n |-> 0]
  <2>2. Here(m).op \in {"spawned", "spawned_pinned"} /\ minted' = minted
    BY <1>2 DEF SpawnChild, Is
  <2>3. c \in Nat /\ "" \in Text /\ 0 \in Int
    BY DEF Machines, Text
  <2>4. e \in GoodEffect
    BY <2>2, <2>3, SpawnEffectIs
  <2>5. e.kind \notin Asks
    BY <2>2 DEF Asks
  <2>6. Emits(m, <<e>>)
    BY <2>1
  <2> HIDE DEF e
  <2>7. QED
    BY <2>2, <2>4, <2>5, <2>6, AddedOne
<1>3. CASE SendMessage(m)
  <2>1. minted' = minted /\ (out' = out \/ \E S : Wakes(m, S))
    BY <1>3 DEF SendMessage
  <2>2. QED
    BY <2>1, WakesAdd, AddedNone
<1>4. CASE Receive(m) \/ Collect(m) \/ JoinBoth(m) \/ Continue(m) \/ Suspend(m)
  <2>1. minted' = minted /\ out' = out
    BY <1>4 DEF Receive, Collect, JoinBoth, Continue, Suspend
  <2>2. QED
    BY <2>1, AddedNone
<1>5. CASE SelectFirst(m)
  <2>1. minted' = minted /\ \E closing : out' = [out EXCEPT ![m].closed = @ \o closing]
    BY <1>5 DEF SelectFirst
  <2>2. /\ out'[m].effects = out[m].effects
        /\ \A x \in Machines : x # m => out'[x] = out[x]
    BY <2>1 DEF RoutinesOK, OutOK, Outs
  <2>3. QED
    BY <2>1, <2>2, AddedNone
<1>6. CASE DropEnds(m) \/ Return(m)
  <2>1. minted' = minted /\ \E S : Wakes(m, S)
    BY <1>6 DEF DropEnds, Return
  <2>2. QED
    BY <2>1, WakesAdd, AddedNone
<1>7. QED
  BY <1>1, <1>2, <1>3, <1>4, <1>5, <1>6, RecordAdds DEF PollStep

Batching == {"dispatch", "counted"}

\* No task has a request still to be asked, no request is asked twice, and a
\* machine whose batch is being dispatched has nothing else to ask.
Fresh ==
  /\ \A r \in DOMAIN tasks : r[2] <= minted[r[1]]
  /\ \A m \in Machines : Unasked(m, out[m].effects, minted[m], DOMAIN tasks)
  /\ \A w \in WorkerIds : job[w].pc \in Batching =>
       /\ out[job[w].m].effects = << >>
       /\ Unasked(job[w].m, batch[w], minted[job[w].m], DOMAIN tasks)

LEMMA EffectsAre ==
  ASSUME RoutinesOK, NEW m \in Machines
  PROVE  out[m].effects \in Seq(Framed) /\ minted[m] \in Nat
<1>1. out[m].effects \in Seq(GoodEffect) /\ minted[m] \in Nat
  BY DEF RoutinesOK, OutOK, Outs, MailOK
<1>2. QED
  BY <1>1, EffectsFramed

LEMMA BatchingIs ==
  ASSUME JavaOK, NEW w \in WorkerIds, job[w].pc \in Batching
  PROVE  InHand(w) /\ job[w].m \in Machines /\ batch[w] \in Seq(Framed)
<1>1. InHand(w)
  BY DEF Batching, InHand
<1>2. QED
  BY <1>1 DEF JavaOK, JobsOK, BatchOK

\* A step that asks nothing: it mints no request and adds no task or effect,
\* and leaves the batches, or takes a frame off one.
LEMMA FreshRests ==
  ASSUME Fresh, RoutinesOK, JavaOK, NEW w \in WorkerIds, minted' = minted,
         DOMAIN tasks' \subseteq DOMAIN tasks,
         \A m \in Machines : out'[m].effects = out[m].effects \/ out'[m].effects = << >>,
         \A x \in WorkerIds : x # w => job'[x] = job[x] /\ batch'[x] = batch[x],
         job'[w].pc \in Batching =>
           /\ job'[w].m = job[w].m /\ job[w].pc \in Batching
           /\ batch'[w] = batch[w] \/ (batch[w] # << >> /\ batch'[w] = Tail(batch[w]))
  PROVE  Fresh'
<1>1. \A r \in DOMAIN tasks' : r[2] <= minted'[r[1]]
  BY DEF Fresh
<1>2. \A m \in Machines : Unasked(m, out'[m].effects, minted'[m], DOMAIN tasks')
  <2> TAKE m \in Machines
  <2>1. CASE out'[m].effects = out[m].effects
    <3>1. minted[m] \in Nat /\ minted[m] <= minted[m] /\ out[m].effects \in Seq(Framed)
      BY EffectsAre
    <3>2. Unasked(m, out[m].effects, minted[m], DOMAIN tasks)
      BY DEF Fresh
    <3>3. Unasked(m, out[m].effects, minted[m], DOMAIN tasks')
      BY <3>1, <3>2, UnaskedLater
    <3>4. QED
      BY <2>1, <3>3
  <2>2. CASE out'[m].effects = << >>
    BY <2>2, UnaskedNone
  <2>3. QED
    BY <2>1, <2>2
<1>3. ASSUME NEW x \in WorkerIds, job'[x].pc \in Batching
      PROVE  /\ out'[job'[x].m].effects = << >>
             /\ Unasked(job'[x].m, batch'[x], minted'[job'[x].m], DOMAIN tasks')
  <2>1. /\ job'[x].m = job[x].m /\ job[x].pc \in Batching
        /\ batch'[x] = batch[x] \/ (batch[x] # << >> /\ batch'[x] = Tail(batch[x]))
    BY <1>3
  <2>2. job[x].m \in Machines /\ batch[x] \in Seq(Framed)
    BY <2>1, BatchingIs
  <2>3. /\ out[job[x].m].effects = << >>
        /\ Unasked(job[x].m, batch[x], minted[job[x].m], DOMAIN tasks)
    BY <2>1 DEF Fresh
  <2> DEFINE m == job[x].m
  <2> HIDE DEF m
  <2>4. m \in Machines /\ Unasked(m, batch[x], minted[m], DOMAIN tasks)
    BY <2>2, <2>3 DEF m
  <2>5. minted[m] \in Nat /\ minted[m] <= minted[m]
    BY <2>4, EffectsAre
  <2>6. Unasked(m, batch'[x], minted[m], DOMAIN tasks')
    <3>1. CASE batch'[x] = batch[x]
      <4>1. Unasked(m, batch[x], minted[m], DOMAIN tasks')
        BY <2>2, <2>4, <2>5, UnaskedLater
      <4>2. QED
        BY <3>1, <4>1
    <3>2. CASE batch[x] # << >> /\ batch'[x] = Tail(batch[x])
      <4>1. Unasked(m, Tail(batch[x]), minted[m], DOMAIN tasks)
        BY <2>2, <2>4, <3>2, UnaskedRest
      <4>2. Tail(batch[x]) \in Seq(Framed)
        BY <2>2, <3>2, HeadTailProperties
      <4>3. Unasked(m, Tail(batch[x]), minted[m], DOMAIN tasks')
        BY <2>5, <4>1, <4>2, UnaskedLater
      <4>4. QED
        BY <3>2, <4>3
    <3>3. QED
      BY <2>1, <3>1, <3>2
  <2>7. out'[m].effects = << >>
    BY <2>2, <2>3 DEF m
  <2>8. QED
    BY <2>1, <2>6, <2>7 DEF m
<1>4. QED
  BY <1>1, <1>2, <1>3 DEF Fresh

\* A poll may mint requests; no worker is dispatching that machine's batch.
LEMMA FreshPoll ==
  ASSUME Fresh, RoutinesOK, JavaOK, Placed, NEW w \in WorkerIds, Poll(w)
  PROVE  Fresh'
<1> DEFINE m == job[w].m
<1>1. /\ InHand(w) /\ job[w].pc = "call" /\ m \in Machines /\ PollStep(m)
      /\ job' = job /\ batch' = batch /\ tasks' = tasks
  <2>1. InHand(w) /\ job[w].pc = "call" /\ PollStep(m)
    BY DEF Poll, At, InHand
  <2>2. QED
    BY <2>1 DEF Poll, java, asking, JavaOK, JobsOK
<1>2. \A x \in WorkerIds : job[x].pc \in Batching =>
        InHand(x) /\ job[x].m \in Machines /\ job[x].m # m
  <2> TAKE x \in WorkerIds
  <2> HAVE job[x].pc \in Batching
  <2>1. InHand(x) /\ job[x].m \in Machines
    BY BatchingIs
  <2>2. x # w
    BY <1>1 DEF Batching
  <2>3. job[x].m # m
    BY <1>1, <2>1, <2>2 DEF Placed, HandsOnce
  <2>4. QED
    BY <2>1, <2>3
<1> HIDE DEF m
<1>3. PICK t : Added(m, t)
  BY <1>1, PollAdds
<1>4. /\ t \in Seq(Framed) /\ out'[m].effects = out[m].effects \o t
      /\ \A x \in Machines : x # m => out'[x] = out[x] /\ minted'[x] = minted[x]
      /\ minted'[m] \in Nat /\ minted[m] <= minted'[m]
      /\ Minted(t, minted[m], minted'[m]) \/ Plain(t)
  BY <1>3, EffectsFramed DEF Added
<1>5. /\ out[m].effects \in Seq(Framed) /\ minted[m] \in Nat
      /\ Unasked(m, out[m].effects, minted[m], DOMAIN tasks)
      /\ \A r \in DOMAIN tasks : r[1] = m => r[2] <= minted[m]
  <2>1. out[m].effects \in Seq(Framed) /\ minted[m] \in Nat
    BY <1>1, EffectsAre
  <2>2. QED
    BY <1>1, <2>1 DEF Fresh
<1>6. Unasked(m, out'[m].effects, minted'[m], DOMAIN tasks)
  <2> DEFINE top == minted[m]
             later == minted'[m]
             s == out[m].effects
  <2> HIDE DEF top, later, s
  <2>1. /\ t \in Seq(Framed) /\ s \in Seq(Framed) /\ top \in Nat /\ later \in Nat
        /\ top <= later /\ Unasked(m, s, top, DOMAIN tasks)
        /\ Minted(t, top, later) \/ Plain(t)
        /\ \A r \in DOMAIN tasks : r[1] = m => r[2] <= top
    BY <1>4, <1>5 DEF top, later, s
  <2>2. Unasked(m, s \o t, later, DOMAIN tasks)
    BY <2>1, UnaskedMore
  <2>3. QED
    BY <1>4, <2>2 DEF s, later
<1>7. \A x \in Machines : Unasked(x, out'[x].effects, minted'[x], DOMAIN tasks')
  <2> TAKE x \in Machines
  <2>1. CASE x = m
    BY <1>1, <1>6, <2>1
  <2>2. CASE x # m
    <3>1. out'[x] = out[x] /\ minted'[x] = minted[x]
      BY <1>4, <2>2
    <3>2. Unasked(x, out[x].effects, minted[x], DOMAIN tasks)
      BY DEF Fresh
    <3>3. QED
      BY <1>1, <3>1, <3>2
  <2>3. QED
    BY <2>1, <2>2
<1>8. \A r \in DOMAIN tasks' : r[2] <= minted'[r[1]]
  <2> TAKE r \in DOMAIN tasks'
  <2>1. r \in DOMAIN tasks /\ r \in Machines \X Nat
    BY <1>1 DEF JavaOK, TasksOK, Requests
  <2>2. r[1] \in Machines /\ r[2] \in Nat /\ r[2] <= minted[r[1]]
    BY <2>1 DEF Fresh
  <2>3. CASE r[1] = m
    <3>1. r[2] <= minted[m]
      BY <2>2, <2>3
    <3>2. r[2] <= minted'[m]
      BY <1>4, <1>5, <2>2, <3>1
    <3>3. QED
      BY <2>3, <3>2
  <2>4. CASE r[1] # m
    BY <1>4, <2>2, <2>4
  <2>5. QED
    BY <2>3, <2>4
<1>9. ASSUME NEW x \in WorkerIds, job'[x].pc \in Batching
      PROVE  /\ out'[job'[x].m].effects = << >>
             /\ Unasked(job'[x].m, batch'[x], minted'[job'[x].m], DOMAIN tasks')
  <2>1. /\ job[x].pc \in Batching /\ job'[x].m = job[x].m /\ batch'[x] = batch[x]
        /\ job[x].m \in Machines /\ job[x].m # m
    BY <1>1, <1>2, <1>9
  <2>2. out'[job[x].m] = out[job[x].m] /\ minted'[job[x].m] = minted[job[x].m]
    BY <1>4, <2>1
  <2>3. /\ out[job[x].m].effects = << >>
        /\ Unasked(job[x].m, batch[x], minted[job[x].m], DOMAIN tasks)
    BY <2>1 DEF Fresh
  <2>4. QED
    BY <1>1, <2>1, <2>2, <2>3
<1>10. QED
  BY <1>7, <1>8, <1>9 DEF Fresh

\* The call's output becomes the worker's batch.
LEMMA FreshTakes ==
  ASSUME Fresh, RoutinesOK, JavaOK, Placed, NEW w \in WorkerIds, TakesBatch(w)
  PROVE  Fresh'
<1> DEFINE m == job[w].m
           o == out[m]
<1>1. /\ InHand(w) /\ Reads(m) /\ batch' = [batch EXCEPT ![w] = Frames(o)]
      /\ Goes(w, "dispatch") /\ tasks' = tasks
  BY DEF TakesBatch, At, InHand, asking
<1>2. m \in Machines
  BY <1>1 DEF JavaOK, JobsOK
<1>3. /\ job'[w].m = m /\ \A x \in WorkerIds : x # w => job'[x] = job[x]
  BY <1>1, GoesOn DEF JavaOK, Pcs
<1>4. batch'[w] = Frames(o) /\ \A x \in WorkerIds : x # w => batch'[x] = batch[x]
  BY <1>1 DEF JavaOK, BatchOK
<1>5. o \in Outs /\ Unasked(m, o.effects, minted[m], DOMAIN tasks)
  BY <1>2 DEF RoutinesOK, OutOK, Fresh
<1>6. \A x \in WorkerIds : x # w /\ job[x].pc \in Batching => job[x].m # m
  <2> TAKE x \in WorkerIds
  <2> HAVE x # w /\ job[x].pc \in Batching
  <2>1. InHand(x)
    BY BatchingIs
  <2>2. QED
    BY <1>1, <2>1 DEF Placed, HandsOnce
<1> HIDE DEF m, o
<1>7. minted' = minted /\ out' = [out EXCEPT ![m] = Nothing]
  BY <1>1 DEF Reads
<1>8. out'[m].effects = << >> /\ \A x \in Machines : x # m => out'[x] = out[x]
  <2>1. out'[m] = Nothing /\ \A x \in Machines : x # m => out'[x] = out[x]
    BY <1>2, <1>7 DEF RoutinesOK, OutOK
  <2>2. QED
    BY <2>1 DEF Nothing
<1>9. Unasked(m, Frames(o), minted[m], DOMAIN tasks)
  <2>1. \A r \in DOMAIN tasks : r[1] = m => r[2] <= minted[m]
    BY DEF Fresh
  <2> DEFINE top == minted[m]
             D == DOMAIN tasks
  <2>2. top \in Nat
    BY <1>2, EffectsAre
  <2> HIDE DEF top, D
  <2>3. /\ o \in Outs /\ Unasked(m, o.effects, top, D)
        /\ \A r \in D : r[1] = m => r[2] <= top
    BY <1>5, <2>1 DEF top, D
  <2>4. Unasked(m, Frames(o), top, D)
    BY <2>2, <2>3, UnaskedFrames
  <2>5. QED
    BY <2>4 DEF top, D
<1>10. \A x \in Machines : Unasked(x, out'[x].effects, minted'[x], DOMAIN tasks')
  <2> TAKE x \in Machines
  <2>1. CASE x = m
    BY <1>8, <2>1, UnaskedNone
  <2>2. CASE x # m
    BY <1>1, <1>7, <1>8, <2>2 DEF Fresh
  <2>3. QED
    BY <2>1, <2>2
<1>11. ASSUME NEW x \in WorkerIds, job'[x].pc \in Batching
       PROVE  /\ out'[job'[x].m].effects = << >>
              /\ Unasked(job'[x].m, batch'[x], minted'[job'[x].m], DOMAIN tasks')
  <2>1. CASE x = w
    BY <1>1, <1>3, <1>4, <1>7, <1>8, <1>9, <2>1
  <2>2. CASE x # w
    <3>1. job'[x] = job[x] /\ batch'[x] = batch[x] /\ job[x].pc \in Batching
      BY <1>3, <1>4, <1>11, <2>2
    <3>2. job[x].m \in Machines /\ job[x].m # m
      BY <1>6, <2>2, <3>1, BatchingIs
    <3>3. /\ out[job[x].m].effects = << >>
          /\ Unasked(job[x].m, batch[x], minted[job[x].m], DOMAIN tasks)
      BY <3>1 DEF Fresh
    <3>4. out'[job[x].m] = out[job[x].m]
      BY <1>8, <3>2
    <3>5. QED
      BY <1>1, <1>7, <3>1, <3>3, <3>4
  <2>3. QED
    BY <2>1, <2>2
<1>12. \A r \in DOMAIN tasks' : r[2] <= minted'[r[1]]
  BY <1>1, <1>7 DEF Fresh
<1>13. QED
  BY <1>10, <1>11, <1>12 DEF Fresh

LEMMA UnaskedOther ==
  ASSUME NEW x, NEW s, NEW top, NEW D, NEW m, NEW id, x # m, Unasked(x, s, top, D)
  PROVE  Unasked(x, s, top, D \cup {<<m, id>>})
<1>1. \A i \in 1 .. Len(s) : <<x, s[i].id>> # <<m, id>>
  OBVIOUS
<1>2. QED
  BY <1>1 DEF Unasked

LEMMA AskTaskIs ==
  ASSUME JavaOK, NEW w \in WorkerIds, AskTask(w)
  PROVE  LET r == <<job[w].m, Head(batch[w]).id>>
         IN /\ job[w].pc = "dispatch" /\ InHand(w) /\ job[w].m \in Machines
            /\ batch[w] # << >> /\ batch[w] \in Seq(Framed)
            /\ Head(batch[w]).kind \in Asks /\ Head(batch[w]).id \in Nat
            /\ pending' = pending + 1 /\ settled' = settled
            /\ DOMAIN tasks' = DOMAIN tasks \cup {r}
            /\ tasks'[r].pc = "running"
            /\ \A q \in DOMAIN tasks : q # r => tasks'[q] = tasks[q]
            /\ batch'[w] = Tail(batch[w])
            /\ \A x \in WorkerIds : x # w => batch'[x] = batch[x]
<1> DEFINE r == <<job[w].m, Head(batch[w]).id>>
<1>1. /\ job[w].pc = "dispatch" /\ batch[w] # << >> /\ Head(batch[w]).kind \in Asks
      /\ pending' = pending + 1 /\ settled' = settled
      /\ batch' = [batch EXCEPT ![w] = Tail(@)]
      /\ tasks' = [q \in DOMAIN tasks \cup {r} |->
                     IF q = r THEN [pc |-> "running", effect |-> Head(batch[w]), n |-> 0]
                              ELSE tasks[q]]
  BY DEF AskTask, At1, At, Dispatched
<1> HIDE DEF r
<1>2. /\ DOMAIN tasks' = DOMAIN tasks \cup {r} /\ tasks'[r].pc = "running"
      /\ \A q \in DOMAIN tasks : q # r => tasks'[q] = tasks[q]
  BY <1>1
<1>3. InHand(w) /\ job[w].m \in Machines /\ batch[w] \in Seq(Framed)
  BY <1>1, BatchingIs DEF Batching
<1>4. Head(batch[w]).id \in Nat
  BY <1>1, BatchIs DEF JavaOK
<1>5. batch'[w] = Tail(batch[w]) /\ \A x \in WorkerIds : x # w => batch'[x] = batch[x]
  BY <1>1 DEF JavaOK, BatchOK
<1>6. QED
  BY <1>1, <1>2, <1>3, <1>4, <1>5 DEF r

\* A request asked is no longer among those to ask.
LEMMA FreshAsks ==
  ASSUME Fresh, RoutinesOK, JavaOK, Placed, NEW w \in WorkerIds, AskTask(w)
  PROVE  Fresh' /\ <<job[w].m, Head(batch[w]).id>> \notin DOMAIN tasks
<1> DEFINE m == job[w].m
           id == Head(batch[w]).id
           D == DOMAIN tasks
<1>1. /\ job[w].pc = "dispatch" /\ InHand(w) /\ m \in Machines /\ batch[w] # << >>
      /\ batch[w] \in Seq(Framed) /\ Head(batch[w]).kind \in Asks
      /\ DOMAIN tasks' = D \cup {<<m, id>>}
      /\ batch'[w] = Tail(batch[w])
      /\ \A x \in WorkerIds : x # w => batch'[x] = batch[x]
  BY AskTaskIs
<1>2. job' = job /\ out' = out /\ minted' = minted
  BY DEF AskTask, routines
<1>3. /\ out[m].effects = << >> /\ Unasked(m, batch[w], minted[m], D)
  BY <1>1 DEF Fresh, Batching
<1>4. /\ id <= minted[m] /\ <<m, id>> \notin D
      /\ Unasked(m, Tail(batch[w]), minted[m], D \cup {<<m, id>>})
  <2> DEFINE s == batch[w]
             top == minted[m]
  <2>1. id = Head(s).id
    OBVIOUS
  <2> HIDE DEF m, D, s, top, id
  <2>2. s \in Seq(Framed) /\ s # << >> /\ Head(s).kind \in Asks /\ Unasked(m, s, top, D)
    BY <1>1, <1>3 DEF s, top
  <2>3. /\ Head(s).id <= top /\ <<m, Head(s).id>> \notin D
        /\ Unasked(m, Tail(s), top, D \cup {<<m, Head(s).id>>})
    BY <2>2, UnaskedRest
  <2>4. QED
    BY <2>1, <2>3 DEF s, top
<1>5. \A x \in WorkerIds : x # w /\ job[x].pc \in Batching => job[x].m # m
  <2> TAKE x \in WorkerIds
  <2> HAVE x # w /\ job[x].pc \in Batching
  <2>1. InHand(x)
    BY BatchingIs
  <2>2. QED
    BY <1>1, <2>1 DEF Placed, HandsOnce
<1>6. <<m, id>> \notin DOMAIN tasks
  BY <1>4
<1> HIDE DEF m, id, D
<1>7. \A r \in DOMAIN tasks' : r[2] <= minted'[r[1]]
  <2>1. \A r \in D : r[2] <= minted[r[1]]
    BY DEF Fresh, D
  <2>2. <<m, id>>[1] = m /\ <<m, id>>[2] = id
    OBVIOUS
  <2>3. QED
    BY <1>1, <1>2, <1>4, <2>1, <2>2
<1>8. \A x \in Machines : Unasked(x, out'[x].effects, minted'[x], DOMAIN tasks')
  <2> TAKE x \in Machines
  <2>1. CASE x = m
    BY <1>2, <1>3, <2>1, UnaskedNone
  <2>2. CASE x # m
    <3>1. Unasked(x, out[x].effects, minted[x], D)
      BY DEF Fresh, D
    <3>2. Unasked(x, out[x].effects, minted[x], D \cup {<<m, id>>})
      BY <2>2, <3>1, UnaskedOther
    <3>3. QED
      BY <1>1, <1>2, <3>2
  <2>3. QED
    BY <2>1, <2>2
<1>9. ASSUME NEW x \in WorkerIds, job'[x].pc \in Batching
      PROVE  /\ out'[job'[x].m].effects = << >>
             /\ Unasked(job'[x].m, batch'[x], minted'[job'[x].m], DOMAIN tasks')
  <2>1. CASE x = w
    BY <1>1, <1>2, <1>3, <1>4, <2>1 DEF m
  <2>2. CASE x # w
    <3>1. job[x].pc \in Batching /\ job[x].m # m /\ batch'[x] = batch[x]
      BY <1>1, <1>2, <1>5, <1>9, <2>2
    <3>2. /\ out[job[x].m].effects = << >>
          /\ Unasked(job[x].m, batch[x], minted[job[x].m], D)
      BY <3>1 DEF Fresh, D
    <3>3. Unasked(job[x].m, batch[x], minted[job[x].m], D \cup {<<m, id>>})
      BY <3>1, <3>2, UnaskedOther
    <3>4. QED
      BY <1>1, <1>2, <3>1, <3>2, <3>3
  <2>3. QED
    BY <2>1, <2>2
<1>10. Fresh'
  BY <1>7, <1>8, <1>9 DEF Fresh
<1>11. QED
  BY <1>6, <1>10 DEF m, id

LEMMA EffectsRest ==
  ASSUME RoutinesOK, NEW m \in Machines,
         \/ Resumes(m) \/ (\E id, n : Replies(m, id, n)) \/ Kills(m) \/ UNCHANGED routines
  PROVE  /\ minted' = minted
         /\ \A x \in Machines : out'[x].effects = out[x].effects \/ out'[x].effects = << >>
<1>1. minted' = minted /\ (out' = out \/ out' = [out EXCEPT ![m] = Nothing])
  BY DEF Resumes, Replies, Kills, routines
<1>2. Nothing.effects = << >>
  BY DEF Nothing
<1>3. out \in [Machines -> Outs]
  BY DEF RoutinesOK, OutOK
<1>4. QED
  BY <1>1, <1>2, <1>3

LEMMA FreshWork ==
  ASSUME Fresh, RoutinesOK, JavaOK, Placed, NEW w \in WorkerIds, Work(w)
  PROVE  Fresh'
<1>0. \A pc \in Pcs \ {"idle"} : At(w, pc) => InHand(w)
  BY DEF At, InHand
<1>00. {"drain", "handle", "call", "dispatch", "counted", "spurious", "end", "settle"}
         \subseteq Pcs \ {"idle"}
  BY DEF Pcs
<1>000. JobsOK /\ BatchOK /\ TasksOK /\ job \in [WorkerIds -> Jobs]
  BY DEF JavaOK, JobsOK
<1>a. UNCHANGED routines =>
        minted' = minted /\ \A x \in Machines : out'[x].effects = out[x].effects
  BY DEF routines
<1>b. batch' = [batch EXCEPT ![w] = Tail(@)] =>
        batch'[w] = Tail(batch[w]) /\ \A x \in WorkerIds : x # w => batch'[x] = batch[x]
  BY <1>000 DEF BatchOK
<1>1. CASE Take(w)
  <2>1. \A x \in WorkerIds : x # w => job'[x] = job[x]
    BY <1>000, <1>1 DEF Take
  <2>2. job'[w].pc \notin Batching
    BY <1>000, <1>1 DEF Take, Batching
  <2>3. UNCHANGED routines /\ batch' = batch /\ tasks' = tasks
    BY <1>1 DEF Take, asking
  <2>4. QED
    BY <1>a, <2>1, <2>2, <2>3, FreshRests
<1>2. CASE Drain(w)
  <2>1. PICK new : job' = [job EXCEPT ![w] = new] /\ new.pc \in {"idle", "handle"}
    <3>1. CASE inbox[job[w].m] = << >>
      <4>1. job' = [job EXCEPT ![w] = Idle] /\ Idle.pc = "idle"
        BY <1>2, <3>1, IdleIs DEF Drain
      <4>2. QED
        BY <4>1
    <3>2. CASE inbox[job[w].m] # << >>
      <4> DEFINE e == Head(inbox[job[w].m])
                 new == [[job[w] EXCEPT !.pc = "handle"] EXCEPT !.event = e]
      <4>1. job' = [job EXCEPT ![w].pc = "handle", ![w].event = e]
        BY <1>2, <3>2 DEF Drain
      <4> HIDE DEF e
      <4>2. job' = [job EXCEPT ![w] = new]
        BY <1>000, <4>1
      <4>3. new.pc = "handle"
        BY <1>000 DEF Jobs
      <4> HIDE DEF new
      <4>4. QED
        BY <4>2, <4>3
    <3>3. QED
      BY <3>1, <3>2
  <2>2. job'[w] = new /\ \A x \in WorkerIds : x # w => job'[x] = job[x]
    BY <1>000, <2>1
  <2>3. job'[w].pc \notin Batching
    BY <2>1, <2>2 DEF Batching
  <2>4. UNCHANGED routines /\ batch' = batch /\ tasks' = tasks
    BY <1>2 DEF Drain, asking
  <2>5. QED
    BY <1>a, <2>2, <2>3, <2>4, FreshRests
<1>3. CASE HandleEvent(w)
  <2>1. /\ InHand(w) /\ batch' = batch /\ tasks' = tasks
        /\ Goes(w, "call") \/ Goes(w, "settle")
        /\ \/ Resumes(job[w].m) \/ (\E id, n : Replies(job[w].m, id, n))
           \/ UNCHANGED routines
    BY <1>0, <1>00, <1>3 DEF HandleEvent, Calls
  <2>2. job[w].m \in Machines
    BY <1>000, <2>1 DEF JobsOK
  <2>3. /\ minted' = minted
        /\ \A x \in Machines : out'[x].effects = out[x].effects \/ out'[x].effects = << >>
    BY <2>1, <2>2, EffectsRest
  <2>4. job'[w].pc \notin Batching /\ \A x \in WorkerIds : x # w => job'[x] = job[x]
    BY <1>00, <1>000, <2>1, GoesOn DEF Batching
  <2>5. QED
    BY <2>1, <2>3, <2>4, FreshRests
<1>4. CASE WriteOut(w) \/ Cancel(w)
  <2>1. /\ UNCHANGED routines /\ job' = job /\ job[w].pc = "dispatch" /\ batch[w] # << >>
        /\ batch' = [batch EXCEPT ![w] = Tail(@)]
    BY <1>4 DEF WriteOut, Cancel, At1, At, Dispatched
  <2>2. DOMAIN tasks' \subseteq DOMAIN tasks
    BY <1>4 DEF WriteOut, Cancel, asking
  <2>3. QED
    BY <1>a, <1>b, <2>1, <2>2, FreshRests DEF Batching
<1>5. CASE CountResume(w)
  <2>1. /\ UNCHANGED routines /\ tasks' = tasks /\ job[w].pc = "dispatch" /\ batch[w] # << >>
        /\ \/ batch' = [batch EXCEPT ![w] = Tail(@)] /\ job' = job
           \/ batch' = batch /\ Goes(w, "counted")
    BY <1>5 DEF CountResume, At1, At, Dispatched
  <2>2. CASE batch' = [batch EXCEPT ![w] = Tail(@)] /\ job' = job
    BY <1>a, <1>b, <2>1, <2>2, FreshRests DEF Batching
  <2>3. CASE batch' = batch /\ Goes(w, "counted")
    <3>1. InHand(w)
      BY <2>1 DEF InHand
    <3>2. job'[w].m = job[w].m /\ \A x \in WorkerIds : x # w => job'[x] = job[x]
      BY <1>00, <1>000, <2>3, <3>1, GoesOn
    <3>3. QED
      BY <1>a, <2>1, <2>3, <3>2, FreshRests DEF Batching
  <2>4. QED
    BY <2>1, <2>2, <2>3
<1>6. CASE QueueResume(w)
  <2>1. /\ UNCHANGED routines /\ tasks' = tasks /\ job[w].pc = "counted" /\ InHand(w)
        /\ batch' = [batch EXCEPT ![w] = Tail(@)] /\ Goes(w, "dispatch")
    BY <1>6 DEF QueueResume, At, Dispatched, asking, InHand
  <2>2. job'[w].m = job[w].m /\ \A x \in WorkerIds : x # w => job'[x] = job[x]
    BY <1>00, <1>000, <2>1, GoesOn
  <2>3. batch[w] # << >>
    BY <1>000, <2>1 DEF BatchOK
  <2>4. QED
    BY <1>a, <1>b, <2>1, <2>2, <2>3, FreshRests DEF Batching
<1>7. CASE Dispatch(w)
  <2>1. /\ UNCHANGED routines /\ tasks' = tasks /\ InHand(w)
        /\ Goes(w, "end") \/ Goes(w, "spurious")
    BY <1>0, <1>00, <1>7 DEF Dispatch
  <2>a. batch' = batch \/ \E s : batch' = [batch EXCEPT ![w] = s]
    BY <1>7, Zenon DEF Dispatch
  <2>2. /\ job'[w].pc \notin Batching
        /\ \A x \in WorkerIds : x # w => job'[x] = job[x]
    BY <1>00, <1>000, <2>1, GoesOn DEF Batching
  <2>3. \A x \in WorkerIds : x # w => batch'[x] = batch[x]
    BY <1>000, <2>a DEF BatchOK
  <2>4. QED
    BY <1>a, <2>1, <2>2, <2>3, FreshRests
<1>8. CASE QueueSpurious(w)
  <2>1. /\ UNCHANGED routines /\ tasks' = tasks /\ InHand(w) /\ Goes(w, "end")
        /\ batch' = [batch EXCEPT ![w] = << >>]
    BY <1>0, <1>00, <1>8 DEF QueueSpurious, asking
  <2>2. /\ job'[w].pc \notin Batching
        /\ \A x \in WorkerIds : x # w => job'[x] = job[x]
    BY <1>00, <1>000, <2>1, GoesOn DEF Batching
  <2>3. \A x \in WorkerIds : x # w => batch'[x] = batch[x]
    BY <1>000, <2>1 DEF BatchOK
  <2>4. QED
    BY <1>a, <2>1, <2>2, <2>3, FreshRests
<1>9. CASE End(w)
  <2>1. /\ InHand(w) /\ batch' = batch /\ tasks' = tasks /\ Goes(w, "settle")
        /\ Kills(job[w].m) \/ UNCHANGED routines
    BY <1>0, <1>00, <1>9 DEF End, asking
  <2>2. job[w].m \in Machines
    BY <1>000, <2>1 DEF JobsOK
  <2>3. /\ minted' = minted
        /\ \A x \in Machines : out'[x].effects = out[x].effects \/ out'[x].effects = << >>
    BY <2>1, <2>2, EffectsRest
  <2>4. job'[w].pc \notin Batching /\ \A x \in WorkerIds : x # w => job'[x] = job[x]
    BY <1>00, <1>000, <2>1, GoesOn DEF Batching
  <2>5. QED
    BY <2>1, <2>3, <2>4, FreshRests
<1>10. CASE Settle(w)
  <2>1. /\ UNCHANGED routines /\ tasks' = tasks /\ InHand(w) /\ Goes(w, "drain")
        /\ batch' = batch
    BY <1>0, <1>00, <1>10 DEF Settle
  <2>2. /\ job'[w].pc \notin Batching
        /\ \A x \in WorkerIds : x # w => job'[x] = job[x]
    BY <1>00, <1>000, <2>1, GoesOn DEF Batching
  <2>3. QED
    BY <1>a, <2>1, <2>2, FreshRests
<1>11. QED
  BY <1>1, <1>2, <1>3, <1>4, <1>5, <1>6, <1>7, <1>8, <1>9, <1>10,
     FreshPoll, FreshTakes, FreshAsks DEF Work

LEMMA FreshTask ==
  ASSUME Fresh, RoutinesOK, JavaOK, NEW r \in DOMAIN tasks, Task(r)
  PROVE  Fresh'
<1>1. UNCHANGED routines /\ job' = job /\ batch' = batch
  BY DEF Task, PerformTask, CountReply, QueueReply
<1>2. DOMAIN tasks' \subseteq DOMAIN tasks
  BY DEF Task, PerformTask, CountReply, QueueReply
<1>3. 1 \in WorkerIds
  BY LoopAssumption DEF WorkerIds
<1>4. minted' = minted /\ \A x \in Machines : out'[x].effects = out[x].effects
  BY <1>1 DEF routines
<1>5. QED
  BY <1>1, <1>2, <1>3, <1>4, FreshRests

LEMMA FreshKept ==
  ASSUME Fresh, UNCHANGED <<routines, java>>
  PROVE  Fresh'
  BY DEF Fresh, routines, java, asking

LEMMA FreshJava ==
  ASSUME Fresh, RoutinesOK, JavaOK, Placed, JavaNext
  PROVE  Fresh'
<1>1. CASE Quiet
  <2>1. UNCHANGED <<routines, java>>
    BY <1>1 DEF Quiet, Decide, java
  <2>2. QED
    BY <2>1, FreshKept
<1>2. QED
  BY <1>1, FreshWork, FreshTask DEF JavaNext, Works, Tasks

LEMMA FreshStart ==
  ASSUME Init
  PROVE  Fresh
<1>1. JavaRest /\ RoutinesInit
  BY DEF Init, JavaInit, DriveInit, PythonInit, NativeInit, LoopInit
<1>2. DOMAIN tasks = {} /\ \A w \in WorkerIds : job[w].pc \notin Batching
  BY <1>1 DEF JavaRest, Idle, Batching
<1>3. \A m \in Machines : out[m].effects = << >>
  BY <1>1 DEF RoutinesInit, Nothing
<1>4. QED
  BY <1>2, <1>3, UnaskedNone DEF Fresh

-----------------------------------------------------------------------------
(* Only Java's scheduler runs its machines                                  *)

LEMMA HostStays ==
  ASSUME [Next]_vars
  PROVE  host' = host /\ (host = "java" => Parallel \/ UNCHANGED vars)
<1>1. CASE Polling
  BY <1>1 DEF Polling, loop
<1>2. CASE DriveNext
  BY <1>2 DEF DriveNext, Kill, Stutter, Yields, Handle, Call, Fire, Judge, Driving
<1>3. CASE PythonNext
  BY <1>3 DEF PythonNext, Ran, SeededStutter, Skip, Note, Perform, Resume, Answer,
              FireTimer, Conclude, Serving
<1>4. CASE NativeNext
  <2>1. host \in {"tokio", "js"} /\ host' = host
    BY <1>4 DEF NativeNext, BeginPoll, TokioStep, AnswerNow, JsStep, EndPoll, WaitEnds,
                PromiseSettles, DispatchRequests, TokioEnds, JsEnds, On, Loops
  <2>2. QED
    BY <2>1
<1>5. CASE Parallel
  BY <1>5 DEF Parallel, JavaNext, Works, Tasks, Quiet, Elsewhere
<1>6. CASE UNCHANGED vars
  BY <1>6 DEF vars, loop
<1>7. QED
  BY <1>1, <1>2, <1>3, <1>4, <1>5, <1>6 DEF Next, Single, Native, Parallel

-----------------------------------------------------------------------------
(* The count: what it counts is five finite sets, and a step of a thread    *)
(* adds to each or takes from each one element at most                      *)

Gains(S, T) == \E x : x \notin S /\ T = S \cup {x}

\* S becomes T, which has d elements more.
Moves(S, T, d) ==
  \/ d = 0 /\ T = S
  \/ d = 1 /\ Gains(S, T)
  \/ d = -1 /\ Gains(T, S)

LEMMA MovesCount ==
  ASSUME NEW S, NEW T, NEW d, IsFiniteSet(S), Moves(S, T, d)
  PROVE  /\ IsFiniteSet(T) /\ Cardinality(S) \in Nat /\ Cardinality(T) \in Nat
         /\ d \in Int /\ Cardinality(T) = Cardinality(S) + d
<1>0. Cardinality(S) \in Nat
  BY FS_CardinalityType
<1>1. CASE d = 0 /\ T = S
  BY <1>0, <1>1
<1>2. CASE d = 1 /\ Gains(S, T)
  <2>1. PICK x : x \notin S /\ T = S \cup {x}
    BY <1>2 DEF Gains
  <2>2. IsFiniteSet(T) /\ Cardinality(T) = Cardinality(S) + 1
    BY <2>1, FS_AddElement
  <2>3. QED
    BY <1>0, <1>2, <2>2
<1>3. CASE d = -1 /\ Gains(T, S)
  <2>1. PICK x : x \notin T /\ S = T \cup {x}
    BY <1>3 DEF Gains
  <2>2. x \in S /\ T = S \ {x}
    BY <2>1
  <2>3. IsFiniteSet(T) /\ Cardinality(T) = Cardinality(S) - 1
    BY <2>2, FS_RemoveElement
  <2>4. Cardinality(T) \in Nat
    BY <2>3, FS_CardinalityType
  <2>5. QED
    BY <1>0, <1>3, <2>3, <2>4
<1>4. QED
  BY <1>1, <1>2, <1>3 DEF Moves

\* Sets that differ in one element at most.
LEMMA MovesOne ==
  ASSUME NEW S, NEW T, NEW w, \A x : x # w => (x \in S <=> x \in T)
  PROVE  /\ (w \in S <=> w \in T) => Moves(S, T, 0)
         /\ w \notin S /\ w \in T => Moves(S, T, 1)
         /\ w \in S /\ w \notin T => Moves(S, T, -1)
<1>1. ASSUME w \in S <=> w \in T
      PROVE  Moves(S, T, 0)
  <2>1. T = S
    BY <1>1
  <2>2. QED
    BY <2>1 DEF Moves
<1>2. ASSUME w \notin S, w \in T
      PROVE  Moves(S, T, 1)
  <2>1. T = S \cup {w}
    BY <1>2
  <2>2. Gains(S, T)
    BY <1>2, <2>1, Zenon DEF Gains
  <2>3. QED
    BY <2>2 DEF Moves
<1>3. ASSUME w \in S, w \notin T
      PROVE  Moves(S, T, -1)
  <2>1. S = T \cup {w}
    BY <1>3
  <2>2. Gains(T, S)
    BY <1>3, <2>1, Zenon DEF Gains
  <2>3. QED
    BY <2>2 DEF Moves
<1>4. QED
  BY <1>1, <1>2, <1>3

\* p counts the elements of five finite sets.
CountIs(p, Q, H, A, R, U) ==
  /\ IsFiniteSet(Q) /\ IsFiniteSet(H) /\ IsFiniteSet(A) /\ IsFiniteSet(R)
  /\ IsFiniteSet(U)
  /\ p = Cardinality(Q) + Cardinality(H) + Cardinality(A) + Cardinality(R)
         + Cardinality(U)

QueuedIn(f) == UNION {{m} \X DOMAIN f[m] : m \in Machines}
HandlingIn(j) == {w \in WorkerIds : j[w].pc \notin {"idle", "drain"}}
AddingIn(j) == {w \in WorkerIds : j[w].pc \in {"counted", "spurious"}}
ReplyingIn(t) == {r \in DOMAIN t : t[r].pc = "counted"}

Counted ==
  CountIs(pending, QueuedIn(inbox), HandlingIn(job), AddingIn(job),
          ReplyingIn(tasks), DOMAIN tasks \ settled)

LEMMA CountedIs ==
  ASSUME Counted
  PROVE  PendingIsExact /\ pending \in Nat
<1> DEFINE Q == QueuedIn(inbox)
           H == HandlingIn(job)
           A == AddingIn(job)
           R == ReplyingIn(tasks)
           U == DOMAIN tasks \ settled
<1>1. CountIs(pending, Q, H, A, R, U)
  BY DEF Counted
<1>2. pending = Cardinality(Q) + Cardinality(H) + Cardinality(A) + Cardinality(R)
                + Cardinality(U)
  BY <1>1 DEF CountIs
<1>3. /\ Cardinality(Q) \in Nat /\ Cardinality(H) \in Nat /\ Cardinality(A) \in Nat
      /\ Cardinality(R) \in Nat /\ Cardinality(U) \in Nat
  <2> HIDE DEF Q, H, A, R, U
  <2>1. QED
    BY <1>1, FS_CardinalityType DEF CountIs
<1>4. PendingIsExact
  BY <1>2 DEF PendingIsExact, QueuedIn, HandlingIn, AddingIn, ReplyingIn
<1> HIDE DEF Q, H, A, R, U
<1>5. QED
  BY <1>2, <1>3, <1>4

LEMMA CountMoves ==
  ASSUME NEW p, NEW Q, NEW H, NEW A, NEW R, NEW U, CountIs(p, Q, H, A, R, U),
         NEW Q2, NEW H2, NEW A2, NEW R2, NEW U2, NEW q, NEW h, NEW a, NEW r, NEW u,
         Moves(Q, Q2, q), Moves(H, H2, h), Moves(A, A2, a), Moves(R, R2, r),
         Moves(U, U2, u)
  PROVE  CountIs(p + q + h + a + r + u, Q2, H2, A2, R2, U2)
<1>1. /\ IsFiniteSet(Q) /\ IsFiniteSet(H) /\ IsFiniteSet(A) /\ IsFiniteSet(R)
      /\ IsFiniteSet(U)
      /\ p = Cardinality(Q) + Cardinality(H) + Cardinality(A) + Cardinality(R)
             + Cardinality(U)
  BY DEF CountIs
<1>2. /\ IsFiniteSet(Q2) /\ Cardinality(Q) \in Nat /\ q \in Int
      /\ Cardinality(Q2) = Cardinality(Q) + q
  BY <1>1, MovesCount
<1>3. /\ IsFiniteSet(H2) /\ Cardinality(H) \in Nat /\ h \in Int
      /\ Cardinality(H2) = Cardinality(H) + h
  BY <1>1, MovesCount
<1>4. /\ IsFiniteSet(A2) /\ Cardinality(A) \in Nat /\ a \in Int
      /\ Cardinality(A2) = Cardinality(A) + a
  BY <1>1, MovesCount
<1>5. /\ IsFiniteSet(R2) /\ Cardinality(R) \in Nat /\ r \in Int
      /\ Cardinality(R2) = Cardinality(R) + r
  BY <1>1, MovesCount
<1>6. /\ IsFiniteSet(U2) /\ Cardinality(U) \in Nat /\ u \in Int
      /\ Cardinality(U2) = Cardinality(U) + u
  BY <1>1, MovesCount
<1>7. p + q + h + a + r + u = Cardinality(Q2) + Cardinality(H2) + Cardinality(A2)
                              + Cardinality(R2) + Cardinality(U2)
  BY <1>1, <1>2, <1>3, <1>4, <1>5, <1>6
<1>8. QED
  BY <1>2, <1>3, <1>4, <1>5, <1>6, <1>7 DEF CountIs

LEMMA QueuedHas ==
  ASSUME NEW f \in [Machines -> Seq(Events)], NEW x
  PROVE  x \in QueuedIn(f)
           <=> \E m \in Machines : \E i \in 1 .. Len(f[m]) : x = <<m, i>>
<1>1. \A m \in Machines : DOMAIN f[m] = 1 .. Len(f[m])
  OBVIOUS
<1>2. QED
  BY <1>1 DEF QueuedIn

\* An inbox one event longer has one event more queued.
LEMMA QueuedMore ==
  ASSUME NEW f \in [Machines -> Seq(Events)], NEW g \in [Machines -> Seq(Events)],
         NEW m \in Machines, Len(g[m]) = Len(f[m]) + 1,
         \A x \in Machines : x # m => g[x] = f[x]
  PROVE  Gains(QueuedIn(f), QueuedIn(g))
<1> DEFINE n == Len(f[m])
           y == <<m, n + 1>>
<1>1. n \in Nat /\ Len(g[m]) = n + 1
  OBVIOUS
<1>2. y \notin QueuedIn(f)
  <2>1. \A k \in Machines : \A i \in 1 .. Len(f[k]) : y # <<k, i>>
    <3> TAKE k \in Machines
    <3>1. CASE k = m
      BY <1>1, <3>1
    <3>2. CASE k # m
      BY <3>2
    <3>3. QED
      BY <3>1, <3>2
  <2>2. QED
    BY <2>1, QueuedHas
<1>3. \A x : x \in QueuedIn(g) <=> x \in QueuedIn(f) \/ x = y
  <2> TAKE x
  <2>1. ASSUME NEW k \in Machines
        PROVE  (\E i \in 1 .. Len(g[k]) : x = <<k, i>>)
                 <=> (\E i \in 1 .. Len(f[k]) : x = <<k, i>>) \/ (k = m /\ x = y)
    <3>1. CASE k = m
      <4>1. \A i : i \in 1 .. n + 1 <=> i \in 1 .. n \/ i = n + 1
        BY <1>1
      <4>2. Len(g[k]) = n + 1 /\ Len(f[k]) = n
        BY <1>1, <3>1
      <4> HIDE DEF n
      <4>3. QED
        BY <3>1, <4>1, <4>2
    <3>2. CASE k # m
      BY <3>2
    <3>3. QED
      BY <3>1, <3>2
  <2> HIDE DEF y
  <2>2. x \in QueuedIn(g) <=> \E k \in Machines : \E i \in 1 .. Len(g[k]) : x = <<k, i>>
    BY QueuedHas
  <2>3. x \in QueuedIn(f) <=> \E k \in Machines : \E i \in 1 .. Len(f[k]) : x = <<k, i>>
    BY QueuedHas
  <2>4. QED
    BY <2>1, <2>2, <2>3
<1> HIDE DEF y
<1>4. QueuedIn(g) = QueuedIn(f) \cup {y}
  BY <1>3
<1>5. QED
  BY <1>2, <1>4 DEF Gains

\* What a worker at pc adds to the count: the event it handles, and one it is
\* about to queue.
Held1(pc) == IF pc \in {"idle", "drain"} THEN 0 ELSE 1
Adds1(pc) == IF pc \in {"counted", "spurious"} THEN 1 ELSE 0
Weight(pc) == Held1(pc) + Adds1(pc)

LEMMA JobsMove ==
  ASSUME NEW w \in WorkerIds, \A x \in WorkerIds : x # w => job'[x] = job[x]
  PROVE  /\ Moves(HandlingIn(job), HandlingIn(job'),
                  Held1(job'[w].pc) - Held1(job[w].pc))
         /\ Moves(AddingIn(job), AddingIn(job'),
                  Adds1(job'[w].pc) - Adds1(job[w].pc))
<1> DEFINE H == HandlingIn(job)
           H2 == HandlingIn(job')
           A == AddingIn(job)
           A2 == AddingIn(job')
           old == job[w].pc
           new == job'[w].pc
<1>1. /\ \A x : x # w => (x \in H <=> x \in H2)
      /\ w \in H <=> Held1(old) = 1
      /\ w \in H2 <=> Held1(new) = 1
  BY DEF HandlingIn, Held1
<1>2. /\ \A x : x # w => (x \in A <=> x \in A2)
      /\ w \in A <=> Adds1(old) = 1
      /\ w \in A2 <=> Adds1(new) = 1
  BY DEF AddingIn, Adds1
<1>3. Held1(old) \in {0, 1} /\ Held1(new) \in {0, 1}
  BY DEF Held1
<1>4. Adds1(old) \in {0, 1} /\ Adds1(new) \in {0, 1}
  BY DEF Adds1
<1> HIDE DEF H, H2, A, A2, old, new
<1>5. Moves(H, H2, Held1(new) - Held1(old))
  <2>1. /\ (w \in H <=> w \in H2) => Moves(H, H2, 0)
        /\ w \notin H /\ w \in H2 => Moves(H, H2, 1)
        /\ w \in H /\ w \notin H2 => Moves(H, H2, -1)
    BY <1>1, MovesOne
  <2>2. CASE Held1(old) = Held1(new)
    BY <1>1, <1>3, <2>1, <2>2
  <2>3. CASE Held1(old) = 0 /\ Held1(new) = 1
    BY <1>1, <2>1, <2>3
  <2>4. CASE Held1(old) = 1 /\ Held1(new) = 0
    BY <1>1, <2>1, <2>4
  <2>5. QED
    BY <1>3, <2>2, <2>3, <2>4
<1>6. Moves(A, A2, Adds1(new) - Adds1(old))
  <2>1. /\ (w \in A <=> w \in A2) => Moves(A, A2, 0)
        /\ w \notin A /\ w \in A2 => Moves(A, A2, 1)
        /\ w \in A /\ w \notin A2 => Moves(A, A2, -1)
    BY <1>2, MovesOne
  <2>2. CASE Adds1(old) = Adds1(new)
    BY <1>2, <1>4, <2>1, <2>2
  <2>3. CASE Adds1(old) = 0 /\ Adds1(new) = 1
    BY <1>2, <2>1, <2>3
  <2>4. CASE Adds1(old) = 1 /\ Adds1(new) = 0
    BY <1>2, <2>1, <2>4
  <2>5. QED
    BY <1>4, <2>2, <2>3, <2>4
<1>7. QED
  BY <1>5, <1>6 DEF H, H2, A, A2, old, new

\* A step of a worker that moves it from one place to another and changes the
\* queued events by q.
LEMMA WorkerCounts ==
  ASSUME Counted, NEW w \in WorkerIds, \A x \in WorkerIds : x # w => job'[x] = job[x],
         tasks' = tasks, settled' = settled,
         NEW q, Moves(QueuedIn(inbox), QueuedIn(inbox'), q),
         NEW old, old = job[w].pc, NEW new, new = job'[w].pc,
         pending' = pending + q + Weight(new) - Weight(old)
  PROVE  Counted'
<1> DEFINE Q == QueuedIn(inbox)
           Q2 == QueuedIn(inbox')
           H == HandlingIn(job)
           H2 == HandlingIn(job')
           A == AddingIn(job)
           A2 == AddingIn(job')
           R == ReplyingIn(tasks)
           U == DOMAIN tasks \ settled
           h == Held1(new) - Held1(old)
           a == Adds1(new) - Adds1(old)
<1>1. CountIs(pending, Q, H, A, R, U) /\ Moves(Q, Q2, q) /\ pending \in Nat
  BY CountedIs DEF Counted
<1>2. Moves(H, H2, h) /\ Moves(A, A2, a)
  BY JobsMove
<1>3. Moves(R, R, 0) /\ Moves(U, U, 0)
  BY DEF Moves
<1>4. pending' = pending + q + h + a + 0 + 0
  <2>1. Held1(old) \in {0, 1} /\ Held1(new) \in {0, 1}
    BY DEF Held1
  <2>2. Adds1(old) \in {0, 1} /\ Adds1(new) \in {0, 1}
    BY DEF Adds1
  <2>3. q \in Int
    BY DEF Moves
  <2>4. pending' = pending + q + (Held1(new) + Adds1(new)) - (Held1(old) + Adds1(old))
    BY DEF Weight
  <2>5. QED
    BY <1>1, <2>1, <2>2, <2>3, <2>4
<1>5. ReplyingIn(tasks') = R /\ DOMAIN tasks' \ settled' = U
  OBVIOUS
<1> HIDE DEF Q, Q2, H, H2, A, A2, R, U, h, a
<1>6. CountIs(pending + q + h + a + 0 + 0, Q2, H2, A2, R, U)
  BY <1>1, <1>2, <1>3, CountMoves
<1>7. CountIs(pending', Q2, H2, A2, R, U)
  BY <1>4, <1>6
<1>8. QED
  BY <1>5, <1>7 DEF Counted, Q2, H2, A2

\* A step of a task or of its cancel: r more replies under way, u more tasks
\* not settled.
LEMMA TaskCounts ==
  ASSUME Counted, job' = job, NEW q, NEW r, NEW u,
         Moves(QueuedIn(inbox), QueuedIn(inbox'), q),
         Moves(ReplyingIn(tasks), ReplyingIn(tasks'), r),
         Moves(DOMAIN tasks \ settled, DOMAIN tasks' \ settled', u),
         pending' = pending + q + r + u
  PROVE  Counted'
<1> DEFINE Q == QueuedIn(inbox)
           Q2 == QueuedIn(inbox')
           H == HandlingIn(job)
           A == AddingIn(job)
           R == ReplyingIn(tasks)
           R2 == ReplyingIn(tasks')
           U == DOMAIN tasks \ settled
           U2 == DOMAIN tasks' \ settled'
<1>1. /\ CountIs(pending, Q, H, A, R, U) /\ pending \in Nat
      /\ Moves(Q, Q2, q) /\ Moves(R, R2, r) /\ Moves(U, U2, u)
  BY CountedIs DEF Counted
<1>2. Moves(H, H, 0) /\ Moves(A, A, 0)
  BY DEF Moves
<1>3. pending' = pending + q + 0 + 0 + r + u
  <2>1. q \in Int /\ r \in Int /\ u \in Int
    BY DEF Moves
  <2>2. QED
    BY <1>1, <2>1
<1>4. HandlingIn(job') = H /\ AddingIn(job') = A
  OBVIOUS
<1> HIDE DEF Q, Q2, H, A, R, R2, U, U2
<1>5. CountIs(pending + q + 0 + 0 + r + u, Q2, H, A, R2, U2)
  BY <1>1, <1>2, CountMoves
<1>6. CountIs(pending', Q2, H, A, R2, U2)
  BY <1>3, <1>5
<1>7. QED
  BY <1>4, <1>6 DEF Counted, Q2, R2, U2

LEMMA QueueMoves ==
  ASSUME PlacesOK, NEW m \in Machines, NEW event \in Events, NEW here, Queue(m, event, here)
  PROVE  Moves(QueuedIn(inbox), QueuedIn(inbox'), 1)
<1> DEFINE f == inbox
           g == inbox'
<1>1. f \in [Machines -> Seq(Events)] /\ g = [f EXCEPT ![m] = Append(@, event)]
  BY DEF PlacesOK, Queue
<1> HIDE DEF f, g
<1>2. f[m] \in Seq(Events) /\ Append(f[m], event) \in Seq(Events)
  BY <1>1
<1>3. g \in [Machines -> Seq(Events)] /\ g[m] = Append(f[m], event)
  BY <1>1, <1>2
<1>4. Len(g[m]) = Len(f[m]) + 1
  BY <1>2, <1>3
<1>5. \A x \in Machines : x # m => g[x] = f[x]
  BY <1>1
<1>6. Gains(QueuedIn(f), QueuedIn(g))
  BY <1>1, <1>3, <1>4, <1>5, QueuedMore
<1>7. QED
  BY <1>6 DEF Moves, f, g

LEMMA TailMoves ==
  ASSUME PlacesOK, NEW m \in Machines, inbox[m] # << >>,
         inbox' = [inbox EXCEPT ![m] = Tail(@)]
  PROVE  Moves(QueuedIn(inbox), QueuedIn(inbox'), -1)
<1> DEFINE f == inbox
           g == inbox'
<1>1. f \in [Machines -> Seq(Events)] /\ g = [f EXCEPT ![m] = Tail(@)] /\ f[m] # << >>
  BY DEF PlacesOK
<1> HIDE DEF f, g
<1>2. f[m] \in Seq(Events) /\ Tail(f[m]) \in Seq(Events) /\ Len(Tail(f[m])) = Len(f[m]) - 1
  BY <1>1
<1>3. g \in [Machines -> Seq(Events)] /\ g[m] = Tail(f[m])
  BY <1>1, <1>2
<1>4. Len(f[m]) = Len(g[m]) + 1
  BY <1>2, <1>3
<1>5. \A x \in Machines : x # m => f[x] = g[x]
  BY <1>1
<1>6. Gains(QueuedIn(g), QueuedIn(f))
  BY <1>1, <1>3, <1>4, <1>5, QueuedMore
<1>7. QED
  BY <1>6 DEF Moves, f, g

LEMMA CountsRest ==
  ASSUME Counted, job' = job, inbox' = inbox, tasks' = tasks, settled' = settled,
         pending' = pending
  PROVE  Counted'
  BY DEF Counted

LEMMA GoesCounts ==
  ASSUME Counted, JobsOK, NEW w \in WorkerIds, NEW old \in Pcs \ {"idle"},
         job[w].pc = old, NEW new \in Pcs, Goes(w, new),
         tasks' = tasks, settled' = settled,
         NEW q, Moves(QueuedIn(inbox), QueuedIn(inbox'), q),
         pending' = pending + q + Weight(new) - Weight(old)
  PROVE  Counted'
<1>1. InHand(w)
  BY DEF InHand
<1>2. job'[w].pc = new /\ \A x \in WorkerIds : x # w => job'[x] = job[x]
  BY <1>1, GoesOn
<1> HIDE DEF Counted
<1>3. QED
  BY <1>2, WorkerCounts

LEMMA WeightsAre ==
  /\ Weight("idle") = 0 /\ Weight("drain") = 0 /\ Weight("handle") = 1
  /\ Weight("call") = 1 /\ Weight("dispatch") = 1 /\ Weight("counted") = 2
  /\ Weight("spurious") = 2 /\ Weight("end") = 1 /\ Weight("settle") = 1
  BY DEF Weight, Held1, Adds1

LEMMA SameInbox ==
  ASSUME inbox' = inbox
  PROVE  Moves(QueuedIn(inbox), QueuedIn(inbox'), 0)
  BY DEF Moves

\* A step that moves a worker from one place to another, with no event
\* queued or taken.
LEMMA GoesAround ==
  ASSUME Counted, JobsOK, NEW w \in WorkerIds, NEW old \in Pcs \ {"idle"},
         job[w].pc = old, NEW new \in Pcs, Goes(w, new),
         tasks' = tasks, settled' = settled, inbox' = inbox,
         pending' = pending + Weight(new) - Weight(old)
  PROVE  Counted'
<1>1. Moves(QueuedIn(inbox), QueuedIn(inbox'), 0)
  BY SameInbox
<1>2. pending' = pending + 0 + Weight(new) - Weight(old)
  <2>1. pending \in Nat
    BY CountedIs
  <2>2. QED
    BY <2>1
<1>3. QED
  BY <1>1, <1>2, GoesCounts

LEMMA DrainCounts ==
  ASSUME Counted, JavaOK, NEW w \in WorkerIds, Drain(w)
  PROVE  Counted'
<1> DEFINE m == job[w].m
<1>1. /\ job[w].pc = "drain" /\ tasks' = tasks /\ settled' = settled
      /\ pending' = pending
  BY DEF Drain, At, asking
<1>2. m \in Machines /\ JobsOK /\ PlacesOK /\ job \in [WorkerIds -> Jobs]
  BY <1>1 DEF JavaOK, JobsOK, InHand
<1>3. pending \in Nat
  BY CountedIs
<1>4. CASE inbox[m] = << >>
  <2>1. job' = [job EXCEPT ![w] = Idle] /\ inbox' = inbox
    BY <1>4 DEF Drain
  <2>2. job'[w].pc = "idle" /\ \A x \in WorkerIds : x # w => job'[x] = job[x]
    BY <1>2, <2>1 DEF Idle
  <2>3. Moves(QueuedIn(inbox), QueuedIn(inbox'), 0)
    BY <2>1, SameInbox
  <2>4. pending' = pending + 0 + Weight("idle") - Weight("drain")
    BY <1>1, <1>3, WeightsAre
  <2>5. QED
    BY <1>1, <2>2, <2>3, <2>4, WorkerCounts
<1>5. CASE inbox[m] # << >>
  <2>1. /\ job' = [job EXCEPT ![w].pc = "handle", ![w].event = Head(inbox[m])]
        /\ inbox' = [inbox EXCEPT ![m] = Tail(@)]
    BY <1>5 DEF Drain
  <2>2. job'[w].pc = "handle" /\ \A x \in WorkerIds : x # w => job'[x] = job[x]
    BY <1>2, <2>1 DEF Jobs
  <2> HIDE DEF m
  <2>3. Moves(QueuedIn(inbox), QueuedIn(inbox'), -1)
    BY <1>2, <1>5, <2>1, TailMoves
  <2>4. pending' = pending + (-1) + Weight("handle") - Weight("drain")
    BY <1>1, <1>3, WeightsAre
  <2>5. QED
    BY <1>1, <2>2, <2>3, <2>4, WorkerCounts
<1>6. QED
  BY <1>4, <1>5

LEMMA TakeCounts ==
  ASSUME Counted, JavaOK, NEW w \in WorkerIds, Take(w)
  PROVE  Counted'
<1>1. /\ job[w].pc = "idle" /\ tasks' = tasks /\ settled' = settled
      /\ pending' = pending /\ inbox' = inbox
      /\ job' = [job EXCEPT ![w] = [pc |-> "drain", m |-> Head(line[w]),
                                    event |-> ResumeEvent]]
  BY DEF Take, At, asking
<1>2. job'[w].pc = "drain" /\ \A x \in WorkerIds : x # w => job'[x] = job[x]
  BY <1>1 DEF JavaOK, JobsOK
<1>3. Moves(QueuedIn(inbox), QueuedIn(inbox'), 0)
  BY <1>1, SameInbox
<1>4. pending' = pending + 0 + Weight("drain") - Weight("idle")
  BY <1>1, CountedIs, WeightsAre
<1>5. QED
  BY <1>1, <1>2, <1>3, <1>4, WorkerCounts

\* A resume counted, and then queued.
LEMMA ResumeCounts ==
  ASSUME Counted, JavaOK, NEW w \in WorkerIds,
         CountResume(w) \/ QueueResume(w) \/ Dispatch(w) \/ QueueSpurious(w)
  PROVE  Counted'
<1>0. /\ pending \in Nat /\ JobsOK /\ PlacesOK /\ BatchOK
      /\ {"drain", "handle", "call", "dispatch", "counted", "spurious", "end", "settle"}
           \subseteq Pcs \ {"idle"}
  BY CountedIs DEF JavaOK, Pcs
<1>1. CASE CountResume(w)
  <2>1. /\ job[w].pc = "dispatch" /\ inbox' = inbox /\ tasks' = tasks
        /\ settled' = settled
        /\ \/ pending' = pending /\ job' = job
           \/ pending' = pending + 1 /\ Goes(w, "counted")
    BY <1>1 DEF CountResume, At1, At, places
  <2>2. CASE pending' = pending /\ job' = job
    BY <2>1, <2>2, CountsRest
  <2>3. CASE pending' = pending + 1 /\ Goes(w, "counted")
    <3>1. pending' = pending + Weight("counted") - Weight("dispatch")
      BY <1>0, <2>3, WeightsAre
    <3>2. QED
      BY <1>0, <2>1, <2>3, <3>1, GoesAround
  <2>4. QED
    BY <2>1, <2>2, <2>3
<1>2. CASE QueueResume(w)
  <2>1. /\ job[w].pc = "counted" /\ Queue(Head(batch[w]).id, ResumeEvent, w)
        /\ Goes(w, "dispatch") /\ tasks' = tasks /\ settled' = settled
        /\ pending' = pending
    BY <1>2 DEF QueueResume, At, asking
  <2>2. Head(batch[w]).id \in Machines
    BY <1>0, <2>1, BatchIs DEF BatchOK
  <2>3. Moves(QueuedIn(inbox), QueuedIn(inbox'), 1)
    BY <1>0, <2>1, <2>2, IdleIs, QueueMoves
  <2>4. pending' = pending + 1 + Weight("dispatch") - Weight("counted")
    BY <1>0, <2>1, WeightsAre
  <2>5. QED
    BY <1>0, <2>1, <2>3, <2>4, GoesCounts
<1>3. CASE Dispatch(w)
  <2>1. /\ job[w].pc = "dispatch" /\ inbox' = inbox /\ tasks' = tasks
        /\ settled' = settled
        /\ \/ pending' = pending /\ Goes(w, "end")
           \/ pending' = pending + 1 /\ Goes(w, "spurious")
    BY <1>3 DEF Dispatch, At, places
  <2>2. CASE pending' = pending /\ Goes(w, "end")
    <3>1. pending' = pending + Weight("end") - Weight("dispatch")
      BY <1>0, <2>2, WeightsAre
    <3>2. QED
      BY <1>0, <2>1, <2>2, <3>1, GoesAround
  <2>3. CASE pending' = pending + 1 /\ Goes(w, "spurious")
    <3>1. pending' = pending + Weight("spurious") - Weight("dispatch")
      BY <1>0, <2>3, WeightsAre
    <3>2. QED
      BY <1>0, <2>1, <2>3, <3>1, GoesAround
  <2>4. QED
    BY <2>1, <2>2, <2>3
<1>4. CASE QueueSpurious(w)
  <2>1. /\ job[w].pc = "spurious" /\ Queue(Head(batch[w]).id, ResumeEvent, w)
        /\ Goes(w, "end") /\ tasks' = tasks /\ settled' = settled
        /\ pending' = pending
    BY <1>4 DEF QueueSpurious, At, asking
  <2>2. Head(batch[w]).id \in Machines
    BY <1>0, <2>1, BatchIs DEF BatchOK
  <2>3. Moves(QueuedIn(inbox), QueuedIn(inbox'), 1)
    BY <1>0, <2>1, <2>2, IdleIs, QueueMoves
  <2>4. pending' = pending + 1 + Weight("end") - Weight("spurious")
    BY <1>0, <2>1, WeightsAre
  <2>5. QED
    BY <1>0, <2>1, <2>3, <2>4, GoesCounts
<1>5. QED
  BY <1>1, <1>2, <1>3, <1>4

\* Only r's place among the tasks changes.
LEMMA TasksMove ==
  ASSUME NEW r, \A q : q # r => (q \in DOMAIN tasks <=> q \in DOMAIN tasks'),
         \A q \in DOMAIN tasks : q # r => tasks'[q] = tasks[q],
         \A q : q # r => (q \in settled <=> q \in settled'),
         NEW R, R = ReplyingIn(tasks), NEW R2, R2 = ReplyingIn(tasks'),
         NEW U, U = DOMAIN tasks \ settled, NEW U2, U2 = DOMAIN tasks' \ settled'
  PROVE  /\ (r \in R <=> r \in R2) => Moves(R, R2, 0)
         /\ r \notin R /\ r \in R2 => Moves(R, R2, 1)
         /\ r \in R /\ r \notin R2 => Moves(R, R2, -1)
         /\ (r \in U <=> r \in U2) => Moves(U, U2, 0)
         /\ r \notin U /\ r \in U2 => Moves(U, U2, 1)
         /\ r \in U /\ r \notin U2 => Moves(U, U2, -1)
<1>1. \A q : q # r => (q \in R <=> q \in R2)
  BY DEF ReplyingIn
<1>2. \A q : q # r => (q \in U <=> q \in U2)
  OBVIOUS
<1>3. QED
  BY <1>1, <1>2, MovesOne

LEMMA CancelCounts ==
  ASSUME Counted, JavaOK, NEW w \in WorkerIds, Cancel(w)
  PROVE  Counted'
<1> DEFINE r == <<job[w].m, Head(batch[w]).id>>
           counts == r \in DOMAIN tasks \ settled
           R == ReplyingIn(tasks)
           R2 == ReplyingIn(tasks')
           U == DOMAIN tasks \ settled
           U2 == DOMAIN tasks' \ settled'
<1>1. /\ job' = job /\ inbox' = inbox
      /\ \/ pending' = pending /\ tasks' = tasks /\ settled' = settled
         \/ /\ pending' = IF counts THEN pending - 1 ELSE pending
            /\ \/ /\ tasks' = tasks
                  /\ settled' = IF counts THEN settled \cup {r} ELSE settled
               \/ /\ counts /\ tasks[r].pc = "running"
                  /\ tasks' = [q \in DOMAIN tasks \ {r} |-> tasks[q]]
                  /\ settled' = settled
  BY DEF Cancel, places
<1>2. pending \in Nat /\ Moves(QueuedIn(inbox), QueuedIn(inbox'), 0)
  BY <1>1, CountedIs, SameInbox
<1> HIDE DEF r
<1>3. CASE pending' = pending /\ tasks' = tasks /\ settled' = settled
  BY <1>1, <1>3, CountsRest
<1>4. CASE counts /\ pending' = pending - 1 /\ tasks' = tasks
           /\ settled' = settled \cup {r}
  <2>1. Moves(R, R2, 0)
    BY <1>4 DEF Moves
  <2>2. r \in U /\ r \notin U2
    BY <1>4
  <2>3. Moves(U, U2, -1)
    <3>1. \A q : q # r => (q \in U <=> q \in U2)
      BY <1>4
    <3> HIDE DEF U, U2
    <3>2. QED
      BY <2>2, <3>1, MovesOne
  <2>4. pending' = pending + 0 + 0 + (-1)
    BY <1>2, <1>4
  <2>5. QED
    BY <1>1, <1>2, <2>1, <2>3, <2>4, TaskCounts
<1>5. CASE /\ counts /\ pending' = pending - 1 /\ tasks[r].pc = "running"
           /\ tasks' = [q \in DOMAIN tasks \ {r} |-> tasks[q]]
           /\ settled' = settled
  <2>1. /\ DOMAIN tasks' = DOMAIN tasks \ {r}
        /\ \A q \in DOMAIN tasks : q # r => tasks'[q] = tasks[q]
    BY <1>5
  <2>2. r \in U /\ r \notin U2
    BY <1>5, <2>1
  <2>3. r \notin R /\ r \notin R2
    BY <1>5, <2>1 DEF ReplyingIn
  <2> HIDE DEF R, R2, U, U2
  <2>4. Moves(R, R2, 0) /\ Moves(U, U2, -1)
    BY <1>5, <2>1, <2>2, <2>3, TasksMove DEF R, R2, U, U2
  <2>5. pending' = pending + 0 + 0 + (-1)
    BY <1>2, <1>5
  <2>6. QED
    BY <1>1, <1>2, <2>4, <2>5, TaskCounts DEF R, R2, U, U2
<1>6. QED
  BY <1>1, <1>3, <1>4, <1>5

LEMMA AskCounts ==
  ASSUME Counted, Fresh, RoutinesOK, JavaOK, Placed, NEW w \in WorkerIds, AskTask(w)
  PROVE  Counted'
<1> DEFINE r == <<job[w].m, Head(batch[w]).id>>
           R == ReplyingIn(tasks)
           R2 == ReplyingIn(tasks')
           U == DOMAIN tasks \ settled
           U2 == DOMAIN tasks' \ settled'
<1>1. /\ pending' = pending + 1 /\ settled' = settled
      /\ DOMAIN tasks' = DOMAIN tasks \cup {r} /\ tasks'[r].pc = "running"
      /\ \A q \in DOMAIN tasks : q # r => tasks'[q] = tasks[q]
  BY AskTaskIs
<1>2. r \notin DOMAIN tasks
  BY FreshAsks
<1>3. job' = job /\ inbox' = inbox
  BY DEF AskTask, places
<1> HIDE DEF r
<1>4. settled \subseteq DOMAIN tasks
  BY DEF JavaOK, TasksOK
<1>5. r \notin U /\ r \in U2
  BY <1>1, <1>2, <1>4
<1>6. r \notin R /\ r \notin R2
  BY <1>1, <1>2 DEF ReplyingIn
<1> HIDE DEF R, R2, U, U2
<1>7. Moves(R, R2, 0) /\ Moves(U, U2, 1)
  BY <1>1, <1>5, <1>6, TasksMove DEF R, R2, U, U2
<1>8. pending' = pending + 0 + 0 + 1 /\ Moves(QueuedIn(inbox), QueuedIn(inbox'), 0)
  BY <1>1, <1>3, CountedIs, SameInbox
<1>9. QED
  BY <1>3, <1>7, <1>8, TaskCounts DEF R, R2, U, U2

LEMMA WorkCounts ==
  ASSUME Counted, Fresh, RoutinesOK, JavaOK, Placed, NEW w \in WorkerIds, Work(w)
  PROVE  Counted'
<1>0. /\ pending \in Nat /\ JobsOK
      /\ {"drain", "handle", "call", "dispatch", "counted", "spurious", "end", "settle"}
           \subseteq Pcs \ {"idle"}
  BY CountedIs DEF JavaOK, Pcs
<1>1. CASE HandleEvent(w)
  <2>1. /\ job[w].pc = "handle"
        /\ Goes(w, "call") \/ Goes(w, "settle")
        /\ inbox' = inbox /\ tasks' = tasks /\ settled' = settled /\ pending' = pending
    BY <1>1 DEF HandleEvent, At, Calls, places
  <2>2. /\ pending' = pending + Weight("call") - Weight("handle")
        /\ pending' = pending + Weight("settle") - Weight("handle")
    BY <1>0, <2>1, WeightsAre
  <2>3. QED
    BY <1>0, <2>1, <2>2, GoesAround
<1>2. CASE Poll(w)
  BY <1>2, CountsRest DEF Poll, java, places, asking
<1>3. CASE TakesBatch(w)
  <2>1. /\ job[w].pc = "call" /\ Goes(w, "dispatch")
        /\ inbox' = inbox /\ tasks' = tasks /\ settled' = settled /\ pending' = pending
    BY <1>3 DEF TakesBatch, At, places, asking
  <2>2. pending' = pending + Weight("dispatch") - Weight("call")
    BY <1>0, <2>1, WeightsAre
  <2>3. QED
    BY <1>0, <2>1, <2>2, GoesAround
<1>4. CASE WriteOut(w)
  BY <1>4, CountsRest DEF WriteOut, places, asking
<1>5. CASE End(w)
  <2>1. /\ job[w].pc = "end" /\ Goes(w, "settle")
        /\ inbox' = inbox /\ tasks' = tasks /\ settled' = settled /\ pending' = pending
    BY <1>5 DEF End, At, places, asking
  <2>2. pending' = pending + Weight("settle") - Weight("end")
    BY <1>0, <2>1, WeightsAre
  <2>3. QED
    BY <1>0, <2>1, <2>2, GoesAround
<1>6. CASE Settle(w)
  <2>1. /\ job[w].pc = "settle" /\ Goes(w, "drain") /\ pending' = pending - 1
        /\ inbox' = inbox /\ tasks' = tasks /\ settled' = settled
    BY <1>6 DEF Settle, At, places
  <2>2. pending' = pending + Weight("drain") - Weight("settle")
    BY <1>0, <2>1, WeightsAre
  <2>3. QED
    BY <1>0, <2>1, <2>2, GoesAround
<1>7. QED
  BY <1>1, <1>2, <1>3, <1>4, <1>5, <1>6, TakeCounts, DrainCounts, ResumeCounts,
     CancelCounts, AskCounts DEF Work

LEMMA TaskStepCounts ==
  ASSUME Counted, JavaOK, NEW r \in DOMAIN tasks, Task(r)
  PROVE  Counted'
<1> DEFINE R == ReplyingIn(tasks)
           R2 == ReplyingIn(tasks')
           U == DOMAIN tasks \ settled
           U2 == DOMAIN tasks' \ settled'
           T == tasks[r]
<1>0. pending \in Nat /\ PlacesOK /\ settled \subseteq DOMAIN tasks
  BY CountedIs DEF JavaOK, TasksOK
<1>t. tasks \in [DOMAIN tasks -> TaskOf] /\ T \in TaskOf
  BY DEF JavaOK, TasksOK
<1>1. CASE PerformTask(r)
  <2>1. /\ job' = job /\ inbox' = inbox /\ pending' = pending /\ settled' = settled
        /\ T.pc = "running"
        /\ tasks' = [tasks EXCEPT ![r].pc = "performed",
                                  ![r].n = AnswerTo(world, tasks[r].effect)]
    BY <1>1 DEF PerformTask, TaskAt, places
  <2>2. /\ DOMAIN tasks' = DOMAIN tasks /\ tasks'[r].pc = "performed"
        /\ \A q \in DOMAIN tasks : q # r => tasks'[q] = tasks[q]
    BY <1>t, <2>1 DEF TaskOf
  <2>3. r \notin R /\ r \notin R2
    BY <2>1, <2>2 DEF ReplyingIn
  <2>4. r \in U <=> r \in U2
    BY <2>1, <2>2
  <2> HIDE DEF R, R2, U, U2, T
  <2>5. Moves(R, R2, 0) /\ Moves(U, U2, 0)
    BY <2>1, <2>2, <2>3, <2>4, TasksMove DEF R, R2, U, U2
  <2>6. pending' = pending + 0 + 0 + 0 /\ Moves(QueuedIn(inbox), QueuedIn(inbox'), 0)
    BY <1>0, <2>1, SameInbox
  <2>7. QED
    BY <2>1, <2>5, <2>6, TaskCounts DEF R, R2, U, U2
<1>2. CASE CountReply(r)
  <2>1. /\ job' = job /\ inbox' = inbox /\ pending' = pending + 1 /\ settled' = settled
        /\ T.pc = "performed" /\ tasks' = [tasks EXCEPT ![r].pc = "counted"]
    BY <1>2 DEF CountReply, TaskAt, places
  <2>2. /\ DOMAIN tasks' = DOMAIN tasks /\ tasks'[r].pc = "counted"
        /\ \A q \in DOMAIN tasks : q # r => tasks'[q] = tasks[q]
    BY <1>t, <2>1 DEF TaskOf
  <2>3. r \notin R /\ r \in R2
    BY <2>1, <2>2 DEF ReplyingIn
  <2>4. r \in U <=> r \in U2
    BY <2>1, <2>2
  <2> HIDE DEF R, R2, U, U2, T
  <2>5. Moves(R, R2, 1) /\ Moves(U, U2, 0)
    BY <2>1, <2>2, <2>3, <2>4, TasksMove DEF R, R2, U, U2
  <2>6. pending' = pending + 0 + 1 + 0 /\ Moves(QueuedIn(inbox), QueuedIn(inbox'), 0)
    BY <1>0, <2>1, SameInbox
  <2>7. QED
    BY <2>1, <2>5, <2>6, TaskCounts DEF R, R2, U, U2
<1>3. CASE QueueReply(r)
  <2>1. /\ job' = job /\ T.pc = "counted" /\ settled' = settled \ {r}
        /\ Queue(r[1], [id |-> r[2], n |-> T.n], 0)
        /\ tasks' = [q \in DOMAIN tasks \ {r} |-> tasks[q]]
        /\ pending' = IF r \in settled THEN pending ELSE pending - 1
    BY <1>3 DEF QueueReply, TaskAt
  <2>2. r[1] \in Machines /\ r[2] \in Nat /\ T.n \in Int
    BY <1>t DEF JavaOK, TasksOK, Requests, TaskOf
  <2>3. [id |-> r[2], n |-> T.n] \in Events
    BY <2>2 DEF Events
  <2>4. Moves(QueuedIn(inbox), QueuedIn(inbox'), 1)
    BY <1>0, <2>1, <2>2, <2>3, QueueMoves
  <2>5. /\ DOMAIN tasks' = DOMAIN tasks \ {r}
        /\ \A q \in DOMAIN tasks : q # r => tasks'[q] = tasks[q]
    BY <2>1
  <2>6. r \in R /\ r \notin R2
    BY <2>1, <2>5 DEF ReplyingIn
  <2>7. (r \in U <=> r \notin settled) /\ r \notin U2
    BY <2>1, <2>5
  <2> HIDE DEF R, R2, U, U2, T
  <2>8. /\ Moves(R, R2, -1)
        /\ r \in U => Moves(U, U2, -1)
        /\ r \notin U => Moves(U, U2, 0)
    BY <2>1, <2>5, <2>6, <2>7, TasksMove DEF R, R2, U, U2
  <2>9. CASE r \in settled
    <3>1. Moves(U, U2, 0) /\ pending' = pending + 1 + (-1) + 0
      BY <1>0, <2>1, <2>7, <2>8, <2>9
    <3>2. QED
      BY <2>1, <2>4, <2>8, <3>1, TaskCounts DEF R, R2, U, U2
  <2>10. CASE r \notin settled
    <3>1. Moves(U, U2, -1) /\ pending' = pending + 1 + (-1) + (-1)
      BY <1>0, <2>1, <2>7, <2>8, <2>10
    <3>2. QED
      BY <2>1, <2>4, <2>8, <3>1, TaskCounts DEF R, R2, U, U2
  <2>11. QED
    BY <2>9, <2>10
<1>4. QED
  BY <1>1, <1>2, <1>3 DEF Task

LEMMA CountedJava ==
  ASSUME Counted, Fresh, RoutinesOK, JavaOK, Placed, JavaNext
  PROVE  Counted'
<1>1. CASE Quiet
  BY <1>1, CountsRest DEF Quiet, Decide, places, asking
<1>2. QED
  BY <1>1, WorkCounts, TaskStepCounts DEF JavaNext, Works, Tasks

LEMMA QueuedStart ==
  /\ inbox = [m \in Machines |-> << >>] => QueuedIn(inbox) = {}
  /\ inbox = [m \in Machines |-> IF m = Root THEN <<ResumeEvent>> ELSE << >>]
       => QueuedIn(inbox) = {<<Root, 1>>}
<1>1. DOMAIN << >> = {} /\ DOMAIN <<ResumeEvent>> = {1} /\ Root \in Machines
  BY MachinesFinite
<1>2. ASSUME inbox = [m \in Machines |-> << >>]
      PROVE  QueuedIn(inbox) = {}
  <2>1. \A m \in Machines : DOMAIN inbox[m] = {}
    BY <1>1, <1>2
  <2>2. QED
    BY <2>1 DEF QueuedIn
<1>3. ASSUME inbox = [m \in Machines |-> IF m = Root THEN <<ResumeEvent>> ELSE << >>]
      PROVE  QueuedIn(inbox) = {<<Root, 1>>}
  <2>1. \A m \in Machines : DOMAIN inbox[m] = IF m = Root THEN {1} ELSE {}
    BY <1>1, <1>3
  <2>2. QED
    BY <1>1, <2>1 DEF QueuedIn
<1>4. QED
  BY <1>2, <1>3

LEMMA CountStart ==
  ASSUME Init
  PROVE  Counted
<1>1. /\ JavaRest
      /\ \/ NoJava
         \/ /\ inbox = [m \in Machines |-> IF m = Root THEN <<ResumeEvent>> ELSE << >>]
            /\ pending = 1
  BY DEF Init, JavaInit
<1>2. HandlingIn(job) = {} /\ AddingIn(job) = {}
  BY <1>1 DEF JavaRest, Idle, HandlingIn, AddingIn
<1>3. ReplyingIn(tasks) = {} /\ DOMAIN tasks \ settled = {}
  BY <1>1 DEF JavaRest, ReplyingIn
<1>4. IsFiniteSet({}) /\ Cardinality({}) = 0
  BY FS_EmptySet
<1>5. CASE NoJava
  <2>1. QueuedIn(inbox) = {} /\ pending = 0
    BY <1>5, QueuedStart DEF NoJava
  <2>2. CountIs(0, {}, {}, {}, {}, {})
    BY <1>4 DEF CountIs
  <2>3. QED
    BY <1>2, <1>3, <2>1, <2>2 DEF Counted
<1>6. CASE /\ inbox = [m \in Machines |-> IF m = Root THEN <<ResumeEvent>> ELSE << >>]
           /\ pending = 1
  <2> DEFINE Q == {<<Root, 1>>}
  <2>1. QueuedIn(inbox) = Q
    BY <1>6, QueuedStart
  <2>2. IsFiniteSet(Q) /\ Cardinality(Q) = 1
    BY FS_Singleton
  <2> HIDE DEF Q
  <2>3. CountIs(1, Q, {}, {}, {}, {})
    BY <1>4, <2>2 DEF CountIs
  <2>4. QED
    BY <1>2, <1>3, <1>6, <2>1, <2>3 DEF Counted
<1>7. QED
  BY <1>1, <1>5, <1>6

-----------------------------------------------------------------------------
(* The inductive invariant, and what follows from it                        *)

\* Another host leaves Java's scheduler alone, and none of its requests is
\* one of Java's.
Scheduled == AllOK /\ Placed /\ Counted /\ (host = "java" => Fresh)

LEMMA ScheduledStart ==
  ASSUME Init
  PROVE  Scheduled
  BY AllStart, PlacesStart, CountStart, FreshStart DEF Scheduled

LEMMA ScheduledStep ==
  ASSUME Scheduled, [Next]_vars
  PROVE  Scheduled'
<1>1. AllOK' /\ Placed'
  BY AllSteps, PlacesStep DEF Scheduled
<1>2. RoutinesOK /\ JavaOK /\ Placed /\ Counted
  BY DEF Scheduled, AllOK, TypesOK
<1>3. host' = host /\ (host = "java" => Parallel \/ UNCHANGED vars)
  BY HostStays
<1>4. Counted' /\ (host' = "java" => Fresh')
  <2>1. CASE Parallel
    <3>1. JavaNext /\ host = "java"
      BY <2>1 DEF Parallel, JavaNext, Works, Tasks, Quiet
    <3>2. Fresh
      BY <3>1 DEF Scheduled
    <3>3. QED
      BY <1>2, <3>1, <3>2, CountedJava, FreshJava
  <2>2. CASE ~Parallel
    <3>1. UNCHANGED java
      BY <2>2 DEF Next, Single, Native, vars
    <3>2. Counted'
      BY <1>2, <3>1, CountsRest DEF java, places, asking
    <3>3. ASSUME host' = "java"
          PROVE  Fresh'
      <4>1. UNCHANGED vars /\ Fresh
        BY <1>3, <2>2, <3>3 DEF Scheduled
      <4>2. UNCHANGED <<routines, java>>
        BY <4>1 DEF vars
      <4>3. QED
        BY <4>1, <4>2, FreshKept
    <3>4. QED
      BY <3>2, <3>3
  <2>3. QED
    BY <2>1, <2>2
<1>5. QED
  BY <1>1, <1>4 DEF Scheduled

\* Every variable of every host keeps its type; that the count is never
\* negative is part of it.
THEOREM TypeCorrect == Spec => []TypeOK
<1>1. Init => Scheduled
  BY ScheduledStart
<1>2. Scheduled /\ [Next]_vars => Scheduled'
  BY ScheduledStep
<1>3. Scheduled => TypeOK
  <2> SUFFICES ASSUME Scheduled PROVE TypeOK
    OBVIOUS
  <2>1. RoutinesOK /\ LoopOK /\ JavaOK /\ NativeOK /\ pending \in Nat
    BY CountedIs DEF Scheduled, AllOK, TypesOK
  <2>2. QED
    BY <2>1, RoutinesTypes, LoopTypes, JavaTypes, NativeTypes DEF TypeOK
<1>4. QED
  BY <1>1, <1>2, <1>3, PTL DEF Spec

\* No two threads call one handle, and the main thread waits on a count that
\* is exactly the events and tasks that are left: zero when nothing is, and
\* only then.
THEOREM SchedulerExact == Spec => []SchedulerIsExact
<1>1. Init => Scheduled
  BY ScheduledStart
<1>2. Scheduled /\ [Next]_vars => Scheduled'
  BY ScheduledStep
<1>3. Scheduled => SchedulerIsExact
  BY CountedIs, PlacedIs DEF Scheduled, AllOK, TypesOK, JavaOK, SchedulerIsExact
<1>4. QED
  BY <1>1, <1>2, <1>3, PTL DEF Spec
-----------------------------------------------------------------------------
(* Nobody is refused.  What a host sends a machine it sends because the      *)
(* machine asked for it: the next invariants follow a request from the       *)
(* instruction that awaits it, through the output that shows it and what a   *)
(* host keeps of it, to the answer or the frame that closes it.              *)

Mid == {"polling", "yielded", "returned"}
Awaits == {"ask", "join", "select"}
Begets == {"spawned", "spawned_pinned"}

\* A routine awaits requests only at the instruction that made them, one for
\* each of its kinds, and its open requests are among them.
AskOK(m) ==
  /\ asked[m] # << >> =>
       /\ at[m] <= Len(Code[code[m]]) /\ Here(m).op \in Awaits
       /\ Len(asked[m]) = Len(Here(m).kinds)
       /\ life[m] \notin {"none", "new", "returned", "done"}
  /\ DOMAIN mail[m] \subseteq Range(asked[m])
Asking == \A m \in Machines : AskOK(m)

\* What is left alone stays so.
LEMMA AskRests ==
  ASSUME NEW m, AskOK(m), asked'[m] = asked[m], at'[m] = at[m], code'[m] = code[m],
         DOMAIN mail'[m] \subseteq DOMAIN mail[m],
         life'[m] = life[m] \/ life'[m] \notin {"none", "new", "returned", "done"}
  PROVE  AskOK(m)'
BY DEF AskOK, Here

LEMMA RangeOfNone ==
  Range(<< >>) = {}
BY DEF Range

\* What awaits nothing has no mail.
LEMMA AskNone ==
  ASSUME NEW m, asked'[m] = << >>, \A id \in DOMAIN mail'[m] : FALSE
  PROVE  AskOK(m)'
BY DEF AskOK

\* A machine at another instruction awaits nothing.
LEMMA AsksNothing ==
  ASSUME NEW m, AskOK(m),
         \/ \E op : Is(m, op) /\ op \notin Awaits
         \/ life[m] \in {"none", "new", "returned", "done"}
         \/ at[m] > Len(Code[code[m]]) /\ at[m] \in Nat /\ Len(Code[code[m]]) \in Nat
         \/ asked[m] = << >>
  PROVE  asked[m] = << >> /\ \A id \in DOMAIN mail[m] : FALSE
<1>1. asked[m] = << >>
  BY DEF AskOK, Is
<1>2. QED
  BY <1>1, RangeOfNone DEF AskOK

\* A step that only moves m on from another instruction.
LEMMA AskMoves ==
  ASSUME Asking, NEW m \in Machines, \E op : Is(m, op) /\ op \notin Awaits,
         asked' = asked, mail' = mail, \A x \in Machines : x # m => at'[x] = at[x],
         code' = code, life' = life
  PROVE  Asking'
<1>1. asked[m] = << >> /\ \A id \in DOMAIN mail[m] : FALSE
  BY AsksNothing DEF Asking
<1>2. AskOK(m)'
  BY <1>1, AskNone
<1>3. ASSUME NEW x \in Machines, x # m PROVE AskOK(x)'
  BY <1>3, AskRests DEF Asking
<1>4. QED
  BY <1>2, <1>3 DEF Asking

LEMMA NextMoves ==
  ASSUME PlaceOK, NEW m \in Machines, Next1(m) \/ Jump(m)
  PROVE  \A x \in Machines : x # m => at'[x] = at[x]
BY DEF Next1, Jump, PlaceOK

LEMMA SpawnAsks ==
  ASSUME RoutinesOK, Asking, NEW m \in Machines, SpawnChild(m)
  PROVE  Asking'
<1>1. PICK c \in Machines :
        /\ life[c] = "none" /\ life' = [life EXCEPT ![c] = "new"]
        /\ code' = [code EXCEPT ![c] = Here(m).child]
  BY DEF SpawnChild
<1>2. /\ asked' = asked /\ mail' = mail /\ Next1(m)
      /\ \E op : Is(m, op) /\ op \notin Awaits
  <2>1. asked' = asked /\ mail' = mail /\ Next1(m)
    BY DEF SpawnChild
  <2>2. Is(m, "spawned") \/ Is(m, "spawned_pinned")
    BY DEF SpawnChild
  <2>3. "spawned" \notin Awaits /\ "spawned_pinned" \notin Awaits
    BY DEF Awaits
  <2>4. QED
    BY <2>1, <2>2, <2>3
<1>3. \A x \in Machines : x # m => at'[x] = at[x]
  BY <1>2, NextMoves DEF RoutinesOK
<1>4. asked[m] = << >> /\ \A id \in DOMAIN mail[m] : FALSE
  BY <1>2, AsksNothing DEF Asking
<1>5. asked[c] = << >> /\ \A id \in DOMAIN mail[c] : FALSE
  BY <1>1, AsksNothing DEF Asking
<1>6. AskOK(m)' /\ AskOK(c)'
  BY <1>2, <1>4, <1>5, AskNone
<1>7. ASSUME NEW x \in Machines, x # m, x # c PROVE AskOK(x)'
  <2>1. life'[x] = life[x] /\ code'[x] = code[x]
    BY <1>1, <1>7 DEF RoutinesOK, LifeOK
  <2>2. QED
    BY <1>2, <1>3, <1>7, <2>1, AskRests DEF Asking
<1>8. QED
  BY <1>6, <1>7 DEF Asking

LEMMA RecordAsks ==
  ASSUME RoutinesOK, Asking, NEW m \in Machines, Record(m)
  PROVE  Asking'
<1> DEFINE kinds == Here(m).kinds
           ids == [i \in 1 .. Len(kinds) |-> minted[m] + i]
<1>1. /\ asked' = [asked EXCEPT ![m] = ids]
      /\ mail' = [mail EXCEPT ![m] =
                    [id \in DOMAIN @ \cup Range(ids) |->
                       IF id \in DOMAIN @ THEN @[id] ELSE Pending]]
      /\ UNCHANGED <<life, code, at>>
  BY DEF Record
<1>2. /\ asked[m] = << >> /\ \A id \in DOMAIN mail[m] : FALSE
      /\ life[m] = "polling" /\ at[m] <= Len(Code[code[m]]) /\ Here(m).op \in Awaits
  <2>1. Is(m, "ask") \/ Is(m, "join") \/ Is(m, "select")
    BY DEF Record
  <2>2. asked[m] = << >>
    BY DEF Record
  <2>3. QED
    BY <2>1, <2>2, AsksNothing DEF Asking, Is, Awaits
<1>3. Len(kinds) \in Nat
  <2>1. Here(m) \in Records(demo)
    BY IsHere DEF Record
  <2>2. QED
    BY <2>1 DEF Records
<1>4. Len(ids) = Len(kinds)
  BY <1>3
<1>5. asked'[m] = ids /\ \A x \in Machines : x # m => asked'[x] = asked[x]
  BY <1>1 DEF RoutinesOK, MailOK
<1>6. DOMAIN mail'[m] \subseteq Range(ids)
  <2>1. mail'[m] = [id \in DOMAIN mail[m] \cup Range(ids) |->
                      IF id \in DOMAIN mail[m] THEN mail[m][id] ELSE Pending]
    BY <1>1 DEF RoutinesOK, MailOK
  <2>2. QED
    BY <1>2, <2>1
<1>7. \A x \in Machines : x # m => mail'[x] = mail[x]
  BY <1>1 DEF RoutinesOK, MailOK
<1> HIDE DEF ids
<1>8. AskOK(m)'
  <2>1. Here(m)' = Here(m) /\ life'[m] = "polling"
    BY <1>1, <1>2 DEF Here
  <2>2. QED
    BY <1>1, <1>2, <1>4, <1>5, <1>6, <2>1 DEF AskOK
<1>9. ASSUME NEW x \in Machines, x # m PROVE AskOK(x)'
  BY <1>1, <1>5, <1>7, <1>9, AskRests DEF Asking
<1>10. QED
  BY <1>8, <1>9 DEF Asking

\* A machine that awaits one request collects or drops it.
LEMMA AskTaken ==
  ASSUME RoutinesOK, Asking, NEW m \in Machines, Is(m, "ask") \/ Is(m, "select"),
         asked[m] # << >>, mail' = [mail EXCEPT ![m] = Without(m, {Head(asked[m])})],
         asked' = [asked EXCEPT ![m] = << >>], Next1(m) \/ Jump(m), code' = code, life' = life
  PROVE  Asking' /\ Range(asked[m]) = {Head(asked[m])}
<1>1. Len(asked[m]) = 1
  <2>1. Here(m) \in Instrs(demo) /\ Here(m).op \in {"ask", "select"}
    BY IsHere
  <2>2. Len(Here(m).kinds) = 1
    BY <2>1 DEF Instrs
  <2>3. QED
    BY <2>2 DEF Asking, AskOK
<1>2. Range(asked[m]) = {Head(asked[m])}
  <2>1. asked[m] \in Seq(Nat)
    BY DEF RoutinesOK, MailOK
  <2>2. Head(asked[m]) = asked[m][1]
    BY <2>1
  <2>3. DOMAIN asked[m] = {1}
    BY <1>1, <2>1
  <2>4. QED
    BY <2>2, <2>3 DEF Range
<1>3. \A id \in DOMAIN mail'[m] : FALSE
  <2>1. DOMAIN mail[m] \subseteq {Head(asked[m])}
    BY <1>2 DEF Asking, AskOK
  <2>2. mail'[m] = Without(m, {Head(asked[m])})
    BY DEF RoutinesOK, MailOK
  <2>3. DOMAIN Without(m, {Head(asked[m])}) = DOMAIN mail[m] \ {Head(asked[m])}
    BY DEF Without
  <2>4. QED
    BY <2>1, <2>2, <2>3
<1>4. /\ asked'[m] = << >>
      /\ \A x \in Machines : x # m => asked'[x] = asked[x] /\ mail'[x] = mail[x]
  BY DEF RoutinesOK, MailOK
<1>5. AskOK(m)'
  BY <1>3, <1>4, AskNone
<1>6. \A x \in Machines : x # m => at'[x] = at[x]
  BY NextMoves DEF RoutinesOK
<1>7. ASSUME NEW x \in Machines, x # m PROVE AskOK(x)'
  BY <1>4, <1>6, <1>7, AskRests DEF Asking
<1>8. QED
  BY <1>2, <1>5, <1>7 DEF Asking

LEMMA JoinAsks ==
  ASSUME RoutinesOK, Asking, NEW m \in Machines, JoinBoth(m)
  PROVE  Asking'
<1> DEFINE ready == {id \in Range(asked[m]) : Answered(m, id)}
           left == (Range(asked[m]) \cap DOMAIN mail[m]) \ ready
<1>1. /\ mail' = [mail EXCEPT ![m] = Without(m, ready)]
      /\ IF left = {} THEN /\ asked' = [asked EXCEPT ![m] = << >>]
                           /\ Next1(m)
                      ELSE UNCHANGED <<asked, at>>
      /\ UNCHANGED <<life, code>>
  BY DEF JoinBoth
<1>2. left = {} => \A id \in DOMAIN mail[m] : id \in ready
  <2>1. DOMAIN mail[m] \subseteq Range(asked[m])
    BY DEF Asking, AskOK
  <2>2. QED
    BY <2>1
<1> HIDE DEF ready, left
<1>3. /\ mail'[m] = Without(m, ready)
      /\ \A x \in Machines : x # m => mail'[x] = mail[x]
  BY <1>1 DEF RoutinesOK, MailOK
<1>4. DOMAIN mail'[m] = DOMAIN mail[m] \ ready
  BY <1>3 DEF Without
<1>5. CASE left = {}
  <2>1. asked'[m] = << >> /\ \A x \in Machines : x # m => asked'[x] = asked[x]
    BY <1>1, <1>5 DEF RoutinesOK, MailOK
  <2>2. AskOK(m)'
    BY <1>2, <1>4, <1>5, <2>1, AskNone
  <2>3. \A x \in Machines : x # m => at'[x] = at[x]
    BY <1>1, <1>5, NextMoves DEF RoutinesOK
  <2>4. ASSUME NEW x \in Machines, x # m PROVE AskOK(x)'
    BY <1>1, <1>3, <2>1, <2>3, <2>4, AskRests DEF Asking
  <2>5. QED
    BY <2>2, <2>4 DEF Asking
<1>6. CASE left # {}
  <2>1. asked' = asked /\ at' = at
    BY <1>1, <1>6
  <2>2. ASSUME NEW x \in Machines PROVE AskOK(x)'
    <3>1. DOMAIN mail'[x] \subseteq DOMAIN mail[x]
      BY <1>3, <1>4
    <3>2. QED
      BY <1>1, <2>1, <3>1, AskRests DEF Asking
  <2>3. QED
    BY <2>2 DEF Asking
<1>7. QED
  BY <1>5, <1>6

LEMMA EndAsks ==
  ASSUME RoutinesOK, Asking, NEW m \in Machines, Suspend(m) \/ Return(m)
  PROVE  Asking'
<1>1. /\ asked' = asked /\ mail' = mail /\ at' = at /\ code' = code
      /\ life' = [life EXCEPT ![m] = "yielded"] \/ life' = [life EXCEPT ![m] = "returned"]
  BY DEF Suspend, Return
<1>2. \A x \in Machines : x # m => life'[x] = life[x]
  BY <1>1 DEF RoutinesOK, LifeOK
<1>3. ASSUME NEW x \in Machines, x # m PROVE AskOK(x)'
  BY <1>1, <1>2, <1>3, AskRests DEF Asking
<1>4. AskOK(m)'
  <2>1. CASE Suspend(m)
    <3>1. life'[m] = "yielded"
      BY <2>1 DEF Suspend, RoutinesOK, LifeOK
    <3>2. QED
      BY <1>1, <3>1, AskRests DEF Asking
  <2>2. CASE Return(m)
    <3>1. at[m] > Len(Code[code[m]]) /\ at[m] \in Nat /\ Len(Code[code[m]]) \in Nat
      <4>1. life[m] # "none" /\ at[m] > Len(Code[code[m]])
        BY <2>2 DEF Return
      <4>2. demo \in Demos /\ code[m] \in Kin(demo)
        BY <4>1 DEF RoutinesOK, LifeOK
      <4>3. Code[code[m]] \in Seq(Instrs(demo))
        BY <4>2, CodeIs
      <4>4. QED
        BY <4>1, <4>3 DEF RoutinesOK, PlaceOK
    <3>2. asked[m] = << >> /\ \A id \in DOMAIN mail[m] : FALSE
      BY <3>1, AsksNothing DEF Asking
    <3>3. QED
      BY <1>1, <3>2, AskNone
  <2>3. QED
    BY <2>1, <2>2
<1>5. QED
  BY <1>3, <1>4 DEF Asking

LEMMA PollAsks ==
  ASSUME RoutinesOK, Asking, NEW m \in Machines, PollStep(m)
  PROVE  Asking'
<1> DEFINE plain == {"write", "show", "send", "forward", "recv", "drop", "goto"}
<1>0. \A op \in plain : op \notin Awaits
  BY DEF Awaits
<1>1. CASE WriteLine(m) \/ SendMessage(m) \/ Receive(m) \/ DropEnds(m) \/ Continue(m)
  <2>1. \E op \in plain : Is(m, op)
    BY <1>1 DEF WriteLine, SendMessage, Receive, DropEnds, Continue
  <2>2. /\ asked' = asked /\ mail' = mail /\ code' = code /\ life' = life
        /\ Next1(m) \/ Jump(m)
    BY <1>1 DEF WriteLine, SendMessage, Receive, DropEnds, Continue
  <2>3. \A x \in Machines : x # m => at'[x] = at[x]
    BY <2>2, NextMoves DEF RoutinesOK
  <2>4. QED
    BY <1>0, <2>1, <2>2, <2>3, AskMoves
<1>2. CASE Collect(m) \/ SelectFirst(m)
  <2>1. /\ Is(m, "ask") \/ Is(m, "select")
        /\ asked[m] # << >> /\ mail' = [mail EXCEPT ![m] = Without(m, {Head(asked[m])})]
        /\ asked' = [asked EXCEPT ![m] = << >>] /\ code' = code /\ life' = life
    BY <1>2 DEF Collect, SelectFirst
  <2>2. Next1(m) \/ Jump(m)
    BY <1>2, Zenon DEF Collect, SelectFirst
  <2>3. QED
    BY <2>1, <2>2, AskTaken
<1>3. QED
  BY <1>1, <1>2, SpawnAsks, RecordAsks, JoinAsks, EndAsks DEF PollStep

\* What a host does to a machine.
LEMMA CallAsks ==
  ASSUME RoutinesOK, Asking, NEW m \in Machines,
         \/ Resumes(m) \/ (\E id, n : Replies(m, id, n)) \/ Reads(m)
         \/ Kills(m) \/ UNCHANGED routines
  PROVE  Asking'
<1>1. CASE UNCHANGED routines
  BY <1>1 DEF routines, Asking, AskOK, Here
<1>2. CASE Resumes(m) \/ Reads(m)
  <2>1. /\ asked' = asked /\ mail' = mail /\ at' = at /\ code' = code
        /\ \A x \in Machines : x # m => life'[x] = life[x]
    BY <1>2 DEF Resumes, Reads, RoutinesOK, LifeOK
  <2>2. \/ life'[m] \in {"polling", "waiting"}
        \/ life[m] = "returned"
    BY <1>2 DEF Resumes, Reads, RoutinesOK, LifeOK
  <2>3. AskOK(m)'
    <3>1. CASE life'[m] \in {"polling", "waiting"}
      BY <2>1, <3>1, AskRests DEF Asking
    <3>2. CASE life[m] = "returned"
      <4>1. asked[m] = << >> /\ \A id \in DOMAIN mail[m] : FALSE
        BY <3>2, AsksNothing DEF Asking
      <4>2. QED
        BY <2>1, <4>1, AskNone
    <3>3. QED
      BY <2>2, <3>1, <3>2
  <2>4. ASSUME NEW x \in Machines, x # m PROVE AskOK(x)'
    BY <2>1, <2>4, AskRests DEF Asking
  <2>5. QED
    BY <2>3, <2>4 DEF Asking
<1>3. CASE \E id, n : Replies(m, id, n)
  <2>1. PICK id, n : Replies(m, id, n)
    BY <1>3
  <2>2. /\ asked' = asked /\ at' = at /\ code' = code
        /\ mail' = [mail EXCEPT ![m][id] = n] /\ life' = [life EXCEPT ![m] = "polling"]
    BY <2>1 DEF Replies
  <2>3. /\ \A x \in Machines : DOMAIN mail'[x] = DOMAIN mail[x]
        /\ life'[m] = "polling" /\ \A x \in Machines : x # m => life'[x] = life[x]
    BY <2>2 DEF RoutinesOK, MailOK, LifeOK
  <2>4. ASSUME NEW x \in Machines PROVE AskOK(x)'
    BY <2>2, <2>3, AskRests DEF Asking
  <2>5. QED
    BY <2>4 DEF Asking
<1>4. CASE Kills(m)
  <2>1. /\ at' = at /\ code' = code /\ asked'[m] = << >>
        /\ mail'[m] = << >>
        /\ \A x \in Machines : x # m =>
             life'[x] = life[x] /\ asked'[x] = asked[x] /\ mail'[x] = mail[x]
    BY <1>4 DEF Kills, RoutinesOK, MailOK, LifeOK
  <2>2. AskOK(m)'
    BY <2>1, AskNone, NoMailIs
  <2>3. ASSUME NEW x \in Machines, x # m PROVE AskOK(x)'
    BY <2>1, <2>3, AskRests DEF Asking
  <2>4. QED
    BY <2>2, <2>3 DEF Asking
<1>5. QED
  BY <1>1, <1>2, <1>3, <1>4

LEMMA AskStart ==
  ASSUME RoutinesInit
  PROVE  Asking
<1>1. SUFFICES ASSUME NEW m \in Machines PROVE AskOK(m)
  BY DEF Asking
<1>2. asked[m] = << >> /\ mail[m] = << >>
  BY DEF RoutinesInit
<1>3. QED
  BY <1>2, NoMailIs DEF AskOK

-----------------------------------------------------------------------------
\* A step of m's poll, as the hosts see it: it is m that polls; others are
\* left as they are, but for one made; what was open stays so or is closed in
\* m's output; what it adds to the output is open, or the one just made.
PollsAlone(m) ==
  \A x \in Machines : x # m => out'[x] = out[x] /\ mail'[x] = mail[x]
PollsOn(m) ==
  /\ life[m] = "polling" /\ life'[m] \in Mid
  /\ \A x \in Machines : x # m =>
       life'[x] = life[x] \/ (life[x] = "none" /\ life'[x] = "new")
KeepsOpen(m) ==
  /\ \A id : Open(m, id) => Open(m, id)' \/ id \in Range(out'[m].closed)
  /\ Range(out[m].closed) \subseteq Range(out'[m].closed)
Opened(letters, m, id) == id \in DOMAIN letters[m] /\ letters[m][id] = Pending
NewAsks(m) ==
  \A i \in 1 .. Len(out'[m].effects) :
    i > Len(out[m].effects) /\ out'[m].effects[i].kind \in Asks =>
      Opened(mail', m, out'[m].effects[i].id)
NewBirths(m) ==
  \A i \in 1 .. Len(out'[m].effects) :
    i > Len(out[m].effects) /\ out'[m].effects[i].kind \in Begets =>
      LET c == out'[m].effects[i].id
      IN life[c] = "none" /\ life'[c] = "new" /\ i = Len(out'[m].effects)
Progress(m) ==
  PollsAlone(m) /\ PollsOn(m) /\ KeepsOpen(m) /\ NewAsks(m) /\ NewBirths(m)

LEMMA SameMail ==
  ASSUME NEW m, mail' = mail, out'[m].closed = out[m].closed
  PROVE  KeepsOpen(m)
BY DEF KeepsOpen, Open

LEMMA SameEffects ==
  ASSUME NEW m \in Machines, out'[m].effects = out[m].effects, OutOK
  PROVE  NewAsks(m) /\ NewBirths(m)
<1>1. out[m].effects \in Seq(GoodEffect)
  BY DEF OutOK, Outs
<1>2. Len(out[m].effects) \in Nat
  BY <1>1
<1>3. QED
  BY <1>2 DEF NewAsks, NewBirths

LEMMA SameLives ==
  ASSUME NEW m, life[m] = "polling", life' = life
  PROVE  PollsOn(m)
BY DEF PollsOn, Mid

LEMMA PlainProgress ==
  ASSUME RoutinesOK, NEW m \in Machines,
         \/ SendMessage(m) \/ Receive(m) \/ DropEnds(m) \/ Continue(m) \/ Suspend(m)
         \/ Return(m)
  PROVE  Progress(m)
<1>1. mail' = mail
  BY DEF SendMessage, Receive, DropEnds, Continue, Suspend, Return
<1>2. out' = out \/ \E S : Wakes(m, S)
  BY DEF SendMessage, Receive, DropEnds, Continue, Suspend, Return
<1>3. out'[m].effects = out[m].effects /\ \A x \in Machines : x # m => out'[x] = out[x]
  BY <1>2, WakesAdd
<1>4. out'[m].closed = out[m].closed
  <2>1. CASE out' = out
    BY <2>1
  <2>2. CASE \E S : Wakes(m, S)
    <3>1. PICK s : out' = [out EXCEPT ![m].woke = @ \o s]
      BY <2>2 DEF Wakes
    <3>2. QED
      BY <3>1 DEF RoutinesOK, OutOK, Outs
  <2>3. QED
    BY <1>2, <2>1, <2>2
<1>5. life[m] = "polling"
  BY DEF SendMessage, Receive, DropEnds, Continue, Suspend, Return, Is
<1>6. PollsOn(m)
  <2>1. \/ life' = life \/ life' = [life EXCEPT ![m] = "yielded"]
        \/ life' = [life EXCEPT ![m] = "returned"]
    BY DEF SendMessage, Receive, DropEnds, Continue, Suspend, Return
  <2>2. QED
    BY <1>5, <2>1 DEF PollsOn, Mid, RoutinesOK, LifeOK
<1>7. QED
  BY <1>1, <1>3, <1>4, <1>6, SameMail, SameEffects DEF Progress, PollsAlone, RoutinesOK

\* One effect more, and nothing else in the output.
LEMMA OneMore ==
  ASSUME RoutinesOK, NEW m \in Machines, NEW e, Emits(m, <<e>>)
  PROVE  /\ out'[m].closed = out[m].closed
         /\ Len(out'[m].effects) = Len(out[m].effects) + 1
         /\ \A i \in 1 .. Len(out'[m].effects) :
              i > Len(out[m].effects) => i = Len(out'[m].effects) /\ out'[m].effects[i] = e
<1>1. out[m].effects \in Seq(GoodEffect) /\ out[m] \in Outs
  BY DEF RoutinesOK, OutOK, Outs
<1>2. out'[m].effects = out[m].effects \o <<e>>
  BY EmitsIs DEF RoutinesOK
<1>3. out'[m].closed = out[m].closed
  BY DEF Emits, RoutinesOK, OutOK, Outs
<1> DEFINE s == out[m].effects
<1>4. s \in Seq(GoodEffect) /\ out'[m].effects = s \o <<e>>
  BY <1>1, <1>2
<1> HIDE DEF s
<1>5. /\ Len(s \o <<e>>) = Len(s) + 1
      /\ \A i \in 1 .. Len(s \o <<e>>) :
           i > Len(s) => i = Len(s \o <<e>>) /\ (s \o <<e>>)[i] = e
  BY <1>4
<1>6. QED
  BY <1>3, <1>4, <1>5 DEF s

LEMMA WriteProgress ==
  ASSUME RoutinesOK, NEW m \in Machines, WriteLine(m)
  PROVE  Progress(m)
<1>1. PICK e : Emits(m, <<e>>) /\ e.kind = "write"
  BY DEF WriteLine
<1>2. mail' = mail /\ life' = life /\ life[m] = "polling"
  BY DEF WriteLine, Is
<1>3. \A x \in Machines : x # m => out'[x] = out[x]
  BY <1>1, EmitsIs DEF RoutinesOK
<1>4. NewAsks(m) /\ NewBirths(m)
  BY <1>1, OneMore DEF NewAsks, NewBirths, Asks, Begets
<1>5. QED
  BY <1>1, <1>2, <1>3, <1>4, OneMore, SameMail, SameLives DEF Progress, PollsAlone

LEMMA SpawnProgress ==
  ASSUME RoutinesOK, NEW m \in Machines, SpawnChild(m)
  PROVE  Progress(m)
<1>1. PICK c \in Machines :
        /\ life[c] = "none" /\ life' = [life EXCEPT ![c] = "new"]
        /\ Emits(m, <<[kind |-> Here(m).op, id |-> c, text |-> "", n |-> 0]>>)
  BY DEF SpawnChild
<1> DEFINE e == [kind |-> Here(m).op, id |-> c, text |-> "", n |-> 0]
<1>2. Emits(m, <<e>>) /\ e.kind \in Begets /\ e.id = c
  <2>1. Here(m).op \in Begets
    BY DEF SpawnChild, Is, Begets
  <2>2. QED
    BY <1>1, <2>1
<1> HIDE DEF e
<1>3. mail' = mail /\ life[m] = "polling"
  BY DEF SpawnChild, Is
<1>4. \A x \in Machines : x # m => out'[x] = out[x]
  BY <1>2, EmitsIs DEF RoutinesOK
<1>5. life'[c] = "new" /\ c # m /\ \A x \in Machines : x # c => life'[x] = life[x]
  BY <1>1, <1>3 DEF RoutinesOK, LifeOK
<1>6. NewAsks(m) /\ NewBirths(m)
  <2>1. e.kind \notin Asks
    BY <1>2 DEF Begets, Asks
  <2>2. \A i \in 1 .. Len(out'[m].effects) :
          i > Len(out[m].effects) => i = Len(out'[m].effects) /\ out'[m].effects[i] = e
    BY <1>2, OneMore
  <2>3. NewAsks(m)
    BY <2>1, <2>2 DEF NewAsks
  <2>4. ASSUME NEW i \in 1 .. Len(out'[m].effects), i > Len(out[m].effects)
        PROVE  /\ life[out'[m].effects[i].id] = "none"
               /\ life'[out'[m].effects[i].id] = "new"
               /\ i = Len(out'[m].effects)
    <3>1. out'[m].effects[i].id = c /\ i = Len(out'[m].effects)
      BY <1>2, <2>2, <2>4
    <3>2. QED
      BY <1>1, <1>5, <3>1
  <2>5. NewBirths(m)
    BY <2>4 DEF NewBirths
  <2>6. QED
    BY <2>3, <2>5
<1>7. PollsOn(m)
  BY <1>1, <1>3, <1>5 DEF PollsOn, Mid
<1>8. QED
  BY <1>2, <1>3, <1>4, <1>6, <1>7, OneMore, SameMail DEF Progress, PollsAlone

LEMMA RecordProgress ==
  ASSUME RoutinesOK, Asking, NEW m \in Machines, Record(m)
  PROVE  Progress(m)
<1> DEFINE kinds == Here(m).kinds
           n == Len(kinds)
           ids == [i \in 1 .. n |-> minted[m] + i]
           recorded == [i \in 1 .. n |->
                       [kind |-> kinds[i], id |-> ids[i], text |-> "",
                        n |-> IF kinds[i] = "write_file" THEN got[m] + 1 ELSE 0]]
<1>1. /\ mail' = [mail EXCEPT ![m] =
                    [id \in DOMAIN @ \cup Range(ids) |->
                       IF id \in DOMAIN @ THEN @[id] ELSE Pending]]
      /\ Emits(m, recorded) /\ life' = life
  BY DEF Record
<1>2. life[m] = "polling" /\ \A id \in DOMAIN mail[m] : FALSE
  <2>1. asked[m] = << >> /\ life[m] = "polling"
    BY DEF Record, Is
  <2>2. QED
    BY <2>1, AsksNothing DEF Asking
<1>3. kinds \in Seq(Asks)
  <2>1. Here(m) \in Records(demo)
    BY IsHere DEF Record
  <2>2. QED
    BY <2>1 DEF Records
<1>4. n \in Nat /\ \A i \in 1 .. n : kinds[i] \in Asks
  BY <1>3
<1> HIDE DEF kinds, n
<1>5. \A i \in 1 .. n : ids[i] \in Range(ids)
  BY DEF Range
<1>6. /\ mail'[m] = [id \in DOMAIN mail[m] \cup Range(ids) |->
                       IF id \in DOMAIN mail[m] THEN mail[m][id] ELSE Pending]
      /\ \A x \in Machines : x # m => mail'[x] = mail[x]
  BY <1>1 DEF RoutinesOK, MailOK
<1>7. \A id \in Range(ids) : id \in DOMAIN mail'[m] /\ mail'[m][id] = Pending
  BY <1>2, <1>6
<1> HIDE DEF ids
<1>8. \A i \in 1 .. n : recorded[i].kind \in Asks /\ recorded[i].id \in Range(ids)
  BY <1>4, <1>5
<1>9. Len(recorded) = n
  BY <1>4
<1>a. recorded \in Seq(Range(recorded))
  <2> DEFINE R == Range(recorded)
  <2>1. \A i \in 1 .. n : recorded[i] \in R
    BY DEF Range
  <2> HIDE DEF R
  <2>2. recorded \in [1 .. n -> R]
    BY <2>1
  <2> HIDE DEF recorded
  <2>3. recorded \in Seq(R)
    BY <1>4, <2>2
  <2>4. QED
    BY <2>3 DEF R
<1> HIDE DEF recorded
<1>10. /\ out'[m].effects = out[m].effects \o recorded
       /\ \A x \in Machines : x # m => out'[x] = out[x]
  BY <1>1, EmitsIs DEF RoutinesOK
<1>11. out'[m].closed = out[m].closed
  BY <1>1 DEF Emits, RoutinesOK, OutOK, Outs
<1>12. \A i \in 1 .. Len(out'[m].effects) : i > Len(out[m].effects) =>
         out'[m].effects[i].kind \in Asks /\ out'[m].effects[i].id \in Range(ids)
  <2> DEFINE s == out[m].effects
  <2>1. s \in Seq(GoodEffect)
    BY DEF RoutinesOK, OutOK, Outs
  <2>2. out'[m].effects = s \o recorded
    BY <1>10
  <2> HIDE DEF s
  <2>3. \A i \in 1 .. Len(s \o recorded) : i > Len(s) =>
          i - Len(s) \in 1 .. n /\ (s \o recorded)[i] = recorded[i - Len(s)]
    BY <1>9, <1>a, <2>1
  <2>4. QED
    BY <1>8, <2>2, <2>3 DEF s
<1>13. NewAsks(m)
  <2>1. \A id \in Range(ids) : Opened(mail', m, id)
    BY <1>7 DEF Opened
  <2>2. QED
    BY <1>12, <2>1 DEF NewAsks
<1>14. NewBirths(m)
  <2>1. \A k \in Begets : k \notin Asks
    BY DEF Begets, Asks
  <2>2. QED
    BY <1>12, <2>1 DEF NewBirths
<1>15. KeepsOpen(m)
  BY <1>2, <1>11 DEF KeepsOpen, Open
<1>16. QED
  BY <1>1, <1>2, <1>6, <1>10, <1>13, <1>14, <1>15, SameLives DEF Progress, PollsAlone

LEMMA TakenProgress ==
  ASSUME RoutinesOK, NEW m \in Machines, Collect(m) \/ JoinBoth(m)
  PROVE  Progress(m)
<1>1. PICK S : /\ mail' = [mail EXCEPT ![m] = Without(m, S)]
               /\ \A id \in S : Answered(m, id)
  <2>1. CASE Collect(m)
    <3> DEFINE id == Head(asked[m])
               S == {id}
    <3>1. mail' = [mail EXCEPT ![m] = Without(m, S)] /\ Answered(m, id)
      BY <2>1 DEF Collect
    <3>2. \A x \in S : Answered(m, x)
      BY <3>1
    <3> HIDE DEF S
    <3>3. QED
      BY <3>1, <3>2
  <2>2. CASE JoinBoth(m)
    BY <2>2 DEF JoinBoth
  <2>3. QED
    BY <2>1, <2>2
<1>2. out' = out /\ life' = life /\ life[m] = "polling"
  BY DEF Collect, JoinBoth, Is
<1>3. mail'[m] = Without(m, S) /\ \A x \in Machines : x # m => mail'[x] = mail[x]
  BY <1>1 DEF RoutinesOK, MailOK
<1>4. KeepsOpen(m)
  <2>1. \A id : Open(m, id) => id \in DOMAIN mail[m] \ S /\ mail[m][id] = Pending
    BY <1>1 DEF Open, Answered
  <2>2. \A id \in DOMAIN mail[m] \ S : id \in DOMAIN mail'[m] /\ mail'[m][id] = mail[m][id]
    BY <1>3 DEF Without
  <2>3. \A id : Open(m, id) => Open(m, id)'
    BY <2>1, <2>2 DEF Open
  <2>4. QED
    BY <1>2, <2>3 DEF KeepsOpen
<1>5. QED
  BY <1>2, <1>3, <1>4, SameLives, SameEffects DEF Progress, PollsAlone, RoutinesOK

LEMMA SelectProgress ==
  ASSUME RoutinesOK, NEW m \in Machines, SelectFirst(m)
  PROVE  Progress(m)
<1> DEFINE id == Head(asked[m])
           abandoned == IF Answered(m, id) THEN << >> ELSE <<id>>
<1>1. /\ out' = [out EXCEPT ![m].closed = @ \o abandoned]
      /\ mail' = [mail EXCEPT ![m] = Without(m, {id})]
      /\ life' = life /\ life[m] = "polling"
  BY DEF SelectFirst, Is
<1>2. id \in Nat
  <2>1. asked[m] \in Seq(Nat) /\ asked[m] # << >>
    BY MailIs DEF RoutinesOK, SelectFirst
  <2>2. QED
    BY <2>1, HeadTailProperties
<1> HIDE DEF id
<1>3. abandoned \in Seq(Nat)
  BY <1>2
<1>4. mail'[m] = Without(m, {id}) /\ \A x \in Machines : x # m => mail'[x] = mail[x]
  BY <1>1 DEF RoutinesOK, MailOK
<1>5. out[m] \in Outs /\ out[m].closed \in Seq(Nat)
  BY DEF RoutinesOK, OutOK, Outs
<1>6. /\ out'[m].closed = out[m].closed \o abandoned
      /\ out'[m].effects = out[m].effects
      /\ \A x \in Machines : x # m => out'[x] = out[x]
  BY <1>1, <1>5 DEF RoutinesOK, OutOK, Outs
<1>7. /\ Range(out[m].closed) \subseteq Range(out'[m].closed)
      /\ Range(abandoned) \subseteq Range(out'[m].closed)
  <2> DEFINE s == out[m].closed
             t == abandoned
  <2>1. s \in Seq(Nat) /\ t \in Seq(Nat)
    BY <1>3, <1>5
  <2> HIDE DEF s, t
  <2>2. /\ \A i \in 1 .. Len(s) : i \in 1 .. Len(s \o t) /\ (s \o t)[i] = s[i]
        /\ \A i \in 1 .. Len(t) : Len(s) + i \in 1 .. Len(s \o t) /\ (s \o t)[Len(s) + i] = t[i]
    BY <2>1
  <2>3. s \o t \in Seq(Nat)
    BY <2>1
  <2> DEFINE u == s \o t
  <2>a. /\ \A x \in Range(s) : \E i \in 1 .. Len(s) : s[i] = x
        /\ \A x \in Range(t) : \E i \in 1 .. Len(t) : t[i] = x
    BY <2>1, RangeIs
  <2>b. \A i \in 1 .. Len(u) : u[i] \in Range(u)
    BY <2>3, RangeIs
  <2> HIDE DEF u
  <2>c. /\ \A i \in 1 .. Len(s) : s[i] \in Range(u)
        /\ \A i \in 1 .. Len(t) : t[i] \in Range(u)
    <3>1. /\ \A i \in 1 .. Len(s) : \E j \in 1 .. Len(u) : u[j] = s[i]
          /\ \A i \in 1 .. Len(t) : \E j \in 1 .. Len(u) : u[j] = t[i]
      BY <2>2 DEF u
    <3>2. QED
      BY <2>b, <3>1
  <2>4. /\ \A x \in Range(s) : x \in Range(s \o t)
        /\ \A x \in Range(t) : x \in Range(s \o t)
    BY <2>a, <2>c DEF u
  <2>5. QED
    BY <1>6, <2>4 DEF s, t
<1>8. KeepsOpen(m)
  <2>1. ASSUME NEW x, Open(m, x) PROVE Open(m, x)' \/ x \in Range(out'[m].closed)
    <3>1. CASE x = id
      <4>1. ~Answered(m, id)
        BY <2>1, <3>1 DEF Open, Answered
      <4>2. abandoned = <<id>>
        BY <4>1
      <4>3. id \in Range(abandoned)
        BY <4>2 DEF Range
      <4>4. QED
        BY <1>7, <3>1, <4>3
    <3>2. CASE x # id
      <4>1. x \in DOMAIN mail'[m] /\ mail'[m][x] = mail[m][x]
        BY <1>4, <2>1, <3>2 DEF Without, Open
      <4>2. QED
        BY <2>1, <4>1 DEF Open
    <3>3. QED
      BY <3>1, <3>2
  <2>2. QED
    BY <1>7, <2>1 DEF KeepsOpen
<1>9. QED
  BY <1>1, <1>4, <1>6, <1>8, SameLives, SameEffects DEF Progress, PollsAlone, RoutinesOK

LEMMA PollProgress ==
  ASSUME RoutinesOK, Asking, NEW m \in Machines, PollStep(m)
  PROVE  Progress(m)
BY PlainProgress, WriteProgress, SpawnProgress, RecordProgress, TakenProgress,
   SelectProgress DEF PollStep

\* Between polls a machine has nothing to yield, and an ask that a poll has to
\* yield is open, unless the same poll closed it.
Yielded == \A m \in Machines : life[m] \notin Mid => out[m] = Nothing
AskShown(m) ==
  \A i \in 1 .. Len(out[m].effects) :
    out[m].effects[i].kind \in Asks =>
      \/ Opened(mail, m, out[m].effects[i].id)
      \/ out[m].effects[i].id \in Range(out[m].closed)
AskedOut == \A m \in Machines : AskShown(m)
Polls == Asking /\ Yielded /\ AskedOut

LEMMA NothingHas ==
  /\ Nothing.effects = << >> /\ Nothing.closed = << >> /\ Len(<< >>) = 0
  /\ Range(<< >>) = {}
BY RangeOfNone DEF Nothing

LEMMA NothingShown ==
  ASSUME NEW m, out'[m] = Nothing
  PROVE  AskShown(m)'
BY NothingHas DEF AskShown

\* What was added to an output leaves the rest of it as it was.
LEMMA AddedKeeps ==
  ASSUME RoutinesOK, NEW m \in Machines, NEW t, Added(m, t)
  PROVE  /\ Len(out[m].effects) \in Nat
         /\ \A i \in 1 .. Len(out'[m].effects) : i <= Len(out[m].effects) =>
              i \in 1 .. Len(out[m].effects) /\ out'[m].effects[i] = out[m].effects[i]
<1> DEFINE s == out[m].effects
<1>1. s \in Seq(GoodEffect) /\ t \in Seq(GoodEffect) /\ out'[m].effects = s \o t
  BY DEF Added, RoutinesOK, OutOK, Outs
<1> HIDE DEF s
<1>2. /\ Len(s) \in Nat
      /\ \A i \in 1 .. Len(s \o t) : i <= Len(s) => i \in 1 .. Len(s) /\ (s \o t)[i] = s[i]
  BY <1>1
<1>3. QED
  BY <1>1, <1>2 DEF s

LEMMA PollPolls ==
  ASSUME RoutinesOK, Polls, NEW m \in Machines, PollStep(m)
  PROVE  Polls' /\ Progress(m)
<1>1. Asking' /\ Progress(m)
  BY PollAsks, PollProgress DEF Polls
<1>2. Yielded'
  <2>1. ASSUME NEW x \in Machines, life'[x] \notin Mid PROVE out'[x] = Nothing
    <3>1. x # m /\ out'[x] = out[x]
      BY <1>1, <2>1 DEF Progress, PollsOn, PollsAlone
    <3>2. life[x] \notin Mid
      BY <1>1, <2>1, <3>1 DEF Progress, PollsOn, Mid
    <3>3. QED
      BY <3>1, <3>2 DEF Polls, Yielded
  <2>2. QED
    BY <2>1 DEF Yielded
<1>3. ASSUME NEW x \in Machines, x # m PROVE AskShown(x)'
  <2>1. out'[x] = out[x] /\ mail'[x] = mail[x] /\ AskShown(x)
    BY <1>1, <1>3 DEF Progress, PollsAlone, Polls, AskedOut
  <2>2. QED
    BY <2>1 DEF AskShown, Opened
<1>4. AskShown(m)'
  <2>1. ASSUME NEW i \in 1 .. Len(out'[m].effects), out'[m].effects[i].kind \in Asks
        PROVE  \/ Opened(mail', m, out'[m].effects[i].id)
               \/ out'[m].effects[i].id \in Range(out'[m].closed)
    <3>1. CASE i > Len(out[m].effects)
      BY <1>1, <2>1, <3>1 DEF Progress, NewAsks
    <3>2. CASE ~(i > Len(out[m].effects))
      <4>1. PICK t : Added(m, t)
        BY PollAdds
      <4>2. i \in 1 .. Len(out[m].effects) /\ out'[m].effects[i] = out[m].effects[i]
        BY <3>2, <4>1, AddedKeeps
      <4>3. \/ Opened(mail, m, out[m].effects[i].id)
            \/ out[m].effects[i].id \in Range(out[m].closed)
        BY <2>1, <4>2 DEF Polls, AskedOut, AskShown
      <4>4. /\ \A id : Opened(mail, m, id) =>
                 Opened(mail', m, id) \/ id \in Range(out'[m].closed)
            /\ Range(out[m].closed) \subseteq Range(out'[m].closed)
        BY <1>1 DEF Progress, KeepsOpen, Opened, Open
      <4>5. QED
        BY <4>2, <4>3, <4>4
    <3>3. QED
      BY <3>1, <3>2
  <2>2. QED
    BY <2>1 DEF AskShown
<1>5. QED
  BY <1>1, <1>2, <1>3, <1>4 DEF Polls, AskedOut

\* What a host does to a machine, which is freed only when it is complete.
Calls1(m) ==
  \/ Resumes(m) \/ (\E id, n : Replies(m, id, n)) \/ Reads(m)
  \/ Kills(m) /\ life[m] = "done"
  \/ UNCHANGED routines

LEMMA CallPolls ==
  ASSUME RoutinesOK, Polls, NEW m \in Machines, Calls1(m)
  PROVE  Polls'
<1>1. Asking'
  BY CallAsks DEF Polls, Calls1
<1>2. CASE Resumes(m) \/ (\E id, n : Replies(m, id, n)) \/ Reads(m)
  <2>1. /\ out' = [out EXCEPT ![m] = Nothing]
        /\ \A x \in Machines : x # m => life'[x] = life[x] /\ mail'[x] = mail[x]
    BY <1>2 DEF Resumes, Replies, Reads, RoutinesOK, LifeOK, MailOK
  <2>2. out'[m] = Nothing /\ \A x \in Machines : x # m => out'[x] = out[x]
    BY <2>1 DEF RoutinesOK, OutOK
  <2>3. Yielded'
    BY <2>1, <2>2 DEF Polls, Yielded
  <2>4. ASSUME NEW x \in Machines PROVE AskShown(x)'
    BY <2>1, <2>2, NothingShown DEF Polls, AskedOut, AskShown, Opened
  <2>5. QED
    BY <1>1, <2>3, <2>4 DEF Polls, AskedOut
<1>3. CASE Kills(m) /\ life[m] = "done"
  <2>1. out' = out /\ \A x \in Machines : x # m => life'[x] = life[x] /\ mail'[x] = mail[x]
    BY <1>3 DEF Kills, RoutinesOK, LifeOK, MailOK
  <2>2. out'[m] = Nothing
    BY <1>3, <2>1 DEF Polls, Yielded, Mid
  <2>3. Yielded'
    BY <2>1, <2>2 DEF Polls, Yielded
  <2>4. ASSUME NEW x \in Machines PROVE AskShown(x)'
    BY <2>1, <2>2, NothingShown DEF Polls, AskedOut, AskShown, Opened
  <2>5. QED
    BY <1>1, <2>3, <2>4 DEF Polls, AskedOut
<1>4. CASE UNCHANGED routines
  <2>1. out' = out /\ life' = life /\ mail' = mail
    BY <1>4 DEF routines
  <2>2. QED
    BY <1>1, <2>1 DEF Polls, Yielded, AskedOut, AskShown, Opened
<1>5. QED
  BY <1>2, <1>3, <1>4 DEF Calls1

LEMMA PollsStart ==
  ASSUME RoutinesInit
  PROVE  Polls
<1>1. \A m \in Machines : out[m] = Nothing
  BY DEF RoutinesInit
<1>2. QED
  BY <1>1, AskStart, NothingHas DEF Polls, Yielded, AskedOut, AskShown

\* A machine with an open request that is in no poll waits.
LEMMA OpenWaits ==
  ASSUME RoutinesOK, Polls, NEW m \in Machines, NEW id, Opened(mail, m, id),
         life[m] \notin Mid, life[m] # "dropped"
  PROVE  life[m] = "waiting" /\ Open(m, id)
<1>1. id \in Range(asked[m])
  BY DEF Polls, Asking, AskOK, Opened
<1>2. asked[m] # << >>
  BY <1>1, RangeOfNone
<1>3. life[m] \notin {"none", "new", "returned", "done"}
  BY <1>2 DEF Polls, Asking, AskOK
<1>4. life[m] \in Lives
  BY DEF RoutinesOK, LifeOK
<1>5. QED
  BY <1>3, <1>4 DEF Lives, Mid, Open, Opened

-----------------------------------------------------------------------------
(* PythonHost: each request waits in one place, in the queue or on the clock *)

IsAsk(a) ==
  \/ a.kind = "reply"
  \/ a.kind = "effect" /\ a.effect.kind \in Asks
Key(a) == <<a.m, a.effect.id>>

InQueue(q, r) == \E i \in 1 .. Len(q) : IsAsk(q[i]) /\ Key(q[i]) = r
OnClock(ts, r) == \E i \in 1 .. Len(ts) : Key(ts[i]) = r
Keys(q, ts) == {r \in Requests : InQueue(q, r) \/ OnClock(ts, r)}

QueuedOnce(q) ==
  \A i, j \in 1 .. Len(q) : IsAsk(q[i]) /\ IsAsk(q[j]) /\ Key(q[i]) = Key(q[j]) => i = j
ClockedOnce(ts) == \A i, j \in 1 .. Len(ts) : Key(ts[i]) = Key(ts[j]) => i = j
Once(q, ts) ==
  /\ QueuedOnce(q) /\ ClockedOnce(ts)
  /\ \A r : ~(InQueue(q, r) /\ OnClock(ts, r))

\* The requests of a sequence with one element out.
LEMMA QueueLess ==
  ASSUME NEW q \in Seq(GoodItem), NEW i \in 1 .. Len(q), QueuedOnce(q)
  PROVE  LET p == RemoveAt(q, i)
         IN /\ QueuedOnce(p) /\ \A r : InQueue(p, r) => InQueue(q, r)
            /\ IsAsk(q[i]) => ~InQueue(p, Key(q[i]))
            /\ \A k \in 1 .. Len(p) : \E j \in 1 .. Len(q) : p[k] = q[j]
<1> DEFINE p == RemoveAt(q, i)
           old(j) == IF j < i THEN j ELSE j + 1
<1>1. /\ Len(q) \in Nat /\ Len(p) = Len(q) - 1
      /\ \A j \in 1 .. i - 1 : p[j] = q[j]
      /\ \A j \in i .. Len(q) - 1 : p[j] = q[j + 1]
  BY RemoveIs
<1> HIDE DEF p
<1>2. \A j \in 1 .. Len(p) : old(j) \in 1 .. Len(q) /\ p[j] = q[old(j)] /\ old(j) # i
  BY <1>1
<1>3. \A j, k \in 1 .. Len(p) : old(j) = old(k) => j = k
  BY <1>1
<1> HIDE DEF old
<1>4. QueuedOnce(p)
  BY <1>2, <1>3 DEF QueuedOnce
<1>5. \A r : InQueue(p, r) => InQueue(q, r)
  BY <1>2 DEF InQueue
<1>6. IsAsk(q[i]) => ~InQueue(p, Key(q[i]))
  BY <1>2 DEF InQueue, QueuedOnce
<1>7. \A k \in 1 .. Len(p) : \E j \in 1 .. Len(q) : p[k] = q[j]
  BY <1>2
<1>8. QED
  BY <1>4, <1>5, <1>6, <1>7 DEF p

LEMMA ClockLess ==
  ASSUME NEW ts \in Seq(Timer), NEW i \in 1 .. Len(ts), ClockedOnce(ts)
  PROVE  LET p == RemoveAt(ts, i)
         IN /\ ClockedOnce(p) /\ \A r : OnClock(p, r) => OnClock(ts, r)
            /\ ~OnClock(p, Key(ts[i]))
<1> DEFINE p == RemoveAt(ts, i)
           old(j) == IF j < i THEN j ELSE j + 1
<1>1. /\ Len(ts) \in Nat /\ Len(p) = Len(ts) - 1
      /\ \A j \in 1 .. i - 1 : p[j] = ts[j]
      /\ \A j \in i .. Len(ts) - 1 : p[j] = ts[j + 1]
  BY RemoveIs
<1> HIDE DEF p
<1>2. \A j \in 1 .. Len(p) : old(j) \in 1 .. Len(ts) /\ p[j] = ts[old(j)] /\ old(j) # i
  BY <1>1
<1>3. \A j, k \in 1 .. Len(p) : old(j) = old(k) => j = k
  BY <1>1
<1> HIDE DEF old
<1>4. ClockedOnce(p)
  BY <1>2, <1>3 DEF ClockedOnce
<1>5. \A r : OnClock(p, r) => OnClock(ts, r)
  BY <1>2 DEF OnClock
<1>6. ~OnClock(p, Key(ts[i]))
  BY <1>2 DEF OnClock, ClockedOnce
<1>7. QED
  BY <1>4, <1>5, <1>6 DEF p

\* The requests of two sequences put together.
LEMMA QueueMore ==
  ASSUME NEW q \in Seq(GoodItem), NEW t \in Seq(GoodItem), QueuedOnce(q), QueuedOnce(t),
         \A r : ~(InQueue(q, r) /\ InQueue(t, r))
  PROVE  /\ QueuedOnce(q \o t)
         /\ \A r : InQueue(q \o t, r) <=> InQueue(q, r) \/ InQueue(t, r)
<1> DEFINE u == q \o t
<1>1. /\ Len(q) \in Nat /\ Len(t) \in Nat /\ Len(u) = Len(q) + Len(t)
      /\ \A i \in 1 .. Len(q) : i \in 1 .. Len(u) /\ u[i] = q[i]
      /\ \A i \in 1 .. Len(t) : Len(q) + i \in 1 .. Len(u) /\ u[Len(q) + i] = t[i]
      /\ \A i \in 1 .. Len(u) : i \notin 1 .. Len(q) =>
           i - Len(q) \in 1 .. Len(t) /\ u[i] = t[i - Len(q)] /\ i = Len(q) + (i - Len(q))
  OBVIOUS
<1> HIDE DEF u
<1>2. \A r : InQueue(u, r) <=> InQueue(q, r) \/ InQueue(t, r)
  BY <1>1 DEF InQueue
<1>3. ASSUME NEW i \in 1 .. Len(u), NEW j \in 1 .. Len(u), IsAsk(u[i]), IsAsk(u[j]),
             Key(u[i]) = Key(u[j])
      PROVE  i = j
  <2>1. CASE i \in 1 .. Len(q) /\ j \in 1 .. Len(q)
    BY <1>1, <1>3, <2>1 DEF QueuedOnce
  <2>2. CASE i \notin 1 .. Len(q) /\ j \notin 1 .. Len(q)
    <3>1. i - Len(q) = j - Len(q)
      BY <1>1, <1>3, <2>2 DEF QueuedOnce
    <3>2. QED
      BY <1>1, <3>1
  <2>3. CASE i \in 1 .. Len(q) /\ j \notin 1 .. Len(q)
    BY <1>1, <1>3, <2>3 DEF InQueue
  <2>4. CASE i \notin 1 .. Len(q) /\ j \in 1 .. Len(q)
    BY <1>1, <1>3, <2>4 DEF InQueue
  <2>5. QED
    BY <2>1, <2>2, <2>3, <2>4
<1>4. QED
  BY <1>2, <1>3 DEF QueuedOnce, u

LEMMA QueueOne ==
  ASSUME NEW q \in Seq(GoodItem), NEW a \in GoodItem, QueuedOnce(q),
         IsAsk(a) => ~InQueue(q, Key(a))
  PROVE  /\ QueuedOnce(Append(q, a))
         /\ \A r : InQueue(Append(q, a), r) => InQueue(q, r) \/ (IsAsk(a) /\ r = Key(a))
<1> DEFINE u == Append(q, a)
<1>1. /\ Len(q) \in Nat /\ Len(u) = Len(q) + 1 /\ u[Len(q) + 1] = a
      /\ \A i \in 1 .. Len(q) : u[i] = q[i]
  BY AppendIs
<1> HIDE DEF u
<1>2. \A i \in 1 .. Len(u) : (i \in 1 .. Len(q) /\ u[i] = q[i]) \/ (i = Len(q) + 1 /\ u[i] = a)
  BY <1>1
<1>3. QueuedOnce(u)
  BY <1>2 DEF QueuedOnce, InQueue
<1>4. \A r : InQueue(u, r) => InQueue(q, r) \/ (IsAsk(a) /\ r = Key(a))
  BY <1>2 DEF InQueue
<1>5. QED
  BY <1>3, <1>4 DEF u

LEMMA ClockOne ==
  ASSUME NEW ts \in Seq(Timer), NEW a \in Timer, ClockedOnce(ts), ~OnClock(ts, Key(a))
  PROVE  /\ ClockedOnce(Append(ts, a))
         /\ \A r : OnClock(Append(ts, a), r) => OnClock(ts, r) \/ r = Key(a)
<1> DEFINE u == Append(ts, a)
<1>1. /\ Len(ts) \in Nat /\ Len(u) = Len(ts) + 1 /\ u[Len(ts) + 1] = a
      /\ \A i \in 1 .. Len(ts) : u[i] = ts[i]
  BY AppendIs
<1> HIDE DEF u
<1>2. \A i \in 1 .. Len(u) : (i \in 1 .. Len(ts) /\ u[i] = ts[i]) \/ (i = Len(ts) + 1 /\ u[i] = a)
  BY <1>1
<1>3. ClockedOnce(u)
  BY <1>2 DEF ClockedOnce, OnClock
<1>4. \A r : OnClock(u, r) => OnClock(ts, r) \/ r = Key(a)
  BY <1>2 DEF OnClock
<1>5. QED
  BY <1>3, <1>4 DEF u

\* Every request kept is one a machine made.
LEMMA KeysAre ==
  ASSUME NEW q \in Seq(GoodItem), NEW ts \in Seq(Timer)
  PROVE  /\ \A r : InQueue(q, r) \/ OnClock(ts, r) <=> r \in Keys(q, ts)
         /\ \A i \in 1 .. Len(q) : IsAsk(q[i]) => Key(q[i]) \in Keys(q, ts)
         /\ \A i \in 1 .. Len(ts) : Key(ts[i]) \in Keys(q, ts)
<1>1. \A i \in 1 .. Len(q) : Key(q[i]) \in Requests
  <2>1. \A i \in 1 .. Len(q) : q[i] \in GoodItem
    OBVIOUS
  <2>2. QED
    BY <2>1, ItemIs DEF Key, Requests
<1>2. \A i \in 1 .. Len(ts) : Key(ts[i]) \in Requests
  <2>1. \A i \in 1 .. Len(ts) : ts[i] \in Timer
    OBVIOUS
  <2>2. QED
    BY <2>1 DEF Key, Requests, Timer, Effect
<1>3. QED
  BY <1>1, <1>2 DEF Keys, InQueue, OnClock

LEMMA OnceLess ==
  ASSUME NEW q \in Seq(GoodItem), NEW ts \in Seq(Timer), NEW i \in 1 .. Len(q), Once(q, ts)
  PROVE  LET p == RemoveAt(q, i)
         IN /\ Once(p, ts) /\ Keys(p, ts) \subseteq Keys(q, ts)
            /\ IsAsk(q[i]) => Key(q[i]) \notin Keys(p, ts)
<1> DEFINE p == RemoveAt(q, i)
<1>1. /\ QueuedOnce(p) /\ \A r : InQueue(p, r) => InQueue(q, r)
      /\ IsAsk(q[i]) => ~InQueue(p, Key(q[i])) /\ InQueue(q, Key(q[i]))
  BY QueueLess DEF Once, InQueue
<1> HIDE DEF p
<1>2. QED
  BY <1>1 DEF Once, Keys, p

LEMMA OnceFired ==
  ASSUME NEW q \in Seq(GoodItem), NEW ts \in Seq(Timer), NEW i \in 1 .. Len(ts), Once(q, ts)
  PROVE  LET p == RemoveAt(ts, i)
         IN /\ Once(q, p) /\ Keys(q, p) \subseteq Keys(q, ts)
            /\ Key(ts[i]) \notin Keys(q, p)
<1> DEFINE p == RemoveAt(ts, i)
<1>1. /\ ClockedOnce(p) /\ \A r : OnClock(p, r) => OnClock(ts, r)
      /\ ~OnClock(p, Key(ts[i])) /\ OnClock(ts, Key(ts[i]))
  BY ClockLess DEF Once, OnClock
<1> HIDE DEF p
<1>2. QED
  BY <1>1 DEF Once, Keys, p

\* The queue's children and woken machines are there; a request kept is one
\* made before, and open, unless the host heard it closed or is about to; what
\* an output still asks is kept nowhere yet.
There(lives, a) ==
  /\ a.kind = "effect" /\ a.effect.kind \in Begets => lives[a.effect.id] # "none"
  /\ a.kind = "resume" /\ a.lane = 0 => lives[a.m] # "none"
Queued ==
  /\ \A m \in Machines : life[m] # "dropped"
  /\ \A i \in 1 .. Len(queue) : There(life, queue[i])
  /\ \A m \in Machines : \A i \in 1 .. Len(out[m].effects) :
       out[m].effects[i].kind \in Begets => life[out[m].effects[i].id] # "none"

KeptFor(r) ==
  /\ r[2] <= minted[r[1]]
  /\ \/ Opened(mail, r[1], r[2])
     \/ r \in closed
     \/ r[2] \in Range(out[r[1]].closed)
Kept1 ==
  /\ Once(queue, timers)
  /\ \A m \in Machines : Unasked(m, out[m].effects, minted[m], Keys(queue, timers))
  /\ \A r \in Keys(queue, timers) : KeptFor(r)

Pythonic == Polls /\ Queued /\ Kept1

LEMMA ServingIs ==
  ASSUME Polls, Serving
  PROVE  \A m \in Machines : out[m] = Nothing /\ life[m] \notin Mid
BY DEF Serving, AtLoop, Polls, Yielded, Mid

\* A poll's requests are newer than any kept.
LEMMA PollUnasked ==
  ASSUME RoutinesOK, NEW m \in Machines, PollStep(m), NEW D \in SUBSET Requests,
         \A x \in Machines : Unasked(x, out[x].effects, minted[x], D),
         \A r \in D : r[2] <= minted[r[1]]
  PROVE  /\ \A x \in Machines : Unasked(x, out'[x].effects, minted'[x], D)
         /\ \A r \in D : r[2] <= minted'[r[1]]
<1>1. PICK t : Added(m, t)
  BY PollAdds
<1>2. /\ t \in Seq(Framed) /\ out'[m].effects = out[m].effects \o t
      /\ \A x \in Machines : x # m => out'[x] = out[x] /\ minted'[x] = minted[x]
      /\ minted'[m] \in Nat /\ minted[m] <= minted'[m]
      /\ Minted(t, minted[m], minted'[m]) \/ Plain(t)
  BY <1>1, EffectsFramed DEF Added
<1>3. /\ out[m].effects \in Seq(Framed) /\ minted[m] \in Nat
      /\ Unasked(m, out[m].effects, minted[m], D)
      /\ \A r \in D : r[1] = m => r[2] <= minted[m]
  BY EffectsAre
<1>4. Unasked(m, out'[m].effects, minted'[m], D)
  <2> DEFINE top == minted[m]
             later == minted'[m]
             s == out[m].effects
  <2> HIDE DEF top, later, s
  <2>1. /\ t \in Seq(Framed) /\ s \in Seq(Framed) /\ top \in Nat /\ later \in Nat
        /\ top <= later /\ Unasked(m, s, top, D)
        /\ Minted(t, top, later) \/ Plain(t)
        /\ \A r \in D : r[1] = m => r[2] <= top
    BY <1>2, <1>3 DEF top, later, s
  <2>2. Unasked(m, s \o t, later, D)
    BY <2>1, UnaskedMore
  <2>3. QED
    BY <1>2, <2>2 DEF s, later
<1>5. ASSUME NEW x \in Machines PROVE Unasked(x, out'[x].effects, minted'[x], D)
  <2>1. CASE x = m
    BY <1>4, <2>1
  <2>2. CASE x # m
    <3>1. out'[x] = out[x] /\ minted'[x] = minted[x]
      BY <1>2, <2>2
    <3>2. QED
      BY <3>1
  <2>3. QED
    BY <2>1, <2>2
<1>6. ASSUME NEW r \in D PROVE r[2] <= minted'[r[1]]
  <2>1. r[1] \in Machines /\ r[2] \in Nat /\ r[2] <= minted[r[1]]
    BY DEF Requests
  <2>2. CASE r[1] = m
    <3>1. r[2] <= minted[m]
      BY <2>1, <2>2
    <3>2. r[2] <= minted'[m]
      BY <1>2, <1>3, <2>1, <3>1
    <3>3. QED
      BY <2>2, <3>2
  <2>3. CASE r[1] # m
    BY <1>2, <2>1, <2>3
  <2>4. QED
    BY <2>2, <2>3
<1>7. QED
  BY <1>5, <1>6

\* Another machine's requests do not matter to m.
LEMMA UnaskedOthers ==
  ASSUME NEW m, NEW s, NEW top, NEW D, NEW E, Unasked(m, s, top, D),
         \A r \in E : r \in D \/ r[1] # m
  PROVE  Unasked(m, s, top, E)
BY DEF Unasked

\* The steps of a poll leave alone what other machines have open.
LEMMA OpenRests ==
  ASSUME NEW m \in Machines, Progress(m), NEW r \in Requests,
         Opened(mail, r[1], r[2]) \/ r[2] \in Range(out[r[1]].closed)
  PROVE  Opened(mail', r[1], r[2]) \/ r[2] \in Range(out'[r[1]].closed)
<1>1. r[1] \in Machines
  BY DEF Requests
<1>2. CASE r[1] = m
  BY <1>2 DEF Progress, KeepsOpen, Opened, Open
<1>3. CASE r[1] # m
  BY <1>1, <1>3 DEF Progress, PollsAlone, Opened
<1>4. QED
  BY <1>2, <1>3

LEMMA PollKept ==
  ASSUME RoutinesOK, LoopOK, Pythonic, NEW m \in Machines, PollStep(m), UNCHANGED loop
  PROVE  Pythonic'
<1>1. Polls' /\ Progress(m)
  BY PollPolls DEF Pythonic
<1>2. queue' = queue /\ timers' = timers /\ closed' = closed
  BY DEF loop
<1> DEFINE D == Keys(queue, timers)
<1>3. D \in SUBSET Requests /\ Keys(queue', timers') = D
  BY <1>2 DEF Keys
<1>4. \A x \in Machines : life[x] # "none" => life'[x] # "none"
  BY <1>1 DEF Progress, PollsOn, Mid
<1>5. Queued'
  <2>1. \A x \in Machines : life'[x] # "dropped"
    BY <1>1 DEF Progress, PollsOn, Mid, Pythonic, Queued
  <2>2. \A i \in 1 .. Len(queue') : There(life', queue'[i])
    <3>1. SUFFICES ASSUME NEW i \in 1 .. Len(queue) PROVE There(life', queue[i])
      BY <1>2
    <3>2. queue[i] \in GoodItem
      BY DEF LoopOK, QueueOK
    <3>3. /\ queue[i].m \in Machines
          /\ queue[i].effect.kind \in Begets => queue[i].effect.id \in Machines
      BY <3>2, ItemIs DEF Begets
    <3>4. There(life, queue[i])
      BY DEF Pythonic, Queued
    <3>5. QED
      BY <1>2, <1>4, <3>3, <3>4 DEF There
  <2>3. ASSUME NEW x \in Machines, NEW i \in 1 .. Len(out'[x].effects),
               out'[x].effects[i].kind \in Begets
        PROVE  life'[out'[x].effects[i].id] # "none"
    <3>1. CASE i \in 1 .. Len(out[x].effects) /\ out'[x].effects[i] = out[x].effects[i]
      <4>1. out[x].effects[i] \in GoodEffect
        BY <3>1 DEF RoutinesOK, OutOK, Outs
      <4>2. out[x].effects[i].id \in Machines
        BY <2>3, <3>1, <4>1 DEF GoodEffect, Begets
      <4>3. life[out[x].effects[i].id] # "none"
        BY <2>3, <3>1 DEF Pythonic, Queued
      <4>4. QED
        BY <1>4, <3>1, <4>2, <4>3
    <3>2. CASE x = m /\ i > Len(out[m].effects)
      BY <1>1, <2>3, <3>2 DEF Progress, NewBirths
    <3>3. PICK t : Added(m, t)
      BY PollAdds
    <3>4. CASE x = m /\ ~(i > Len(out[m].effects))
      BY <3>1, <3>3, <3>4, AddedKeeps
    <3>5. CASE x # m
      BY <1>1, <3>1, <3>5 DEF Progress, PollsAlone
    <3>6. QED
      BY <3>2, <3>4, <3>5
  <2>4. QED
    BY <2>1, <2>2, <2>3, <1>2 DEF Queued, There
<1>6. /\ \A x \in Machines : Unasked(x, out[x].effects, minted[x], D)
      /\ \A r \in D : KeptFor(r)
  BY DEF Pythonic, Kept1
<1> HIDE DEF D
<1>7. /\ \A x \in Machines : Unasked(x, out'[x].effects, minted'[x], D)
      /\ \A r \in D : r[2] <= minted'[r[1]]
  BY <1>3, <1>6, PollUnasked DEF KeptFor
<1>8. ASSUME NEW r \in D PROVE KeptFor(r)'
  BY <1>1, <1>2, <1>3, <1>6, <1>7, OpenRests DEF KeptFor
<1>9. Kept1'
  <2>1. Once(queue', timers')
    BY <1>2 DEF Pythonic, Kept1
  <2>2. QED
    BY <1>3, <1>7, <1>8, <2>1 DEF Kept1
<1>10. QED
  BY <1>1, <1>5, <1>9 DEF Pythonic

\* A turn of the loop keeps fewer requests, and those that stay stay open.
LEMMA KeptServed ==
  ASSUME Kept1, \A m \in Machines : out[m] = Nothing, \A m \in Machines : out'[m] = Nothing,
         minted' = minted, closed' = closed,
         Once(queue', timers'), Keys(queue', timers') \subseteq Keys(queue, timers),
         \A r \in Keys(queue', timers') :
           Opened(mail, r[1], r[2]) => Opened(mail', r[1], r[2])
  PROVE  Kept1'
<1> DEFINE D == Keys(queue, timers)
           E == Keys(queue', timers')
<1>1. E \subseteq D /\ \A r \in E : r \in Requests /\ r[1] \in Machines
  BY DEF Keys, Requests
<1>2. \A r \in D : KeptFor(r)
  BY DEF Kept1
<1> HIDE DEF D, E
<1>3. \A r \in E : KeptFor(r)'
  BY <1>1, <1>2, NothingHas DEF KeptFor, E
<1>4. \A m \in Machines : Unasked(m, out'[m].effects, minted'[m], E)
  BY UnaskedNone, NothingHas
<1>5. QED
  BY <1>3, <1>4 DEF Kept1, E

LEMMA QueuedServed ==
  ASSUME LoopOK, Queued, \A m \in Machines : out'[m] = Nothing,
         \A x \in Machines : life[x] # "none" => life'[x] # "none",
         \A x \in Machines : life'[x] # "dropped",
         \A i \in 1 .. Len(queue') :
           \/ queue'[i].kind = "reply"
           \/ \E j \in 1 .. Len(queue) : queue'[i] = queue[j]
  PROVE  Queued'
<1>1. ASSUME NEW i \in 1 .. Len(queue') PROVE There(life', queue'[i])
  <2>1. CASE queue'[i].kind = "reply"
    BY <2>1 DEF There
  <2>2. CASE \E j \in 1 .. Len(queue) : queue'[i] = queue[j]
    <3>1. PICK j \in 1 .. Len(queue) : queue'[i] = queue[j]
      BY <2>2
    <3>2. queue[j] \in GoodItem
      BY DEF LoopOK, QueueOK
    <3>3. /\ queue[j].m \in Machines
          /\ queue[j].effect.kind \in Begets => queue[j].effect.id \in Machines
      BY <3>2, ItemIs DEF Begets
    <3>4. There(life, queue[j])
      BY DEF Queued
    <3>5. QED
      BY <3>1, <3>3, <3>4 DEF There
  <2>3. QED
    BY <2>1, <2>2
<1>2. \A x \in Machines : \A i \in 1 .. Len(out'[x].effects) : FALSE
  BY NothingHas
<1>3. QED
  BY <1>1, <1>2 DEF Queued

\* Each element of u is one of q or of t.
OutOf(u, q, t) ==
  \A i \in 1 .. Len(u) : \/ \E j \in 1 .. Len(q) : u[i] = q[j]
                         \/ \E j \in 1 .. Len(t) : u[i] = t[j]

LEMMA JoinedHas ==
  ASSUME NEW S, NEW q \in Seq(S), NEW t \in Seq(S)
  PROVE  OutOf(q \o t, q, t)
<1> DEFINE u == q \o t
<1>1. /\ Len(q) \in Nat
      /\ \A i \in 1 .. Len(u) : i \in 1 .. Len(q) => u[i] = q[i]
      /\ \A i \in 1 .. Len(u) : i \notin 1 .. Len(q) =>
           i - Len(q) \in 1 .. Len(t) /\ u[i] = t[i - Len(q)]
  OBVIOUS
<1> HIDE DEF u
<1>2. QED
  BY <1>1 DEF OutOf, u

LEMMA RanQueue ==
  ASSUME RoutinesOK, LoopOK, Pythonic, NEW m \in Machines,
         NEW e \in Seq(GoodItem), Len(e) = Len(out[m].effects),
         \A i \in 1 .. Len(e) : e[i] = EffectOf(m, out[m].effects[i]),
         NEW w \in Seq(GoodItem), \A i \in 1 .. Len(w) : w[i].kind = "resume" /\ w[i].lane = m,
         queue' = (queue \o e) \o w, timers' = timers
  PROVE  /\ Once(queue', timers')
         /\ \A r \in Keys(queue', timers') :
              \/ r \in Keys(queue, timers)
              \/ \E i \in 1 .. Len(out[m].effects) :
                   out[m].effects[i].kind \in Asks /\ r = <<m, out[m].effects[i].id>>
         /\ \A i \in 1 .. Len(queue') : There(life, queue'[i])
<1> DEFINE s == out[m].effects
<1>1. /\ queue \in Seq(GoodItem) /\ timers \in Seq(Timer) /\ s \in Seq(GoodEffect)
  BY DEF LoopOK, QueueOK, ClockOK, RoutinesOK, OutOK, Outs
<1>2. /\ Len(e) = Len(s) /\ Len(s) \in Nat
      /\ \A i \in 1 .. Len(e) : e[i] = EffectOf(m, s[i])
  BY <1>1
<1>4. Unasked(m, s, minted[m], Keys(queue, timers)) /\ Once(queue, timers)
  BY DEF Pythonic, Kept1
<1>5. \A i \in 1 .. Len(s) : s[i].kind \in Begets => life[s[i].id] # "none"
  BY DEF Pythonic, Queued
<1> HIDE DEF s
<1>6. \A i \in 1 .. Len(e) : /\ IsAsk(e[i]) <=> s[i].kind \in Asks
                             /\ Key(e[i]) = <<m, s[i].id>>
                             /\ There(life, e[i])
  <2> TAKE i \in 1 .. Len(e)
  <2>0. e[i] = EffectOf(m, s[i])
    BY <1>2
  <2>1. e[i].kind = "effect" /\ e[i].m = m /\ e[i].effect = s[i]
    BY <2>0 DEF EffectOf
  <2>2. s[i].kind \in Begets => life[s[i].id] # "none"
    BY <1>2, <1>5
  <2>3. QED
    BY <2>1, <2>2 DEF IsAsk, Key, There
<1>7. QueuedOnce(e)
  <2>1. SUFFICES ASSUME NEW i \in 1 .. Len(e), NEW j \in 1 .. Len(e),
                        IsAsk(e[i]), IsAsk(e[j]), Key(e[i]) = Key(e[j])
                 PROVE  i = j
    BY DEF QueuedOnce
  <2>2. s[i].kind \in Asks /\ s[j].kind \in Asks /\ s[j].id = s[i].id
    BY <1>6, <2>1
  <2>3. QED
    BY <1>2, <1>4, <2>2 DEF Unasked
<1>8. \A r : InQueue(e, r) => \E i \in 1 .. Len(s) : s[i].kind \in Asks /\ r = <<m, s[i].id>>
  BY <1>2, <1>6 DEF InQueue
<1>9. \A r : InQueue(e, r) => r \notin Keys(queue, timers)
  <2>1. \A i \in 1 .. Len(s) : s[i].kind \in Asks => <<m, s[i].id>> \notin Keys(queue, timers)
    BY <1>4 DEF Unasked
  <2>2. QED
    BY <1>8, <2>1
<1>10. \A r : InQueue(queue, r) \/ OnClock(timers, r) <=> r \in Keys(queue, timers)
  BY <1>1, KeysAre
<1>11. \A r : ~InQueue(w, r)
  BY DEF InQueue, IsAsk
<1>12. QueuedOnce(w)
  BY DEF QueuedOnce, IsAsk
<1> DEFINE q == queue \o e
<1>13. q \in Seq(GoodItem)
  BY <1>1, ConcatProperties
<1>14. QueuedOnce(q) /\ \A r : InQueue(q, r) <=> InQueue(queue, r) \/ InQueue(e, r)
  <2>1. QueuedOnce(queue) /\ \A r : ~(InQueue(queue, r) /\ InQueue(e, r))
    BY <1>4, <1>9, <1>10 DEF Once
  <2>2. QED
    BY <1>1, <1>7, <2>1, QueueMore
<1>15. \A i \in 1 .. Len(q) : There(life, q[i])
  <2>1. \A i \in 1 .. Len(queue) : There(life, queue[i])
    BY DEF Pythonic, Queued
  <2>2. OutOf(q, queue, e)
    BY <1>1, JoinedHas
  <2> HIDE DEF q
  <2>3. QED
    BY <1>6, <2>1, <2>2 DEF OutOf
<1>16. queue' = q \o w
  OBVIOUS
<1> HIDE DEF q
<1>17. QueuedOnce(queue') /\ \A r : InQueue(queue', r) <=> InQueue(q, r)
  <2>1. \A r : ~(InQueue(q, r) /\ InQueue(w, r))
    BY <1>11
  <2>2. /\ QueuedOnce(q \o w)
        /\ \A r : InQueue(q \o w, r) <=> InQueue(q, r) \/ InQueue(w, r)
    BY <1>12, <1>13, <1>14, <2>1, QueueMore
  <2>3. QED
    BY <1>11, <1>16, <2>2
<1>18. \A i \in 1 .. Len(queue') : There(life, queue'[i])
  <2>1. OutOf(queue', q, w)
    BY <1>13, <1>16, JoinedHas
  <2>2. \A j \in 1 .. Len(w) : There(life, w[j])
    <3>1. m # 0
      BY LanesAre
    <3>2. QED
      BY <3>1 DEF There
  <2>3. QED
    BY <1>15, <2>1, <2>2 DEF OutOf
<1>19. Once(queue', timers')
  BY <1>4, <1>9, <1>10, <1>14, <1>17 DEF Once
<1>20. \A r \in Keys(queue', timers') :
         r \in Keys(queue, timers) \/ \E i \in 1 .. Len(s) : s[i].kind \in Asks /\ r = <<m, s[i].id>>
  <2>1. \A r \in Keys(queue', timers') : InQueue(queue', r) \/ OnClock(timers, r)
    BY DEF Keys
  <2>2. QED
    BY <1>8, <1>10, <1>14, <1>17, <2>1
<1>21. QED
  BY <1>18, <1>19, <1>20 DEF s

LEMMA RanKept ==
  ASSUME RoutinesOK, LoopOK, Pythonic, Ran
  PROVE  Pythonic'
<1>1. PICK m \in Machines :
        /\ Reads(m)
        /\ queue' = queue
                    \o [i \in DOMAIN out[m].effects |-> EffectOf(m, out[m].effects[i])]
                    \o [i \in DOMAIN out[m].woke |->
                          [ResumeOf(out[m].woke[i]) EXCEPT !.lane = m]]
        /\ closed' = closed \cup {<<m, id>> : id \in Range(out[m].closed)}
  BY DEF Ran
<1>2. timers' = timers
  BY DEF Ran
<1> DEFINE e == [i \in DOMAIN out[m].effects |-> EffectOf(m, out[m].effects[i])]
           w == [i \in DOMAIN out[m].woke |-> [ResumeOf(out[m].woke[i]) EXCEPT !.lane = m]]
           D == Keys(queue, timers)
           E == Keys(queue', timers')
<1>3. queue' = (queue \o e) \o w
  BY <1>1
<1>a. /\ e \in Seq(GoodItem) /\ Len(e) = Len(out[m].effects)
      /\ \A i \in 1 .. Len(e) : e[i] = EffectOf(m, out[m].effects[i])
  <2> DEFINE s == out[m].effects
  <2>1. e \in Seq(GoodItem)
    BY RecordedIs
  <2>2. DOMAIN s = 1 .. Len(s) /\ Len(s) \in Nat
    BY DEF RoutinesOK, OutOK, Outs
  <2> HIDE DEF s
  <2>3. e = [i \in 1 .. Len(s) |-> EffectOf(m, s[i])]
    BY <2>2 DEF s
  <2>4. Len(e) = Len(s) /\ \A i \in 1 .. Len(s) : e[i] = EffectOf(m, s[i])
    BY <2>2, <2>3
  <2> HIDE DEF e
  <2>5. QED
    BY <2>1, <2>4 DEF s
<1>b. w \in Seq(GoodItem) /\ \A i \in 1 .. Len(w) : w[i].kind = "resume" /\ w[i].lane = m
  <2> DEFINE s == out[m].woke
  <2>1. w \in Seq(GoodItem)
    BY RecordedIs
  <2>2. DOMAIN s = 1 .. Len(s) /\ Len(s) \in Nat
    BY DEF RoutinesOK, OutOK, Outs
  <2> HIDE DEF s
  <2>3. w = [i \in 1 .. Len(s) |-> [ResumeOf(s[i]) EXCEPT !.lane = m]]
    BY <2>2 DEF s
  <2>4. Len(w) = Len(s) /\ \A i \in 1 .. Len(s) : w[i] = [ResumeOf(s[i]) EXCEPT !.lane = m]
    BY <2>2, <2>3
  <2>5. \A x : /\ [ResumeOf(x) EXCEPT !.lane = m].kind = "resume"
               /\ [ResumeOf(x) EXCEPT !.lane = m].lane = m
    BY DEF ResumeOf
  <2>6. \A i \in 1 .. Len(s) : w[i].kind = "resume" /\ w[i].lane = m
    BY <2>4, <2>5
  <2> HIDE DEF w
  <2>7. QED
    BY <2>1, <2>4, <2>6
<1> HIDE DEF e, w
<1>4. /\ Once(queue', timers')
      /\ \A r \in E : \/ r \in D
                      \/ \E i \in 1 .. Len(out[m].effects) :
                           out[m].effects[i].kind \in Asks /\ r = <<m, out[m].effects[i].id>>
      /\ \A i \in 1 .. Len(queue') : There(life, queue'[i])
  BY <1>2, <1>3, <1>a, <1>b, RanQueue
<1>5. /\ minted' = minted /\ mail' = mail /\ out'[m] = Nothing
      /\ \A x \in Machines : x # m => out'[x] = out[x] /\ life'[x] = life[x]
      /\ life'[m] \in {"done", "waiting"}
  BY <1>1 DEF Reads, RoutinesOK, OutOK, LifeOK
<1>6. Polls'
  BY <1>1, CallPolls DEF Pythonic, Calls1
<1>7. Queued'
  <2>1. \A x \in Machines : life'[x] # "dropped"
    BY <1>5 DEF Pythonic, Queued
  <2>2. \A x \in Machines : life[x] # "none" => life'[x] # "none"
    BY <1>5
  <2>3. QueueOK'
    BY RanTypes DEF LoopOK
  <2>4. ASSUME NEW i \in 1 .. Len(queue') PROVE There(life', queue'[i])
    <3>1. queue'[i] \in GoodItem
      BY <2>3 DEF QueueOK
    <3>2. /\ queue'[i].m \in Machines
          /\ queue'[i].effect.kind \in Begets => queue'[i].effect.id \in Machines
      BY <3>1, ItemIs DEF Begets
    <3>3. QED
      BY <1>4, <2>2, <3>2 DEF There
  <2>5. ASSUME NEW x \in Machines, NEW i \in 1 .. Len(out'[x].effects),
               out'[x].effects[i].kind \in Begets
        PROVE  life'[out'[x].effects[i].id] # "none"
    <3>1. x # m
      BY <1>5, NothingHas
    <3>2. out'[x] = out[x]
      BY <1>5, <3>1
    <3>3. out[x].effects[i] \in GoodEffect
      BY <3>2 DEF RoutinesOK, OutOK, Outs
    <3>4. out[x].effects[i].id \in Machines
      BY <2>5, <3>2, <3>3 DEF GoodEffect, Begets
    <3>5. life[out[x].effects[i].id] # "none"
      BY <2>5, <3>2 DEF Pythonic, Queued
    <3>6. QED
      BY <2>2, <3>2, <3>4, <3>5
  <2>6. QED
    BY <2>1, <2>4, <2>5 DEF Queued
<1>8. /\ \A r \in D : KeptFor(r)
      /\ \A x \in Machines : Unasked(x, out[x].effects, minted[x], D)
  BY DEF Pythonic, Kept1
<1>9. \A r \in E : r \in Requests
  BY DEF Keys
<1>10. AskShown(m)
  BY DEF Pythonic, Polls, AskedOut
<1> HIDE DEF D, E
<1>11. ASSUME NEW r \in E PROVE KeptFor(r)'
  <2>1. r[1] \in Machines /\ r = <<r[1], r[2]>>
    BY <1>9 DEF Requests
  <2>2. CASE r \in D
    <3>1. CASE r[1] = m
      BY <1>1, <1>5, <1>8, <2>1, <2>2, <3>1 DEF KeptFor
    <3>2. CASE r[1] # m
      BY <1>1, <1>5, <1>8, <2>1, <2>2, <3>2 DEF KeptFor
    <3>3. QED
      BY <3>1, <3>2
  <2>3. CASE r \notin D
    <3>1. PICK i \in 1 .. Len(out[m].effects) :
            out[m].effects[i].kind \in Asks /\ r = <<m, out[m].effects[i].id>>
      BY <1>4, <2>3
    <3>2. r[1] = m /\ r[2] = out[m].effects[i].id
      BY <3>1
    <3>3. r[2] <= minted[m]
      BY <1>8, <3>1, <3>2 DEF Unasked
    <3>4. Opened(mail, m, r[2]) \/ r[2] \in Range(out[m].closed)
      BY <1>10, <3>1, <3>2 DEF AskShown
    <3>5. Opened(mail, m, r[2]) \/ r \in closed'
      BY <1>1, <2>1, <3>2, <3>4
    <3>6. QED
      BY <1>5, <3>2, <3>3, <3>5 DEF KeptFor
  <2>4. QED
    BY <2>2, <2>3
<1>12. ASSUME NEW x \in Machines PROVE Unasked(x, out'[x].effects, minted'[x], E)
  <2>1. CASE x = m
    BY <1>5, <2>1, UnaskedNone, NothingHas
  <2>2. CASE x # m
    <3>1. Unasked(x, out[x].effects, minted[x], D)
      BY <1>8
    <3>2. \A r \in E : r \in D \/ r[1] # x
      BY <1>4, <2>2
    <3>3. Unasked(x, out[x].effects, minted[x], E)
      BY <3>1, <3>2, UnaskedOthers
    <3>4. QED
      BY <1>5, <2>2, <3>3
  <2>3. QED
    BY <2>1, <2>2
<1>13. Kept1'
  BY <1>4, <1>11, <1>12 DEF Kept1, E
<1>14. QED
  BY <1>6, <1>7, <1>13 DEF Pythonic

LEMMA OnceSet ==
  ASSUME NEW q \in Seq(GoodItem), NEW ts \in Seq(Timer), NEW a \in Timer, Once(q, ts),
         Key(a) \notin Keys(q, ts)
  PROVE  /\ Once(q, Append(ts, a))
         /\ \A r \in Keys(q, Append(ts, a)) : r \in Keys(q, ts) \/ r = Key(a)
<1>1. ~InQueue(q, Key(a)) /\ ~OnClock(ts, Key(a))
  BY KeysAre
<1>2. /\ ClockedOnce(Append(ts, a))
      /\ \A r : OnClock(Append(ts, a), r) => OnClock(ts, r) \/ r = Key(a)
  BY <1>1, ClockOne DEF Once
<1> DEFINE u == Append(ts, a)
<1> HIDE DEF u
<1>3. ClockedOnce(u) /\ \A r : OnClock(u, r) => OnClock(ts, r) \/ r = Key(a)
  BY <1>2 DEF u
<1>4. Once(q, u) /\ \A r \in Keys(q, u) : r \in Keys(q, ts) \/ r = Key(a)
  BY <1>1, <1>3 DEF Once, Keys
<1>5. QED
  BY <1>4 DEF u

LEMMA OnceQueued ==
  ASSUME NEW q \in Seq(GoodItem), NEW ts \in Seq(Timer), NEW a \in GoodItem, Once(q, ts),
         Key(a) \notin Keys(q, ts)
  PROVE  /\ Once(Append(q, a), ts)
         /\ \A r \in Keys(Append(q, a), ts) : r \in Keys(q, ts) \/ r = Key(a)
<1>1. ~InQueue(q, Key(a)) /\ ~OnClock(ts, Key(a))
  BY KeysAre
<1>2. /\ QueuedOnce(Append(q, a))
      /\ \A r : InQueue(Append(q, a), r) => InQueue(q, r) \/ r = Key(a)
  BY <1>1, QueueOne DEF Once
<1> DEFINE u == Append(q, a)
<1> HIDE DEF u
<1>3. QueuedOnce(u) /\ \A r : InQueue(u, r) => InQueue(q, r) \/ r = Key(a)
  BY <1>2 DEF u
<1>4. Once(u, ts) /\ \A r \in Keys(u, ts) : r \in Keys(q, ts) \/ r = Key(a)
  BY <1>1, <1>3 DEF Once, Keys
<1>5. QED
  BY <1>4 DEF u

\* What the host keeps and did not hear closed it may answer.
LEMMA KeptIsWanted ==
  ASSUME RoutinesOK, Pythonic, Serving, NEW r \in Keys(queue, timers), r \notin closed
  PROVE  r[1] \in Machines /\ Pollable(r[1]) /\ Open(r[1], r[2])
<1>1. r[1] \in Machines
  BY DEF Keys, Requests
<1>2. out[r[1]] = Nothing /\ life[r[1]] \notin Mid
  BY <1>1, ServingIs DEF Pythonic
<1>3. Opened(mail, r[1], r[2])
  BY <1>2, NothingHas DEF Pythonic, Kept1, KeptFor
<1>4. life[r[1]] # "dropped"
  BY <1>1 DEF Pythonic, Queued
<1>5. QED
  BY <1>1, <1>2, <1>3, <1>4, OpenWaits DEF Pythonic, Pollable

\* A turn calls one machine at most, and keeps no more than was kept.
LEMMA TurnKept ==
  ASSUME RoutinesOK, LoopOK, Pythonic, Serving, NEW m \in Machines, NEW id, NEW n,
         \/ Resumes(m) \/ UNCHANGED routines
         \/ Replies(m, id, n) /\ <<m, id>> \notin Keys(queue', timers'),
         closed' = closed, Once(queue', timers'),
         Keys(queue', timers') \subseteq Keys(queue, timers),
         \A i \in 1 .. Len(queue') :
           \/ queue'[i].kind = "reply"
           \/ \E j \in 1 .. Len(queue) : queue'[i] = queue[j]
  PROVE  Pythonic'
<1>1. \A x \in Machines : out[x] = Nothing /\ life[x] \notin Mid
  BY ServingIs DEF Pythonic
<1>2. Polls'
  BY CallPolls DEF Pythonic, Calls1
<1>3. /\ minted' = minted
      /\ \A x \in Machines : x # m => life'[x] = life[x]
      /\ \A x \in Machines : out'[x] = out[x] \/ out'[x] = Nothing
      /\ life'[m] = life[m] \/ life'[m] = "polling"
  <2>1. CASE Resumes(m)
    BY <2>1 DEF Resumes, RoutinesOK, LifeOK, OutOK
  <2>2. CASE Replies(m, id, n)
    BY <2>2 DEF Replies, RoutinesOK, LifeOK, OutOK
  <2>3. CASE UNCHANGED routines
    BY <2>3 DEF routines
  <2>4. QED
    BY <2>1, <2>2, <2>3
<1>4. \A x \in Machines : out'[x] = Nothing
  BY <1>1, <1>3
<1>5. /\ \A x \in Machines : life[x] # "none" => life'[x] # "none"
      /\ \A x \in Machines : life'[x] # "dropped"
  BY <1>3 DEF Pythonic, Queued
<1>6. Queued'
  BY <1>4, <1>5, QueuedServed DEF Pythonic
<1>7. ASSUME NEW r \in Keys(queue', timers'), Opened(mail, r[1], r[2])
      PROVE  Opened(mail', r[1], r[2])
  <2>1. r[1] \in Machines /\ r = <<r[1], r[2]>>
    BY DEF Keys, Requests
  <2>2. CASE Replies(m, id, n) /\ <<m, id>> \notin Keys(queue', timers')
    <3>2. mail' = [mail EXCEPT ![m][id] = n] /\ r # <<m, id>>
      BY <2>2 DEF Replies
    <3>3. CASE r[1] = m
      <4>1. r[2] # id
        BY <2>1, <3>2, <3>3
      <4>2. QED
        BY <1>7, <3>2, <3>3, <4>1 DEF Opened, RoutinesOK, MailOK
    <3>4. CASE r[1] # m
      BY <1>7, <2>1, <3>2, <3>4 DEF Opened, RoutinesOK, MailOK
    <3>5. QED
      BY <3>3, <3>4
  <2>3. CASE Resumes(m) \/ UNCHANGED routines
    BY <1>7, <2>3 DEF Resumes, routines, Opened
  <2>4. QED
    BY <2>2, <2>3
<1>8. Kept1'
  BY <1>1, <1>3, <1>4, <1>7, KeptServed DEF Pythonic
<1>9. QED
  BY <1>2, <1>6, <1>8 DEF Pythonic

\* The turn's item leaves the queue.
LEMMA TurnTakes ==
  ASSUME LoopOK, Pythonic, NEW i \in Turn
  PROVE  LET a == queue[i]
             p == RemoveAt(queue, i)
         IN /\ a \in GoodItem /\ a.m \in Machines /\ i \in 1 .. Len(queue)
            /\ p \in Seq(GoodItem) /\ timers \in Seq(Timer)
            /\ Once(p, timers) /\ Keys(p, timers) \subseteq Keys(queue, timers)
            /\ IsAsk(a) => Key(a) \in Keys(queue, timers) /\ Key(a) \notin Keys(p, timers)
            /\ \A k \in 1 .. Len(p) : \E j \in 1 .. Len(queue) : p[k] = queue[j]
<1>1. i \in 1 .. Len(queue) /\ queue \in Seq(GoodItem) /\ timers \in Seq(Timer)
  BY TurnIs DEF LoopOK, QueueOK, ClockOK
<1>2. queue[i] \in GoodItem /\ RemoveAt(queue, i) \in Seq(GoodItem)
  BY <1>1, QueueKept
<1>3. queue[i].m \in Machines
  BY <1>2, ItemIs
<1>4. Once(queue, timers)
  BY DEF Pythonic, Kept1
<1>5. /\ Once(RemoveAt(queue, i), timers)
      /\ Keys(RemoveAt(queue, i), timers) \subseteq Keys(queue, timers)
      /\ IsAsk(queue[i]) => Key(queue[i]) \notin Keys(RemoveAt(queue, i), timers)
  BY <1>1, <1>4, OnceLess
<1>6. \A k \in 1 .. Len(RemoveAt(queue, i)) :
        \E j \in 1 .. Len(queue) : RemoveAt(queue, i)[k] = queue[j]
  BY <1>1, <1>4, QueueLess DEF Once
<1>7. IsAsk(queue[i]) => Key(queue[i]) \in Keys(queue, timers)
  BY <1>1, KeysAre
<1>8. QED
  BY <1>1, <1>2, <1>3, <1>5, <1>6, <1>7

LEMMA RestKept ==
  ASSUME RoutinesOK, LoopOK, Pythonic, Serving, UNCHANGED routines,
         closed' = closed, Once(queue', timers'),
         Keys(queue', timers') \subseteq Keys(queue, timers),
         \A i \in 1 .. Len(queue') :
           \/ queue'[i].kind = "reply"
           \/ \E j \in 1 .. Len(queue) : queue'[i] = queue[j]
  PROVE  Pythonic'
<1>1. Root \in Machines
  BY MachinesFinite
<1>2. QED
  BY <1>1, TurnKept

LEMMA SkipKept ==
  ASSUME RoutinesOK, LoopOK, Pythonic, Skip
  PROVE  Pythonic' /\ refused' = refused
<1>1. PICK i \in Turn : queue' = RemoveAt(queue, i)
  BY DEF Skip
<1>2. /\ Serving /\ UNCHANGED routines /\ closed' = closed /\ timers' = timers
      /\ refused' = refused
  BY DEF Skip
<1>3. QED
  BY <1>1, <1>2, TurnTakes, RestKept

LEMMA NoteKept ==
  ASSUME RoutinesOK, LoopOK, Pythonic, Note
  PROVE  Pythonic' /\ refused' = refused
<1>1. PICK i \in Turn :
        /\ queue' = RemoveAt(queue, i) /\ queue[i].kind = "effect"
        /\ \/ timers' = timers
           \/ /\ queue[i].effect.kind \in Sleeps
              /\ timers' = Append(timers, [due |-> now + Delay(queue[i].effect.kind),
                                           m |-> queue[i].m, effect |-> queue[i].effect])
  BY DEF Note
<1>2. Serving /\ UNCHANGED routines /\ closed' = closed /\ refused' = refused
  BY DEF Note
<1> DEFINE a == queue[i]
           p == RemoveAt(queue, i)
<1>3. /\ a \in GoodItem /\ a.m \in Machines /\ p \in Seq(GoodItem) /\ timers \in Seq(Timer)
      /\ Once(p, timers) /\ Keys(p, timers) \subseteq Keys(queue, timers)
      /\ IsAsk(a) => Key(a) \in Keys(queue, timers) /\ Key(a) \notin Keys(p, timers)
      /\ \A k \in 1 .. Len(p) : \E j \in 1 .. Len(queue) : p[k] = queue[j]
  BY TurnTakes
<1>4. CASE timers' = timers
  BY <1>1, <1>2, <1>3, <1>4, RestKept
<1>5. CASE /\ a.effect.kind \in Sleeps
           /\ timers' = Append(timers, [due |-> now + Delay(a.effect.kind),
                                        m |-> a.m, effect |-> a.effect])
  <2> DEFINE t == [due |-> now + Delay(a.effect.kind), m |-> a.m, effect |-> a.effect]
  <2>1. a.effect \in Effect
    BY <1>3, ItemIs DEF GoodEffect
  <2>2. now + Delay(a.effect.kind) \in Nat
    BY DEF LoopOK, ClockOK, Delay
  <2>3. t \in Timer /\ Key(t) = Key(a)
    BY <1>3, <2>1, <2>2 DEF Timer, Key
  <2>4. IsAsk(a)
    BY <1>1, <1>5 DEF IsAsk, Sleeps, Asks
  <2>5. timers' = Append(timers, t)
    BY <1>5
  <2> HIDE DEF t, a, p
  <2>6. /\ Once(p, timers')
        /\ \A r \in Keys(p, timers') : r \in Keys(p, timers) \/ r = Key(a)
    BY <1>3, <2>3, <2>4, <2>5, OnceSet
  <2>7. Keys(p, timers') \subseteq Keys(queue, timers)
    BY <1>3, <2>4, <2>6
  <2>8. queue' = p
    BY <1>1 DEF p
  <2>9. QED
    BY <1>2, <1>3, <2>6, <2>7, <2>8, RestKept
<1>6. QED
  BY <1>1, <1>4, <1>5

LEMMA PerformKept ==
  ASSUME RoutinesOK, LoopOK, Pythonic, Perform
  PROVE  Pythonic' /\ refused' = refused
<1>1. PICK i \in Turn :
        LET a == queue[i]
            e == a.effect
            answer == AnswerTo(world, e)
            rest == RemoveAt(queue, i)
        IN /\ a.kind = "effect" /\ e.kind \in Asks \ Sleeps /\ ~Abandoned(a)
           /\ IF host = "seeded"
                THEN /\ queue' = Append(rest, ReplyTo(a.m, e, answer))
                     /\ UNCHANGED <<routines, refused>>
                ELSE /\ queue' = rest
                     /\ IF Pollable(a.m) /\ Open(a.m, e.id)
                          THEN Replies(a.m, e.id, answer) /\ UNCHANGED refused
                          ELSE UNCHANGED routines /\ refused' = TRUE
  BY DEF Perform
<1> DEFINE a == queue[i]
           p == RemoveAt(queue, i)
           answer == AnswerTo(world, a.effect)
<1>2. Serving /\ closed' = closed /\ timers' = timers
  BY DEF Perform
<1>3. /\ a \in GoodItem /\ a.m \in Machines /\ p \in Seq(GoodItem) /\ timers \in Seq(Timer)
      /\ Once(p, timers) /\ Keys(p, timers) \subseteq Keys(queue, timers)
      /\ IsAsk(a) => Key(a) \in Keys(queue, timers) /\ Key(a) \notin Keys(p, timers)
      /\ \A k \in 1 .. Len(p) : \E j \in 1 .. Len(queue) : p[k] = queue[j]
  BY TurnTakes
<1>4. IsAsk(a) /\ <<a.m, a.effect.id>> \notin closed
  BY <1>1 DEF IsAsk, Abandoned
<1>5. Pollable(a.m) /\ Open(a.m, a.effect.id)
  <2>1. Key(a) \in Keys(queue, timers) /\ Key(a) \notin closed
    BY <1>3, <1>4 DEF Key
  <2>2. Key(a)[1] = a.m /\ Key(a)[2] = a.effect.id
    BY DEF Key
  <2>3. QED
    BY <1>2, <2>1, <2>2, KeptIsWanted
<1>6. CASE host = "seeded"
  <2>1. queue' = Append(p, ReplyTo(a.m, a.effect, answer)) /\ UNCHANGED <<routines, refused>>
    BY <1>1, <1>6
  <2> DEFINE b == ReplyTo(a.m, a.effect, answer)
  <2>2. answer \in Int
    BY AnswerIs DEF LoopOK, WorldOK
  <2>3. a.effect \in GoodEffect
    BY <1>3, ItemIs
  <2> HIDE DEF answer
  <2>4. b \in GoodItem /\ Key(b) = Key(a) /\ b.kind = "reply"
    BY <1>3, <2>2, <2>3, ItemsAre DEF ReplyTo, Key
  <2>5. queue' = Append(p, b)
    BY <2>1
  <2> HIDE DEF b, a, p
  <2>6. /\ Once(queue', timers)
        /\ \A r \in Keys(queue', timers) : r \in Keys(p, timers) \/ r = Key(a)
    BY <1>3, <1>4, <2>4, <2>5, OnceQueued
  <2>7. Keys(queue', timers) \subseteq Keys(queue, timers)
    BY <1>3, <1>4, <2>6
  <2>8. \A k \in 1 .. Len(queue') :
          \/ queue'[k].kind = "reply"
          \/ \E j \in 1 .. Len(queue) : queue'[k] = queue[j]
    <3>1. /\ Len(p) \in Nat /\ Len(queue') = Len(p) + 1 /\ queue'[Len(p) + 1] = b
          /\ \A k \in 1 .. Len(p) : queue'[k] = p[k]
      BY <1>3, <2>4, <2>5, AppendIs
    <3>2. \A k \in 1 .. Len(queue') : k \in 1 .. Len(p) \/ k = Len(p) + 1
      BY <3>1
    <3>3. QED
      BY <1>3, <2>4, <3>1, <3>2
  <2>9. QED
    BY <1>2, <2>1, <2>6, <2>7, <2>8, RestKept
<1>7. CASE host # "seeded"
  <2>1. queue' = p /\ Replies(a.m, a.effect.id, answer) /\ refused' = refused
    BY <1>1, <1>5, <1>7
  <2>2. <<a.m, a.effect.id>> \notin Keys(queue', timers')
    BY <1>2, <1>3, <1>4, <2>1 DEF Key
  <2> HIDE DEF a, p, answer
  <2>3. QED
    BY <1>2, <1>3, <2>1, <2>2, TurnKept
<1>8. QED
  BY <1>6, <1>7

LEMMA AnswerKept ==
  ASSUME RoutinesOK, LoopOK, Pythonic, Answer
  PROVE  Pythonic' /\ refused' = refused
<1>1. PICK i \in Turn :
        LET a == queue[i]
        IN /\ a.kind = "reply" /\ ~Abandoned(a)
           /\ queue' = RemoveAt(queue, i)
           /\ IF Pollable(a.m) /\ Open(a.m, a.effect.id)
                THEN Replies(a.m, a.effect.id, a.n) /\ UNCHANGED refused
                ELSE UNCHANGED routines /\ refused' = TRUE
  BY DEF Answer
<1> DEFINE a == queue[i]
           p == RemoveAt(queue, i)
<1>2. Serving /\ closed' = closed /\ timers' = timers
  BY DEF Answer
<1>3. /\ a \in GoodItem /\ a.m \in Machines
      /\ Once(p, timers) /\ Keys(p, timers) \subseteq Keys(queue, timers)
      /\ IsAsk(a) => Key(a) \in Keys(queue, timers) /\ Key(a) \notin Keys(p, timers)
      /\ \A k \in 1 .. Len(p) : \E j \in 1 .. Len(queue) : p[k] = queue[j]
  BY TurnTakes
<1>4. IsAsk(a) /\ <<a.m, a.effect.id>> \notin closed
  BY <1>1 DEF IsAsk, Abandoned
<1>5. Pollable(a.m) /\ Open(a.m, a.effect.id)
  <2>1. Key(a) \in Keys(queue, timers) /\ Key(a) \notin closed
    BY <1>3, <1>4 DEF Key
  <2>2. Key(a)[1] = a.m /\ Key(a)[2] = a.effect.id
    BY DEF Key
  <2>3. QED
    BY <1>2, <2>1, <2>2, KeptIsWanted
<1>6. queue' = p /\ Replies(a.m, a.effect.id, a.n) /\ refused' = refused
  BY <1>1, <1>5
<1>7. <<a.m, a.effect.id>> \notin Keys(queue', timers')
  BY <1>2, <1>3, <1>4, <1>6 DEF Key
<1> HIDE DEF a, p
<1>8. QED
  BY <1>2, <1>3, <1>6, <1>7, TurnKept

LEMMA ResumeKept ==
  ASSUME RoutinesOK, LoopOK, Pythonic, Resume
  PROVE  Pythonic' /\ refused' = refused
<1>1. PICK i \in Turn :
        LET a == queue[i]
            spawn == a.kind = "effect"
            m == IF spawn THEN a.effect.id ELSE a.m
        IN /\ \/ a.kind = "resume"
              \/ spawn /\ a.effect.kind \in {"spawned", "spawned_pinned"}
           /\ queue' = RemoveAt(queue, i)
           /\ IF life[m] = "done" \/ (~spawn /\ a.lane # 0 /\ m \notin Known)
                THEN UNCHANGED <<routines, refused>>
                ELSE IF Pollable(m) THEN Resumes(m) /\ UNCHANGED refused
                                    ELSE UNCHANGED routines /\ refused' = TRUE
  BY DEF Resume
<1> DEFINE a == queue[i]
           p == RemoveAt(queue, i)
           m == IF a.kind = "effect" THEN a.effect.id ELSE a.m
<1>2. Serving /\ closed' = closed /\ timers' = timers
  BY DEF Resume
<1>3. /\ a \in GoodItem /\ a.m \in Machines /\ i \in 1 .. Len(queue)
      /\ Once(p, timers) /\ Keys(p, timers) \subseteq Keys(queue, timers)
      /\ \A k \in 1 .. Len(p) : \E j \in 1 .. Len(queue) : p[k] = queue[j]
  BY TurnTakes
<1>4. There(life, a)
  BY <1>3 DEF Pythonic, Queued
<1>5. m \in Machines
  BY <1>1, <1>3, ItemIs
<1>6. life[m] \in Lives /\ life[m] \notin Mid /\ life[m] # "dropped"
  BY <1>2, <1>5, ServingIs DEF Pythonic, Queued, RoutinesOK, LifeOK
<1>7. \/ UNCHANGED <<routines, refused>>
      \/ Resumes(m) /\ refused' = refused
  <2>1. CASE life[m] = "done" \/ (a.kind # "effect" /\ a.lane # 0 /\ m \notin Known)
    BY <1>1, <2>1
  <2>2. CASE ~(life[m] = "done" \/ (a.kind # "effect" /\ a.lane # 0 /\ m \notin Known))
    <3>1. life[m] # "none"
      BY <1>1, <1>4, <2>2 DEF There, Begets, Known
    <3>2. Pollable(m)
      BY <1>6, <2>2, <3>1 DEF Pollable, Lives, Mid
    <3>3. QED
      BY <1>1, <2>2, <3>2
  <2>3. QED
    BY <2>1, <2>2
<1>8. queue' = p
  BY <1>1
<1> HIDE DEF a, p, m
<1>9. QED
  BY <1>2, <1>3, <1>5, <1>7, <1>8, TurnKept

LEMMA FireTimerKept ==
  ASSUME RoutinesOK, LoopOK, Pythonic, FireTimer
  PROVE  Pythonic' /\ refused' = refused
<1> DEFINE i == NextTimer
           t == timers[i]
           p == RemoveAt(timers, i)
<1>1. /\ Serving /\ closed' = closed /\ queue' = queue /\ timers # << >> /\ timers' = p
      /\ IF <<t.m, t.effect.id>> \in closed
           THEN UNCHANGED <<routines, now, refused>>
           ELSE IF Pollable(t.m) /\ Open(t.m, t.effect.id)
                  THEN Replies(t.m, t.effect.id, 0) /\ UNCHANGED refused
                  ELSE UNCHANGED routines /\ refused' = TRUE
  BY DEF FireTimer
<1>2. i \in 1 .. Len(timers) /\ t.m \in Machines
  BY <1>1, NextTimerIs DEF LoopOK
<1> HIDE DEF i
<1>3. queue \in Seq(GoodItem) /\ timers \in Seq(Timer) /\ Once(queue, timers)
  BY DEF LoopOK, QueueOK, ClockOK, Pythonic, Kept1
<1>4. /\ Once(queue, p) /\ Keys(queue, p) \subseteq Keys(queue, timers)
      /\ Key(t) \notin Keys(queue, p)
  BY <1>2, <1>3, OnceFired
<1>5. Key(t) \in Keys(queue, timers) /\ Key(t) = <<t.m, t.effect.id>>
  BY <1>2, <1>3, KeysAre DEF Key
<1>6. \A k \in 1 .. Len(queue') : \E j \in 1 .. Len(queue) : queue'[k] = queue[j]
  BY <1>1
<1> HIDE DEF t, p
<1>7. CASE <<t.m, t.effect.id>> \in closed
  BY <1>1, <1>4, <1>6, <1>7, RestKept
<1>8. CASE <<t.m, t.effect.id>> \notin closed
  <2>1. Pollable(t.m) /\ Open(t.m, t.effect.id)
    <3>1. <<t.m, t.effect.id>>[1] = t.m /\ <<t.m, t.effect.id>>[2] = t.effect.id
      OBVIOUS
    <3>2. QED
      BY <1>1, <1>5, <1>8, <3>1, KeptIsWanted
  <2>2. Replies(t.m, t.effect.id, 0) /\ refused' = refused
    BY <1>1, <1>8, <2>1
  <2>3. QED
    BY <1>1, <1>2, <1>4, <1>5, <1>6, <2>2, TurnKept
<1>9. QED
  BY <1>7, <1>8

LEMMA StutterKept ==
  ASSUME RoutinesOK, LoopOK, Pythonic, SeededStutter \/ Conclude
  PROVE  Pythonic' /\ refused' = refused
<1>1. PICK m \in Machines : Resumes(m) \/ UNCHANGED routines
  BY MachinesFinite DEF SeededStutter, Conclude, Known
<1>2. /\ Serving /\ closed' = closed /\ queue' = queue /\ timers' = timers
      /\ refused' = refused
  BY DEF SeededStutter, Conclude
<1>3. Once(queue', timers') /\ Keys(queue', timers') \subseteq Keys(queue, timers)
  BY <1>2 DEF Pythonic, Kept1
<1>4. QED
  BY <1>1, <1>2, <1>3, TurnKept

LEMMA PythonKept ==
  ASSUME RoutinesOK, LoopOK, Pythonic, Polling \/ PythonNext
  PROVE  Pythonic' /\ refused' = refused
<1>1. CASE Polling
  BY <1>1, PollKept DEF Polling, loop
<1>2. CASE Ran
  BY <1>2, RanKept DEF Ran
<1>3. QED
  BY <1>1, <1>2, SkipKept, NoteKept, PerformKept, AnswerKept, ResumeKept, FireTimerKept,
     StutterKept DEF PythonNext

LEMMA PythonStart ==
  ASSUME PythonInit
  PROVE  Pythonic
<1>1. /\ RoutinesInit /\ queue = <<ResumeOf(Root)>> /\ timers = << >>
  BY DEF PythonInit, LoopInit
<1>2. /\ \A m \in Machines : out[m] = Nothing /\ life[m] # "dropped"
      /\ life[Root] = "new"
  BY <1>1, MachinesFinite DEF RoutinesInit
<1>3. /\ Len(queue) = 1 /\ queue[1] = ResumeOf(Root) /\ Len(timers) = 0
  BY <1>1
<1>4. \A i \in 1 .. Len(queue) : queue[i].kind = "resume" /\ queue[i].m = Root
  BY <1>3 DEF ResumeOf
<1>5. Queued
  BY <1>2, <1>4, NothingHas DEF Queued, There
<1>6. \A r : ~InQueue(queue, r) /\ ~OnClock(timers, r)
  BY <1>3, <1>4 DEF InQueue, OnClock, IsAsk
<1>7. Once(queue, timers)
  BY <1>3, <1>4, <1>6 DEF Once, QueuedOnce, ClockedOnce
<1>8. \A m \in Machines : Unasked(m, out[m].effects, minted[m], Keys(queue, timers))
  BY <1>2, UnaskedNone, NothingHas
<1>9. \A r \in Keys(queue, timers) : FALSE
  BY <1>6 DEF Keys
<1>10. QED
  BY <1>1, <1>5, <1>7, <1>8, <1>9, PollsStart DEF Pythonic, Kept1

-----------------------------------------------------------------------------
(* JavaHost: where a registered machine is in its life follows from which    *)
(* worker has it; a child is unknown to the scheduler until the one frame    *)
(* that bears it is read; a pinned machine is only ever at home; a request   *)
(* in flight is open, or its closed frame is on its way                      *)

Holding == {"dispatch", "counted", "spurious", "end"}
Entered == {"counted", "spurious"}
Holds(w, m) == job[w].m = m /\ job[w].pc \in Holding \cup {"call"}

LivedAt(w) ==
  /\ job[w].pc = "call" => job[w].m \in machines /\ life[job[w].m] \in Mid
  /\ job[w].pc \in Holding => job[w].m \in machines /\ life[job[w].m] \in {"waiting", "done"}
  /\ job[w].pc \notin {"dispatch", "counted", "spurious"} => batch[w] = << >>
  /\ job[w].pc = "spurious" => Tail(batch[w]) = << >>
Lived ==
  /\ \A w \in WorkerIds : LivedAt(w)
  /\ \A m \in machines : Pollable(m) \/ \E w \in WorkerIds : Holds(w, m)
  /\ \A m \in Machines \ machines : life[m] \in {"none", "new", "dropped"}

\* The frames a worker has still to read, and those that bear a child.
Left(w) == IF job[w].pc \in Entered THEN Tail(batch[w]) ELSE batch[w]
Bears(s, c) == \E i \in 1 .. Len(s) : s[i].kind \in Begets /\ s[i].id = c
BearsOnce(s) == \A i, j \in 1 .. Len(s) : s[i].kind \in Begets /\ s[j].kind \in Begets
                                          /\ s[i].id = s[j].id => i = j
\* What the scheduler knows of.
Claimed(c) ==
  \/ c \in machines \/ c \in running
  \/ \E w \in WorkerIds : job[w].pc \in Entered /\ Head(batch[w]).id = c
  \/ \E r \in DOMAIN tasks : r[1] = c
Unclaimed(c) == life[c] = "new" /\ ~Claimed(c)
Born ==
  /\ \A c \in Machines : life[c] = "none" => ~Claimed(c)
  /\ \A m \in Machines, c \in Machines : Bears(out[m].effects, c) => Unclaimed(c)
  /\ \A w \in WorkerIds, c \in Machines : Bears(Left(w), c) => Unclaimed(c)
  /\ \A m, n \in Machines, c \in Machines :
       Bears(out[m].effects, c) /\ Bears(out[n].effects, c) => m = n
  /\ \A w, x \in WorkerIds, c \in Machines : Bears(Left(w), c) /\ Bears(Left(x), c) => w = x
  /\ \A m \in Machines, w \in WorkerIds, c \in Machines :
       ~(Bears(out[m].effects, c) /\ Bears(Left(w), c))
  /\ \A m \in Machines : BearsOnce(out[m].effects)
  /\ \A w \in WorkerIds : BearsOnce(Left(w))

OnLine(w, m) == \E i \in 1 .. Len(line[w]) : line[w][i] = m
Has(w, m) == (InHand(w) /\ job[w].m = m) \/ OnLine(w, m)
Homes == \A m \in pinned, w \in WorkerIds : Has(w, m) => home[m] = w

ClosedLeft(m, id) ==
  \/ id \in Range(out[m].closed)
  \/ \E w \in WorkerIds : job[w].m = m /\
       \E i \in 1 .. Len(batch[w]) : batch[w][i].kind = "closed" /\ batch[w][i].id = id
Told(m, id) == Opened(mail, m, id) \/ ClosedLeft(m, id)
ToldOf(m) == {id \in Nat : Told(m, id)}
\* What s asks for is in K, and is read before what closes it.
AsksIn(s, K) ==
  \A i \in 1 .. Len(s) : s[i].kind \in Asks =>
    s[i].id \in K /\ \A j \in 1 .. Len(s) : s[j].kind = "closed" => i < j
Wanted ==
  /\ \A r \in inFlight : Told(r[1], r[2])
  /\ \A w \in WorkerIds : AsksIn(batch[w], ToldOf(job[w].m))

Javan == Polls /\ Lived /\ Born /\ Homes /\ Wanted

\* The lives of the machines stay; at most w gives back what it handled.
LEMMA LivedRests ==
  ASSUME Lived, NEW w \in WorkerIds, life' = life, machines' = machines,
         \A x \in WorkerIds : x # w => job'[x] = job[x] /\ batch'[x] = batch[x],
         job[w].pc # "call", job'[w].pc # "call",
         job[w].pc \in Holding <=> job'[w].pc \in Holding,
         job[w].pc \in Holding => job'[w].m = job[w].m,
         job'[w].pc \notin {"dispatch", "counted", "spurious"} => batch'[w] = << >>,
         job'[w].pc = "spurious" => Tail(batch'[w]) = << >>
  PROVE  Lived'
<1>1. LivedAt(w)'
  BY DEF Lived, LivedAt, Holding
<1>2. ASSUME NEW x \in WorkerIds, x # w PROVE LivedAt(x)'
  BY <1>2 DEF Lived, LivedAt
<1>3. \A x \in WorkerIds, m \in machines : Holds(x, m) => Holds(x, m)'
  BY DEF Holds
<1>4. \A m \in machines' : Pollable(m)' \/ \E x \in WorkerIds : Holds(x, m)'
  BY <1>3 DEF Lived, Pollable
<1>5. QED
  BY <1>1, <1>2, <1>4 DEF Lived

\* A sequence of frames that lost its first one bears less.
LEMMA BearsLess ==
  ASSUME NEW s \in Seq(Framed), s # << >>
  PROVE  /\ \A c : Bears(Tail(s), c) => Bears(s, c)
         /\ BearsOnce(s) => BearsOnce(Tail(s))
         /\ BearsOnce(s) /\ Head(s).kind \in Begets => ~Bears(Tail(s), Head(s).id)
         /\ Head(s).kind \in Begets => Bears(s, Head(s).id)
<1> DEFINE t == Tail(s)
<1>1. /\ Len(s) \in Nat /\ 1 \in 1 .. Len(s) /\ s[1] = Head(s)
      /\ \A i \in 1 .. Len(t) : i + 1 \in 1 .. Len(s) /\ t[i] = s[i + 1] /\ i + 1 # 1
      /\ \A i, j \in 1 .. Len(t) : i + 1 = j + 1 => i = j
  OBVIOUS
<1> HIDE DEF t
<1>2. \A c : Bears(t, c) => Bears(s, c)
  BY <1>1 DEF Bears
<1>3. BearsOnce(s) => BearsOnce(t)
  BY <1>1 DEF BearsOnce
<1>4. BearsOnce(s) /\ Head(s).kind \in Begets => ~Bears(t, Head(s).id)
  BY <1>1 DEF BearsOnce, Bears
<1>5. Head(s).kind \in Begets => Bears(s, Head(s).id)
  BY <1>1 DEF Bears
<1>6. QED
  BY <1>2, <1>3, <1>4, <1>5 DEF t

LEMMA BearsNone ==
  BearsOnce(<< >>) /\ \A c : ~Bears(<< >>, c)
<1>1. Len(<< >>) = 0
  OBVIOUS
<1>2. \A i \in 1 .. 0 : FALSE
  OBVIOUS
<1>3. QED
  BY <1>1, <1>2 DEF BearsOnce, Bears

\* One sequence of frames bears no more than another.
Less(t, s) == (\A c : Bears(t, c) => Bears(s, c)) /\ (BearsOnce(s) => BearsOnce(t))

LEMMA BornRests ==
  ASSUME Born,
         \A c \in Machines : Claimed(c)' => Claimed(c),
         \A c \in Machines : life'[c] = "none" => life[c] = "none",
         \A c \in Machines : Unclaimed(c) => life'[c] = "new",
         \A m \in Machines : Less(out'[m].effects, out[m].effects),
         \A w \in WorkerIds : Less(Left(w)', Left(w))
  PROVE  Born'
<1>1. \A c \in Machines : Unclaimed(c) => Unclaimed(c)'
  BY DEF Unclaimed
<1>2. \A m \in Machines :
        /\ \A c \in Machines : Bears(out'[m].effects, c) => Bears(out[m].effects, c)
        /\ BearsOnce(out'[m].effects)
  BY DEF Born, Less
<1>3. \A w \in WorkerIds : /\ \A c \in Machines : Bears(Left(w)', c) => Bears(Left(w), c)
                           /\ BearsOnce(Left(w)')
  BY DEF Born, Less
<1>4. \A c \in Machines : life'[c] = "none" => ~Claimed(c)'
  BY DEF Born
<1>5. QED
  BY <1>1, <1>2, <1>3, <1>4 DEF Born

LEMMA HomesRests ==
  ASSUME Homes, pinned' \subseteq pinned, home' = home,
         \A m \in pinned', w \in WorkerIds : Has(w, m)' => Has(w, m)
  PROVE  Homes'
BY DEF Homes

-----------------------------------------------------------------------------
(* What a step that leaves the routines alone keeps                         *)

Others(w) == \A x \in WorkerIds : x # w => job'[x] = job[x] /\ batch'[x] = batch[x]

\* A worker's batch is replaced by nothing asked, kept, or loses a frame that
\* closes nothing.
Reading(w) ==
  \/ batch[w] = << >> /\ \A i \in 1 .. Len(batch'[w]) : batch'[w][i].kind \notin Asks
  \/ job'[w].m = job[w].m /\ batch'[w] = batch[w]
  \/ /\ job'[w].m = job[w].m
     /\ batch[w] # << >> /\ batch'[w] = Tail(batch[w]) /\ Head(batch[w]).kind # "closed"

LEMMA TailIs ==
  ASSUME NEW s \in Seq(Framed), s # << >>
  PROVE  /\ Len(s) \in Nat /\ 1 \in 1 .. Len(s) /\ s[1] = Head(s) /\ Len(Tail(s)) \in Nat
         /\ \A i \in 1 .. Len(Tail(s)) : i + 1 \in 1 .. Len(s) /\ Tail(s)[i] = s[i + 1]
         /\ \A i \in 1 .. Len(s) : i = 1 \/ (i - 1 \in 1 .. Len(Tail(s)) /\ Tail(s)[i - 1] = s[i])
OBVIOUS

\* A closed frame a worker has still to read is there after the step.
LEMMA ClosedKept ==
  ASSUME BatchOK, NEW w \in WorkerIds, Reading(w), NEW m, NEW id, job[w].m = m,
         \E i \in 1 .. Len(batch[w]) : batch[w][i].kind = "closed" /\ batch[w][i].id = id
  PROVE  /\ job'[w].m = m
         /\ \E i \in 1 .. Len(batch'[w]) : batch'[w][i].kind = "closed" /\ batch'[w][i].id = id
<1> DEFINE s == batch[w]
<1>1. PICK i \in 1 .. Len(s) : s[i].kind = "closed" /\ s[i].id = id
  OBVIOUS
<1>2. s \in Seq(Framed)
  BY DEF BatchOK
<1>3. s # << >>
  BY <1>1, NothingHas
<1> HIDE DEF s
<1>4. CASE job'[w].m = job[w].m /\ batch'[w] = s
  BY <1>1, <1>4
<1>5. CASE job'[w].m = job[w].m /\ batch'[w] = Tail(s) /\ Head(s).kind # "closed"
  <2>1. i # 1
    BY <1>1, <1>2, <1>3, <1>5, TailIs
  <2>2. i - 1 \in 1 .. Len(Tail(s)) /\ Tail(s)[i - 1] = s[i]
    BY <1>2, <1>3, <2>1, TailIs
  <2>3. QED
    BY <1>1, <1>5, <2>2
<1>6. QED
  BY <1>3, <1>4, <1>5 DEF Reading, s

LEMMA ToldRests ==
  ASSUME BatchOK, mail' = mail, out' = out, \A w \in WorkerIds : Reading(w),
         NEW m, NEW id, Told(m, id)
  PROVE  Told(m, id)'
<1>1. CASE Opened(mail, m, id) \/ id \in Range(out[m].closed)
  BY <1>1 DEF Told, ClosedLeft
<1>2. CASE ~(Opened(mail, m, id) \/ id \in Range(out[m].closed))
  <2>1. PICK w \in WorkerIds :
          /\ job[w].m = m
          /\ \E i \in 1 .. Len(batch[w]) : batch[w][i].kind = "closed" /\ batch[w][i].id = id
    BY <1>2 DEF Told, ClosedLeft
  <2>2. /\ job'[w].m = m
        /\ \E i \in 1 .. Len(batch'[w]) : batch'[w][i].kind = "closed" /\ batch'[w][i].id = id
    BY <2>1, ClosedKept
  <2>3. QED
    BY <2>2 DEF Told, ClosedLeft
<1>3. QED
  BY <1>1, <1>2

\* What is left of a batch asks for no more.
LEMMA AsksLess ==
  ASSUME NEW s \in Seq(Framed), NEW K, NEW L, K \subseteq L, AsksIn(s, K)
  PROVE  AsksIn(s, L) /\ (s # << >> => AsksIn(Tail(s), L))
<1>1. AsksIn(s, L)
  BY DEF AsksIn
<1>2. ASSUME s # << >> PROVE AsksIn(Tail(s), L)
  <2> DEFINE t == Tail(s)
  <2>1. \A i \in 1 .. Len(t) : i + 1 \in 1 .. Len(s) /\ t[i] = s[i + 1]
    BY <1>2, TailIs
  <2> HIDE DEF t
  <2>2. \A i \in 1 .. Len(t) : t[i].kind \in Asks =>
          t[i].id \in L /\ \A j \in 1 .. Len(t) : t[j].kind = "closed" => i + 1 < j + 1
    BY <1>1, <2>1 DEF AsksIn
  <2>3. \A i, j \in 1 .. Len(t) : i + 1 < j + 1 => i < j
    OBVIOUS
  <2>4. AsksIn(t, L)
    BY <2>2, <2>3 DEF AsksIn
  <2>5. QED
    BY <2>4 DEF t
<1>3. QED
  BY <1>1, <1>2

\* A sequence that asks for nothing.
LEMMA AsksNone ==
  ASSUME NEW s, \A i \in 1 .. Len(s) : s[i].kind \notin Asks, NEW K
  PROVE  AsksIn(s, K)
BY DEF AsksIn

LEMMA AsksRest ==
  ASSUME BatchOK, NEW w \in WorkerIds, Reading(w), NEW m, m = job[w].m,
         AsksIn(batch[w], ToldOf(m)), ToldOf(m) \subseteq ToldOf(m)'
  PROVE  AsksIn(batch[w], ToldOf(job[w].m))'
<1> DEFINE s == batch[w]
           t == batch'[w]
           K == ToldOf(m)
           L == ToldOf(m)'
           N == ToldOf(job[w].m)'
<1>1. s \in Seq(Framed) /\ K \subseteq L /\ AsksIn(s, K)
  BY DEF BatchOK
<1>2. job'[w].m = job[w].m => N = L
  OBVIOUS
<1>3. \/ \A i \in 1 .. Len(t) : t[i].kind \notin Asks
      \/ job'[w].m = job[w].m /\ t = s
      \/ job'[w].m = job[w].m /\ s # << >> /\ t = Tail(s)
  BY DEF Reading
<1> HIDE DEF s, t, K, L, N
<1>4. AsksIn(s, L) /\ (s # << >> => AsksIn(Tail(s), L))
  BY <1>1, AsksLess
<1>5. AsksIn(t, N)
  BY <1>2, <1>3, <1>4, AsksNone
<1>6. QED
  BY <1>5 DEF t, N

LEMMA WantedRests ==
  ASSUME BatchOK, Wanted, mail' = mail, out' = out, \A w \in WorkerIds : Reading(w),
         \A r \in inFlight' : Told(r[1], r[2])
  PROVE  Wanted'
<1>1. \A m, id : Told(m, id) => Told(m, id)'
  BY ToldRests
<1>2. \A m : ToldOf(m) \subseteq ToldOf(m)'
  BY <1>1 DEF ToldOf
<1>3. \A w \in WorkerIds : AsksIn(batch[w], ToldOf(job[w].m))
  BY DEF Wanted
<1>4. \A w \in WorkerIds : AsksIn(batch[w], ToldOf(job[w].m))'
  BY <1>2, <1>3, AsksRest
<1>5. \A r \in inFlight' : Told(r[1], r[2])'
  BY <1>1
<1>6. QED
  BY <1>4, <1>5 DEF Wanted

LEMMA LessSame ==
  ASSUME NEW s
  PROVE  Less(s, s)
BY DEF Less

LEMMA LessNone ==
  ASSUME NEW s
  PROVE  Less(<< >>, s)
BY BearsNone DEF Less

LEMMA LessTail ==
  ASSUME NEW s \in Seq(Framed), s # << >>
  PROVE  Less(Tail(s), s)
BY BearsLess DEF Less

\* What the scheduler knows of it knew of, if it learns of no one.
LEMMA ClaimsRest ==
  ASSUME NEW w \in WorkerIds, Others(w), machines' \subseteq machines,
         \A c \in running' : Claimed(c), \A r \in DOMAIN tasks' : Claimed(r[1]),
         job'[w].pc \in Entered => Claimed(Head(batch'[w]).id)
  PROVE  \A c \in Machines : Claimed(c)' => Claimed(c)
<1> TAKE c \in Machines
<1> HAVE Claimed(c)'
<1>1. CASE c \in machines' \/ c \in running' \/ \E r \in DOMAIN tasks' : r[1] = c
  BY <1>1 DEF Claimed
<1>2. CASE \E x \in WorkerIds : job'[x].pc \in Entered /\ Head(batch'[x]).id = c
  <2>1. PICK x \in WorkerIds : job'[x].pc \in Entered /\ Head(batch'[x]).id = c
    BY <1>2
  <2>2. CASE x = w
    BY <2>1, <2>2
  <2>3. CASE x # w
    BY <2>1, <2>3 DEF Others, Claimed
  <2>4. QED
    BY <2>2, <2>3
<1>3. QED
  BY <1>1, <1>2 DEF Claimed

LEMMA ClaimedAre ==
  /\ \A c \in machines : Claimed(c)
  /\ \A c \in running : Claimed(c)
  /\ \A r \in DOMAIN tasks : Claimed(r[1])
  /\ \A w \in WorkerIds : job[w].pc \in Entered => Claimed(Head(batch[w]).id)
BY DEF Claimed

\* w goes on with what it has in hand.
GoesOn1(w) ==
  /\ job[w].pc # "call" /\ job'[w].pc # "call"
  /\ job[w].pc \in Holding <=> job'[w].pc \in Holding
  /\ job[w].pc \in Holding => job'[w].m = job[w].m
  /\ job'[w].pc \notin {"dispatch", "counted", "spurious"} => batch'[w] = << >>
  /\ job'[w].pc = "spurious" => Tail(batch'[w]) = << >>

LEMMA WorkRests ==
  ASSUME RoutinesOK, Polls, Lived, Born, UNCHANGED routines, machines' = machines,
         NEW w \in WorkerIds, Others(w), GoesOn1(w), Less(Left(w)', Left(w)),
         \A c \in Machines : Claimed(c)' => Claimed(c)
  PROVE  Polls' /\ Lived' /\ Born'
<1>1. life' = life /\ out' = out /\ Calls1(Root)
  BY DEF routines, Calls1
<1>2. Polls'
  BY <1>1, CallPolls, MachinesFinite
<1>3. Lived'
  BY <1>1, LivedRests DEF Others, GoesOn1
<1>4. \A x \in WorkerIds : Less(Left(x)', Left(x))
  <2> TAKE x \in WorkerIds
  <2>1. CASE x # w
    <3>1. Left(x)' = Left(x)
      BY <2>1 DEF Others, Left
    <3>2. QED
      BY <3>1, LessSame
  <2>2. QED
    BY <2>1
<1>5. Born'
  <2>1. /\ \A c \in Machines : life'[c] = "none" => life[c] = "none"
        /\ \A c \in Machines : Unclaimed(c) => life'[c] = "new"
        /\ \A m \in Machines : Less(out'[m].effects, out[m].effects)
    BY <1>1, LessSame DEF Unclaimed
  <2>2. QED
    BY <1>4, <2>1, BornRests
<1>6. QED
  BY <1>2, <1>3, <1>5

\* No worker has another machine than before.
LEMMA HomesStay ==
  ASSUME Homes, pinned' \subseteq pinned, home' = home, line' = line, NEW w \in WorkerIds,
         Others(w), InHand(w)' => InHand(w) /\ job'[w].m = job[w].m
  PROVE  Homes'
<1>1. \A m, x : OnLine(x, m)' => OnLine(x, m)
  BY DEF OnLine
<1>2. \A m : \A x \in WorkerIds : (InHand(x) /\ job[x].m = m)' => InHand(x) /\ job[x].m = m
  BY DEF Others, InHand
<1>3. \A m \in pinned', x \in WorkerIds : Has(x, m)' => Has(x, m)
  BY <1>1, <1>2 DEF Has
<1>4. QED
  BY <1>3, HomesRests

\* A machine that nobody has is nobody's to call.
LEMMA NobodyHas ==
  ASSUME Placed, NEW m, m \notin running, NEW w \in WorkerIds
  PROVE  ~Has(w, m)
BY DEF Placed, RunningIs, InLine, InHands, Has, OnLine

\* post sends a pinned machine home, and makes it one at its first resume.
LEMMA HomesQueue ==
  ASSUME Homes, Placed, KnownOK, PlacesOK, NEW m \in Machines, NEW event,
         NEW here \in 0 .. threads, Queue(m, event, here), pinned' = pinned,
         \A w \in WorkerIds : /\ job'[w].m = job[w].m
                              /\ job'[w].pc = "idle" <=> job[w].pc = "idle"
  PROVE  Homes'
<1>1. \A x : \A w \in WorkerIds : (InHand(w) /\ job[w].m = x)' <=> InHand(w) /\ job[w].m = x
  BY DEF InHand
<1>2. CASE m \in running
  <2>1. line' = line /\ home' = home
    BY <1>2 DEF Queue
  <2>2. \A x : \A w \in WorkerIds : Has(w, x)' => Has(w, x)
    BY <1>1, <2>1 DEF Has, OnLine
  <2>3. QED
    BY <2>1, <2>2, HomesRests
<1>3. CASE m \notin running
  <2>1. PICK d \in WorkerIds :
          /\ line' = [line EXCEPT ![d] = Append(@, m)]
          /\ home' = IF m \in pinned THEN [home EXCEPT ![m] = d] ELSE home
    BY <1>3, WorkerForIs DEF Queue
  <2>2. line[d] \in Seq(Machines)
    BY DEF PlacesOK
  <2>3. line'[d] = Append(line[d], m) /\ \A w \in WorkerIds : w # d => line'[w] = line[w]
    BY <2>1, <2>2 DEF PlacesOK
  <2>4. \A x : OnLine(d, x)' => OnLine(d, x) \/ x = m
    <3> DEFINE s == line[d]
    <3>1. s \in Seq(Machines)
      BY <2>2
    <3> HIDE DEF s
    <3>2. \A i \in 1 .. Len(Append(s, m)) :
            (i \in 1 .. Len(s) /\ Append(s, m)[i] = s[i]) \/ Append(s, m)[i] = m
      BY <3>1
    <3>3. QED
      BY <2>3, <3>2 DEF OnLine, s
  <2>5. \A x : \A w \in WorkerIds : Has(w, x)' => Has(w, x) \/ (x = m /\ w = d)
    <3>1. \A x : \A w \in WorkerIds : w # d => (OnLine(w, x)' => OnLine(w, x))
      BY <2>3 DEF OnLine
    <3>2. QED
      BY <1>1, <2>4, <3>1 DEF Has
  <2>6. \A x \in Machines : x # m => home'[x] = home[x]
    BY <2>1 DEF PlacesOK
  <2>7. m \in pinned => home'[m] = d
    BY <2>1 DEF PlacesOK
  <2>8. \A w \in WorkerIds : ~Has(w, m)
    BY <1>3, NobodyHas
  <2>9. ASSUME NEW x \in pinned, NEW w \in WorkerIds, Has(w, x)' PROVE home'[x] = w
    <3>1. CASE x = m
      BY <2>5, <2>7, <2>8, <2>9, <3>1
    <3>2. CASE x # m
      <4>1. Has(w, x) /\ x \in Machines
        BY <2>5, <2>9, <3>2 DEF KnownOK
      <4>2. QED
        BY <2>6, <3>2, <4>1 DEF Homes
    <3>3. QED
      BY <3>1, <3>2
  <2>10. QED
    BY <2>9 DEF Homes
<1>4. QED
  BY <1>2, <1>3

-----------------------------------------------------------------------------
(* The steps of a worker that leave the routines alone                      *)

\* A worker that has nothing in hand, or has just been handed an event, has
\* no frames to read.
LEMMA NoFrames ==
  ASSUME Lived, NEW w \in WorkerIds, job[w].pc \notin {"dispatch", "counted", "spurious"}
  PROVE  batch[w] = << >> /\ Left(w) = << >>
BY DEF Lived, LivedAt, Left, Entered

\* Every other worker goes on reading what it had.
LEMMA OthersRead ==
  ASSUME NEW w \in WorkerIds, Others(w), Reading(w)
  PROVE  \A x \in WorkerIds : Reading(x)
BY DEF Others, Reading

LEMMA EmptyRead ==
  ASSUME NEW w \in WorkerIds, batch[w] = << >>, batch'[w] = << >>
  PROVE  Reading(w)
<1>1. \A i \in 1 .. Len(<< >>) : FALSE
  BY NothingHas
<1>2. QED
  BY <1>1 DEF Reading

LEMMA TakeJavan ==
  ASSUME RoutinesOK, JavaOK, Placed, Javan, NEW w \in WorkerIds, Take(w)
  PROVE  Javan'
<1> DEFINE n == [pc |-> "drain", m |-> Head(line[w]), event |-> ResumeEvent]
<1>1. /\ job[w].pc = "idle" /\ line[w] # << >> /\ UNCHANGED routines
      /\ line' = [line EXCEPT ![w] = Tail(@)] /\ job' = [job EXCEPT ![w] = n]
      /\ UNCHANGED <<machines, pinned, home, running, batch, tasks, inFlight>>
  BY DEF Take, At, known, asking
<1>2. job'[w] = n /\ \A x \in WorkerIds : x # w => job'[x] = job[x]
  BY <1>1 DEF JavaOK, JobsOK
<1>3. job'[w].pc = "drain" /\ job'[w].m = Head(line[w])
  BY <1>2
<1> HIDE DEF n
<1>4. line[w] \in Seq(Machines)
  BY DEF JavaOK, PlacesOK
<1>5. line'[w] = Tail(line[w]) /\ \A x \in WorkerIds : x # w => line'[x] = line[x]
  BY <1>1 DEF JavaOK, PlacesOK
<1>6. Others(w)
  BY <1>1, <1>2 DEF Others
<1>7. batch[w] = << >> /\ Left(w) = << >> /\ batch'[w] = << >> /\ Left(w)' = << >>
  BY <1>1, <1>3, NoFrames DEF Javan, Left, Entered
<1>8. Polls' /\ Lived' /\ Born'
  <2>1. GoesOn1(w)
    BY <1>1, <1>3, <1>7 DEF GoesOn1, Holding
  <2>2. \A c \in Machines : Claimed(c)' => Claimed(c)
    BY <1>1, <1>3, <1>6, ClaimsRest, ClaimedAre DEF Entered
  <2>3. QED
    BY <1>1, <1>6, <1>7, <2>1, <2>2, LessSame, WorkRests DEF Javan
<1>9. Homes'
  <2>1. OnLine(w, Head(line[w]))
    <3>1. 1 \in 1 .. Len(line[w]) /\ line[w][1] = Head(line[w])
      BY <1>1, <1>4
    <3>2. QED
      BY <3>1 DEF OnLine
  <2>2. \A m : OnLine(w, m)' => OnLine(w, m)
    <3> DEFINE s == line[w]
    <3>1. s \in Seq(Machines) /\ s # << >>
      BY <1>1, <1>4
    <3> HIDE DEF s
    <3>2. \A i \in 1 .. Len(Tail(s)) : i + 1 \in 1 .. Len(s) /\ Tail(s)[i] = s[i + 1]
      BY <3>1
    <3>3. line'[w] = Tail(s)
      BY <1>5 DEF s
    <3>4. QED
      BY <3>2, <3>3 DEF OnLine, s
  <2>3. \A m : Has(w, m)' => Has(w, m)
    BY <1>3, <2>1, <2>2 DEF Has
  <2>4. \A m, x : x \in WorkerIds /\ x # w => (Has(x, m)' => Has(x, m))
    BY <1>2, <1>5 DEF Has, OnLine, InHand
  <2>5. QED
    BY <1>1, <2>3, <2>4, HomesRests DEF Javan
<1>10. Wanted'
  <2>1. mail' = mail /\ out' = out
    BY <1>1 DEF routines
  <2>2. \A x \in WorkerIds : Reading(x)
    BY <1>6, <1>7, EmptyRead, OthersRead
  <2>3. QED
    BY <1>1, <2>1, <2>2, WantedRests DEF Javan, JavaOK, Wanted
<1>11. QED
  BY <1>8, <1>9, <1>10 DEF Javan

LEMMA DrainJavan ==
  ASSUME RoutinesOK, JavaOK, Javan, NEW w \in WorkerIds, Drain(w)
  PROVE  Javan'
<1>1. /\ job[w].pc = "drain" /\ UNCHANGED routines
      /\ UNCHANGED <<machines, pinned, home, line, batch, tasks, inFlight>>
      /\ running' \subseteq running
  BY DEF Drain, At, known, asking
<1>2. /\ \A x \in WorkerIds : x # w => job'[x] = job[x]
      /\ job'[w].pc = "idle" \/ (job'[w].pc = "handle" /\ job'[w].m = job[w].m)
  BY IdleIs DEF Drain, JavaOK, JobsOK, Jobs
<1>3. Others(w)
  BY <1>1, <1>2 DEF Others
<1>4. batch[w] = << >> /\ Left(w) = << >> /\ batch'[w] = << >> /\ Left(w)' = << >>
  BY <1>1, <1>2, NoFrames DEF Javan, Left, Entered
<1>5. Polls' /\ Lived' /\ Born'
  <2>1. GoesOn1(w)
    BY <1>1, <1>2, <1>4 DEF GoesOn1, Holding
  <2>2. \A c \in Machines : Claimed(c)' => Claimed(c)
    BY <1>1, <1>2, <1>3, ClaimsRest, ClaimedAre DEF Entered
  <2>3. QED
    BY <1>1, <1>3, <1>4, <2>1, <2>2, LessSame, WorkRests DEF Javan
<1>6. Homes'
  BY <1>1, <1>2, <1>3, HomesStay DEF Javan, InHand
<1>7. Wanted'
  <2>1. mail' = mail /\ out' = out
    BY <1>1 DEF routines
  <2>2. \A x \in WorkerIds : Reading(x)
    BY <1>3, <1>4, EmptyRead, OthersRead
  <2>3. QED
    BY <1>1, <2>1, <2>2, WantedRests DEF Javan, JavaOK, Wanted
<1>8. QED
  BY <1>5, <1>6, <1>7 DEF Javan

\* What a worker's frames are, and what it has left when it has read one.
LEMMA DispatchedIs ==
  ASSUME JavaOK, NEW w \in WorkerIds, batch[w] # << >>, Dispatched(w)
  PROVE  /\ batch[w] \in Seq(Framed) /\ Head(batch[w]) \in Framed
         /\ batch'[w] = Tail(batch[w])
         /\ \A x \in WorkerIds : x # w => batch'[x] = batch[x]
         /\ Less(Tail(batch[w]), batch[w])
BY BatchIs, LessTail DEF Dispatched, JavaOK, BatchOK

\* A frame is read that is written out, or whose machine is gone.
LEMMA ReadJavan ==
  ASSUME RoutinesOK, JavaOK, Javan, NEW w \in WorkerIds, job[w].pc = "dispatch",
         batch[w] # << >>, Head(batch[w]).kind # "closed", Dispatched(w), UNCHANGED routines,
         UNCHANGED <<machines, pinned, home, line, job, running>>,
         \A r \in DOMAIN tasks' : Claimed(r[1]),
         \A r \in inFlight' : Told(r[1], r[2])
  PROVE  Javan'
<1>1. /\ batch'[w] = Tail(batch[w]) /\ \A x \in WorkerIds : x # w => batch'[x] = batch[x]
      /\ Less(Tail(batch[w]), batch[w])
  BY DispatchedIs
<1>2. Others(w) /\ job'[w].pc = "dispatch"
  BY <1>1 DEF Others
<1>3. Left(w) = batch[w] /\ Left(w)' = Tail(batch[w])
  BY <1>1, <1>2 DEF Left, Entered
<1>4. Polls' /\ Lived' /\ Born'
  <2>1. GoesOn1(w)
    BY <1>2 DEF GoesOn1, Holding
  <2>2. \A c \in Machines : Claimed(c)' => Claimed(c)
    BY <1>2, ClaimsRest, ClaimedAre DEF Entered
  <2>3. QED
    BY <1>1, <1>2, <1>3, <2>1, <2>2, WorkRests DEF Javan
<1>5. Homes'
  BY <1>2, HomesStay DEF Javan, InHand
<1>6. Wanted'
  <2>1. mail' = mail /\ out' = out
    BY DEF routines
  <2>2. \A x \in WorkerIds : Reading(x)
    BY <1>1, <1>2, OthersRead DEF Reading
  <2>3. QED
    BY <2>1, <2>2, WantedRests DEF Javan, JavaOK
<1>7. QED
  BY <1>4, <1>5, <1>6 DEF Javan

LEMMA WriteOutJavan ==
  ASSUME RoutinesOK, JavaOK, Javan, NEW w \in WorkerIds, WriteOut(w)
  PROVE  Javan'
<1>1. /\ job[w].pc = "dispatch" /\ batch[w] # << >> /\ Head(batch[w]).kind # "closed"
      /\ Dispatched(w) /\ UNCHANGED routines
      /\ UNCHANGED <<machines, pinned, home, line, job, running>>
      /\ tasks' = tasks /\ inFlight' = inFlight
  BY DEF WriteOut, At1, At, known, places, asking
<1>2. QED
  BY <1>1, ReadJavan, ClaimedAre DEF Javan, Wanted

\* What a worker has in hand is registered.
LEMMA HeldLives ==
  ASSUME Lived, NEW w \in WorkerIds, job[w].pc \in Holding \cup {"call"}
  PROVE  job[w].m \in machines
BY DEF Lived, LivedAt

LEMMA AskTaskJavan ==
  ASSUME RoutinesOK, JavaOK, Javan, NEW w \in WorkerIds, AskTask(w)
  PROVE  Javan'
<1> DEFINE r == <<job[w].m, Head(batch[w]).id>>
<1>1. /\ job[w].pc = "dispatch" /\ batch[w] # << >> /\ Head(batch[w]).kind \in Asks
      /\ Dispatched(w) /\ UNCHANGED routines
      /\ UNCHANGED <<machines, pinned, home, line, job, running>>
      /\ inFlight' = inFlight \cup {r}
  BY DEF AskTask, At1, At, known, places
<1>2. DOMAIN tasks' = DOMAIN tasks \cup {r} /\ batch[w] \in Seq(Framed)
  BY AskTaskIs
<1>3. r[1] = job[w].m /\ r[2] = Head(batch[w]).id
  OBVIOUS
<1>4. Claimed(r[1])
  BY <1>1, <1>3, HeldLives, ClaimedAre DEF Javan, Holding
<1>5. Told(r[1], r[2])
  <2>1. AsksIn(batch[w], ToldOf(job[w].m))
    BY DEF Javan, Wanted
  <2> DEFINE s == batch[w]
  <2>2. 1 \in 1 .. Len(s) /\ s[1] = Head(s)
    BY <1>1, <1>2, TailIs
  <2>3. Head(s).id \in ToldOf(job[w].m)
    BY <1>1, <2>1, <2>2 DEF AsksIn
  <2>4. QED
    BY <1>3, <2>3 DEF ToldOf
<1> HIDE DEF r
<1>6. Head(batch[w]).kind # "closed"
  BY <1>1 DEF Asks
<1>7. \A q \in DOMAIN tasks' : Claimed(q[1])
  BY <1>2, <1>4, ClaimedAre
<1>8. \A q \in inFlight' : Told(q[1], q[2])
  BY <1>1, <1>5 DEF Javan, Wanted
<1>9. QED
  BY <1>1, <1>6, <1>7, <1>8, ReadJavan

\* A counted resume is queued.
LEMMA QueuedJavan ==
  ASSUME RoutinesOK, JavaOK, Placed, Javan, NEW w \in WorkerIds, w <= threads,
         job[w].pc \in Entered, Queue(Head(batch[w]).id, ResumeEvent, w),
         job'[w].m = job[w].m, job'[w].pc \in {"dispatch", "end"}, Others(w),
         batch'[w] = Tail(batch[w]), job'[w].pc = "end" => batch'[w] = << >>,
         UNCHANGED routines, UNCHANGED <<machines, pinned, tasks, inFlight>>
  PROVE  Javan'
<1> DEFINE f == Head(batch[w])
<1>1. batch[w] # << >> /\ f.kind \in Wakes1 /\ f.id \in Machines
  BY BatchIs DEF JavaOK, BatchOK, Entered
<1>2. Left(w) = Tail(batch[w]) /\ Left(w)' = Tail(batch[w])
  BY DEF Left, Entered
<1>3. running' = running \cup {f.id} /\ Claimed(f.id)
  BY ClaimedAre DEF Queue
<1>4. Polls' /\ Lived' /\ Born'
  <2>1. GoesOn1(w)
    BY DEF GoesOn1, Holding, Entered
  <2>2. \A c \in running' : Claimed(c)
    BY <1>3, ClaimedAre
  <2>3. \A r \in DOMAIN tasks' : Claimed(r[1])
    BY ClaimedAre
  <2>4. \A c \in Machines : Claimed(c)' => Claimed(c)
    BY <2>2, <2>3, ClaimsRest DEF Entered
  <2>5. QED
    BY <1>2, <2>1, <2>4, LessSame, WorkRests DEF Javan
<1>5. Homes'
  <2>1. w \in 0 .. threads
    BY ThreadIs DEF JavaOK
  <2>2. \A x \in WorkerIds : job'[x].m = job[x].m /\ (job'[x].pc = "idle" <=> job[x].pc = "idle")
    BY DEF Others, Entered
  <2> DEFINE k == f.id
  <2>3. k \in Machines /\ Queue(k, ResumeEvent, w)
    BY <1>1
  <2> HIDE DEF k
  <2>4. QED
    BY <2>1, <2>2, <2>3, HomesQueue DEF Javan, JavaOK
<1>6. Wanted'
  <2>1. mail' = mail /\ out' = out
    BY DEF routines
  <2>2. f.kind # "closed"
    BY <1>1 DEF Wakes1
  <2>3. \A x \in WorkerIds : Reading(x)
    BY <1>1, <2>2, OthersRead DEF Reading
  <2>4. QED
    BY <2>1, <2>3, WantedRests DEF Javan, JavaOK, Wanted
<1>7. QED
  BY <1>4, <1>5, <1>6 DEF Javan

LEMMA QueueResumeJavan ==
  ASSUME RoutinesOK, JavaOK, Placed, Javan, NEW w \in WorkerIds, QueueResume(w)
  PROVE  Javan'
<1>1. /\ w <= threads /\ job[w].pc = "counted" /\ Queue(Head(batch[w]).id, ResumeEvent, w)
      /\ Dispatched(w) /\ Goes(w, "dispatch") /\ UNCHANGED routines
      /\ UNCHANGED <<machines, pinned, tasks, inFlight>>
  BY DEF QueueResume, At, known, asking
<1>2. /\ job'[w].pc = "dispatch" /\ job'[w].m = job[w].m
      /\ \A x \in WorkerIds : x # w => job'[x] = job[x]
  BY <1>1, GoesOn DEF JavaOK, InHand, Pcs
<1>3. batch[w] # << >>
  BY <1>1 DEF JavaOK, BatchOK
<1>4. batch'[w] = Tail(batch[w]) /\ Others(w)
  BY <1>1, <1>2, <1>3, DispatchedIs DEF Others
<1>5. QED
  BY <1>1, <1>2, <1>4, QueuedJavan DEF Entered

LEMMA QueueSpuriousJavan ==
  ASSUME RoutinesOK, JavaOK, Placed, Javan, NEW w \in WorkerIds, QueueSpurious(w)
  PROVE  Javan'
<1>1. /\ w <= threads /\ job[w].pc = "spurious" /\ Queue(Head(batch[w]).id, ResumeEvent, w)
      /\ batch' = [batch EXCEPT ![w] = << >>] /\ Goes(w, "end") /\ UNCHANGED routines
      /\ UNCHANGED <<machines, pinned, tasks, inFlight>>
  BY DEF QueueSpurious, At, known, asking
<1>2. /\ job'[w].pc = "end" /\ job'[w].m = job[w].m
      /\ \A x \in WorkerIds : x # w => job'[x] = job[x]
  BY <1>1, GoesOn DEF JavaOK, InHand, Pcs
<1>3. batch'[w] = << >> /\ \A x \in WorkerIds : x # w => batch'[x] = batch[x]
  BY <1>1 DEF JavaOK, BatchOK
<1>4. Tail(batch[w]) = << >>
  BY <1>1 DEF Javan, Lived, LivedAt
<1>5. batch'[w] = Tail(batch[w]) /\ Others(w)
  BY <1>2, <1>3, <1>4 DEF Others
<1>6. QED
  BY <1>1, <1>2, <1>3, <1>5, QueuedJavan DEF Entered

\* A worker goes on, with no more frames than it had.
LEMMA OnJavan ==
  ASSUME RoutinesOK, JavaOK, Javan, NEW w \in WorkerIds, GoesOn1(w), Others(w),
         batch[w] = << >>, job[w].pc \notin Entered, Left(w)' = << >>,
         \A i \in 1 .. Len(batch'[w]) : batch'[w][i].kind \notin Asks,
         job'[w].m = job[w].m, job[w].pc # "idle",
         job'[w].pc \in Entered => Head(batch'[w]).id \in machines,
         UNCHANGED routines,
         UNCHANGED <<machines, pinned, home, line, running, tasks, inFlight>>
  PROVE  Javan'
<1>1. Polls' /\ Lived' /\ Born'
  <2>1. Less(Left(w)', Left(w))
    BY LessNone
  <2>2. \A c \in Machines : Claimed(c)' => Claimed(c)
    BY ClaimsRest, ClaimedAre
  <2>3. QED
    BY <2>1, <2>2, WorkRests DEF Javan
<1>2. Homes'
  BY HomesStay DEF Javan, InHand
<1>3. Wanted'
  <2>1. mail' = mail /\ out' = out
    BY DEF routines
  <2>2. \A x \in WorkerIds : Reading(x)
    BY OthersRead DEF Reading
  <2>3. QED
    BY <2>1, <2>2, WantedRests DEF Javan, JavaOK, Wanted
<1>4. QED
  BY <1>1, <1>2, <1>3 DEF Javan

LEMMA DispatchJavan ==
  ASSUME RoutinesOK, JavaOK, Javan, NEW w \in WorkerIds, Dispatch(w)
  PROVE  Javan'
<1>1. /\ job[w].pc = "dispatch" /\ batch[w] = << >> /\ UNCHANGED routines
      /\ UNCHANGED <<machines, pinned, home, line, running, tasks, inFlight>>
  BY DEF Dispatch, At, known, places
<1>2. CASE Goes(w, "end") /\ UNCHANGED batch
  <2>1. /\ job'[w].pc = "end" /\ job'[w].m = job[w].m
        /\ \A x \in WorkerIds : x # w => job'[x] = job[x]
    BY <1>1, <1>2, GoesOn DEF JavaOK, InHand, Pcs
  <2>2. Others(w) /\ batch'[w] = << >> /\ Left(w)' = << >>
    BY <1>1, <1>2, <2>1 DEF Others, Left, Entered
  <2>3. GoesOn1(w)
    BY <1>1, <2>1, <2>2 DEF GoesOn1, Holding
  <2>4. \A i \in 1 .. Len(batch'[w]) : batch'[w][i].kind \notin Asks
    BY <2>2, NothingHas
  <2>5. QED
    BY <1>1, <2>1, <2>2, <2>3, <2>4, OnJavan DEF Entered
<1>3. CASE /\ \E m \in machines : batch' = [batch EXCEPT ![w] = <<Frame("", m)>>]
           /\ Goes(w, "spurious")
  <2>1. PICK m \in machines : batch' = [batch EXCEPT ![w] = <<Frame("", m)>>]
    BY <1>3
  <2>2. /\ job'[w].pc = "spurious" /\ job'[w].m = job[w].m
        /\ \A x \in WorkerIds : x # w => job'[x] = job[x]
    BY <1>1, <1>3, GoesOn DEF JavaOK, InHand, Pcs
  <2>3. /\ batch'[w] = <<Frame("", m)>>
        /\ \A x \in WorkerIds : x # w => batch'[x] = batch[x]
    BY <2>1 DEF JavaOK, BatchOK
  <2>4. Frame("", m).kind = "" /\ Frame("", m).id = m
    BY DEF Frame
  <2> DEFINE f == Frame("", m)
  <2> HIDE DEF f
  <2>5. batch'[w] = <<f>> /\ f.kind = "" /\ f.id = m
    BY <2>3, <2>4 DEF f
  <2>6. Tail(<<f>>) = << >> /\ Head(<<f>>) = f /\ Len(<<f>>) = 1 /\ <<f>>[1] = f
    OBVIOUS
  <2>7. Others(w) /\ Left(w)' = << >>
    BY <2>2, <2>3, <2>5, <2>6 DEF Others, Left, Entered
  <2>8. GoesOn1(w)
    BY <1>1, <2>2, <2>5, <2>6 DEF GoesOn1, Holding
  <2>9. \A i \in 1 .. Len(batch'[w]) : batch'[w][i].kind \notin Asks
    <3>1. \A i \in 1 .. 1 : i = 1
      OBVIOUS
    <3>2. QED
      BY <2>5, <2>6, <3>1 DEF Asks
  <2>10. QED
    BY <1>1, <2>2, <2>5, <2>6, <2>7, <2>8, <2>9, OnJavan DEF Entered
<1>4. QED
  BY <1>2, <1>3 DEF Dispatch

LEMMA SettleJavan ==
  ASSUME RoutinesOK, JavaOK, Javan, NEW w \in WorkerIds, Settle(w)
  PROVE  Javan'
<1>1. /\ job[w].pc = "settle" /\ Goes(w, "drain") /\ UNCHANGED routines /\ batch' = batch
      /\ UNCHANGED <<machines, pinned, home, line, running, tasks, inFlight>>
  BY DEF Settle, At, known, places
<1>2. /\ job'[w].pc = "drain" /\ job'[w].m = job[w].m
      /\ \A x \in WorkerIds : x # w => job'[x] = job[x]
  BY <1>1, GoesOn DEF JavaOK, InHand, Pcs
<1>3. batch[w] = << >> /\ batch'[w] = << >>
  BY <1>1, NoFrames DEF Javan
<1>4. Others(w) /\ Left(w)' = << >>
  BY <1>1, <1>2, <1>3 DEF Others, Left, Entered
<1>5. GoesOn1(w)
  BY <1>1, <1>2, <1>3 DEF GoesOn1, Holding
<1>6. \A i \in 1 .. Len(batch'[w]) : batch'[w][i].kind \notin Asks
  BY <1>3, NothingHas
<1>7. QED
  BY <1>1, <1>2, <1>3, <1>4, <1>5, <1>6, OnJavan DEF Entered

-----------------------------------------------------------------------------
\* A task's steps, and the main thread's.
LEMMA WorkersStay ==
  ASSUME RoutinesOK, JavaOK, Javan, UNCHANGED routines,
         UNCHANGED <<machines, pinned, job, batch>>, inFlight' \subseteq inFlight,
         \A c \in running' : Claimed(c), \A r \in DOMAIN tasks' : Claimed(r[1]), Homes'
  PROVE  Javan'
<1>1. life' = life /\ out' = out /\ mail' = mail /\ Calls1(Root)
  BY DEF routines, Calls1
<1>2. Polls'
  BY <1>1, CallPolls, MachinesFinite DEF Javan
<1>3. Lived'
  BY <1>1 DEF Javan, Lived, LivedAt, Pollable, Holds
<1>4. \A c \in Machines : Claimed(c)' => Claimed(c)
  BY DEF Claimed
<1>5. \A w \in WorkerIds : Less(Left(w)', Left(w))
  <2>1. \A w \in WorkerIds : Left(w)' = Left(w)
    BY DEF Left
  <2>2. QED
    BY <2>1, LessSame
<1>6. Born'
  <2>1. /\ \A c \in Machines : life'[c] = "none" => life[c] = "none"
        /\ \A c \in Machines : Unclaimed(c) => life'[c] = "new"
        /\ \A m \in Machines : Less(out'[m].effects, out[m].effects)
    BY <1>1, LessSame DEF Unclaimed
  <2>2. QED
    BY <1>4, <1>5, <2>1, BornRests DEF Javan
<1>7. Wanted'
  <2>1. \A w \in WorkerIds : Reading(w)
    BY DEF Reading
  <2>2. QED
    BY <1>1, <2>1, WantedRests DEF Javan, JavaOK, Wanted
<1>8. QED
  BY <1>2, <1>3, <1>6, <1>7 DEF Javan

LEMMA HomesAre ==
  ASSUME Homes, UNCHANGED <<pinned, home, line, job>>
  PROVE  Homes'
<1>1. \A m, w : Has(w, m)' => Has(w, m)
  BY DEF Has, OnLine, InHand
<1>2. QED
  BY <1>1, HomesRests

LEMMA TaskJavan ==
  ASSUME RoutinesOK, JavaOK, Placed, Javan, NEW r \in DOMAIN tasks, Task(r)
  PROVE  Javan'
<1>1. /\ UNCHANGED routines /\ UNCHANGED <<machines, pinned, job, batch>> /\ inFlight' = inFlight
  BY DEF Task, PerformTask, CountReply, QueueReply, known
<1>2. DOMAIN tasks' \subseteq DOMAIN tasks
  BY DEF Task, PerformTask, CountReply, QueueReply
<1>3. \A q \in DOMAIN tasks' : Claimed(q[1])
  BY <1>2, ClaimedAre
<1>4. CASE PerformTask(r) \/ CountReply(r)
  <2>1. UNCHANGED <<home, line, running>>
    BY <1>4 DEF PerformTask, CountReply, places
  <2>2. Homes'
    BY <1>1, <2>1, HomesAre DEF Javan
  <2>3. QED
    BY <1>1, <1>3, <2>1, <2>2, WorkersStay, ClaimedAre
<1>5. CASE QueueReply(r)
  <2>1. PICK m, event : m = r[1] /\ Queue(m, event, 0)
    BY <1>5 DEF QueueReply
  <2>2. m \in Machines /\ 0 \in 0 .. threads
    BY <2>1, WorkersAre DEF JavaOK, TasksOK, Requests
  <2>3. Homes'
    BY <1>1, <2>1, <2>2, HomesQueue DEF Javan, JavaOK
  <2>4. \A c \in running' : Claimed(c)
    BY <2>1, ClaimedAre DEF Queue
  <2>5. QED
    BY <1>1, <1>3, <2>3, <2>4, WorkersStay
<1>6. QED
  BY <1>4, <1>5 DEF Task

LEMMA DecideJavan ==
  ASSUME RoutinesOK, JavaOK, Javan, Decide \/ UNCHANGED <<routines, java>>
  PROVE  Javan'
<1>1. /\ UNCHANGED routines /\ UNCHANGED <<machines, pinned, job, batch>>
      /\ UNCHANGED <<home, line, running, inFlight, tasks>>
  BY DEF Decide, java, known, places, asking
<1>2. Homes'
  BY <1>1, HomesAre DEF Javan
<1>3. QED
  BY <1>1, <1>2, WorkersStay, ClaimedAre

-----------------------------------------------------------------------------
\* A child becomes known: nobody else bears it.
LEMMA BornClaims ==
  ASSUME Born, NEW k, \A c \in Machines : Claimed(c)' => Claimed(c) \/ c = k,
         life' = life, life[k] # "none", out' = out,
         \A x \in WorkerIds : Less(Left(x)', Left(x)),
         \A m \in Machines : ~Bears(out[m].effects, k),
         \A x \in WorkerIds : ~Bears(Left(x)', k)
  PROVE  Born'
<1>1. \A c \in Machines : life'[c] = "none" => ~Claimed(c)'
  BY DEF Born
<1>2. \A c \in Machines : c # k /\ Unclaimed(c) => Unclaimed(c)'
  BY DEF Unclaimed
<1>3. \A x \in WorkerIds : /\ \A c \in Machines : Bears(Left(x)', c) => Bears(Left(x), c)
                           /\ BearsOnce(Left(x)')
  BY DEF Born, Less
<1>4. \A m \in Machines, c \in Machines : Bears(out'[m].effects, c) => Unclaimed(c)'
  BY <1>2 DEF Born
<1>5. \A x \in WorkerIds, c \in Machines : Bears(Left(x)', c) => Unclaimed(c)'
  BY <1>2, <1>3 DEF Born
<1>6. QED
  BY <1>1, <1>3, <1>4, <1>5 DEF Born

LEMMA CountResumeJavan ==
  ASSUME RoutinesOK, JavaOK, Placed, Javan, NEW w \in WorkerIds, CountResume(w)
  PROVE  Javan'
<1> DEFINE f == Head(batch[w])
<1>1. /\ job[w].pc = "dispatch" /\ batch[w] # << >>
      /\ f.kind \in {"woke", "spawned", "spawned_pinned"}
      /\ UNCHANGED routines /\ UNCHANGED <<home, line, running, inFlight, tasks>>
  BY DEF CountResume, At1, At, places
<1>2. CASE f.kind = "woke" /\ f.id \notin machines
  <2>1. Dispatched(w) /\ UNCHANGED <<machines, pinned, job>>
    BY <1>2 DEF CountResume
  <2>2. QED
    BY <1>1, <1>2, <2>1, ReadJavan, ClaimedAre DEF Javan, Wanted
<1>3. CASE ~(f.kind = "woke" /\ f.id \notin machines)
  <2>1. PICK k : /\ k = f.id /\ machines' = machines \cup {k} /\ batch' = batch
                 /\ pinned' = IF f.kind = "spawned_pinned" THEN pinned \cup {k} ELSE pinned
                 /\ Goes(w, "counted")
    BY <1>3 DEF CountResume
  <2>2. k \in Machines /\ batch[w] \in Seq(Framed)
    BY <1>1, <2>1, BatchIs DEF JavaOK, BatchOK, Wakes1
  <2>3. /\ job'[w].pc = "counted" /\ job'[w].m = job[w].m
        /\ \A x \in WorkerIds : x # w => job'[x] = job[x]
    BY <1>1, <2>1, GoesOn DEF JavaOK, InHand, Pcs
  <2>4. Others(w)
    BY <2>1, <2>3 DEF Others
  <2>5. Left(w) = batch[w] /\ Left(w)' = Tail(batch[w])
    BY <1>1, <2>1, <2>3 DEF Left, Entered
  <2>6. life' = life /\ out' = out /\ mail' = mail /\ Calls1(Root)
    BY <1>1 DEF routines, Calls1
  <2>7. \A x \in WorkerIds : Less(Left(x)', Left(x))
    <3>1. Less(Left(w)', Left(w))
      BY <1>1, <2>2, <2>5, LessTail
    <3>2. \A x \in WorkerIds : x # w => Left(x)' = Left(x)
      BY <2>4 DEF Others, Left
    <3>3. QED
      BY <3>1, <3>2, LessSame
  <2>8. /\ k \in machines \/ Unclaimed(k)
        /\ \A m \in Machines : ~Bears(out[m].effects, k)
        /\ \A x \in WorkerIds : ~Bears(Left(x)', k)
    <3>1. CASE f.kind = "woke"
      <4>1. k \in machines /\ ~Unclaimed(k)
        BY <1>3, <2>1, <3>1, ClaimedAre DEF Unclaimed
      <4>2. /\ \A m \in Machines : ~Bears(out[m].effects, k)
            /\ \A x \in WorkerIds : ~Bears(Left(x), k)
        BY <2>2, <4>1 DEF Javan, Born
      <4>3. QED
        BY <2>7, <4>1, <4>2 DEF Less
    <3>2. CASE f.kind # "woke"
      <4>1. f.kind \in Begets
        BY <1>1, <3>2 DEF Begets
      <4>2. Bears(Left(w), k) /\ (BearsOnce(Left(w)) => ~Bears(Left(w)', k))
        BY <1>1, <2>1, <2>2, <2>5, <4>1, BearsLess
      <4>3. BearsOnce(Left(w)) /\ Unclaimed(k)
        BY <2>2, <4>2 DEF Javan, Born
      <4>4. \A m \in Machines : ~Bears(out[m].effects, k)
        BY <2>2, <4>2 DEF Javan, Born
      <4>5. \A x \in WorkerIds : x # w => ~Bears(Left(x), k)
        BY <2>2, <4>2 DEF Javan, Born
      <4>6. \A x \in WorkerIds : x # w => ~Bears(Left(x)', k)
        BY <2>7, <4>5 DEF Less
      <4>7. QED
        BY <4>2, <4>3, <4>4, <4>6
    <3>3. QED
      BY <3>1, <3>2
  <2>9. life[k] # "none" /\ (k \notin machines => life[k] = "new")
    BY <2>2, <2>8, ClaimedAre DEF Javan, Born, Unclaimed
  <2>10. Polls'
    BY <2>6, CallPolls, MachinesFinite DEF Javan
  <2>11. Lived'
    <3>1. LivedAt(w)'
      <4>1. job[w].m \in machines /\ life[job[w].m] \in {"waiting", "done"}
        BY <1>1 DEF Javan, Lived, LivedAt, Holding
      <4>2. QED
        BY <2>1, <2>3, <2>6, <4>1 DEF LivedAt
    <3>2. ASSUME NEW x \in WorkerIds, x # w PROVE LivedAt(x)'
      BY <2>1, <2>4, <2>6, <3>2 DEF Javan, Lived, LivedAt, Others
    <3>3. \A m \in machines : Pollable(m)' \/ \E x \in WorkerIds : Holds(x, m)'
      <4>1. \A x \in WorkerIds, m \in machines : Holds(x, m) => Holds(x, m)'
        BY <1>1, <2>3 DEF Holds, Holding
      <4>2. QED
        BY <2>6, <4>1 DEF Javan, Lived, Pollable
    <3>4. \A m \in machines' : Pollable(m)' \/ \E x \in WorkerIds : Holds(x, m)'
      BY <2>1, <2>6, <2>9, <3>3 DEF Pollable
    <3>5. \A m \in Machines \ machines' : life'[m] \in {"none", "new", "dropped"}
      BY <2>1, <2>6 DEF Javan, Lived
    <3>6. QED
      BY <3>1, <3>2, <3>4, <3>5 DEF Lived
  <2>12. Born'
    <3>1. \A c \in Machines : Claimed(c)' => Claimed(c) \/ c = k
      BY <1>1, <2>1, <2>3, <2>4 DEF Claimed, Others
    <3>2. QED
      BY <2>6, <2>7, <2>8, <2>9, <3>1, BornClaims DEF Javan
  <2>13. Homes'
    <3>1. \A m : \A x \in WorkerIds : Has(x, m)' => Has(x, m)
      BY <1>1, <2>3 DEF Has, OnLine, InHand
    <3>2. ASSUME NEW m \in pinned', NEW x \in WorkerIds, Has(x, m)' PROVE home'[m] = x
      <4>1. CASE m \in pinned
        BY <1>1, <3>1, <3>2, <4>1 DEF Javan, Homes
      <4>2. CASE m \notin pinned
        <5>1. m = k /\ f.kind = "spawned_pinned"
          BY <2>1, <3>2, <4>2
        <5>2. CASE k \in machines
          <6>1. Bears(Left(w), k)
            BY <1>1, <2>1, <2>2, <2>5, <5>1, BearsLess DEF Begets
          <6>2. Unclaimed(k)
            BY <2>2, <6>1 DEF Javan, Born
          <6>3. QED
            BY <5>2, <6>2, ClaimedAre DEF Unclaimed
        <5>3. CASE k \notin machines
          <6>1. k \notin running
            BY <2>8, <5>3, ClaimedAre DEF Unclaimed
          <6>2. QED
            BY <3>1, <3>2, <5>1, <6>1, NobodyHas
        <5>4. QED
          BY <5>2, <5>3
      <4>3. QED
        BY <4>1, <4>2
    <3>3. QED
      BY <3>2 DEF Homes
  <2>14. Wanted'
    <3>1. \A x \in WorkerIds : Reading(x)
      BY <2>1, <2>3, <2>4, OthersRead DEF Reading
    <3>2. QED
      BY <1>1, <2>6, <3>1, WantedRests DEF Javan, JavaOK, Wanted
  <2>15. QED
    BY <2>10, <2>11, <2>12, <2>13, <2>14 DEF Javan
<1>4. QED
  BY <1>2, <1>3

\* A step of the worker that has m in hand, after which m has no more to do
\* with the requests K.
LEMMA WantedFrom ==
  ASSUME JavaOK, Placed, Lived, Wanted, NEW w \in WorkerIds, InHand(w), NEW m, m = job[w].m,
         Others(w), NEW K,
         \A x \in Machines : \A id : ~(x = m /\ id \in K) /\ Told(x, id) => Told(x, id)',
         inFlight' \subseteq inFlight, \A r \in inFlight' : ~(r[1] = m /\ r[2] \in K),
         AsksIn(batch[w], ToldOf(job[w].m))'
  PROVE  Wanted'
<1>1. ASSUME NEW x \in WorkerIds, x # w PROVE AsksIn(batch[x], ToldOf(job[x].m))'
  <2>1. job'[x] = job[x] /\ batch'[x] = batch[x]
    BY <1>1 DEF Others
  <2>2. CASE batch[x] = << >>
    <3>1. \A i \in 1 .. Len(batch'[x]) : FALSE
      BY <2>1, <2>2, NothingHas
    <3>2. QED
      BY <3>1, AsksNone
  <2>3. CASE batch[x] # << >>
    <3>1. InHand(x)
      BY <2>3, NoFrames DEF InHand
    <3>2. job[x].m \in Machines /\ job[x].m # m
      BY <1>1, <3>1 DEF Placed, HandsOnce, JavaOK, JobsOK
    <3>3. PICK y \in Machines : y = job[x].m /\ y # m
      BY <3>2
    <3>4. ToldOf(y) \subseteq ToldOf(y)'
      BY <3>3 DEF ToldOf
    <3>5. AsksIn(batch[x], ToldOf(y))
      BY <3>3 DEF Wanted
    <3>6. Reading(x) /\ BatchOK
      BY <2>1 DEF Reading, JavaOK
    <3>7. QED
      BY <3>3, <3>4, <3>5, <3>6, AsksRest
  <2>4. QED
    BY <2>2, <2>3
<1>2. ASSUME NEW r \in inFlight' PROVE Told(r[1], r[2])'
  <2>1. r \in inFlight /\ r[1] \in Machines /\ ~(r[1] = m /\ r[2] \in K)
    BY <1>2 DEF JavaOK, TasksOK, Requests
  <2>2. Told(r[1], r[2])
    BY <2>1 DEF Wanted
  <2>3. QED
    BY <2>1, <2>2
<1>3. QED
  BY <1>1, <1>2 DEF Wanted

LEMMA CancelJavan ==
  ASSUME RoutinesOK, JavaOK, Placed, Javan, NEW w \in WorkerIds, Cancel(w)
  PROVE  Javan'
<1>1. /\ job[w].pc = "dispatch" /\ batch[w] # << >> /\ Head(batch[w]).kind = "closed"
      /\ Dispatched(w) /\ UNCHANGED routines
      /\ UNCHANGED <<machines, pinned, home, line, running, job>>
  BY DEF Cancel, At1, At, known, places
<1>2. /\ DOMAIN tasks' \subseteq DOMAIN tasks /\ inFlight' \subseteq inFlight
      /\ <<job[w].m, Head(batch[w]).id>> \notin inFlight'
  BY DEF Cancel
<1>3. /\ batch'[w] = Tail(batch[w]) /\ \A x \in WorkerIds : x # w => batch'[x] = batch[x]
      /\ Less(Tail(batch[w]), batch[w]) /\ batch[w] \in Seq(Framed)
  BY <1>1, DispatchedIs
<1>4. Others(w) /\ job'[w].pc = "dispatch" /\ InHand(w)
  BY <1>1, <1>3 DEF Others, InHand
<1>5. Left(w) = batch[w] /\ Left(w)' = Tail(batch[w])
  BY <1>1, <1>3, <1>4 DEF Left, Entered
<1>6. Polls' /\ Lived' /\ Born'
  <2>1. GoesOn1(w)
    BY <1>1, <1>4 DEF GoesOn1, Holding
  <2>2. \A r \in DOMAIN tasks' : Claimed(r[1])
    BY <1>2, ClaimedAre
  <2>3. \A c \in Machines : Claimed(c)' => Claimed(c)
    BY <1>1, <1>4, <2>2, ClaimsRest, ClaimedAre DEF Entered
  <2>4. QED
    BY <1>1, <1>3, <1>4, <1>5, <2>1, <2>3, WorkRests DEF Javan
<1>7. Homes'
  BY <1>1, <1>4, HomesStay DEF Javan, InHand
<1>8. PICK m, k : m = job[w].m /\ k = Head(batch[w]).id
  OBVIOUS
<1>9. mail' = mail /\ out' = out
  BY <1>1 DEF routines
<1>10. ASSUME NEW x \in Machines, NEW id, ~(x = m /\ id \in {k}), Told(x, id)
       PROVE  Told(x, id)'
  <2>1. CASE Opened(mail, x, id) \/ id \in Range(out[x].closed)
    BY <1>9, <2>1 DEF Told, ClosedLeft
  <2>2. CASE ~(Opened(mail, x, id) \/ id \in Range(out[x].closed))
    <3>1. PICK y \in WorkerIds : job[y].m = x /\
            \E i \in 1 .. Len(batch[y]) : batch[y][i].kind = "closed" /\ batch[y][i].id = id
      BY <1>10, <2>2 DEF Told, ClosedLeft
    <3>2. CASE y # w
      BY <1>4, <3>1, <3>2 DEF Others, Told, ClosedLeft
    <3>3. CASE y = w
      <4> DEFINE s == batch[w]
      <4>1. PICK i \in 1 .. Len(s) : s[i].kind = "closed" /\ s[i].id = id
        BY <3>1, <3>3
      <4>2. s \in Seq(Framed) /\ s # << >> /\ Head(s).id # id
        BY <1>1, <1>3, <1>8, <1>10, <3>1, <3>3
      <4> HIDE DEF s
      <4>3. i # 1
        BY <4>1, <4>2, TailIs
      <4>4. i - 1 \in 1 .. Len(Tail(s)) /\ Tail(s)[i - 1] = s[i]
        BY <4>2, <4>3, TailIs
      <4>5. batch'[w] = Tail(s) /\ job'[w].m = x
        BY <1>1, <1>3, <3>1, <3>3 DEF s
      <4>6. QED
        BY <4>1, <4>4, <4>5 DEF Told, ClosedLeft
    <3>4. QED
      BY <3>2, <3>3
  <2>3. QED
    BY <2>1, <2>2
<1>11. AsksIn(batch[w], ToldOf(job[w].m))'
  <2> DEFINE s == batch[w]
             t == Tail(s)
  <2>1. AsksIn(s, ToldOf(job[w].m)) /\ s \in Seq(Framed) /\ s # << >>
    BY <1>1, <1>3 DEF Javan, Wanted
  <2>2. Head(s).kind = "closed"
    BY <1>1
  <2> HIDE DEF s
  <2>3. \A i \in 1 .. Len(s) : s[i].kind \in Asks => i < 1
    BY <2>1, <2>2, TailIs DEF AsksIn
  <2>4. \A i \in 1 .. Len(s) : s[i].kind \notin Asks
    <3>1. \A i \in 1 .. Len(s) : ~(i < 1)
      OBVIOUS
    <3>2. QED
      BY <2>3, <3>1
  <2>5. \A i \in 1 .. Len(t) : t[i].kind \notin Asks
    BY <2>1, <2>4, TailIs
  <2>6. batch'[w] = t
    BY <1>3 DEF s
  <2> HIDE DEF t
  <2>7. QED
    BY <2>5, <2>6, AsksNone
<1>12. Wanted'
  <2>1. \A r \in inFlight' : ~(r[1] = m /\ r[2] \in {k})
    <3>1. \A r \in inFlight' : r = <<r[1], r[2]>>
      BY <1>2 DEF JavaOK, TasksOK, Requests
    <3>2. QED
      BY <1>2, <1>8, <3>1
  <2>2. QED
    BY <1>2, <1>4, <1>8, <1>10, <1>11, <2>1, WantedFrom DEF Javan
<1>13. QED
  BY <1>6, <1>7, <1>12 DEF Javan

-----------------------------------------------------------------------------
\* A step of the worker that has m in hand moves m on, and may make a child.
LEMMA LivedFrom ==
  ASSUME JavaOK, Placed, Lived, Born, NEW w \in WorkerIds, InHand(w), NEW m \in Machines,
         m = job[w].m, Others(w), LivedAt(w)',
         \A x \in Machines : x # m =>
           life'[x] = life[x] \/ (life[x] = "none" /\ life'[x] = "new"),
         machines' = machines \/ machines' = machines \ {m},
         m \in machines' => Pollable(m)' \/ Holds(w, m)',
         m \notin machines' => life'[m] \in {"none", "new", "dropped"}
  PROVE  Lived'
<1>1. \A x \in machines : x # m => life'[x] = life[x]
  BY ClaimedAre DEF Born, JavaOK, KnownOK
<1>2. ASSUME NEW x \in WorkerIds, x # w PROVE LivedAt(x)'
  <2>1. job'[x] = job[x] /\ batch'[x] = batch[x]
    BY <1>2 DEF Others
  <2>2. CASE job[x].pc \in Holding \cup {"call"}
    <3>1. InHand(x) /\ job[x].m \in machines
      BY <2>2, HeldLives DEF InHand, Holding
    <3>2. job[x].m # m
      BY <1>2, <3>1 DEF Placed, HandsOnce
    <3>3. job[x].m \in machines' /\ life'[job[x].m] = life[job[x].m]
      BY <1>1, <3>1, <3>2
    <3>4. QED
      BY <2>1, <3>3 DEF Lived, LivedAt
  <2>3. CASE job[x].pc \notin Holding \cup {"call"}
    BY <2>1, <2>3 DEF Lived, LivedAt
  <2>4. QED
    BY <2>2, <2>3
<1>3. ASSUME NEW y \in machines', y # m PROVE Pollable(y)' \/ \E x \in WorkerIds : Holds(x, y)'
  <2>1. y \in machines /\ life'[y] = life[y]
    BY <1>1, <1>3
  <2>2. CASE Pollable(y)
    BY <2>1, <2>2 DEF Pollable
  <2>3. CASE ~Pollable(y)
    <3>1. PICK x \in WorkerIds : Holds(x, y)
      BY <2>1, <2>3 DEF Lived
    <3>2. x # w
      BY <1>3, <3>1 DEF Holds
    <3>3. Holds(x, y)'
      BY <3>1, <3>2 DEF Holds, Others
    <3>4. QED
      BY <3>3
  <2>4. QED
    BY <2>2, <2>3
<1>4. ASSUME NEW y \in Machines \ machines' PROVE life'[y] \in {"none", "new", "dropped"}
  <2>1. CASE y = m
    BY <1>4, <2>1
  <2>2. CASE y # m
    <3>1. y \in Machines \ machines
      BY <1>4, <2>2
    <3>2. QED
      BY <2>2, <3>1 DEF Lived
  <2>3. QED
    BY <2>1, <2>2
<1>5. \A y \in machines' : Pollable(y)' \/ \E x \in WorkerIds : Holds(x, y)'
  BY <1>3
<1>6. \A x \in WorkerIds : LivedAt(x)'
  BY <1>2
<1>7. QED
  BY <1>4, <1>5, <1>6 DEF Lived

\* Only the worker that has m in hand has frames of it.
LEMMA OneReads ==
  ASSUME JavaOK, Placed, Lived, NEW w \in WorkerIds, InHand(w), NEW m, m = job[w].m,
         NEW x \in WorkerIds, x # w, job[x].m = m
  PROVE  batch[x] = << >>
BY NoFrames DEF InHand, Placed, HandsOnce

\* An event that is handled is accepted.
LEMMA HandleAccepted ==
  ASSUME RoutinesOK, JavaOK, Placed, Javan, NEW w \in WorkerIds, job[w].pc = "handle",
         NEW m \in Machines, m = job[w].m, m \in machines, NEW event, event = job[w].event,
         event = ResumeEvent \/ <<m, event.id>> \in inFlight
  PROVE  Accepts(w, m, event) /\ out[m] = Nothing /\ batch[w] = << >>
<1>1. InHand(w) /\ batch[w] = << >>
  BY NoFrames DEF Javan, InHand
<1>2. Pollable(m)
  <2> SUFFICES ASSUME ~Pollable(m) PROVE FALSE
    OBVIOUS
  <2>1. PICK x \in WorkerIds : Holds(x, m)
    BY DEF Javan, Lived
  <2>2. InHand(x) /\ x # w
    BY <2>1 DEF Holds, Holding, InHand
  <2>3. QED
    BY <1>1, <2>1, <2>2 DEF Holds, Placed, HandsOnce
<1>3. out[m] = Nothing
  BY <1>2 DEF Javan, Polls, Yielded, Pollable, Mid
<1>4. m \in pinned => home[m] = w
  BY <1>1 DEF Javan, Homes, Has
<1>5. ASSUME event # ResumeEvent PROVE Open(m, event.id)
  <2> DEFINE r == <<m, event.id>>
  <2>1. r \in inFlight /\ r[1] = m /\ r[2] = event.id
    BY <1>5
  <2>2. Told(r[1], r[2])
    BY <2>1 DEF Javan, Wanted
  <2>3. Told(m, event.id)
    BY <2>1, <2>2
  <2>4. event.id \notin Range(out[m].closed)
    BY <1>3, NothingHas
  <2>5. \A x \in WorkerIds : job[x].m = m => batch[x] = << >>
    BY <1>1, OneReads DEF Javan
  <2>6. ~ClosedLeft(m, event.id)
    BY <2>4, <2>5, NothingHas DEF ClosedLeft
  <2>7. QED
    BY <2>3, <2>6 DEF Told, Opened, Open
<1>6. QED
  BY <1>1, <1>2, <1>3, <1>4, <1>5 DEF Accepts

LEMMA HandleJavan ==
  ASSUME RoutinesOK, JavaOK, Placed, Javan, NEW w \in WorkerIds, HandleEvent(w)
  PROVE  Javan' /\ refused' = refused
<1>1. /\ job[w].pc = "handle" /\ batch' = batch
      /\ UNCHANGED <<machines, pinned, home, line, running, tasks>>
  BY DEF HandleEvent, At, known, places
<1>2. InHand(w) /\ job[w].m \in Machines /\ batch[w] = << >>
  BY <1>1, NoFrames DEF JavaOK, JobsOK, InHand, Javan
<1>3. PICK m \in Machines, event \in {job[w].event} : m = job[w].m
  BY <1>2
<1>4. CASE ~(m \in machines /\ (event = ResumeEvent \/ <<m, event.id>> \in inFlight))
  <2>1. Goes(w, "settle") /\ UNCHANGED routines /\ refused' = refused /\ inFlight' = inFlight
    BY <1>3, <1>4 DEF HandleEvent
  <2>2. /\ job'[w].pc = "settle" /\ job'[w].m = job[w].m
        /\ \A x \in WorkerIds : x # w => job'[x] = job[x]
    BY <1>2, <2>1, GoesOn DEF JavaOK, Pcs
  <2>3. Others(w) /\ batch'[w] = << >> /\ Left(w)' = << >>
    BY <1>1, <1>2, <2>2 DEF Others, Left, Entered
  <2>4. GoesOn1(w)
    BY <1>1, <2>2, <2>3 DEF GoesOn1, Holding
  <2>5. \A i \in 1 .. Len(batch'[w]) : batch'[w][i].kind \notin Asks
    BY <2>3, NothingHas
  <2>6. QED
    BY <1>1, <1>2, <2>1, <2>2, <2>3, <2>4, <2>5, OnJavan DEF Entered
<1>5. CASE m \in machines /\ (event = ResumeEvent \/ <<m, event.id>> \in inFlight)
  <2>1. Accepts(w, m, event) /\ out[m] = Nothing
    BY <1>1, <1>3, <1>5, HandleAccepted
  <2>2. Calls(w, m, event) /\ inFlight' = inFlight \ {<<m, event.id>>}
    BY <1>3, <1>5 DEF HandleEvent
  <2>3. /\ Resumes(m) \/ Replies(m, event.id, event.n)
        /\ Goes(w, "call") /\ refused' = refused
    BY <2>1, <2>2 DEF Calls
  <2>4. /\ job'[w].pc = "call" /\ job'[w].m = m
        /\ \A x \in WorkerIds : x # w => job'[x] = job[x]
    BY <1>2, <1>3, <2>3, GoesOn DEF JavaOK, Pcs
  <2>5. Others(w) /\ batch'[w] = << >> /\ Left(w) = << >> /\ Left(w)' = << >>
    BY <1>1, <1>2, <2>4 DEF Others, Left, Entered
  <2>6. /\ life' = [life EXCEPT ![m] = "polling"] /\ out' = [out EXCEPT ![m] = Nothing]
        /\ mail' = mail \/ mail' = [mail EXCEPT ![m][event.id] = event.n]
    BY <2>3 DEF Resumes, Replies
  <2>7. /\ life'[m] = "polling" /\ \A x \in Machines : x # m => life'[x] = life[x]
        /\ out' = out
    BY <2>1, <2>6 DEF RoutinesOK, LifeOK, OutOK
  <2>8. Polls'
    <3>1. Calls1(m)
      BY <2>3 DEF Calls1
    <3>2. QED
      BY <3>1, CallPolls DEF Javan
  <2>9. Lived'
    <3>1. LivedAt(w)'
      BY <1>1, <1>5, <2>4, <2>5, <2>7 DEF LivedAt, Holding, Mid
    <3>2. Holds(w, m)'
      BY <2>4 DEF Holds
    <3>3. QED
      BY <1>1, <1>2, <1>3, <1>5, <2>5, <2>7, <3>1, <3>2, LivedFrom DEF Javan
  <2>10. Born'
    <3>1. Claimed(m)
      BY <1>5, ClaimedAre
    <3>2. \A c \in Machines : life'[c] = "none" => life[c] = "none"
      BY <2>7
    <3>3. \A c \in Machines : Unclaimed(c) => life'[c] = "new"
      BY <2>7, <3>1 DEF Unclaimed
    <3>4. \A x \in Machines : Less(out'[x].effects, out[x].effects)
      BY <2>7, LessSame
    <3>5. \A x \in WorkerIds : Less(Left(x)', Left(x))
      <4>1. \A x \in WorkerIds : x # w => Left(x)' = Left(x)
        BY <2>5 DEF Others, Left
      <4>2. QED
        BY <2>5, <4>1, LessSame
    <3>6. \A c \in Machines : Claimed(c)' => Claimed(c)
      BY <1>1, <2>4, <2>5, ClaimsRest, ClaimedAre DEF Entered
    <3>7. QED
      BY <3>2, <3>3, <3>4, <3>5, <3>6, BornRests DEF Javan
  <2>11. Homes'
    BY <1>1, <1>2, <1>3, <2>4, <2>5, HomesStay DEF Javan
  <2>12. ASSUME NEW x \in Machines, NEW id, ~(x = m /\ id \in {event.id}), Told(x, id)
         PROVE  Told(x, id)'
    <3>1. CASE ClosedLeft(x, id)
      <4>1. \A y \in WorkerIds : batch[y] # << >> => job'[y] = job[y]
        BY <1>2, <2>4
      <4>2. ClosedLeft(x, id)'
        BY <1>1, <2>7, <3>1, <4>1, NothingHas DEF ClosedLeft
      <4>3. QED
        BY <4>2 DEF Told
    <3>2. CASE Opened(mail, x, id)
      <4>1. mail \in [Machines -> Mails]
        BY DEF RoutinesOK, MailOK
      <4>2. Opened(mail', x, id)
        <5>1. CASE mail' = mail
          BY <3>2, <5>1
        <5>2. CASE mail' = [mail EXCEPT ![m][event.id] = event.n]
          <6>1. CASE x # m
            BY <3>2, <4>1, <5>2, <6>1 DEF Opened
          <6>2. CASE x = m
            <7>1. mail'[m] = [mail[m] EXCEPT ![event.id] = event.n]
              BY <4>1, <5>2
            <7>2. DOMAIN mail'[m] = DOMAIN mail[m] /\ id # event.id
              BY <2>12, <6>2, <7>1
            <7>3. id \in DOMAIN mail[m] => mail'[m][id] = mail[m][id]
              BY <7>1, <7>2
            <7>4. QED
              BY <3>2, <6>2, <7>2, <7>3 DEF Opened
          <6>3. QED
            BY <6>1, <6>2
        <5>3. QED
          BY <2>6, <5>1, <5>2
      <4>3. QED
        BY <4>2 DEF Told
    <3>3. QED
      BY <2>12, <3>1, <3>2 DEF Told
  <2>13. AsksIn(batch[w], ToldOf(job[w].m))'
    <3>1. \A i \in 1 .. Len(batch'[w]) : batch'[w][i].kind \notin Asks
      BY <2>5, NothingHas
    <3>2. QED
      BY <3>1, AsksNone
  <2>14. Wanted'
    <3>1. inFlight' \subseteq inFlight /\ <<m, event.id>> \notin inFlight'
      BY <2>2
    <3>2. \A r \in inFlight' : r = <<r[1], r[2]>>
      BY <3>1 DEF JavaOK, TasksOK, Requests
    <3>3. \A r \in inFlight' : ~(r[1] = m /\ r[2] \in {event.id})
      BY <3>1, <3>2
    <3>4. QED
      BY <1>2, <1>3, <2>5, <2>12, <2>13, <3>1, <3>3, WantedFrom DEF Javan
  <2>15. QED
    BY <2>3, <2>8, <2>9, <2>10, <2>11, <2>14 DEF Javan
<1>6. QED
  BY <1>4, <1>5

-----------------------------------------------------------------------------
\* A completed machine has no open request, so nobody waits for its answer.
LEMMA EndJavan ==
  ASSUME RoutinesOK, JavaOK, Placed, Javan, NEW w \in WorkerIds, End(w)
  PROVE  Javan'
<1>1. /\ job[w].pc = "end" /\ Goes(w, "settle") /\ batch' = batch
      /\ UNCHANGED <<home, line, running, tasks, inFlight>>
  BY DEF End, At, places, asking
<1>2. InHand(w) /\ job[w].m \in Machines /\ batch[w] = << >>
  BY <1>1, NoFrames DEF JavaOK, JobsOK, InHand, Javan
<1>3. PICK m \in Machines : m = job[w].m
  BY <1>2
<1>4. m \in machines /\ life[m] \in {"waiting", "done"}
  BY <1>1, <1>3 DEF Javan, Lived, LivedAt, Holding
<1>5. /\ job'[w].pc = "settle" /\ job'[w].m = m
      /\ \A x \in WorkerIds : x # w => job'[x] = job[x]
      /\ \A x \in WorkerIds : job'[x].m = job[x].m
  BY <1>1, <1>2, <1>3, GoesOn DEF JavaOK, Pcs
<1>6. Others(w) /\ batch'[w] = << >> /\ Left(w) = << >> /\ Left(w)' = << >>
  BY <1>1, <1>2, <1>5 DEF Others, Left, Entered
<1>7. /\ \A x \in Machines : x # m => life'[x] = life[x] /\ mail'[x] = mail[x]
      /\ out' = out /\ pinned' \subseteq pinned /\ Calls1(m)
      /\ \/ /\ life[m] = "done" /\ life'[m] = "dropped" /\ machines' = machines \ {m}
         \/ life'[m] = "waiting" /\ machines' = machines /\ mail' = mail
  <2>1. CASE life[m] = "done"
    <3>1. Kills(m) /\ machines' = machines \ {m} /\ pinned' \subseteq pinned
      BY <1>3, <2>1 DEF End
    <3>2. life' = [life EXCEPT ![m] = "dropped"] /\ mail' = [mail EXCEPT ![m] = << >>] /\ out' = out
      BY <3>1 DEF Kills
    <3>3. /\ life'[m] = "dropped"
          /\ \A x \in Machines : x # m => life'[x] = life[x] /\ mail'[x] = mail[x]
      BY <3>2 DEF RoutinesOK, LifeOK, MailOK
    <3>4. QED
      BY <2>1, <3>1, <3>2, <3>3 DEF Calls1
  <2>2. CASE life[m] # "done"
    <3>1. UNCHANGED routines /\ machines' = machines /\ pinned' \subseteq pinned
      BY <1>3, <2>2 DEF End
    <3>2. life' = life /\ mail' = mail /\ out' = out
      BY <3>1 DEF routines
    <3>3. QED
      BY <1>4, <2>2, <3>1, <3>2 DEF Calls1
  <2>3. QED
    BY <2>1, <2>2
<1>8. Polls'
  BY <1>7, CallPolls DEF Javan
<1>9. machines' \subseteq machines
  BY <1>7
<1>10. Lived'
  <2>1. LivedAt(w)'
    BY <1>5, <1>6 DEF LivedAt, Holding
  <2>2. m \in machines' => Pollable(m)'
    BY <1>7 DEF Pollable
  <2>3. m \notin machines' => life'[m] \in {"none", "new", "dropped"}
    BY <1>4, <1>7
  <2>4. machines' = machines \/ machines' = machines \ {m}
    BY <1>7
  <2>5. QED
    BY <1>2, <1>3, <1>6, <1>7, <2>1, <2>2, <2>3, <2>4, LivedFrom DEF Javan
<1>11. Born'
  <2>1. Claimed(m)
    BY <1>4, ClaimedAre
  <2>2. \A c \in Machines : life'[c] = "none" => life[c] = "none"
    BY <1>7
  <2>3. \A c \in Machines : Unclaimed(c) => life'[c] = "new"
    BY <1>7, <2>1 DEF Unclaimed
  <2>4. \A x \in Machines : Less(out'[x].effects, out[x].effects)
    BY <1>7, LessSame
  <2>5. \A x \in WorkerIds : Less(Left(x)', Left(x))
    <3>1. \A x \in WorkerIds : x # w => Left(x)' = Left(x)
      BY <1>6 DEF Others, Left
    <3>2. QED
      BY <1>6, <3>1, LessSame
  <2>6. \A c \in Machines : Claimed(c)' => Claimed(c)
    BY <1>1, <1>5, <1>6, <1>9, ClaimsRest, ClaimedAre DEF Entered
  <2>7. QED
    BY <2>2, <2>3, <2>4, <2>5, <2>6, BornRests DEF Javan
<1>12. Homes'
  BY <1>1, <1>2, <1>3, <1>5, <1>6, <1>7, HomesStay DEF Javan
<1>13. ASSUME NEW x \in Machines, NEW id, Told(x, id) PROVE Told(x, id)'
  <2>1. CASE ClosedLeft(x, id)
    BY <1>1, <1>5, <1>7, <2>1 DEF ClosedLeft, Told
  <2>2. CASE Opened(mail, x, id)
    <3>1. mail'[x] = mail[x]
      <4>1. CASE x = m /\ life[m] = "done"
        <5>1. \A k \in DOMAIN mail[m] : FALSE
          BY <4>1, AsksNothing DEF Javan, Polls, Asking
        <5>2. QED
          BY <2>2, <4>1, <5>1 DEF Opened
      <4>2. CASE ~(x = m /\ life[m] = "done")
        BY <1>7, <4>2
      <4>3. QED
        BY <4>1, <4>2
    <3>2. QED
      BY <2>2, <3>1 DEF Opened, Told
  <2>3. QED
    BY <1>13, <2>1, <2>2 DEF Told
<1>14. AsksIn(batch[w], ToldOf(job[w].m))'
  <2>1. \A i \in 1 .. Len(batch'[w]) : batch'[w][i].kind \notin Asks
    BY <1>6, NothingHas
  <2>2. QED
    BY <2>1, AsksNone
<1>15. Wanted'
  <2>1. PICK K : K = {}
    OBVIOUS
  <2>2. \A x \in Machines : \A id : ~(x = m /\ id \in K) /\ Told(x, id) => Told(x, id)'
    BY <1>13
  <2>3. inFlight' \subseteq inFlight /\ \A r \in inFlight' : ~(r[1] = m /\ r[2] \in K)
    BY <1>1, <2>1
  <2>4. QED
    BY <1>2, <1>3, <1>6, <1>14, <2>2, <2>3, WantedFrom DEF Javan
<1>16. QED
  BY <1>8, <1>10, <1>11, <1>12, <1>15 DEF Javan

-----------------------------------------------------------------------------
\* Where the elements of u, which is q and then t, are.
Joined(u, q, t) ==
  /\ Len(u) = Len(q) + Len(t) /\ Len(q) \in Nat /\ Len(t) \in Nat
  /\ \A i \in 1 .. Len(q) : i \in 1 .. Len(u) /\ u[i] = q[i]
  /\ \A i \in 1 .. Len(t) : Len(q) + i \in 1 .. Len(u) /\ u[Len(q) + i] = t[i]
  /\ \A i \in 1 .. Len(u) : i \notin 1 .. Len(q) =>
       i > Len(q) /\ i - Len(q) \in 1 .. Len(t) /\ u[i] = t[i - Len(q)]

LEMMA JoinIs ==
  ASSUME NEW S, NEW q \in Seq(S), NEW t \in Seq(S)
  PROVE  q \o t \in Seq(S) /\ Joined(q \o t, q, t)
<1> DEFINE u == q \o t
<1>1. u \in Seq(S) /\ Len(u) = Len(q) + Len(t) /\ Len(q) \in Nat /\ Len(t) \in Nat
  OBVIOUS
<1>2. \A i \in 1 .. Len(q) : u[i] = q[i]
  OBVIOUS
<1>3. \A i \in 1 .. Len(t) : u[Len(q) + i] = t[i]
  OBVIOUS
<1>4. \A i \in 1 .. Len(u) : i \notin 1 .. Len(q) => u[i] = t[i - Len(q)]
  OBVIOUS
<1> HIDE DEF u
<1>5. /\ \A i \in 1 .. Len(q) : i \in 1 .. Len(u)
      /\ \A i \in 1 .. Len(t) : Len(q) + i \in 1 .. Len(u)
      /\ \A i \in 1 .. Len(u) : i \notin 1 .. Len(q) => i > Len(q) /\ i - Len(q) \in 1 .. Len(t)
  BY <1>1
<1>6. Joined(u, q, t)
  BY <1>1, <1>2, <1>3, <1>4, <1>5 DEF Joined
<1>7. QED
  BY <1>1, <1>6 DEF u

\* A batch has the output's effects first, then its closed ids.
LEMMA FramesHave ==
  ASSUME NEW o \in Outs
  PROVE  /\ Len(o.effects) \in Nat
         /\ \A i \in 1 .. Len(Frames(o)) :
              \/ /\ i \in 1 .. Len(o.effects) /\ Frames(o)[i] = o.effects[i]
                 /\ Frames(o)[i].kind # "closed"
              \/ i > Len(o.effects) /\ Frames(o)[i].kind \in {"closed", "woke"}
         /\ \A k \in Range(o.closed) : \E i \in 1 .. Len(Frames(o)) :
              Frames(o)[i].kind = "closed" /\ Frames(o)[i].id = k
<1> DEFINE e == o.effects
           c == [i \in DOMAIN o.closed |-> Frame("closed", o.closed[i])]
           w == [i \in DOMAIN o.woke |-> Frame("woke", o.woke[i])]
           u == e \o c
           v == u \o w
<1>1. /\ DOMAIN o.closed = 1 .. Len(o.closed) /\ Len(o.closed) \in Nat
      /\ DOMAIN o.woke = 1 .. Len(o.woke) /\ Len(o.woke) \in Nat
      /\ \A i \in 1 .. Len(o.closed) : o.closed[i] \in Nat
      /\ \A i \in 1 .. Len(o.woke) : o.woke[i] \in Machines /\ o.woke[i] \in Nat
      /\ o.effects \in Seq(GoodEffect)
      /\ \A k \in Range(o.closed) : \E i \in 1 .. Len(o.closed) : o.closed[i] = k
  BY RangeIs, LanesAre DEF Outs
<1>2. "closed" \in Kinds /\ "woke" \in Kinds /\ "closed" \notin Wakes1
  BY DEF Kinds, Wakes1
<1>3. /\ c \in Seq(Framed) /\ Len(c) = Len(o.closed)
      /\ \A i \in 1 .. Len(c) : c[i].kind = "closed" /\ c[i].id = o.closed[i]
  <2>1. \A i \in 1 .. Len(o.closed) :
          /\ Frame("closed", o.closed[i]) \in Framed
          /\ Frame("closed", o.closed[i]).kind = "closed"
          /\ Frame("closed", o.closed[i]).id = o.closed[i]
    BY <1>1, <1>2, FrameIs
  <2>2. c \in Seq(Framed) /\ Len(c) = Len(o.closed)
    BY <1>1, <2>1, MappedIs
  <2>3. QED
    BY <1>1, <2>1, <2>2
<1>4. w \in Seq(Framed) /\ \A i \in 1 .. Len(w) : w[i].kind = "woke"
  <2>1. \A i \in 1 .. Len(o.woke) :
          Frame("woke", o.woke[i]) \in Framed /\ Frame("woke", o.woke[i]).kind = "woke"
    BY <1>1, <1>2, FrameIs
  <2>2. w \in Seq(Framed) /\ Len(w) = Len(o.woke)
    BY <1>1, <2>1, MappedIs
  <2>3. QED
    BY <1>1, <2>1, <2>2
<1>5. Frames(o) = v
  BY DEF Frames
<1>6. e \in Seq(Framed) /\ \A i \in 1 .. Len(e) : e[i].kind # "closed"
  <2>1. e \in Seq(GoodEffect) /\ GoodEffect \subseteq Framed
    BY <1>1, EffectsFramed
  <2>2. \A i \in 1 .. Len(e) : e[i] \in GoodEffect
    BY <2>1
  <2>3. \A x \in GoodEffect : x.kind # "closed"
    BY DEF GoodEffect, Effect
  <2>4. QED
    BY <2>1, <2>2, <2>3
<1> HIDE DEF e, c, w
<1>71. u \in Seq(Framed) /\ Joined(u, e, c)
  BY <1>3, <1>6, JoinIs
<1> HIDE DEF u
<1>81. Joined(v, u, w)
  BY <1>4, <1>71, JoinIs
<1> HIDE DEF v
<1>7. /\ u \in Seq(Framed) /\ Len(u) = Len(e) + Len(c) /\ Len(e) \in Nat /\ Len(c) \in Nat
      /\ \A i \in 1 .. Len(e) : u[i] = e[i]
      /\ \A i \in 1 .. Len(c) : Len(e) + i \in 1 .. Len(u) /\ u[Len(e) + i] = c[i]
      /\ \A i \in 1 .. Len(u) : i \notin 1 .. Len(e) =>
           i > Len(e) /\ i - Len(e) \in 1 .. Len(c) /\ u[i] = c[i - Len(e)]
  BY <1>71 DEF Joined
<1>8. /\ Len(v) = Len(u) + Len(w) /\ Len(u) \in Nat /\ Len(w) \in Nat
      /\ \A i \in 1 .. Len(u) : i \in 1 .. Len(v) /\ v[i] = u[i]
      /\ \A i \in 1 .. Len(v) : i \notin 1 .. Len(u) =>
           i > Len(u) /\ i - Len(u) \in 1 .. Len(w) /\ v[i] = w[i - Len(u)]
  BY <1>81 DEF Joined
<1>9. ASSUME NEW i \in 1 .. Len(v)
      PROVE  \/ i \in 1 .. Len(e) /\ v[i] = e[i] /\ v[i].kind # "closed"
             \/ i > Len(e) /\ v[i].kind \in {"closed", "woke"}
  <2>1. CASE i \in 1 .. Len(e)
    <3>1. i \in 1 .. Len(u)
      BY <1>7, <2>1
    <3>2. QED
      BY <1>6, <1>7, <1>8, <2>1, <3>1
  <2>2. CASE i \notin 1 .. Len(e) /\ i \in 1 .. Len(u)
    BY <1>3, <1>7, <1>8, <2>2
  <2>3. CASE i \notin 1 .. Len(u)
    <3>1. i > Len(u) /\ v[i].kind = "woke"
      BY <1>4, <1>8, <2>3
    <3>2. i > Len(e)
      BY <1>7, <1>8, <3>1
    <3>3. QED
      BY <3>1, <3>2
  <2>4. QED
    BY <2>1, <2>2, <2>3
<1>10. ASSUME NEW k \in Range(o.closed)
       PROVE  \E i \in 1 .. Len(v) : v[i].kind = "closed" /\ v[i].id = k
  <2>1. PICK i \in 1 .. Len(c) : c[i].kind = "closed" /\ c[i].id = k
    BY <1>1, <1>3
  <2>2. Len(e) + i \in 1 .. Len(v) /\ v[Len(e) + i] = c[i]
    BY <1>7, <1>8
  <2>3. QED
    BY <2>1, <2>2
<1>11. QED
  BY <1>5, <1>7, <1>9, <1>10 DEF e

\* What a batch bears is what the output bore, and it is asked in time.
LEMMA FramesBear ==
  ASSUME NEW o \in Outs
  PROVE  /\ \A c : Bears(Frames(o), c) => Bears(o.effects, c)
         /\ BearsOnce(o.effects) => BearsOnce(Frames(o))
         /\ \A K : (\A i \in 1 .. Len(o.effects) :
                      o.effects[i].kind \in Asks => o.effects[i].id \in K)
                     => AsksIn(Frames(o), K)
<1> DEFINE v == Frames(o)
           e == o.effects
<1>1. /\ Len(e) \in Nat
      /\ \A i \in 1 .. Len(v) : \/ i \in 1 .. Len(e) /\ v[i] = e[i] /\ v[i].kind # "closed"
                                \/ i > Len(e) /\ v[i].kind \in {"closed", "woke"}
  BY FramesHave
<1> HIDE DEF v, e
<1>2. \A i \in 1 .. Len(v) : v[i].kind \in Begets => i \in 1 .. Len(e) /\ v[i] = e[i]
  BY <1>1 DEF Begets
<1>3. \A i \in 1 .. Len(v) : v[i].kind \in Asks => i \in 1 .. Len(e) /\ v[i] = e[i]
  BY <1>1 DEF Asks
<1>4. \A i, j \in 1 .. Len(v) : i \in 1 .. Len(e) /\ v[j].kind = "closed" => i < j
  <2>1. \A j \in 1 .. Len(v) : v[j].kind = "closed" => j > Len(e)
    BY <1>1
  <2>2. \A i \in 1 .. Len(e), j \in 1 .. Len(v) : j > Len(e) => i < j
    BY <1>1
  <2>3. QED
    BY <2>1, <2>2
<1>5. \A c : Bears(v, c) => Bears(e, c)
  BY <1>2 DEF Bears
<1>6. BearsOnce(e) => BearsOnce(v)
  BY <1>2 DEF BearsOnce
<1>7. ASSUME NEW K, \A i \in 1 .. Len(e) : e[i].kind \in Asks => e[i].id \in K
      PROVE  AsksIn(v, K)
  BY <1>3, <1>4, <1>7 DEF AsksIn
<1>8. QED
  BY <1>5, <1>6, <1>7 DEF v, e

LEMMA TakesJavan ==
  ASSUME RoutinesOK, JavaOK, Placed, Javan, NEW w \in WorkerIds, TakesBatch(w)
  PROVE  Javan'
<1>1. /\ job[w].pc = "call" /\ Reads(job[w].m) /\ Goes(w, "dispatch")
      /\ batch' = [batch EXCEPT ![w] = Frames(out[job[w].m])]
      /\ UNCHANGED <<machines, pinned, home, line, running, tasks, inFlight>>
  BY DEF TakesBatch, At, known, places, asking
<1>2. InHand(w) /\ job[w].m \in Machines /\ batch[w] = << >>
  BY <1>1, NoFrames DEF JavaOK, JobsOK, InHand, Javan
<1>3. PICK m \in Machines, o \in Outs : m = job[w].m /\ o = out[m]
  BY <1>2 DEF RoutinesOK, OutOK
<1>4. m \in machines /\ life[m] \in Mid
  BY <1>1, <1>3 DEF Javan, Lived, LivedAt
<1>5. /\ job'[w].pc = "dispatch" /\ job'[w].m = m
      /\ \A x \in WorkerIds : x # w => job'[x] = job[x]
  BY <1>1, <1>2, <1>3, GoesOn DEF JavaOK, Pcs
<1>6. batch'[w] = Frames(o) /\ \A x \in WorkerIds : x # w => batch'[x] = batch[x]
  BY <1>1, <1>3 DEF JavaOK, BatchOK
<1>7. Others(w) /\ Left(w)' = Frames(o)
  BY <1>5, <1>6 DEF Others, Left, Entered
<1>8. /\ life'[m] \in {"waiting", "done"} /\ mail' = mail /\ out'[m] = Nothing
      /\ \A x \in Machines : x # m => life'[x] = life[x] /\ out'[x] = out[x]
  BY <1>1, <1>3 DEF Reads, RoutinesOK, LifeOK, OutOK
<1>9. Polls'
  <2>1. Calls1(m)
    BY <1>1, <1>3 DEF Calls1
  <2>2. QED
    BY <2>1, CallPolls DEF Javan
<1>10. Lived'
  <2>1. LivedAt(w)'
    BY <1>1, <1>4, <1>5, <1>8 DEF LivedAt, Holding
  <2>2. Holds(w, m)'
    BY <1>5 DEF Holds, Holding
  <2>3. QED
    BY <1>1, <1>2, <1>3, <1>4, <1>7, <1>8, <2>1, <2>2, LivedFrom DEF Javan
<1>11. Born'
  <2>1. /\ \A c \in Machines : Bears(Left(w)', c) => Bears(out[m].effects, c)
        /\ BearsOnce(Left(w)')
    BY <1>3, <1>7, FramesBear DEF Javan, Born
  <2>2. \A x \in WorkerIds : x # w => Left(x)' = Left(x)
    BY <1>7 DEF Others, Left
  <2>3. /\ \A c \in Machines : ~Bears(out'[m].effects, c)
        /\ BearsOnce(out'[m].effects)
        /\ \A x \in Machines : x # m => out'[x].effects = out[x].effects
    BY <1>8, NothingHas, BearsNone
  <2>4. \A c \in Machines : Claimed(c)' => Claimed(c)
    BY <1>1, <1>5, <1>7, ClaimsRest, ClaimedAre DEF Entered
  <2>5. Claimed(m)
    BY <1>4, ClaimedAre
  <2>6. \A c \in Machines : Unclaimed(c) => Unclaimed(c)'
    BY <1>8, <2>4, <2>5 DEF Unclaimed
  <2>7. \A c \in Machines : life'[c] = "none" => ~Claimed(c)'
    BY <1>8, <2>4 DEF Javan, Born
  <2>8. \A x \in Machines, c \in Machines : Bears(out'[x].effects, c) => Bears(out[x].effects, c)
    BY <2>3
  <2>9. \A x \in WorkerIds, c \in Machines :
          Bears(Left(x)', c) => Bears(Left(x), c) \/ (x = w /\ Bears(out[m].effects, c))
    BY <2>1, <2>2
  <2>10. \A x \in Machines : BearsOnce(out'[x].effects)
    BY <2>3 DEF Javan, Born
  <2>11. \A x \in WorkerIds : BearsOnce(Left(x)')
    BY <2>1, <2>2 DEF Javan, Born
  <2>12. \A x, y \in Machines, c \in Machines :
           Bears(out'[x].effects, c) /\ Bears(out'[y].effects, c) => x = y
    BY <2>8 DEF Javan, Born
  <2>13. \A x, y \in WorkerIds, c \in Machines : Bears(Left(x)', c) /\ Bears(Left(y)', c) => x = y
    BY <2>9 DEF Javan, Born
  <2>14. \A x \in Machines, y \in WorkerIds, c \in Machines :
           ~(Bears(out'[x].effects, c) /\ Bears(Left(y)', c))
    <3>1. \A x \in Machines, c \in Machines : Bears(out'[x].effects, c) => x # m
      BY <2>3
    <3>2. QED
      BY <2>8, <2>9, <3>1 DEF Javan, Born
  <2>15. /\ \A x \in Machines, c \in Machines : Bears(out'[x].effects, c) => Unclaimed(c)'
         /\ \A x \in WorkerIds, c \in Machines : Bears(Left(x)', c) => Unclaimed(c)'
    BY <2>6, <2>8, <2>9 DEF Javan, Born
  <2>16. QED
    BY <2>7, <2>10, <2>11, <2>12, <2>13, <2>14, <2>15 DEF Born
<1>12. Homes'
  BY <1>1, <1>2, <1>3, <1>5, <1>7, HomesStay DEF Javan
<1>13. ASSUME NEW x \in Machines, NEW id, Told(x, id) PROVE Told(x, id)'
  <2>1. CASE Opened(mail, x, id)
    BY <1>8, <2>1 DEF Told
  <2>2. CASE id \in Range(out[x].closed) /\ x = m
    <3>0. id \in Range(o.closed)
      BY <1>3, <2>2
    <3>1. \E i \in 1 .. Len(Frames(o)) : Frames(o)[i].kind = "closed" /\ Frames(o)[i].id = id
      BY <3>0, FramesHave
    <3>2. \E i \in 1 .. Len(batch'[w]) : batch'[w][i].kind = "closed" /\ batch'[w][i].id = id
      BY <1>6, <3>1
    <3>3. QED
      BY <1>5, <2>2, <3>2 DEF Told, ClosedLeft
  <2>3. CASE id \in Range(out[x].closed) /\ x # m
    BY <1>8, <2>3 DEF Told, ClosedLeft
  <2>4. CASE ~(Opened(mail, x, id) \/ id \in Range(out[x].closed))
    <3>1. PICK y \in WorkerIds : job[y].m = x /\
            \E i \in 1 .. Len(batch[y]) : batch[y][i].kind = "closed" /\ batch[y][i].id = id
      BY <1>13, <2>4 DEF Told, ClosedLeft
    <3>2. y # w
      BY <1>2, <3>1, NothingHas
    <3>3. QED
      BY <1>7, <3>1, <3>2 DEF Others, Told, ClosedLeft
  <2>5. QED
    BY <2>1, <2>2, <2>3, <2>4
<1>14. AsksIn(batch[w], ToldOf(job[w].m))'
  <2>1. \A i \in 1 .. Len(o.effects) :
          o.effects[i].kind \in Asks => o.effects[i].id \in ToldOf(m)'
    <3>1. \A i \in 1 .. Len(o.effects) : o.effects[i].id \in Nat
      BY DEF Outs, GoodEffect, Effect
    <3>2. \A i \in 1 .. Len(o.effects) : o.effects[i].kind \in Asks => Told(m, o.effects[i].id)
      BY <1>3 DEF Javan, Polls, AskedOut, AskShown, Told, ClosedLeft
    <3>3. \A id : Told(m, id) => Told(m, id)'
      BY <1>13
    <3>4. \A id : Told(m, id) /\ id \in Nat => id \in ToldOf(m)'
      BY <3>3 DEF ToldOf
    <3>5. QED
      BY <3>1, <3>2, <3>4
  <2>2. AsksIn(Frames(o), ToldOf(m)')
    BY <2>1, FramesBear
  <2>3. QED
    BY <1>5, <1>6, <2>2
<1>15. Wanted'
  <2>1. PICK K : K = {}
    OBVIOUS
  <2>2. \A x \in Machines : \A id : ~(x = m /\ id \in K) /\ Told(x, id) => Told(x, id)'
    BY <1>13
  <2>3. inFlight' \subseteq inFlight /\ \A r \in inFlight' : ~(r[1] = m /\ r[2] \in K)
    BY <1>1, <2>1
  <2>4. QED
    BY <1>2, <1>3, <1>7, <1>14, <2>2, <2>3, WantedFrom DEF Javan
<1>16. QED
  BY <1>9, <1>10, <1>11, <1>12, <1>15 DEF Javan

-----------------------------------------------------------------------------
\* A poll bears at most one child, which nobody has heard of.
LEMMA PollBorn ==
  ASSUME RoutinesOK, Born, NEW m \in Machines, Progress(m), PollStep(m), ~Unclaimed(m),
         \A c \in Machines : Claimed(c)' => Claimed(c),
         \A w \in WorkerIds : Left(w)' = Left(w)
  PROVE  Born'
<1> DEFINE s == out[m].effects
           t == out'[m].effects
<1>1. PICK L \in Nat :
        /\ \A i \in 1 .. Len(t) : i <= L => i \in 1 .. Len(s) /\ t[i] = s[i]
        /\ \A i \in 1 .. Len(t) : i > L /\ t[i].kind \in Begets =>
             life[t[i].id] = "none" /\ life'[t[i].id] = "new" /\ i = Len(t)
  <2>1. PICK a : Added(m, a)
    BY PollAdds
  <2>2. /\ Len(s) \in Nat
        /\ \A i \in 1 .. Len(t) : i <= Len(s) => i \in 1 .. Len(s) /\ t[i] = s[i]
    BY <2>1, AddedKeeps
  <2>3. \A i \in 1 .. Len(t) : i > Len(s) /\ t[i].kind \in Begets =>
          life[t[i].id] = "none" /\ life'[t[i].id] = "new" /\ i = Len(t)
    BY DEF Progress, NewBirths
  <2>4. QED
    BY <2>2, <2>3
<1>2. \A x \in Machines : x # m => out'[x].effects = out[x].effects
  BY DEF Progress, PollsAlone
<1>3. \A c \in Machines : life'[c] = life[c] \/ (life[c] = "none" /\ life'[c] = "new") \/ c = m
  BY DEF Progress, PollsOn
<1>4. BearsOnce(s) /\ \A c \in Machines : Bears(s, c) => Unclaimed(c)
  BY DEF Born
<1>5. life[m] = "polling" /\ life'[m] \in Mid
  BY DEF Progress, PollsOn
<1> HIDE DEF s, t
<1>6. \A i \in 1 .. Len(t) : i <= L \/ i > L
  BY <1>1
<1>7. \A c \in Machines : Bears(t, c) => Bears(s, c) \/ (life[c] = "none" /\ life'[c] = "new")
  BY <1>1, <1>6 DEF Bears
<1>8. BearsOnce(t)
  <2>1. SUFFICES ASSUME NEW i \in 1 .. Len(t), NEW j \in 1 .. Len(t),
                        t[i].kind \in Begets, t[j].kind \in Begets, t[i].id = t[j].id
                 PROVE  i = j
    BY DEF BearsOnce
  <2>2. CASE i <= L /\ j <= L
    BY <1>1, <1>4, <2>1, <2>2 DEF BearsOnce
  <2>3. CASE i > L /\ j > L
    BY <1>1, <2>1, <2>3
  <2>4. ASSUME NEW k \in 1 .. Len(t), NEW l \in 1 .. Len(t), k <= L, l > L,
               t[k].kind \in Begets, t[l].kind \in Begets, t[k].id = t[l].id
        PROVE  FALSE
    <3>1. Bears(s, t[k].id)
      BY <1>1, <2>4 DEF Bears
    <3>2. life[t[k].id] = "none"
      BY <1>1, <2>4
    <3>3. t[k].id \in Machines
      <4>1. life[t[k].id] = "none" /\ Bears(s, t[k].id)
        BY <3>1, <3>2
      <4>2. PICK q \in 1 .. Len(s) : s[q].kind \in Begets /\ s[q].id = t[k].id
        BY <3>1 DEF Bears
      <4>3. s \in Seq(GoodEffect)
        BY DEF s, RoutinesOK, OutOK, Outs
      <4>4. s[q] \in GoodEffect
        BY <4>2, <4>3
      <4>5. QED
        BY <4>2, <4>4 DEF GoodEffect, Begets
    <3>4. life[t[k].id] = "new"
      BY <1>4, <3>1, <3>3 DEF Unclaimed
    <3>5. QED
      BY <3>2, <3>4
  <2>5. QED
    BY <1>6, <2>1, <2>2, <2>3, <2>4
<1>9. \A c \in Machines : Unclaimed(c) => Unclaimed(c)'
  BY <1>3 DEF Unclaimed
<1>10. \A c \in Machines : life[c] = "none" => ~Claimed(c)'
  BY DEF Born
<1>11. \A c \in Machines : life'[c] = "none" => life[c] = "none"
  BY <1>3, <1>5 DEF Mid
<1>12. \A c \in Machines : life[c] = "none" /\ life'[c] = "new" => Unclaimed(c)'
  BY <1>10 DEF Unclaimed
<1>13. \A x \in Machines, c \in Machines : Bears(out'[x].effects, c) =>
         Bears(out[x].effects, c) \/ (x = m /\ life[c] = "none" /\ life'[c] = "new")
  BY <1>2, <1>7 DEF s, t
<1>14. \A x \in Machines, c \in Machines : Bears(out[x].effects, c) => life[c] = "new"
  BY DEF Born, Unclaimed
<1>15. \A x \in WorkerIds, c \in Machines :
         Bears(Left(x)', c) => Bears(Left(x), c) /\ life[c] = "new"
  BY DEF Born, Unclaimed
<1>16. \A x \in Machines : BearsOnce(out'[x].effects)
  BY <1>2, <1>8 DEF Born, t
<1>17. \A x \in WorkerIds : BearsOnce(Left(x)')
  BY DEF Born
<1>18. \A x, y \in Machines, c \in Machines :
         Bears(out'[x].effects, c) /\ Bears(out'[y].effects, c) => x = y
  BY <1>13, <1>14 DEF Born
<1>19. \A x, y \in WorkerIds, c \in Machines : Bears(Left(x)', c) /\ Bears(Left(y)', c) => x = y
  BY DEF Born
<1>20. \A x \in Machines, y \in WorkerIds, c \in Machines :
         ~(Bears(out'[x].effects, c) /\ Bears(Left(y)', c))
  BY <1>13, <1>15 DEF Born
<1>21. /\ \A x \in Machines, c \in Machines : Bears(out'[x].effects, c) => Unclaimed(c)'
       /\ \A x \in WorkerIds, c \in Machines : Bears(Left(x)', c) => Unclaimed(c)'
       /\ \A c \in Machines : life'[c] = "none" => ~Claimed(c)'
  BY <1>9, <1>10, <1>11, <1>12, <1>13 DEF Born
<1>22. QED
  BY <1>16, <1>17, <1>18, <1>19, <1>20, <1>21 DEF Born

LEMMA PollJavan ==
  ASSUME RoutinesOK, JavaOK, Placed, Javan, NEW w \in WorkerIds, Poll(w)
  PROVE  Javan' /\ refused' = refused
<1>1. /\ job[w].pc = "call" /\ PollStep(job[w].m) /\ refused' = refused
      /\ UNCHANGED <<machines, pinned, home, line, running, tasks, inFlight, job, batch>>
  BY DEF Poll, At, java, known, places, asking, outcome
<1>2. InHand(w) /\ job[w].m \in Machines /\ batch[w] = << >>
  BY <1>1, NoFrames DEF JavaOK, JobsOK, InHand, Javan
<1>3. PICK m \in Machines : m = job[w].m
  BY <1>2
<1>4. m \in machines
  BY <1>1, <1>3 DEF Javan, Lived, LivedAt
<1>5. Polls' /\ Progress(m) /\ PollStep(m)
  BY <1>1, <1>3, PollPolls DEF Javan
<1>6. Others(w)
  BY <1>1 DEF Others
<1>7. life'[m] \in Mid /\ life[m] = "polling"
  BY <1>5 DEF Progress, PollsOn
<1>8. Lived'
  <2>1. LivedAt(w)'
    BY <1>1, <1>2, <1>3, <1>4, <1>7 DEF LivedAt, Holding
  <2>2. Holds(w, m)'
    BY <1>1, <1>3 DEF Holds
  <2>3. \A x \in Machines : x # m =>
          life'[x] = life[x] \/ (life[x] = "none" /\ life'[x] = "new")
    BY <1>5 DEF Progress, PollsOn
  <2>4. QED
    BY <1>1, <1>2, <1>3, <1>4, <1>6, <2>1, <2>2, <2>3, LivedFrom DEF Javan
<1>9. Born'
  <2>1. \A x \in WorkerIds : Left(x)' = Left(x)
    BY <1>1 DEF Left
  <2>2. \A c \in Machines : Claimed(c)' => Claimed(c)
    BY <1>1 DEF Claimed
  <2>3. ~Unclaimed(m)
    BY <1>7 DEF Unclaimed
  <2>4. QED
    BY <1>5, <2>1, <2>2, <2>3, PollBorn DEF Javan
<1>10. Homes'
  BY <1>1, HomesAre DEF Javan
<1>11. ASSUME NEW x \in Machines, NEW id, Told(x, id) PROVE Told(x, id)'
  <2>1. CASE x # m
    <3>1. out'[x] = out[x] /\ mail'[x] = mail[x]
      BY <1>5, <2>1 DEF Progress, PollsAlone
    <3>2. QED
      BY <1>1, <1>11, <3>1 DEF Told, Opened, ClosedLeft
  <2>2. CASE x = m
    <3>1. /\ Opened(mail, m, id) => Opened(mail', m, id) \/ id \in Range(out'[m].closed)
          /\ id \in Range(out[m].closed) => id \in Range(out'[m].closed)
      BY <1>5 DEF Progress, KeepsOpen, Opened, Open
    <3>2. QED
      BY <1>1, <1>11, <2>2, <3>1 DEF Told, ClosedLeft
  <2>3. QED
    BY <2>1, <2>2
<1>12. AsksIn(batch[w], ToldOf(job[w].m))'
  <2>1. \A i \in 1 .. Len(batch'[w]) : batch'[w][i].kind \notin Asks
    BY <1>1, <1>2, NothingHas
  <2>2. QED
    BY <2>1, AsksNone
<1>13. Wanted'
  <2>1. PICK K : K = {}
    OBVIOUS
  <2>2. \A x \in Machines : \A id : ~(x = m /\ id \in K) /\ Told(x, id) => Told(x, id)'
    BY <1>11
  <2>3. inFlight' \subseteq inFlight /\ \A r \in inFlight' : ~(r[1] = m /\ r[2] \in K)
    BY <1>1, <2>1
  <2>4. QED
    BY <1>2, <1>3, <1>6, <1>12, <2>2, <2>3, WantedFrom DEF Javan
<1>14. QED
  BY <1>1, <1>5, <1>8, <1>9, <1>10, <1>13 DEF Javan

-----------------------------------------------------------------------------
(* Every step of Java's scheduler, and its first state                       *)

LEMMA WorkJavan ==
  ASSUME RoutinesOK, JavaOK, Placed, Javan, NEW w \in WorkerIds, Work(w)
  PROVE  Javan' /\ refused' = refused
<1>1. CASE Take(w) \/ Drain(w) \/ WriteOut(w) \/ AskTask(w) \/ Dispatch(w) \/ Settle(w)
  <2>1. refused' = refused
    BY <1>1 DEF Take, Drain, WriteOut, AskTask, Dispatch, Settle, outcome
  <2>2. QED
    BY <1>1, <2>1, TakeJavan, DrainJavan, WriteOutJavan, AskTaskJavan, DispatchJavan, SettleJavan
<1>2. CASE \/ TakesBatch(w) \/ CountResume(w) \/ QueueResume(w) \/ Cancel(w)
           \/ QueueSpurious(w) \/ End(w)
  <2>1. refused' = refused
    BY <1>2 DEF TakesBatch, CountResume, QueueResume, Cancel, QueueSpurious, End, outcome
  <2>2. QED
    BY <1>2, <2>1, TakesJavan, CountResumeJavan, QueueResumeJavan, CancelJavan,
       QueueSpuriousJavan, EndJavan
<1>3. QED
  BY <1>1, <1>2, HandleJavan, PollJavan DEF Work

LEMMA JavaKept ==
  ASSUME RoutinesOK, JavaOK, Placed, Javan, JavaNext
  PROVE  Javan' /\ refused' = refused
<1>1. CASE Quiet
  BY <1>1, DecideJavan DEF Quiet, Decide
<1>2. CASE Tasks
  <2>1. PICK r \in DOMAIN tasks : Task(r)
    BY <1>2 DEF Tasks
  <2>2. refused' = refused
    BY <2>1 DEF Task, PerformTask, CountReply, QueueReply, outcome
  <2>3. QED
    BY <2>1, <2>2, TaskJavan
<1>3. QED
  BY <1>1, <1>2, WorkJavan DEF JavaNext, Works

LEMMA JavanStart ==
  ASSUME JavaInit
  PROVE  Javan
<1>1. /\ RoutinesInit /\ JavaRest /\ machines = {Root} /\ running = {Root}
  BY DEF JavaInit, LoopInit
<1>2. /\ \A w \in WorkerIds : job[w].pc = "idle" /\ batch[w] = << >>
      /\ pinned = {} /\ DOMAIN tasks = {} /\ inFlight = {}
  BY <1>1 DEF JavaRest, Idle
<1>3. /\ life[Root] = "new" /\ \A m \in Machines : out[m] = Nothing
      /\ \A m \in Machines \ {Root} : life[m] \in {"none", "new", "dropped"}
  BY <1>1, MachinesFinite DEF RoutinesInit
<1>4. Polls
  BY <1>1, PollsStart
<1>5. Lived
  BY <1>1, <1>2, <1>3 DEF Lived, LivedAt, Holding, Pollable
<1>6. \A w \in WorkerIds : Left(w) = << >>
  BY <1>2 DEF Left, Entered
<1>7. Born
  <2>1. \A c \in Machines : Claimed(c) => c = Root
    BY <1>1, <1>2 DEF Claimed, Entered
  <2>2. \A m \in Machines : out[m].effects = << >>
    BY <1>3, NothingHas
  <2>3. QED
    BY <1>3, <1>6, <2>1, <2>2, BearsNone DEF Born
<1>8. Homes
  BY <1>2 DEF Homes
<1>9. Wanted
  <2>1. \A w \in WorkerIds : \A K : AsksIn(batch[w], K)
    BY <1>2, NothingHas DEF AsksIn
  <2>2. QED
    BY <1>2, <2>1 DEF Wanted
<1>10. QED
  BY <1>4, <1>5, <1>7, <1>8, <1>9 DEF Javan

-----------------------------------------------------------------------------
(* Nobody is refused, whichever host runs the machines                       *)

Unrefused ==
  /\ Scheduled
  /\ host \in {"plain", "seeded"} => Pythonic
  /\ host = "java" => Javan
  /\ ~refused

LEMMA UnrefusedStart ==
  ASSUME Init
  PROVE  Unrefused
<1>1. ~refused
  BY DEF Init, JavaInit, DriveInit, PythonInit, NativeInit, LoopInit
<1>2. host \in {"plain", "seeded"} => PythonInit
  BY DEF Init, JavaInit, DriveInit, NativeInit
<1>3. host = "java" => JavaInit
  BY DEF Init, DriveInit, PythonInit, NativeInit
<1>4. QED
  BY <1>1, <1>2, <1>3, ScheduledStart, PythonStart, JavanStart DEF Unrefused

\* The test host has no call refused, and neither have the native ones.
LEMMA OthersAccepted ==
  ASSUME [Next]_vars
  PROVE  /\ host \notin {"plain", "seeded", "java"} => refused' = refused
         /\ host \in {"plain", "seeded"} =>
              Polling \/ PythonNext \/ UNCHANGED vars
<1>1. CASE Polling
  BY <1>1 DEF Polling, loop
<1>2. CASE DriveNext
  BY <1>2 DEF DriveNext, Kill, Stutter, Yields, Handle, Call, Fire, Judge, Driving
<1>3. CASE PythonNext
  <2>1. host \in {"plain", "seeded"}
    BY <1>3 DEF PythonNext, Ran, SeededStutter, Skip, Note, Perform, Resume, Answer,
                FireTimer, Conclude, Serving
  <2>2. QED
    BY <1>3, <2>1
<1>4. CASE NativeNext
  BY <1>4 DEF NativeNext, BeginPoll, TokioStep, AnswerNow, JsStep, EndPoll, WaitEnds,
              PromiseSettles, DispatchRequests, TokioEnds, JsEnds, On, Loops
<1>5. CASE Parallel
  BY <1>5 DEF Parallel, JavaNext, Works, Tasks, Quiet
<1>6. CASE UNCHANGED vars
  BY <1>6 DEF vars, loop
<1>7. QED
  BY <1>1, <1>2, <1>3, <1>4, <1>5, <1>6 DEF Next, Single, Native

LEMMA UnrefusedStep ==
  ASSUME Unrefused, [Next]_vars
  PROVE  Unrefused'
<1>1. /\ Scheduled' /\ host' = host /\ RoutinesOK /\ LoopOK /\ JavaOK /\ Placed
  BY ScheduledStep, HostStays DEF Unrefused, Scheduled, AllOK, TypesOK
<1>2. CASE host \in {"plain", "seeded"}
  <2>1. Pythonic' /\ refused' = refused
    <3>1. CASE Polling \/ PythonNext
      BY <1>1, <1>2, <3>1, PythonKept DEF Unrefused
    <3>2. CASE UNCHANGED vars
      <4>1. UNCHANGED routines /\ UNCHANGED <<queue, timers, closed>> /\ refused' = refused
        BY <3>2 DEF vars, loop
      <4>2. Polls'
        <5>1. PICK m : m \in Machines
          BY MachinesFinite
        <5>2. QED
          BY <1>1, <1>2, <4>1, <5>1, CallPolls DEF Calls1, Unrefused, Pythonic
      <4>3. Queued' /\ Kept1'
        <5>1. /\ life' = life /\ out' = out /\ minted' = minted /\ mail' = mail
              /\ closed' = closed /\ queue' = queue /\ timers' = timers
          BY <4>1 DEF routines
        <5>2. Queued /\ Kept1
          BY <1>2 DEF Unrefused, Pythonic
        <5>3. \A r : KeptFor(r) => KeptFor(r)'
          BY <5>1 DEF KeptFor
        <5>4. Queued'
          BY <5>1, <5>2 DEF Queued
        <5>5. Kept1'
          BY <5>1, <5>2, <5>3 DEF Kept1
        <5>6. QED
          BY <5>4, <5>5
      <4>4. QED
        BY <4>1, <4>2, <4>3 DEF Pythonic
    <3>3. QED
      BY <1>2, <3>1, <3>2, OthersAccepted
  <2>2. QED
    BY <1>1, <1>2, <2>1 DEF Unrefused
<1>3. CASE host = "java"
  <2>1. Javan' /\ refused' = refused
    <3>1. CASE Parallel
      BY <1>1, <1>3, <3>1, JavaKept DEF Unrefused, Parallel
    <3>2. CASE UNCHANGED vars
      BY <1>1, <1>3, <3>2, DecideJavan DEF Unrefused, vars, loop
    <3>3. QED
      BY <1>3, <3>1, <3>2, HostStays
  <2>2. QED
    BY <1>1, <1>3, <2>1 DEF Unrefused
<1>4. CASE host \notin {"plain", "seeded", "java"}
  BY <1>1, <1>4, OthersAccepted DEF Unrefused
<1>5. QED
  BY <1>2, <1>3, <1>4

\* Every call a host makes the machines accept: the machine is not being
\* polled and not complete, is called on its own worker if it is pinned, and
\* awaits the request that is answered, whatever was closed, woken or resumed
\* twice on the way.
THEOREM NobodyIsRefused == Spec => []NeverRefused
<1>1. Init => Unrefused
  BY UnrefusedStart
<1>2. Unrefused /\ [Next]_vars => Unrefused'
  BY UnrefusedStep
<1>3. Unrefused => NeverRefused
  BY DEF Unrefused, NeverRefused
<1>4. QED
  BY <1>1, <1>2, <1>3, PTL DEF Spec
=============================================================================
