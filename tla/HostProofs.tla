----------------------------- MODULE HostProofs -----------------------------
(***************************************************************************)
(* Proofs about the hosts: every variable of every host keeps its type.    *)
(* AllOK is the inductive form of TypeOK of MCHostLoop; it says more of    *)
(* what is queued, sent and answered than the types do, so that each step  *)
(* has what it reads.  SchedulerProofs states the theorem.                 *)
(***************************************************************************)
EXTENDS MCHostLoop, SequenceTheorems, FiniteSetTheorems, WellFoundedInduction, TLAPS

-----------------------------------------------------------------------------
(* Induction over sets of numbers, and functions defined by recursion       *)

LEMMA LeastExists ==
  ASSUME NEW T, T \subseteq Nat, T # {}
  PROVE  \E x \in T : \A y \in T : ~(y < x)
<1>1. \E x \in T : \A y \in T : ~(<<y, x>> \in OpToRel(<, Nat))
  BY NatLessThanWellFounded, WFMin, Zenon
<1>2. \A x, y \in Nat : y < x => <<y, x>> \in OpToRel(<, Nat)
  BY Zenon DEF OpToRel
<1>3. QED
  BY <1>1, <1>2

\* A set closed under successor up to n holds every number up to n.
LEMMA Upwards ==
  ASSUME NEW n \in Nat, NEW W, 0 \in W,
         \A i \in 1 .. n : i - 1 \in W => i \in W
  PROVE  \A i \in 0 .. n : i \in W
<1> DEFINE T == {i \in 0 .. n : i \notin W}
<1> SUFFICES ASSUME T # {} PROVE FALSE
  OBVIOUS
<1>1. PICK x \in T : \A y \in T : ~(y < x)
  <2>1. T \subseteq Nat
    OBVIOUS
  <2> HIDE DEF T
  <2>2. QED
    BY <2>1, LeastExists
<1>2. x \in 1 .. n /\ x - 1 \in 0 .. n
  BY <1>1
<1>3. x - 1 \in W
  BY <1>1, <1>2
<1>4. QED
  BY <1>1, <1>2, <1>3

\* g holds the values b, h applied to 1 and b, and so on up to n.
Iterates(g, V, b, n, h) ==
  /\ g \in [0 .. n -> V]
  /\ g[0] = b
  /\ \A i \in 1 .. n : g[i] = h[<<i, g[i - 1]>>]

LEMMA IterateExists ==
  ASSUME NEW V, NEW b \in V, NEW n \in Nat, NEW h \in [(1 .. n) \X V -> V]
  PROVE  \E g : Iterates(g, V, b, n, h)
<1> DEFINE Up(k, g) == /\ g \in [0 .. k -> V] /\ g[0] = b
                       /\ \A i \in 1 .. k : g[i] = h[<<i, g[i - 1]>>]
           W == {k \in Nat : \E g \in [0 .. k -> V] : Up(k, g)}
<1>1. 0 \in W
  <2>1. [i \in 0 .. 0 |-> b] \in [0 .. 0 -> V] /\ Up(0, [i \in 0 .. 0 |-> b])
    OBVIOUS
  <2>2. QED
    BY <2>1
<1>2. ASSUME NEW k \in 1 .. n, k - 1 \in W
      PROVE  k \in W
  <2>1. PICK g \in [0 .. k - 1 -> V] : Up(k - 1, g)
    BY <1>2
  <2> DEFINE f == [i \in 0 .. k |-> IF i = k THEN h[<<k, g[k - 1]>>] ELSE g[i]]
  <2>2. g[k - 1] \in V /\ h[<<k, g[k - 1]>>] \in V
    <3>1. k - 1 \in 0 .. k - 1
      OBVIOUS
    <3>2. g[k - 1] \in V
      BY <3>1
    <3>3. <<k, g[k - 1]>> \in (1 .. n) \X V
      BY <3>2
    <3>4. QED
      BY <3>2, <3>3
  <2>3. f \in [0 .. k -> V]
    <3>1. \A i \in 0 .. k : i # k => i \in 0 .. k - 1
      OBVIOUS
    <3>2. QED
      BY <2>2, <3>1
  <2>4. \A i \in 0 .. k - 1 : f[i] = g[i]
    OBVIOUS
  <2>5. f[k] = h[<<k, g[k - 1]>>]
    OBVIOUS
  <2> HIDE DEF f
  <2>6. Up(k, f)
    <3>1. f[0] = b
      BY <2>1, <2>4
    <3>2. \A i \in 1 .. k : f[i] = h[<<i, f[i - 1]>>]
      <4> TAKE i \in 1 .. k
      <4>1. CASE i = k
        BY <4>1, <2>4, <2>5
      <4>2. CASE i # k
        <5>1. i \in 1 .. k - 1 /\ i \in 0 .. k - 1 /\ i - 1 \in 0 .. k - 1
          BY <4>2
        <5>2. f[i] = g[i] /\ f[i - 1] = g[i - 1]
          BY <5>1, <2>4
        <5>3. g[i] = h[<<i, g[i - 1]>>]
          BY <5>1, <2>1
        <5>4. QED
          BY <5>2, <5>3
      <4>3. QED
        BY <4>1, <4>2
    <3>3. QED
      BY <3>1, <3>2, <2>3
  <2>7. QED
    BY <2>3, <2>6
<1> HIDE DEF W
<1>3. n \in W
  BY <1>1, <1>2, Upwards
<1>4. QED
  BY <1>3 DEF W, Iterates

LEMMA FlattenIs ==
  ASSUME NEW S, NEW seqs \in Seq(Seq(S))
  PROVE  FlattenSeq(seqs) \in Seq(S)
<1> DEFINE n == Len(seqs)
<1>0. n \in Nat /\ \A i \in 1 .. n : seqs[i] \in Seq(S)
  OBVIOUS
<1>1. CASE n = 0
  BY <1>1 DEF FlattenSeq
<1>2. CASE n # 0
  <2> DEFINE Flat(g) ==
        g = [i \in 1 .. n |-> IF i = 1 THEN seqs[i] ELSE g[i - 1] \o seqs[i]]
      h == [p \in (1 .. n) \X Seq(S) |->
              IF p[1] = 1 THEN seqs[1] ELSE p[2] \o seqs[p[1]]]
  <2>1. \A i \in 1 .. n, s \in Seq(S) :
          h[<<i, s>>] = (IF i = 1 THEN seqs[1] ELSE s \o seqs[i])
    OBVIOUS
  <2>2. h \in [(1 .. n) \X Seq(S) -> Seq(S)]
    <3>1. ASSUME NEW p \in (1 .. n) \X Seq(S)
          PROVE  (IF p[1] = 1 THEN seqs[1] ELSE p[2] \o seqs[p[1]]) \in Seq(S)
      <4>1. p[1] \in 1 .. n /\ p[2] \in Seq(S) /\ 1 \in 1 .. n
        BY <1>0, <1>2
      <4>2. seqs[p[1]] \in Seq(S) /\ seqs[1] \in Seq(S)
        BY <4>1, <1>0
      <4>3. p[2] \o seqs[p[1]] \in Seq(S)
        BY <4>1, <4>2, ConcatProperties
      <4>4. QED
        BY <4>2, <4>3
    <3>2. QED
      BY <3>1
  <2> HIDE DEF h, n
  <2>3. PICK g : Iterates(g, Seq(S), << >>, n, h)
    <3>1. << >> \in Seq(S)
      OBVIOUS
    <3>2. n \in Nat
      BY <1>0
    <3>3. QED
      BY <2>2, <3>1, <3>2, IterateExists
  <2>a. /\ g \in [0 .. n -> Seq(S)]
        /\ \A i \in 1 .. n : g[i] = h[<<i, g[i - 1]>>]
    BY <2>3 DEF Iterates
  <2>4. \E f : Flat(f)
    <3> DEFINE f == [i \in 1 .. n |-> g[i]]
    <3>1. ASSUME NEW i \in 1 .. n
          PROVE  g[i] = IF i = 1 THEN seqs[i] ELSE f[i - 1] \o seqs[i]
      <4>1. i - 1 \in 0 .. n /\ g[i - 1] \in Seq(S)
        BY <1>0, <2>a
      <4>2. g[i] = IF i = 1 THEN seqs[1] ELSE g[i - 1] \o seqs[i]
        BY <4>1, <2>1, <2>a
      <4>3. i # 1 => i - 1 \in 1 .. n
        BY <1>0
      <4>4. i # 1 => f[i - 1] = g[i - 1]
        BY <4>3
      <4>5. QED
        BY <4>2, <4>4
    <3>2. Flat(f)
      BY <3>1
    <3>3. QED
      BY <3>2
  <2> DEFINE F == CHOOSE f : Flat(f)
  <2>5. Flat(F)
    BY <2>4
  <2>6. FlattenSeq(seqs) = F[n]
    BY <1>2, Zenon DEF FlattenSeq, n
  <2> HIDE DEF F
  <2>7. \A i \in 1 .. n : F[i] = IF i = 1 THEN seqs[i] ELSE F[i - 1] \o seqs[i]
    BY <2>5
  <2> DEFINE W == {i \in 0 .. n : i = 0 \/ F[i] \in Seq(S)}
  <2>8. \A i \in 1 .. n : i - 1 \in W => i \in W
    <3> TAKE i \in 1 .. n
    <3> HAVE i - 1 \in W
    <3>0. i \in 0 .. n /\ seqs[i] \in Seq(S)
      BY <1>0
    <3>1. CASE i = 1
      <4>1. F[i] = seqs[i]
        BY <3>1, <2>7
      <4>2. QED
        BY <4>1, <3>0
    <3>2. CASE i # 1
      <4>1. F[i - 1] \in Seq(S) /\ seqs[i] \in Seq(S)
        BY <3>2, <1>0
      <4>2. F[i - 1] \o seqs[i] \in Seq(S)
        BY <4>1, ConcatProperties
      <4>3. F[i] = F[i - 1] \o seqs[i]
        BY <3>2, <2>7
      <4>4. QED
        BY <4>2, <4>3, <3>0
    <3>3. QED
      BY <3>1, <3>2
  <2>9. 0 \in W
    BY <1>0
  <2>10. n \in W
    <3> HIDE DEF W
    <3>1. \A i \in 0 .. n : i \in W
      BY <1>0, <2>8, <2>9, Upwards
    <3>2. QED
      BY <3>1, <1>0
  <2>11. QED
    BY <2>10, <2>6, <1>2 DEF n
<1>3. QED
  BY <1>1, <1>2

LEMMA SetToSeqIs ==
  ASSUME NEW S, IsFiniteSet(S)
  PROVE  /\ SetToSeq(S) \in Seq(S)
         /\ \A x \in S : \E i \in DOMAIN SetToSeq(S) : SetToSeq(S)[i] = x
<1> DEFINE n == Cardinality(S)
<1>1. n \in Nat /\ \E f \in Bijection(1 .. n, S) : TRUE
  BY FS_CardinalityType DEF ExistsBijection
<1>2. \E f \in [1 .. n -> S] : IsInjective(f)
  BY <1>1 DEF Bijection, Injection, IsInjective
<1>3. SetToSeq(S) \in [1 .. n -> S] /\ IsInjective(SetToSeq(S))
  BY <1>2 DEF SetToSeq
<1>4. SetToSeq(S) \in Seq(S)
  BY <1>1, <1>3
<1>5. SetToSeq(S) \in Injection(1 .. n, S)
  BY <1>3 DEF Injection, IsInjective
<1>6. SetToSeq(S) \in Surjection(1 .. n, S)
  <2>1. Cardinality(1 .. n) = n
    BY <1>1, FS_Interval
  <2> HIDE DEF n
  <2>2. Cardinality(1 .. n) = Cardinality(S)
    BY <2>1 DEF n
  <2>3. QED
    BY <1>5, <2>2, FS_Injection
<1>7. QED
  BY <1>4, <1>6 DEF Surjection

-----------------------------------------------------------------------------
(* The routines' instructions                                               *)

EndsOf(d) == {Tx(c) : c \in Made[d]} \cup {Rx(c) : c \in Made[d]}

\* The routines a run of d may start.
Kin(d) ==
  CASE d = "ping_pong" -> {<<"ping_pong", 0>>, <<"ponger", 0>>}
    [] d = "ring" -> {<<"ring", 0>>} \cup {<<"node", i>> : i \in 2 .. Size}
    [] d = "deadline" -> {<<"deadline", 0>>} \cup {<<"worker", i>> : i \in 1 .. 2}
    [] d = "deadlock" -> {<<"deadlock", 0>>, <<"first", 0>>}
    [] d = "front_desk" ->
         {<<"front_desk", 0>>} \cup {<<"clerk", k>> : k \in 1 .. Lines}
    [] OTHER -> {<<d, 0>>}

Ops == {"write", "show", "spawned", "spawned_pinned", "send", "forward",
        "recv", "ask", "join", "select", "drop", "goto"}
NoName == <<"", 0>>

Records(d) ==
  [op : Ops, text : Text, ch : Made[d] \cup {NoName}, n : Int, orElse : Nat,
   child : Kin(d) \cup {NoName}, keep : SUBSET EndsOf(d), give : SUBSET EndsOf(d),
   kinds : Seq(Asks)]

\* The instructions a routine of d is made of.
Instrs(d) ==
  {i \in Records(d) :
     /\ i.op \in {"send", "forward", "recv", "select"} => i.ch \in Made[d]
     /\ i.op \in {"spawned", "spawned_pinned"} => i.child \in Kin(d)
     /\ i.op \in {"ask", "select"} => Len(i.kinds) = 1
     /\ i.op = "join" => Len(i.kinds) = 2
     /\ i.op \in {"send", "forward", "recv", "goto"} => i.orElse # 0
     /\ i.op = "ask" /\ i.kinds[1] = "read_line" => i.orElse # 0
     /\ i.op = "select" => d = "deadline"
     /\ d = "deadline" => i.op # "forward" /\ (i.op = "send" => i.n \in Nat)}

LEMMA KindSeqs ==
  /\ << >> \in Seq(Asks) /\ Len(<< >>) = 0
  /\ \A a \in Asks : <<a>> \in Seq(Asks) /\ Len(<<a>>) = 1 /\ <<a>>[1] = a
  /\ \A a, b \in Asks : <<a, b>> \in Seq(Asks) /\ Len(<<a, b>>) = 2
  OBVIOUS

LEMMA InstrIs ==
  ASSUME NEW d, NEW op \in Ops
  PROVE  Instr(op) \in Records(d) /\ Instr(op).op = op
<1>1. "" \in Text
  BY DEF Text
<1>2. <<"", 0>> \in Made[d] \cup {NoName} /\ <<"", 0>> \in Kin(d) \cup {NoName}
  BY DEF NoName
<1>3. {} \in SUBSET EndsOf(d) /\ 0 \in Int /\ 0 \in Nat
  OBVIOUS
<1>4. << >> \in Seq(Asks)
  BY KindSeqs
<1>5. QED
  BY <1>1, <1>2, <1>3, <1>4 DEF Records, Instr

LEMMA PlainInstr ==
  ASSUME NEW d, NEW text \in Text
  PROVE  Write(text) \in Instrs(d) /\ Show(text) \in Instrs(d)
<1>1. "write" \in Ops /\ "show" \in Ops
  BY DEF Ops
<1>2. Instr("write") \in Records(d) /\ Instr("show") \in Records(d)
  BY <1>1, InstrIs
<1>3. Write(text) \in Records(d) /\ Show(text) \in Records(d)
  BY <1>2 DEF Records, Write, Show
<1>4. Write(text).op = "write" /\ Show(text).op = "show"
  BY DEF Write, Show, Instr
<1>5. QED
  BY <1>3, <1>4 DEF Instrs

LEMMA SpawnInstr ==
  ASSUME NEW d, NEW child \in Kin(d), NEW give \in SUBSET EndsOf(d),
         NEW keep \in SUBSET EndsOf(d)
  PROVE  /\ Spawn(child, give, keep) \in Instrs(d)
         /\ SpawnPinned(child, give) \in Instrs(d)
<1>1. "spawned" \in Ops /\ "spawned_pinned" \in Ops
  BY DEF Ops
<1>2. Instr("spawned") \in Records(d) /\ Instr("spawned_pinned") \in Records(d)
  BY <1>1, InstrIs
<1>3. Spawn(child, give, keep) \in Records(d) /\ SpawnPinned(child, give) \in Records(d)
  BY <1>2 DEF Records, Spawn, SpawnPinned
<1>4. /\ Spawn(child, give, keep).op = "spawned"
      /\ Spawn(child, give, keep).child = child
      /\ SpawnPinned(child, give).op = "spawned_pinned"
      /\ SpawnPinned(child, give).child = child
  BY DEF Spawn, SpawnPinned, Instr
<1>5. QED
  BY <1>3, <1>4 DEF Instrs

LEMMA ChannelInstr ==
  ASSUME NEW d, NEW c \in Made[d], NEW n \in Int, NEW o \in Nat \ {0}
  PROVE  /\ d # "deadline" \/ n \in Nat => Send(c, n, o) \in Instrs(d)
         /\ d # "deadline" => Forward(c, n, o) \in Instrs(d)
         /\ Recv(c, n, o) \in Instrs(d)
<1> DEFINE All == {"send", "forward", "recv"}
<1>1. \A op \in All : op \in Ops
  BY DEF Ops
<1>2. ASSUME NEW op \in All, d # "deadline" \/ (op # "forward" /\ (op = "send" => n \in Nat))
      PROVE  [Instr(op) EXCEPT !.ch = c, !.n = n, !.orElse = o] \in Instrs(d)
  <2> DEFINE i == [Instr(op) EXCEPT !.ch = c, !.n = n, !.orElse = o]
  <2>1. Instr(op) \in Records(d) /\ Instr(op).op = op
    BY <1>1, InstrIs
  <2>2. i \in Records(d)
    BY <2>1 DEF Records
  <2>3. i.op = op /\ i.ch = c /\ i.orElse = o /\ i.n = n
    BY DEF Instr
  <2> HIDE DEF i
  <2>4. i \in Instrs(d)
    BY <1>2, <2>2, <2>3 DEF Instrs
  <2>5. QED
    BY <2>4 DEF i
<1>3. QED
  BY <1>2 DEF Send, Forward, Recv

LEMMA AskInstr ==
  ASSUME NEW d, NEW a \in Asks, NEW b \in Asks, NEW o \in Nat \ {0}
  PROVE  /\ a # "read_line" => Ask(a) \in Instrs(d)
         /\ Read(o) \in Instrs(d)
         /\ Join(a, b) \in Instrs(d)
         /\ d = "deadline" => \A c \in Made[d] : Select(c, a) \in Instrs(d)
<1>1. "read_line" \in Asks /\ "ask" \in Ops /\ "join" \in Ops /\ "select" \in Ops
  BY DEF Asks, Ops
<1>2. /\ Instr("ask") \in Records(d) /\ Instr("join") \in Records(d)
      /\ Instr("select") \in Records(d)
  BY <1>1, InstrIs
<1>3. Ask(a) \in Records(d) /\ Ask(a).op = "ask" /\ Ask(a).kinds = <<a>>
  <2>1. Ask(a) \in Records(d)
    BY <1>2, KindSeqs DEF Records, Ask
  <2>2. QED
    BY <2>1 DEF Ask, Instr
<1>4. Read(o) \in Records(d) /\ Read(o).op = "ask" /\ Read(o).kinds = <<"read_line">>
      /\ Read(o).orElse = o
  <2>1. Read(o) \in Records(d)
    BY <1>1, <1>2, KindSeqs DEF Records, Read
  <2>2. QED
    BY <2>1 DEF Read, Instr
<1>5. Join(a, b) \in Records(d) /\ Join(a, b).op = "join" /\ Join(a, b).kinds = <<a, b>>
  <2>1. Join(a, b) \in Records(d)
    BY <1>2, KindSeqs DEF Records, Join
  <2>2. QED
    BY <2>1 DEF Join, Instr
<1>6. ASSUME NEW c \in Made[d]
      PROVE  Select(c, a) \in Records(d) /\ Select(c, a).op = "select"
             /\ Select(c, a).kinds = <<a>> /\ Select(c, a).ch = c
  <2>1. Select(c, a) \in Records(d)
    BY <1>2, KindSeqs DEF Records, Select
  <2>2. QED
    BY <2>1 DEF Select, Instr
<1>7. a # "read_line" => Ask(a) \in Instrs(d)
  BY <1>3, KindSeqs DEF Instrs
<1>8. Read(o) \in Instrs(d)
  BY <1>1, <1>4, KindSeqs DEF Instrs
<1>9. Join(a, b) \in Instrs(d)
  BY <1>5, KindSeqs DEF Instrs
<1>10. d = "deadline" => \A c \in Made[d] : Select(c, a) \in Instrs(d)
  BY <1>6, KindSeqs DEF Instrs
<1>11. QED
  BY <1>7, <1>8, <1>9, <1>10

LEMMA OtherInstr ==
  ASSUME NEW d, NEW e \in SUBSET EndsOf(d), NEW o \in Nat \ {0}
  PROVE  Drop(e) \in Instrs(d) /\ Goto(o) \in Instrs(d)
<1>1. "drop" \in Ops /\ "goto" \in Ops
  BY DEF Ops
<1>2. Instr("drop") \in Records(d) /\ Instr("goto") \in Records(d)
  BY <1>1, InstrIs
<1>3. Drop(e) \in Records(d) /\ Goto(o) \in Records(d)
  BY <1>2 DEF Records, Drop, Goto
<1>4. Drop(e).op = "drop" /\ Goto(o).op = "goto" /\ Goto(o).orElse = o
  BY DEF Drop, Goto, Instr
<1>5. QED
  BY <1>3, <1>4 DEF Instrs


-----------------------------------------------------------------------------
(* Every routine is a sequence of its demo's instructions                   *)

LEMMA Rounding ==
  /\ Demos \subseteq Roots
  /\ Rounds \in Nat /\ Rounds > 0 /\ Size \in Nat /\ Size > 1
  /\ Lines \in Nat /\ Entries \in Nat /\ MaxMachine \in Nat /\ MaxMachine > 0
  BY RoutinesAssumption DEF RoutinesAssumption

LEMMA UnrolledIs ==
  ASSUME NEW S, NEW k \in Nat, NEW f \in [1 .. k -> Seq(S)]
  PROVE  FlattenSeq(f) \in Seq(S)
<1>1. f \in Seq(Seq(S))
  OBVIOUS
<1>2. QED
  BY <1>1, FlattenIs

LEMMA ShortSeqs ==
  ASSUME NEW S
  PROVE  /\ \A a \in S : <<a>> \in Seq(S)
         /\ \A a, b \in S : <<a, b>> \in Seq(S)
         /\ \A a, b, c \in S : <<a, b, c>> \in Seq(S)
         /\ \A a, b, c, e \in S : <<a, b, c, e>> \in Seq(S)
  OBVIOUS

LEMMA FiveIs ==
  ASSUME NEW S, NEW a \in S, NEW b \in S, NEW c \in S, NEW e \in S, NEW f \in S
  PROVE  <<a, b, c, e, f>> \in Seq(S)
  OBVIOUS

LEMMA SixIs ==
  ASSUME NEW S, NEW a \in S, NEW b \in S, NEW c \in S, NEW e \in S, NEW f \in S,
         NEW g \in S
  PROVE  <<a, b, c, e, f, g>> \in Seq(S)
  OBVIOUS

LEMMA NineIs ==
  ASSUME NEW S, NEW a \in S, NEW b \in S, NEW c \in S, NEW e \in S, NEW f \in S,
         NEW g \in S, NEW h \in S, NEW i \in S, NEW j \in S
  PROVE  <<a, b, c, e, f, g, h, i, j>> \in Seq(S)
  OBVIOUS

LEMMA FunctionIs ==
  ASSUME NEW S, NEW n \in Nat, NEW f \in [1 .. n -> S]
  PROVE  f \in Seq(S)
  OBVIOUS

LEMMA JoinedSeqs ==
  ASSUME NEW S, NEW s \in Seq(S), NEW t \in Seq(S)
  PROVE  s \o t \in Seq(S)
  BY ConcatProperties

LEMMA PingPongIs ==
  ASSUME "ping_pong" \in Demos
  PROVE  /\ PingPong \in Seq(Instrs("ping_pong"))
         /\ Ponger \in Seq(Instrs("ping_pong"))
<1> DEFINE S == Instrs("ping_pong")
<1>1. Made["ping_pong"] = {Pings, Pongs}
  BY DEF Made
<1>2. /\ {Rx(Pings), Tx(Pongs)} \in SUBSET EndsOf("ping_pong")
      /\ {} \in SUBSET EndsOf("ping_pong")
      /\ <<"ponger", 0>> \in Kin("ping_pong")
  BY <1>1 DEF EndsOf, Kin
<1>3. Spawn(<<"ponger", 0>>, {Rx(Pings), Tx(Pongs)}, {}) \in S
  BY <1>2, SpawnInstr
<1>4. 3 * Rounds + 2 \in Nat \ {0}
  BY Rounding
<1>5. "pong" \in Text
  BY DEF Text
<1>6. \A n \in Int, o \in Nat \ {0} : \A c \in {Pings, Pongs} :
        Send(c, n, o) \in S /\ Recv(c, n, o) \in S /\ Forward(c, n, o) \in S
  BY <1>1, ChannelInstr
<1>7. Show("pong") \in S
  BY <1>5, PlainInstr
<1>8. Goto(1) \in S
  <2>1. {} \in SUBSET EndsOf("ping_pong") /\ 1 \in Nat \ {0}
    OBVIOUS
  <2>2. QED
    BY <2>1, OtherInstr
<1> HIDE DEF S
<1>9. [i \in 1 .. Rounds |-> <<Send(Pings, i, 3 * Rounds + 2),
                               Recv(Pongs, 0, 3 * Rounds + 2), Show("pong")>>]
        \in [1 .. Rounds -> Seq(S)]
  <2> SUFFICES ASSUME NEW i \in 1 .. Rounds
               PROVE  <<Send(Pings, i, 3 * Rounds + 2),
                        Recv(Pongs, 0, 3 * Rounds + 2), Show("pong")>> \in Seq(S)
    OBVIOUS
  <2>1. i \in Int /\ 0 \in Int
    OBVIOUS
  <2>2. Send(Pings, i, 3 * Rounds + 2) \in S /\ Recv(Pongs, 0, 3 * Rounds + 2) \in S
    BY <2>1, <1>4, <1>6
  <2>3. QED
    BY <2>2, <1>7, ShortSeqs
<1>10. PingPong \in Seq(S)
  BY <1>3, <1>9, Rounding, ShortSeqs, UnrolledIs, JoinedSeqs DEF PingPong, Unroll
<1>11. Ponger \in Seq(S)
  <2>1. 0 \in Int /\ 4 \in Nat \ {0}
    OBVIOUS
  <2>2. Recv(Pings, 0, 4) \in S /\ Forward(Pongs, 0, 4) \in S
    BY <2>1, <1>6
  <2>3. QED
    BY <2>2, <1>8, ShortSeqs DEF Ponger
<1>12. QED
  BY <1>10, <1>11 DEF S

LEMMA RingIs ==
  ASSUME "ring" \in Demos
  PROVE  /\ Ring \in Seq(Instrs("ring"))
         /\ \A i \in 2 .. Size : Node(i) \in Seq(Instrs("ring"))
<1> DEFINE S == Instrs("ring")
           M == Made["ring"]
           over == Size + 2 * Rounds + 1
<1>1. M = {Hop(i) : i \in 1 .. Size}
  BY DEF Made
<1>2. \A i \in 1 .. Size : Hop(i) \in M /\ Onward(i) \in M
  <2> TAKE i \in 1 .. Size
  <2>1. (IF i = Size THEN 1 ELSE i + 1) \in 1 .. Size
    BY Rounding
  <2> HIDE DEF M
  <2>2. \A j \in 1 .. Size : Hop(j) \in M
    BY <1>1
  <2>3. QED
    BY <2>1, <2>2 DEF Onward
<1> HIDE DEF M
<1>3. \A c \in M : Rx(c) \in EndsOf("ring") /\ Tx(c) \in EndsOf("ring")
  BY DEF EndsOf, M
<1>4. \A i \in 1 .. Size - 1 : i + 1 \in 2 .. Size /\ i + 1 \in 1 .. Size
  BY Rounding
<1>5. \A i \in 2 .. Size : <<"node", i>> \in Kin("ring") /\ i \in 1 .. Size
  <2>1. \A i \in 2 .. Size : <<"node", i>> \in Kin("ring")
    BY DEF Kin
  <2>2. \A i \in 2 .. Size : i \in 1 .. Size
    BY Rounding
  <2>3. QED
    BY <2>1, <2>2, Zenon
<1>6. over \in Nat \ {0} /\ 1 \in Nat \ {0} /\ 4 \in Nat \ {0} /\ 0 \in Int /\ 1 \in Int
  BY Rounding
<1>7. "hops" \in Text
  BY DEF Text
<1>8. \A n \in Int, o \in Nat \ {0} : \A c \in M :
        Recv(c, n, o) \in S /\ Forward(c, n, o) \in S
  BY ChannelInstr DEF M
<1>9. Show("hops") \in S
  BY <1>7, PlainInstr
<1>10. \A e \in SUBSET EndsOf("ring") : Drop(e) \in S
  BY <1>6, OtherInstr
<1>11. Goto(1) \in S
  <2>1. {} \in SUBSET EndsOf("ring")
    OBVIOUS
  <2>2. QED
    BY <2>1, <1>6, OtherInstr
<1>12. \A i \in 1 .. Size - 1 :
         Spawn(<<"node", i + 1>>, {Rx(Hop(i + 1))}, {Tx(Onward(i + 1))}) \in S
  <2> TAKE i \in 1 .. Size - 1
  <2>1. Hop(i + 1) \in M /\ Onward(i + 1) \in M /\ <<"node", i + 1>> \in Kin("ring")
    BY <1>2, <1>4, <1>5
  <2>2. /\ {Rx(Hop(i + 1))} \in SUBSET EndsOf("ring")
        /\ {Tx(Onward(i + 1))} \in SUBSET EndsOf("ring")
    BY <2>1, <1>3
  <2>3. QED
    BY <2>1, <2>2, SpawnInstr
<1>13. 1 \in 1 .. Size
  BY Rounding
<1> DEFINE first == [i \in 1 .. Size - 1 |->
             Spawn(<<"node", i + 1>>, {Rx(Hop(i + 1))}, {Tx(Onward(i + 1))})]
           laps == [i \in 1 .. Rounds |-> <<Forward(Onward(1), 0, over),
                                            Recv(Hop(1), 1, over)>>]
           left == {Tx(Hop(i)) : i \in 1 .. Size} \ {Tx(Onward(1))}
<1> HIDE DEF S
<1>14. first \in Seq(S)
  <2>1. first \in [1 .. Size - 1 -> S] /\ Size - 1 \in Nat
    BY <1>12, Rounding
  <2> HIDE DEF first
  <2>2. QED
    BY <2>1, FunctionIs
<1>15. laps \in [1 .. Rounds -> Seq(S)]
  <2>1. Forward(Onward(1), 0, over) \in S /\ Recv(Hop(1), 1, over) \in S
    BY <1>2, <1>6, <1>8, <1>13
  <2>2. <<Forward(Onward(1), 0, over), Recv(Hop(1), 1, over)>> \in Seq(S)
    BY <2>1, ShortSeqs
  <2>3. QED
    BY <2>2
<1>16. left \in SUBSET EndsOf("ring")
  <2>1. \A i \in 1 .. Size : Tx(Hop(i)) \in EndsOf("ring")
    BY <1>2, <1>3
  <2>2. QED
    BY <2>1
<1>17. Ring = first \o <<Drop(left)>> \o FlattenSeq(laps) \o <<Show("hops")>>
  BY DEF Ring, Unroll
<1>18. FlattenSeq(laps) \in Seq(S)
  <2> HIDE DEF laps
  <2>1. QED
    BY <1>15, Rounding, UnrolledIs
<1>19. <<Drop(left)>> \in Seq(S) /\ <<Show("hops")>> \in Seq(S)
  BY <1>9, <1>10, <1>16, ShortSeqs
<1>20. Ring \in Seq(S)
  <2> HIDE DEF first, laps, left
  <2>1. QED
    BY <1>14, <1>17, <1>18, <1>19, JoinedSeqs
<1>21. \A i \in 2 .. Size : Node(i) \in Seq(S)
  <2> TAKE i \in 2 .. Size
  <2>1. Recv(Hop(i), 0, 4) \in S /\ Forward(Onward(i), 1, 4) \in S
    BY <1>2, <1>5, <1>6, <1>8
  <2>2. QED
    BY <2>1, <1>11, ShortSeqs DEF Node
<1>22. QED
  BY <1>20, <1>21 DEF S

LEMMA DeadlineIs ==
  ASSUME "deadline" \in Demos
  PROVE  /\ Deadline \in Seq(Instrs("deadline"))
         /\ \A i \in 1 .. 2 : Worker(i) \in Seq(Instrs("deadline"))
<1> DEFINE S == Instrs("deadline")
<1>1. Made["deadline"] = {Quick, Slow, Gate}
  BY DEF Made
<1>2. /\ \A c \in {Quick, Slow, Gate} :
           Rx(c) \in EndsOf("deadline") /\ Tx(c) \in EndsOf("deadline")
      /\ {} \in SUBSET EndsOf("deadline")
      /\ \A i \in 1 .. 2 : <<"worker", i>> \in Kin("deadline")
  BY <1>1 DEF EndsOf, Kin
<1>3. /\ Spawn(<<"worker", 1>>, {Tx(Quick)}, {}) \in S
      /\ Spawn(<<"worker", 2>>, {Rx(Gate), Tx(Slow)}, {}) \in S
  <2>1. /\ {Tx(Quick)} \in SUBSET EndsOf("deadline")
        /\ {Rx(Gate), Tx(Slow)} \in SUBSET EndsOf("deadline")
    BY <1>2
  <2>2. <<"worker", 1>> \in Kin("deadline") /\ <<"worker", 2>> \in Kin("deadline")
    BY <1>2
  <2>3. QED
    BY <1>2, <2>1, <2>2, SpawnInstr
<1>4. \A n \in Nat, o \in Nat \ {0} : \A c \in {Quick, Slow, Gate} :
        Send(c, n, o) \in S /\ Recv(c, n, o) \in S
  BY <1>1, ChannelInstr
<1>5. /\ 0 \in Nat /\ 1 \in Nat /\ 2 \in Nat /\ 2 \in Nat \ {0} /\ 3 \in Nat \ {0}
      /\ 8 \in Nat \ {0} /\ 9 \in Nat \ {0}
  OBVIOUS
<1>6. Show("quick worker") \in S /\ Show("slow worker") \in S
  BY PlainInstr DEF Text
<1>7. Select(Quick, "patience") \in S /\ Select(Slow, "pause") \in S
  <2>1. "patience" \in Asks /\ "pause" \in Asks
    BY DEF Asks
  <2>2. Quick \in Made["deadline"] /\ Slow \in Made["deadline"]
    BY <1>1
  <2>3. QED
    BY <1>5, <2>1, <2>2, AskInstr
<1>8. /\ Send(Gate, 0, 8) \in S /\ Recv(Slow, 0, 9) \in S /\ Send(Quick, 1, 2) \in S
      /\ Recv(Gate, 0, 3) \in S /\ Send(Slow, 2, 3) \in S
  BY <1>4, <1>5
<1> HIDE DEF S
<1>9. Deadline \in Seq(S)
  BY <1>3, <1>6, <1>7, <1>8, NineIs DEF Deadline
<1>10. \A i \in 1 .. 2 : Worker(i) \in Seq(S)
  BY <1>8, ShortSeqs DEF Worker
<1>11. QED
  BY <1>9, <1>10 DEF S

LEMMA DeadlockIs ==
  ASSUME "deadlock" \in Demos
  PROVE  /\ Deadlock \in Seq(Instrs("deadlock"))
         /\ Waiter \in Seq(Instrs("deadlock"))
<1> DEFINE S == Instrs("deadlock")
<1>1. Made["deadlock"] = {ToChild, ToParent}
  BY DEF Made
<1>2. /\ {Rx(ToChild), Tx(ToParent)} \in SUBSET EndsOf("deadlock")
      /\ {Tx(ToChild)} \in SUBSET EndsOf("deadlock")
      /\ {} \in SUBSET EndsOf("deadlock")
      /\ <<"first", 0>> \in Kin("deadlock")
  BY <1>1 DEF EndsOf, Kin
<1>3. Spawn(<<"first", 0>>, {Rx(ToChild), Tx(ToParent)}, {}) \in S
  BY <1>2, SpawnInstr
<1>4. \A n \in Int, o \in Nat \ {0} : \A c \in {ToChild, ToParent} :
        Send(c, n, o) \in S /\ Recv(c, n, o) \in S
  BY <1>1, ChannelInstr
<1>5. 0 \in Int /\ 1 \in Nat \ {0} /\ 3 \in Nat \ {0} /\ 4 \in Nat \ {0}
  OBVIOUS
<1>6. Show("heard") \in S /\ Write("each waits") \in S
  BY PlainInstr DEF Text
<1>7. Drop({Tx(ToChild)}) \in S
  BY <1>2, <1>5, OtherInstr
<1>8. Recv(ToParent, 0, 4) \in S /\ Recv(ToChild, 0, 3) \in S /\ Send(ToParent, 0, 3) \in S
  BY <1>4, <1>5
<1> HIDE DEF S
<1>9. Deadlock \in Seq(S)
  BY <1>3, <1>6, <1>7, <1>8, FiveIs DEF Deadlock
<1>10. Waiter \in Seq(S)
  BY <1>8, ShortSeqs DEF Waiter
<1>11. QED
  BY <1>9, <1>10 DEF S

LEMMA GreeterIs ==
  ASSUME "greeter" \in Demos
  PROVE  Greeter \in Seq(Instrs("greeter"))
<1> DEFINE S == Instrs("greeter")
<1>1. /\ Write("who") \in S /\ Write("hello") \in S /\ Show("greeted") \in S
      /\ Write("bye") \in S
  BY PlainInstr DEF Text
<1>2. 1 \in Nat \ {0} /\ 9 \in Nat \ {0}
  OBVIOUS
<1>3. /\ "lookup" \in Asks /\ "pause" \in Asks /\ "count" \in Asks
  BY DEF Asks
<1>4. Ask("lookup") \in S /\ Ask("pause") \in S /\ Ask("count") \in S /\ Read(9) \in S
  BY <1>2, <1>3, AskInstr
<1>5. Goto(1) \in S
  <2>1. {} \in SUBSET EndsOf("greeter")
    OBVIOUS
  <2>2. QED
    BY <2>1, <1>2, OtherInstr
<1> HIDE DEF S
<1>6. Greeter \in Seq(S)
  BY <1>1, <1>4, <1>5, NineIs DEF Greeter
<1>7. QED
  BY <1>6 DEF S

LEMMA FanoutIs ==
  ASSUME "fanout" \in Demos
  PROVE  Fanout \in Seq(Instrs("fanout"))
<1> DEFINE S == Instrs("fanout")
<1>1. /\ Write("who") \in S /\ Show("greeted") \in S /\ Write("bye") \in S
  BY PlainInstr DEF Text
<1>2. 6 \in Nat \ {0}
  OBVIOUS
<1>3. /\ "lookup" \in Asks /\ "pause" \in Asks /\ "count" \in Asks
      /\ "read_line" \in Asks
  BY DEF Asks
<1>4. /\ Join("lookup", "count") \in S /\ Join("pause", "read_line") \in S
      /\ Read(6) \in S
  BY <1>2, <1>3, AskInstr
<1> HIDE DEF S
<1>5. Fanout \in Seq(S)
  BY <1>1, <1>4, SixIs DEF Fanout
<1>6. QED
  BY <1>5 DEF S

LEMMA FrontDeskIs ==
  ASSUME "front_desk" \in Demos
  PROVE  /\ FrontDesk \in Seq(Instrs("front_desk"))
         /\ \A k \in 1 .. Lines : Clerk(k) \in Seq(Instrs("front_desk"))
<1> DEFINE S == Instrs("front_desk")
           M == Made["front_desk"]
           reads == 2 * Lines + 1
<1>1. M = {Reply(k) : k \in 1 .. Lines}
  BY DEF Made
<1> HIDE DEF M
<1>2. \A k \in 1 .. Lines : Reply(k) \in M
  BY <1>1
<1>3. \A k \in 1 .. Lines :
        /\ {Tx(Reply(k))} \in SUBSET EndsOf("front_desk")
        /\ {Rx(Reply(k))} \in SUBSET EndsOf("front_desk")
        /\ <<"clerk", k>> \in Kin("front_desk")
  <2>1. \A k \in 1 .. Lines : /\ Tx(Reply(k)) \in EndsOf("front_desk")
                              /\ Rx(Reply(k)) \in EndsOf("front_desk")
    BY <1>2 DEF EndsOf, M
  <2>2. \A k \in 1 .. Lines : <<"clerk", k>> \in Kin("front_desk")
    BY DEF Kin
  <2>3. QED
    BY <2>1, <2>2
<1>4. reads + 1 \in Nat \ {0} /\ 3 \in Nat \ {0} /\ 0 \in Int
  BY Rounding
<1>5. \A k \in 1 .. Lines : reads + 3 * k \in Nat \ {0} /\ k \in Int
  BY Rounding
<1>6. "read_line" \in Asks /\ "lookup" \in Asks
  BY DEF Asks
<1>7. Read(reads + 1) \in S /\ Ask("lookup") \in S
  BY <1>4, <1>6, AskInstr
<1>8. Show("greeting") \in S /\ Write("closed") \in S
  BY PlainInstr DEF Text
<1>9. \A k \in 1 .. Lines : SpawnPinned(<<"clerk", k>>, {Tx(Reply(k))}) \in S
  <2>1. {} \in SUBSET EndsOf("front_desk")
    OBVIOUS
  <2>2. QED
    BY <2>1, <1>3, SpawnInstr
<1>10. \A k \in 1 .. Lines : Drop({Rx(Reply(k))}) \in S
  BY <1>3, <1>4, OtherInstr
<1>11. \A k \in 1 .. Lines : /\ Recv(Reply(k), 0, reads + 3 * k) \in S
                             /\ Send(Reply(k), k, 3) \in S
  BY <1>2, <1>4, <1>5, ChannelInstr DEF M
<1> HIDE DEF S
<1> DEFINE asks == [k \in 1 .. Lines |->
             <<Read(reads + 1), SpawnPinned(<<"clerk", k>>, {Tx(Reply(k))})>>]
           hears == [k \in 1 .. Lines |->
             <<Recv(Reply(k), 0, reads + 3 * k), Show("greeting"),
               Drop({Rx(Reply(k))})>>]
<1>12. asks \in [1 .. Lines -> Seq(S)]
  <2>1. \A k \in 1 .. Lines :
          <<Read(reads + 1), SpawnPinned(<<"clerk", k>>, {Tx(Reply(k))})>> \in Seq(S)
    BY <1>7, <1>9, ShortSeqs
  <2>2. QED
    BY <2>1
<1>13. hears \in [1 .. Lines -> Seq(S)]
  <2>1. \A k \in 1 .. Lines :
          <<Recv(Reply(k), 0, reads + 3 * k), Show("greeting"), Drop({Rx(Reply(k))})>>
            \in Seq(S)
    BY <1>8, <1>10, <1>11, ShortSeqs
  <2>2. QED
    BY <2>1
<1>14. FrontDesk = FlattenSeq(asks) \o <<Read(reads + 1)>> \o FlattenSeq(hears)
                     \o <<Write("closed")>>
  BY DEF FrontDesk, Unroll
<1> HIDE DEF asks, hears, reads
<1>15. FlattenSeq(asks) \in Seq(S) /\ FlattenSeq(hears) \in Seq(S)
  BY <1>12, <1>13, Rounding, UnrolledIs
<1>16. <<Read(reads + 1)>> \in Seq(S) /\ <<Write("closed")>> \in Seq(S)
  BY <1>7, <1>8, ShortSeqs
<1>17. FrontDesk \in Seq(S)
  BY <1>14, <1>15, <1>16, JoinedSeqs
<1>18. \A k \in 1 .. Lines : Clerk(k) \in Seq(S)
  BY <1>7, <1>11, ShortSeqs DEF Clerk
<1>19. QED
  BY <1>17, <1>18 DEF S

LEMMA EntriesAre ==
  /\ "ticker" \in Demos => Ticker \in Seq(Instrs("ticker"))
  /\ "journal" \in Demos => Journal \in Seq(Instrs("journal"))
<1>1. "pause" \in Asks /\ "var" \in Asks /\ "read_file" \in Asks /\ "now" \in Asks
        /\ "random" \in Asks /\ "write_file" \in Asks
  BY DEF Asks
<1>2. 1 \in Nat \ {0}
  OBVIOUS
<1>3. Ticker \in Seq(Instrs("ticker"))
  <2>1. Write("tick") \in Instrs("ticker")
    BY PlainInstr DEF Text
  <2>2. Ask("pause") \in Instrs("ticker")
    BY <1>1, <1>2, AskInstr
  <2>3. <<Write("tick"), Ask("pause")>> \in Seq(Instrs("ticker"))
    BY <2>1, <2>2, ShortSeqs
  <2>4. [i \in 1 .. Entries |-> <<Write("tick"), Ask("pause")>>]
          \in [1 .. Entries -> Seq(Instrs("ticker"))]
    BY <2>3
  <2>5. QED
    BY <2>4, Rounding, UnrolledIs DEF Ticker, Unroll
<1>4. Journal \in Seq(Instrs("journal"))
  <2> DEFINE S == Instrs("journal")
             entry == <<Ask("var"), Ask("read_file"), Ask("now"), Ask("random"),
                        Ask("write_file"), Show("entry")>>
  <2>1. Show("entry") \in S
    BY PlainInstr DEF Text
  <2>2. /\ Ask("var") \in S /\ Ask("read_file") \in S /\ Ask("now") \in S
        /\ Ask("random") \in S /\ Ask("write_file") \in S
    BY <1>1, <1>2, AskInstr
  <2> HIDE DEF S
  <2>3. entry \in Seq(S)
    BY <2>1, <2>2, SixIs
  <2>4. [i \in 1 .. Entries |-> entry] \in [1 .. Entries -> Seq(S)]
    BY <2>3
  <2>5. Journal \in Seq(S)
    BY <2>4, Rounding, UnrolledIs DEF Journal, Unroll
  <2>6. QED
    BY <2>5 DEF S
<1>5. QED
  BY <1>3, <1>4

LEMMA CodeIs ==
  ASSUME NEW d \in Demos, NEW r \in Kin(d)
  PROVE  r \in Routine /\ Code[r] \in Seq(Instrs(d))
<1>1. d \in Roots
  BY Rounding
<1>2. CASE d = "ping_pong"
  <2>1. r \in {<<"ping_pong", 0>>, <<"ponger", 0>>}
    BY <1>2 DEF Kin
  <2>2. r \in Routine
    BY <2>1 DEF Routine, Roots
  <2>3. r = <<"ping_pong", 0>> => Code[r] = PingPong
    BY <2>2 DEF Code
  <2>4. r = <<"ponger", 0>> => Code[r] = Ponger
    BY <2>2 DEF Code
  <2>5. QED
    BY <1>2, <2>1, <2>2, <2>3, <2>4, PingPongIs
<1>3. CASE d = "ring"
  <2>1. r \in {<<"ring", 0>>} \cup {<<"node", i>> : i \in 2 .. Size}
    BY <1>3 DEF Kin
  <2>2. r \in Routine
    BY <2>1 DEF Routine, Roots
  <2>3. r = <<"ring", 0>> => Code[r] = Ring
    BY <2>2 DEF Code
  <2>4. \A i \in 2 .. Size : r = <<"node", i>> => Code[r] = Node(i)
    BY <2>2 DEF Code
  <2>5. QED
    BY <1>3, <2>1, <2>2, <2>3, <2>4, RingIs
<1>4. CASE d = "deadline"
  <2>1. r \in {<<"deadline", 0>>} \cup {<<"worker", i>> : i \in 1 .. 2}
    BY <1>4 DEF Kin
  <2>2. r \in Routine
    BY <2>1 DEF Routine, Roots
  <2>3. r = <<"deadline", 0>> => Code[r] = Deadline
    BY <2>2 DEF Code
  <2>4. \A i \in 1 .. 2 : r = <<"worker", i>> => Code[r] = Worker(i)
    BY <2>2 DEF Code
  <2>5. QED
    BY <1>4, <2>1, <2>2, <2>3, <2>4, DeadlineIs
<1>5. CASE d = "deadlock"
  <2>1. r \in {<<"deadlock", 0>>, <<"first", 0>>}
    BY <1>5 DEF Kin
  <2>2. r \in Routine
    BY <2>1 DEF Routine, Roots
  <2>3. r = <<"deadlock", 0>> => Code[r] = Deadlock
    BY <2>2 DEF Code
  <2>4. r = <<"first", 0>> => Code[r] = Waiter
    BY <2>2 DEF Code
  <2>5. QED
    BY <1>5, <2>1, <2>2, <2>3, <2>4, DeadlockIs
<1>6. CASE d = "front_desk"
  <2>1. r \in {<<"front_desk", 0>>} \cup {<<"clerk", k>> : k \in 1 .. Lines}
    BY <1>6 DEF Kin
  <2>2. r \in Routine
    BY <2>1 DEF Routine, Roots
  <2>3. r = <<"front_desk", 0>> => Code[r] = FrontDesk
    BY <2>2 DEF Code
  <2>4. \A k \in 1 .. Lines : r = <<"clerk", k>> => Code[r] = Clerk(k)
    BY <2>2 DEF Code
  <2>5. QED
    BY <1>6, <2>1, <2>2, <2>3, <2>4, FrontDeskIs
<1>7. CASE d \in {"greeter", "fanout", "ticker", "journal"}
  <2>1. r = <<d, 0>>
    BY <1>7 DEF Kin
  <2>2. r \in Routine
    BY <1>1, <2>1 DEF Routine
  <2>3. /\ d = "greeter" => Code[r] = Greeter
        /\ d = "fanout" => Code[r] = Fanout
        /\ d = "ticker" => Code[r] = Ticker
        /\ d = "journal" => Code[r] = Journal
    BY <2>1, <2>2 DEF Code
  <2>4. QED
    BY <1>7, <2>2, <2>3, GreeterIs, FanoutIs, EntriesAre
<1>8. QED
  BY <1>1, <1>2, <1>3, <1>4, <1>5, <1>6, <1>7 DEF Roots

-----------------------------------------------------------------------------
(* The types of the routines, action by action                              *)

GoodEffect ==
  {e \in Effect : e.kind \in {"spawned", "spawned_pinned"} => e.id \in Machines}
Outs == [effects : Seq(GoodEffect), closed : Seq(Nat), woke : Seq(Machines)]
Mails == UNION {[S -> Int] : S \in SUBSET Nat}

LifeOK ==
  /\ demo \in Demos
  /\ life \in [Machines -> Lives]
  /\ code \in [Machines -> Kin(demo) \cup {NoName}]
  /\ \A m \in Machines : life[m] # "none" => code[m] \in Kin(demo)
PlaceOK == at \in [Machines -> Nat \ {0}] /\ got \in [Machines -> Int]
MailOK ==
  /\ minted \in [Machines -> Nat]
  /\ asked \in [Machines -> Seq(Nat)]
  /\ mail \in [Machines -> Mails]
  /\ \A m \in Machines : DOMAIN mail[m] \subseteq 1 .. minted[m]
EndsOK == ends \in [Machines -> SUBSET EndsOf(demo)]
ChannelsOK ==
  /\ msgs \in [Channels -> Seq(Int)]
  /\ ears \in [Channels -> SUBSET Machines]
OutOK == woken \in [Machines -> BOOLEAN] /\ out \in [Machines -> Outs]

RoutinesOK == LifeOK /\ PlaceOK /\ MailOK /\ EndsOK /\ ChannelsOK /\ OutOK

LEMMA MachinesFinite ==
  /\ IsFiniteSet(Machines)
  /\ \A S \in SUBSET Machines : IsFiniteSet(S)
  /\ Root \in Machines
<1>1. IsFiniteSet(1 .. MaxMachine)
  BY Rounding, FS_Interval
<1>2. \A S \in SUBSET Machines : IsFiniteSet(S)
  BY <1>1, FS_Subset, Zenon DEF Machines
<1>3. Root \in Machines
  BY Rounding DEF Machines, Root
<1>4. QED
  BY <1>1, <1>2, <1>3 DEF Machines

\* What each machine is at is an instruction of the demo.
LEMMA HereIs ==
  ASSUME LifeOK, PlaceOK, NEW m \in Machines, life[m] # "none",
         at[m] <= Len(Code[code[m]])
  PROVE  Here(m) \in Instrs(demo)
<1>1. Code[code[m]] \in Seq(Instrs(demo))
  BY CodeIs DEF LifeOK
<1>2. at[m] \in 1 .. Len(Code[code[m]])
  <2>1. Len(Code[code[m]]) \in Nat
    BY <1>1
  <2>2. at[m] \in Nat \ {0}
    BY DEF PlaceOK
  <2>3. QED
    BY <2>1, <2>2
<1>3. QED
  BY <1>1, <1>2 DEF Here

LEMMA IsHere ==
  ASSUME RoutinesOK, NEW m \in Machines, NEW op, Is(m, op)
  PROVE  /\ Here(m) \in Instrs(demo) /\ Here(m).op = op /\ Here(m) \in Records(demo)
         /\ life[m] = "polling" /\ code[m] \in Kin(demo)
<1>1. life[m] = "polling" /\ at[m] <= Len(Code[code[m]]) /\ Here(m).op = op
  BY DEF Is
<1>2. Here(m) \in Instrs(demo)
  BY <1>1, HereIs DEF RoutinesOK
<1>3. QED
  BY <1>1, <1>2 DEF Instrs, RoutinesOK, LifeOK

LEMMA ChannelsAre ==
  ASSUME NEW d \in Demos
  PROVE  Made[d] \in SUBSET Channels
  BY DEF Channels

LEMMA NextOK ==
  ASSUME PlaceOK, NEW m \in Machines, Next1(m), got' = got
  PROVE  PlaceOK'
<1>1. at[m] + 1 \in Nat \ {0}
  BY DEF PlaceOK
<1>2. QED
  BY <1>1 DEF PlaceOK, Next1

LEMMA EmitsOK ==
  ASSUME OutOK, NEW m \in Machines, NEW s \in Seq(GoodEffect), Emits(m, s),
         woken' = woken
  PROVE  OutOK'
<1>1. out[m] \in Outs
  BY DEF OutOK
<1>2. out[m].effects \o s \in Seq(GoodEffect)
  <2>1. out[m].effects \in Seq(GoodEffect)
    BY <1>1 DEF Outs
  <2>2. QED
    BY <2>1, ConcatProperties
<1>3. [out[m] EXCEPT !.effects = out[m].effects \o s] \in Outs
  BY <1>1, <1>2 DEF Outs
<1>4. out' = [out EXCEPT ![m] = [out[m] EXCEPT !.effects = out[m].effects \o s]]
  BY DEF Emits
<1>5. QED
  BY <1>3, <1>4 DEF OutOK

LEMMA HookedIs ==
  ASSUME OutOK, NEW S \in SUBSET Machines
  PROVE  Hooked(S) \in Seq(Machines)
<1> DEFINE H == {x \in S : ~woken[x]}
<1>1. H \in SUBSET Machines
  OBVIOUS
<1>2. SetToSeq(H) \in Seq(H)
  BY <1>1, MachinesFinite, SetToSeqIs
<1>3. SetToSeq(H) \in Seq(Machines)
  <2> HIDE DEF H
  <2>1. QED
    BY <1>1, <1>2
<1>4. QED
  BY <1>3 DEF Hooked

LEMMA WakesOK ==
  ASSUME OutOK, NEW m \in Machines, NEW S \in SUBSET Machines, Wakes(m, S)
  PROVE  OutOK'
<1>1. out[m] \in Outs
  BY DEF OutOK
<1>2. out[m].woke \o Hooked(S) \in Seq(Machines)
  <2>1. out[m].woke \in Seq(Machines)
    BY <1>1 DEF Outs
  <2>2. QED
    BY <2>1, HookedIs, ConcatProperties
<1>3. [out[m] EXCEPT !.woke = out[m].woke \o Hooked(S)] \in Outs
  BY <1>1, <1>2 DEF Outs
<1>4. out' = [out EXCEPT ![m] = [out[m] EXCEPT !.woke = out[m].woke \o Hooked(S)]]
  BY DEF Wakes
<1>5. woken' \in [Machines -> BOOLEAN]
  <2>1. woken' = [x \in Machines |-> woken[x] \/ x \in S]
    BY DEF Wakes
  <2>2. \A x \in Machines : (woken[x] \/ x \in S) \in BOOLEAN
    BY Zenon
  <2>3. QED
    BY <2>1, <2>2
<1>6. QED
  BY <1>3, <1>4, <1>5 DEF OutOK

LEMMA EarsAre ==
  ASSUME ChannelsOK, NEW m \in Machines, NEW E, ears' = EarsWithout(m, E), msgs' = msgs
  PROVE  ChannelsOK' /\ Hears(m, E) \in SUBSET Machines
<1>1. \A c \in Channels : ears[c] \in SUBSET Machines
  BY DEF ChannelsOK
<1>2. Hears(m, E) \in SUBSET Machines
  BY <1>1 DEF Hears
<1>3. ears' \in [Channels -> SUBSET Machines]
  <2>1. \A c \in Channels :
          (IF Closes(m, E, c) THEN {}
           ELSE IF Rx(c) \in E THEN ears[c] \ {m} ELSE ears[c]) \in SUBSET Machines
    BY <1>1
  <2>2. QED
    BY <2>1 DEF EarsWithout
<1>4. QED
  BY <1>2, <1>3 DEF ChannelsOK

LEMMA EffectIs ==
  ASSUME NEW kind \in Asks \cup {"write"}, NEW id \in Nat, NEW text \in Text, NEW n \in Int
  PROVE  [kind |-> kind, id |-> id, text |-> text, n |-> n] \in GoodEffect
  BY DEF GoodEffect, Effect, Asks

LEMMA SpawnEffectIs ==
  ASSUME NEW kind \in {"spawned", "spawned_pinned"}, NEW id \in Machines, id \in Nat,
         NEW text \in Text, NEW n \in Int
  PROVE  [kind |-> kind, id |-> id, text |-> text, n |-> n] \in GoodEffect
  BY DEF GoodEffect, Effect

LEMMA WriteLineOK ==
  ASSUME RoutinesOK, NEW m \in Machines, WriteLine(m)
  PROVE  RoutinesOK'
<1> DEFINE e == [kind |-> "write", id |-> 0, text |-> Here(m).text,
                 n |-> IF Here(m).op = "show" THEN got[m] ELSE 0]
<1>1. Here(m).text \in Text
  <2>1. Here(m) \in Records(demo)
    BY IsHere DEF WriteLine
  <2>2. QED
    BY <2>1 DEF Records
<1>2. (IF Here(m).op = "show" THEN got[m] ELSE 0) \in Int
  BY DEF RoutinesOK, PlaceOK
<1>3. e \in GoodEffect
  BY <1>1, <1>2, EffectIs
<1>4. Emits(m, <<e>>)
  BY DEF WriteLine
<1> HIDE DEF e
<1>5. OutOK'
  <2>1. <<e>> \in Seq(GoodEffect)
    BY <1>3
  <2>2. woken' = woken
    BY DEF WriteLine
  <2>3. QED
    BY <1>4, <2>1, <2>2, EmitsOK DEF RoutinesOK
<1>6. PlaceOK'
  BY NextOK DEF WriteLine, RoutinesOK
<1>7. LifeOK' /\ MailOK' /\ EndsOK' /\ ChannelsOK'
  BY DEF WriteLine, RoutinesOK, LifeOK, MailOK, EndsOK, ChannelsOK
<1>8. QED
  BY <1>5, <1>6, <1>7 DEF RoutinesOK

LEMMA SpawnChildOK ==
  ASSUME RoutinesOK, NEW m \in Machines, SpawnChild(m)
  PROVE  RoutinesOK'
<1> DEFINE i == Here(m)
<1>1. /\ i \in Records(demo) /\ i.child \in Kin(demo) /\ code[m] \in Kin(demo)
      /\ i.op \in {"spawned", "spawned_pinned"}
  <2>1. i \in Instrs(demo) /\ i.op \in {"spawned", "spawned_pinned"}
          /\ code[m] \in Kin(demo)
    BY IsHere DEF SpawnChild
  <2>2. QED
    BY <2>1 DEF Instrs
<1>2. i.give \in SUBSET EndsOf(demo) /\ i.keep \in SUBSET EndsOf(demo)
  BY <1>1 DEF Records
<1>3. PICK c \in Machines :
        /\ life[c] = "none"
        /\ life' = [life EXCEPT ![c] = "new"]
        /\ code' = [code EXCEPT ![c] = i.child]
        /\ ends' = [ends EXCEPT ![m] = @ \ i.give, ![c] = i.give \cup i.keep]
        /\ Emits(m, <<[kind |-> i.op, id |-> c, text |-> "", n |-> 0]>>)
  BY DEF SpawnChild
<1> HIDE DEF i
<1>4. LifeOK'
  <2>1. demo' = demo
    BY DEF SpawnChild
  <2>2. life' \in [Machines -> Lives]
    BY <1>3 DEF RoutinesOK, LifeOK, Lives
  <2>3. code' \in [Machines -> Kin(demo) \cup {NoName}]
    BY <1>1, <1>3 DEF RoutinesOK, LifeOK
  <2>4. \A x \in Machines : life'[x] # "none" => code'[x] \in Kin(demo)
    BY <1>1, <1>3 DEF RoutinesOK, LifeOK
  <2>5. QED
    BY <2>1, <2>2, <2>3, <2>4 DEF LifeOK, RoutinesOK
<1>5. EndsOK'
  <2>1. demo' = demo
    BY DEF SpawnChild
  <2>2. ends' \in [Machines -> SUBSET EndsOf(demo)]
    BY <1>2, <1>3 DEF RoutinesOK, EndsOK
  <2>3. QED
    BY <2>1, <2>2 DEF EndsOK
<1>6. OutOK'
  <2> DEFINE e == [kind |-> i.op, id |-> c, text |-> "", n |-> 0]
  <2>1. e \in GoodEffect
    <3>1. c \in Nat
      BY DEF Machines
    <3>2. i.op \in {"spawned", "spawned_pinned"} /\ "" \in Text /\ 0 \in Int
      BY <1>1 DEF Text
    <3>3. QED
      BY <3>1, <3>2, SpawnEffectIs
  <2>2. Emits(m, <<e>>)
    BY <1>3
  <2> HIDE DEF e
  <2>3. <<e>> \in Seq(GoodEffect)
    BY <2>1
  <2>4. woken' = woken
    BY DEF SpawnChild
  <2>5. QED
    BY <2>2, <2>3, <2>4, EmitsOK DEF RoutinesOK
<1>7. PlaceOK'
  BY NextOK DEF SpawnChild, RoutinesOK
<1>8. MailOK' /\ ChannelsOK'
  BY DEF SpawnChild, RoutinesOK, MailOK, ChannelsOK
<1>9. QED
  BY <1>4, <1>5, <1>6, <1>7, <1>8 DEF RoutinesOK

LEMMA JumpOK ==
  ASSUME PlaceOK, NEW m \in Machines, Jump(m), Here(m).orElse \in Nat \ {0},
         got' \in [Machines -> Int]
  PROVE  PlaceOK'
  BY DEF PlaceOK, Jump

LEMMA ChannelHere ==
  ASSUME RoutinesOK, NEW m \in Machines,
         \E op \in {"send", "forward", "recv", "select"} : Is(m, op)
  PROVE  /\ Here(m).ch \in Made[demo] /\ Here(m).ch \in Channels /\ Here(m).n \in Int
         /\ Here(m).op # "select" => Here(m).orElse \in Nat \ {0}
         /\ msgs[Here(m).ch] \in Seq(Int) /\ ears[Here(m).ch] \in SUBSET Machines
<1>1. /\ Here(m) \in Records(demo) /\ Here(m).ch \in Made[demo]
      /\ Here(m).op # "select" => Here(m).orElse # 0
  <2>1. Here(m) \in Instrs(demo) /\ Here(m).op \in {"send", "forward", "recv", "select"}
    BY IsHere
  <2>2. QED
    BY <2>1 DEF Instrs
<1>2. Here(m).n \in Int /\ Here(m).orElse \in Nat
  BY <1>1 DEF Records
<1>3. Here(m).ch \in Channels
  BY <1>1, ChannelsAre DEF RoutinesOK, LifeOK
<1>4. QED
  BY <1>1, <1>2, <1>3 DEF RoutinesOK, ChannelsOK

LEMMA SendMessageOK ==
  ASSUME RoutinesOK, NEW m \in Machines, SendMessage(m)
  PROVE  RoutinesOK'
<1> DEFINE c == Here(m).ch
           n == IF Here(m).op = "send" THEN Here(m).n ELSE got[m] + Here(m).n
<1>1. /\ c \in Channels /\ Here(m).n \in Int /\ Here(m).orElse \in Nat \ {0}
      /\ msgs[c] \in Seq(Int) /\ ears[c] \in SUBSET Machines
  <2>1. \E op \in {"send", "forward"} : Is(m, op)
    BY DEF SendMessage
  <2>2. Here(m).op # "select"
    BY <2>1, IsHere
  <2>3. QED
    BY <2>1, <2>2, ChannelHere
<1>2. n \in Int
  <2>1. got[m] \in Int
    BY DEF RoutinesOK, PlaceOK
  <2>2. QED
    BY <1>1, <2>1
<1>3. IF Held(Rx(c))
        THEN /\ msgs' = [msgs EXCEPT ![c] = Append(@, n)]
             /\ ears' = [ears EXCEPT ![c] = {}]
             /\ Wakes(m, ears[c]) /\ Next1(m)
        ELSE Jump(m) /\ UNCHANGED <<msgs, ears, woken, out>>
  BY DEF SendMessage
<1>4. UNCHANGED <<demo, life, code, got, asked, mail, minted, ends>>
  BY DEF SendMessage
<1> HIDE DEF c, n
<1>5. LifeOK' /\ MailOK' /\ EndsOK'
  BY <1>4 DEF RoutinesOK, LifeOK, MailOK, EndsOK
<1>6. PlaceOK'
  BY <1>1, <1>3, <1>4, NextOK, JumpOK DEF RoutinesOK, PlaceOK
<1>7. ChannelsOK'
  <2>1. Append(msgs[c], n) \in Seq(Int)
    BY <1>1, <1>2
  <2>2. QED
    BY <1>1, <1>3, <2>1 DEF RoutinesOK, ChannelsOK
<1>8. OutOK'
  <2>1. CASE Held(Rx(c))
    BY <1>1, <1>3, <2>1, WakesOK DEF RoutinesOK
  <2>2. CASE ~Held(Rx(c))
    BY <1>3, <2>2 DEF RoutinesOK, OutOK
  <2>3. QED
    BY <2>1, <2>2
<1>9. QED
  BY <1>5, <1>6, <1>7, <1>8 DEF RoutinesOK

LEMMA ReceiveOK ==
  ASSUME RoutinesOK, NEW m \in Machines, Receive(m)
  PROVE  RoutinesOK'
<1> DEFINE c == Here(m).ch
<1>1. /\ c \in Channels /\ Here(m).n \in Int /\ Here(m).orElse \in Nat \ {0}
      /\ msgs[c] \in Seq(Int)
  <2>1. Is(m, "recv")
    BY DEF Receive
  <2>2. Here(m).op = "recv"
    BY <2>1, IsHere
  <2>3. QED
    BY <2>1, <2>2, ChannelHere
<1>2. \/ /\ Ready(c)
         /\ got' = [got EXCEPT ![m] = Head(msgs[c]) + Here(m).n]
         /\ msgs' = [msgs EXCEPT ![c] = Tail(@)]
         /\ Next1(m)
      \/ /\ got' = [got EXCEPT ![m] = Gone] /\ Jump(m) /\ msgs' = msgs
  BY DEF Receive
<1>3. UNCHANGED <<demo, life, code, asked, mail, minted, ends, ears, woken, out>>
  BY DEF Receive
<1> HIDE DEF c
<1>4. LifeOK' /\ MailOK' /\ EndsOK' /\ OutOK'
  BY <1>3 DEF RoutinesOK, LifeOK, MailOK, EndsOK, OutOK
<1>5. Ready(c) => Head(msgs[c]) \in Int /\ Tail(msgs[c]) \in Seq(Int)
  BY <1>1, HeadTailProperties DEF Ready
<1>6. PlaceOK'
  <2>1. got' \in [Machines -> Int]
    <3>1. Ready(c) => Head(msgs[c]) + Here(m).n \in Int
      BY <1>1, <1>5
    <3>2. Gone \in Int
      BY DEF Gone
    <3>3. QED
      BY <1>2, <3>1, <3>2 DEF RoutinesOK, PlaceOK
  <2>2. at' \in [Machines -> Nat \ {0}]
    BY <1>1, <1>2 DEF Next1, Jump, RoutinesOK, PlaceOK
  <2>3. QED
    BY <2>1, <2>2 DEF PlaceOK
<1>7. ChannelsOK'
  BY <1>1, <1>2, <1>3, <1>5 DEF RoutinesOK, ChannelsOK
<1>8. QED
  BY <1>4, <1>6, <1>7 DEF RoutinesOK

LEMMA MailIs ==
  ASSUME MailOK, NEW m \in Machines
  PROVE  /\ minted[m] \in Nat /\ asked[m] \in Seq(Nat)
         /\ DOMAIN mail[m] \subseteq 1 .. minted[m]
         /\ mail[m] \in [DOMAIN mail[m] -> Int]
<1>1. PICK S \in SUBSET Nat : mail[m] \in [S -> Int]
  BY DEF MailOK, Mails
<1>2. QED
  BY <1>1 DEF MailOK

LEMMA MailsAre ==
  ASSUME NEW S \in SUBSET Nat, NEW f \in [S -> Int]
  PROVE  f \in Mails
  BY DEF Mails

LEMMA WithoutIs ==
  ASSUME MailOK, NEW m \in Machines, NEW S
  PROVE  Without(m, S) \in Mails /\ DOMAIN Without(m, S) \subseteq DOMAIN mail[m]
<1>1. DOMAIN mail[m] \in SUBSET Nat /\ mail[m] \in [DOMAIN mail[m] -> Int]
  BY MailIs
<1>2. Without(m, S) \in [DOMAIN mail[m] \ S -> Int]
  BY <1>1 DEF Without
<1>3. DOMAIN mail[m] \ S \in SUBSET Nat
  BY <1>1
<1>4. Without(m, S) \in Mails
  BY <1>2, <1>3, MailsAre
<1>5. QED
  BY <1>2, <1>4

\* Requests taken from m's map.
LEMMA TakenOK ==
  ASSUME MailOK, NEW m \in Machines, NEW S, mail' = [mail EXCEPT ![m] = Without(m, S)],
         minted' = minted, asked' \in [Machines -> Seq(Nat)]
  PROVE  MailOK'
<1>1. Without(m, S) \in Mails /\ DOMAIN Without(m, S) \subseteq DOMAIN mail[m]
  BY WithoutIs
<1>2. mail' \in [Machines -> Mails]
  BY <1>1 DEF MailOK
<1>3. \A x \in Machines : DOMAIN mail'[x] \subseteq 1 .. minted'[x]
  BY <1>1 DEF MailOK
<1>4. QED
  BY <1>2, <1>3 DEF MailOK

LEMMA RecordOK ==
  ASSUME RoutinesOK, NEW m \in Machines, Record(m)
  PROVE  RoutinesOK'
<1> DEFINE kinds == Here(m).kinds
           ids == [i \in 1 .. Len(kinds) |-> minted[m] + i]
           new == [id \in DOMAIN mail[m] \cup Range(ids) |->
                     IF id \in DOMAIN mail[m] THEN mail[m][id] ELSE Pending]
           nn(i) == IF kinds[i] = "write_file" THEN got[m] + 1 ELSE 0
           recorded == [i \in 1 .. Len(kinds) |->
                          [kind |-> kinds[i], id |-> ids[i], text |-> "", n |-> nn(i)]]
<1>1. kinds \in Seq(Asks)
  <2>1. Here(m) \in Records(demo)
    BY IsHere DEF Record
  <2>2. QED
    BY <2>1 DEF Records
<1>2. /\ Len(kinds) \in Nat /\ minted[m] \in Nat /\ DOMAIN mail[m] \subseteq 1 .. minted[m]
      /\ mail[m] \in [DOMAIN mail[m] -> Int] /\ got[m] \in Int
  BY <1>1, MailIs DEF RoutinesOK, PlaceOK
<1>3. /\ asked' = [asked EXCEPT ![m] = ids]
      /\ minted' = [minted EXCEPT ![m] = @ + Len(kinds)]
      /\ mail' = [mail EXCEPT ![m] = new]
      /\ Emits(m, recorded)
      /\ UNCHANGED <<demo, life, code, at, got, ends, msgs, ears, woken>>
  BY DEF Record
<1>4. /\ ids \in Seq(Nat)
      /\ \A i \in 1 .. Len(kinds) : ids[i] \in 1 .. minted[m] + Len(kinds)
      /\ \A i \in 1 .. Len(kinds) : ids[i] \in Nat
      /\ Range(ids) \subseteq 1 .. minted[m] + Len(kinds)
  <2>1. \A i \in 1 .. Len(kinds) : /\ minted[m] + i \in Nat
                                   /\ minted[m] + i \in 1 .. minted[m] + Len(kinds)
    BY <1>2
  <2> HIDE DEF kinds
  <2>2. ids \in Seq(Nat)
    <3>1. ids \in [1 .. Len(kinds) -> Nat]
      BY <2>1
    <3>2. QED
      BY <3>1, <1>2
  <2>3. Range(ids) \subseteq 1 .. minted[m] + Len(kinds)
    BY <2>1 DEF Range
  <2>4. QED
    BY <2>1, <2>2, <2>3
<1> HIDE DEF kinds, ids
<1>5. /\ new \in Mails
      /\ DOMAIN new \subseteq 1 .. minted[m] + Len(kinds)
  <2>1. DOMAIN mail[m] \cup Range(ids) \subseteq 1 .. minted[m] + Len(kinds)
    <3>1. 1 .. minted[m] \subseteq 1 .. minted[m] + Len(kinds)
      BY <1>2
    <3>2. QED
      BY <3>1, <1>2, <1>4
  <2>2. Pending \in Int
    BY DEF Pending
  <2>3. new \in [DOMAIN mail[m] \cup Range(ids) -> Int]
    BY <1>2, <2>2
  <2>4. 1 .. minted[m] + Len(kinds) \subseteq Nat
    OBVIOUS
  <2>5. new \in Mails
    <3> HIDE DEF new
    <3>1. QED
      BY <2>1, <2>3, <2>4, MailsAre
  <2>6. QED
    BY <2>1, <2>3, <2>5
<1> HIDE DEF new
<1>6. recorded \in Seq(GoodEffect)
  <2>1. ASSUME NEW i \in 1 .. Len(kinds)
        PROVE  [kind |-> kinds[i], id |-> ids[i], text |-> "", n |-> nn(i)] \in GoodEffect
    <3>1. kinds[i] \in Asks \cup {"write"}
      BY <1>1
    <3>2. nn(i) \in Int
      BY <1>2
    <3>3. "" \in Text
      BY DEF Text
    <3>4. ids[i] \in Nat
      BY <1>4
    <3> HIDE DEF nn
    <3>5. QED
      BY <3>1, <3>2, <3>3, <3>4, EffectIs
  <2> HIDE DEF nn
  <2>2. recorded \in [1 .. Len(kinds) -> GoodEffect]
    BY <2>1
  <2> HIDE DEF recorded
  <2>3. QED
    BY <2>2, <1>2
<1> HIDE DEF recorded
<1>7. OutOK'
  BY <1>3, <1>6, EmitsOK DEF RoutinesOK
<1>8. MailOK'
  <2>1. minted' \in [Machines -> Nat]
    BY <1>2, <1>3 DEF RoutinesOK, MailOK
  <2>2. asked' \in [Machines -> Seq(Nat)]
    BY <1>3, <1>4 DEF RoutinesOK, MailOK
  <2>3. mail' \in [Machines -> Mails]
    BY <1>3, <1>5 DEF RoutinesOK, MailOK
  <2>4. \A x \in Machines : DOMAIN mail'[x] \subseteq 1 .. minted'[x]
    BY <1>2, <1>3, <1>5 DEF RoutinesOK, MailOK
  <2>5. QED
    BY <2>1, <2>2, <2>3, <2>4 DEF MailOK
<1>9. LifeOK' /\ PlaceOK' /\ EndsOK' /\ ChannelsOK'
  BY <1>3 DEF RoutinesOK, LifeOK, PlaceOK, EndsOK, ChannelsOK
<1>10. QED
  BY <1>7, <1>8, <1>9 DEF RoutinesOK

LEMMA CollectOK ==
  ASSUME RoutinesOK, NEW m \in Machines, Collect(m)
  PROVE  RoutinesOK'
<1> DEFINE id == Head(asked[m])
           kind == Here(m).kinds[1]
           ended == kind = "read_line" /\ mail[m][id] = Ended
<1>1. /\ Answered(m, id)
      /\ mail' = [mail EXCEPT ![m] = Without(m, {id})]
      /\ got' = [got EXCEPT ![m] = IF kind \in Kept THEN mail[m][id] ELSE @]
      /\ IF ended THEN Jump(m) ELSE Next1(m)
      /\ asked' = [asked EXCEPT ![m] = << >>]
      /\ UNCHANGED <<demo, life, code, minted, ends, msgs, ears, woken, out>>
  BY DEF Collect
<1>2. kind = "read_line" => Here(m).orElse \in Nat \ {0}
  <2>1. Is(m, "ask")
    BY DEF Collect
  <2>2. Here(m) \in Instrs(demo) /\ Here(m).op = "ask" /\ Here(m) \in Records(demo)
    BY <2>1, IsHere
  <2>3. Here(m).orElse \in Nat
    BY <2>2 DEF Records
  <2>4. QED
    BY <2>2, <2>3 DEF Instrs
<1>3. mail[m][id] \in Int
  <2>1. id \in DOMAIN mail[m]
    BY <1>1 DEF Answered
  <2>2. mail[m] \in [DOMAIN mail[m] -> Int]
    BY MailIs DEF RoutinesOK
  <2> HIDE DEF id
  <2>3. QED
    BY <2>1, <2>2
<1> HIDE DEF id, kind
<1> HIDE DEF ended
<1>4. PlaceOK'
  <2>1. got' \in [Machines -> Int]
    BY <1>1, <1>3 DEF RoutinesOK, PlaceOK
  <2>2. at' \in [Machines -> Nat \ {0}]
    <3>1. at[m] + 1 \in Nat \ {0} /\ at \in [Machines -> Nat \ {0}]
      BY DEF RoutinesOK, PlaceOK
    <3>2. CASE ended
      <4>1. Here(m).orElse \in Nat \ {0}
        BY <1>2, <3>2 DEF ended
      <4>2. at' = [at EXCEPT ![m] = Here(m).orElse]
        BY <1>1, <3>2 DEF Jump
      <4>3. QED
        BY <3>1, <4>1, <4>2
    <3>3. CASE ~ended
      <4>1. at' = [at EXCEPT ![m] = at[m] + 1]
        BY <1>1, <3>3 DEF Next1
      <4>2. QED
        BY <3>1, <4>1
    <3>4. QED
      BY <3>2, <3>3
  <2>3. QED
    BY <2>1, <2>2 DEF PlaceOK
<1>5. MailOK'
  <2>1. asked' \in [Machines -> Seq(Nat)]
    BY <1>1 DEF RoutinesOK, MailOK
  <2>2. QED
    BY <1>1, <2>1, TakenOK DEF RoutinesOK
<1>6. LifeOK' /\ EndsOK' /\ ChannelsOK' /\ OutOK'
  BY <1>1 DEF RoutinesOK, LifeOK, EndsOK, ChannelsOK, OutOK
<1>7. QED
  BY <1>4, <1>5, <1>6 DEF RoutinesOK

LEMMA JoinBothOK ==
  ASSUME RoutinesOK, NEW m \in Machines, JoinBoth(m)
  PROVE  RoutinesOK'
<1> DEFINE ready == {id \in Range(asked[m]) : Answered(m, id)}
           left == (Range(asked[m]) \cap DOMAIN mail[m]) \ ready
<1>1. /\ mail' = [mail EXCEPT ![m] = Without(m, ready)]
      /\ got' = [got EXCEPT ![m] =
                   IF asked[m][2] \in ready THEN mail[m][asked[m][2]] ELSE @]
      /\ IF left = {} THEN /\ asked' = [asked EXCEPT ![m] = << >>]
                           /\ Next1(m)
                      ELSE UNCHANGED <<asked, at>>
      /\ UNCHANGED <<demo, life, code, minted, ends, msgs, ears, woken, out>>
  BY DEF JoinBoth
<1>2. asked[m][2] \in ready => mail[m][asked[m][2]] \in Int
  <2>1. asked[m][2] \in ready => asked[m][2] \in DOMAIN mail[m]
    BY DEF Answered
  <2>2. mail[m] \in [DOMAIN mail[m] -> Int]
    BY MailIs DEF RoutinesOK
  <2> HIDE DEF ready
  <2>3. QED
    BY <2>1, <2>2
<1> HIDE DEF ready, left
<1>3. PlaceOK'
  <2>1. got' \in [Machines -> Int]
    BY <1>1, <1>2 DEF RoutinesOK, PlaceOK
  <2>2. at' \in [Machines -> Nat \ {0}]
    BY <1>1 DEF Next1, RoutinesOK, PlaceOK
  <2>3. QED
    BY <2>1, <2>2 DEF PlaceOK
<1>4. MailOK'
  <2>1. asked' \in [Machines -> Seq(Nat)]
    <3>1. << >> \in Seq(Nat) /\ asked \in [Machines -> Seq(Nat)]
      BY DEF RoutinesOK, MailOK
    <3>2. asked' = asked \/ asked' = [asked EXCEPT ![m] = << >>]
      BY <1>1
    <3>3. QED
      BY <3>1, <3>2
  <2>2. QED
    BY <1>1, <2>1, TakenOK DEF RoutinesOK
<1>5. LifeOK' /\ EndsOK' /\ ChannelsOK' /\ OutOK'
  BY <1>1 DEF RoutinesOK, LifeOK, EndsOK, ChannelsOK, OutOK
<1>6. QED
  BY <1>3, <1>4, <1>5 DEF RoutinesOK

LEMMA SelectFirstOK ==
  ASSUME RoutinesOK, NEW m \in Machines, SelectFirst(m)
  PROVE  RoutinesOK'
<1> DEFINE c == Here(m).ch
           id == Head(asked[m])
           abandoned == IF Answered(m, id) THEN << >> ELSE <<id>>
<1>1. /\ \/ /\ Ready(c)
            /\ got' = [got EXCEPT ![m] = Head(msgs[c])]
            /\ msgs' = [msgs EXCEPT ![c] = Tail(@)]
         \/ /\ got' = [got EXCEPT ![m] = IF Closed(c) THEN Gone ELSE Late]
            /\ msgs' = msgs
      /\ out' = [out EXCEPT ![m].closed = @ \o abandoned]
      /\ mail' = [mail EXCEPT ![m] = Without(m, {id})]
      /\ ears' = [ears EXCEPT ![c] = @ \ {m}]
      /\ asked' = [asked EXCEPT ![m] = << >>]
      /\ Next1(m)
      /\ UNCHANGED <<demo, life, code, minted, ends, woken>>
  BY DEF SelectFirst
<1>2. c \in Channels /\ msgs[c] \in Seq(Int) /\ ears[c] \in SUBSET Machines
  <2>1. Is(m, "select")
    BY DEF SelectFirst
  <2>2. QED
    BY <2>1, ChannelHere
<1>3. abandoned \in Seq(Nat)
  <2>1. asked[m] \in Seq(Nat) /\ asked[m] # << >>
    BY MailIs DEF RoutinesOK, SelectFirst
  <2>2. id \in Nat
    BY <2>1, HeadTailProperties
  <2> HIDE DEF id
  <2>3. QED
    BY <2>2
<1> HIDE DEF c, id, abandoned
<1>4. Ready(c) => Head(msgs[c]) \in Int /\ Tail(msgs[c]) \in Seq(Int)
  BY <1>2, HeadTailProperties DEF Ready
<1>5. PlaceOK'
  <2>1. got' \in [Machines -> Int]
    <3>1. Gone \in Int /\ Late \in Int
      BY DEF Gone, Late
    <3>2. QED
      BY <1>1, <1>4, <3>1 DEF RoutinesOK, PlaceOK
  <2>2. at' \in [Machines -> Nat \ {0}]
    BY <1>1 DEF Next1, RoutinesOK, PlaceOK
  <2>3. QED
    BY <2>1, <2>2 DEF PlaceOK
<1>6. ChannelsOK'
  BY <1>1, <1>2, <1>4 DEF RoutinesOK, ChannelsOK
<1>7. MailOK'
  <2>1. asked' \in [Machines -> Seq(Nat)]
    BY <1>1 DEF RoutinesOK, MailOK
  <2>2. QED
    BY <1>1, <2>1, TakenOK DEF RoutinesOK
<1>8. OutOK'
  <2>1. out[m] \in Outs
    BY DEF RoutinesOK, OutOK
  <2>2. out[m].closed \o abandoned \in Seq(Nat)
    <3>1. out[m].closed \in Seq(Nat)
      BY <2>1 DEF Outs
    <3>2. QED
      BY <3>1, <1>3, ConcatProperties
  <2>3. [out[m] EXCEPT !.closed = out[m].closed \o abandoned] \in Outs
    BY <2>1, <2>2 DEF Outs
  <2>4. out' = [out EXCEPT ![m] = [out[m] EXCEPT !.closed = out[m].closed \o abandoned]]
    BY <1>1
  <2>5. QED
    BY <1>1, <2>3, <2>4 DEF RoutinesOK, OutOK
<1>9. LifeOK' /\ EndsOK'
  BY <1>1 DEF RoutinesOK, LifeOK, EndsOK
<1>10. QED
  BY <1>5, <1>6, <1>7, <1>8, <1>9 DEF RoutinesOK

LEMMA DropEndsOK ==
  ASSUME RoutinesOK, NEW m \in Machines, DropEnds(m)
  PROVE  RoutinesOK'
<1> DEFINE E == Here(m).give
<1>1. /\ ends' = [ends EXCEPT ![m] = @ \ E]
      /\ ears' = EarsWithout(m, E) /\ msgs' = msgs
      /\ Wakes(m, Hears(m, E)) /\ Next1(m)
      /\ UNCHANGED <<demo, life, code, got, asked, mail, minted>>
  BY DEF DropEnds
<1> HIDE DEF E
<1>2. ChannelsOK' /\ Hears(m, E) \in SUBSET Machines
  BY <1>1, EarsAre DEF RoutinesOK
<1>3. OutOK'
  BY <1>1, <1>2, WakesOK DEF RoutinesOK
<1>4. PlaceOK'
  BY <1>1, NextOK DEF RoutinesOK
<1>5. EndsOK'
  BY <1>1 DEF RoutinesOK, EndsOK
<1>6. LifeOK' /\ MailOK'
  BY <1>1 DEF RoutinesOK, LifeOK, MailOK
<1>7. QED
  BY <1>2, <1>3, <1>4, <1>5, <1>6 DEF RoutinesOK

LEMMA ContinueOK ==
  ASSUME RoutinesOK, NEW m \in Machines, Continue(m)
  PROVE  RoutinesOK'
<1>1. Here(m).orElse \in Nat \ {0}
  <2>1. Is(m, "goto")
    BY DEF Continue
  <2>2. Here(m) \in Instrs(demo) /\ Here(m).op = "goto" /\ Here(m) \in Records(demo)
    BY <2>1, IsHere
  <2>3. Here(m).orElse \in Nat
    BY <2>2 DEF Records
  <2>4. QED
    BY <2>2, <2>3 DEF Instrs
<1>2. PlaceOK'
  BY <1>1, JumpOK DEF Continue, RoutinesOK, PlaceOK
<1>3. LifeOK' /\ MailOK' /\ EndsOK' /\ ChannelsOK' /\ OutOK'
  BY DEF Continue, RoutinesOK, LifeOK, MailOK, EndsOK, ChannelsOK, OutOK
<1>4. QED
  BY <1>2, <1>3 DEF RoutinesOK

\* A machine that exists moves on.
LEMMA LivesOn ==
  ASSUME LifeOK, NEW m \in Machines, life[m] # "none", NEW l \in Lives,
         life' = [life EXCEPT ![m] = l], demo' = demo, code' = code
  PROVE  LifeOK'
<1>1. life' \in [Machines -> Lives]
  BY DEF LifeOK
<1>2. \A x \in Machines : life'[x] # "none" => code'[x] \in Kin(demo)
  BY DEF LifeOK
<1>3. QED
  BY <1>1, <1>2 DEF LifeOK

LEMMA SuspendOK ==
  ASSUME RoutinesOK, NEW m \in Machines, Suspend(m)
  PROVE  RoutinesOK'
<1> DEFINE c == Here(m).ch
<1>1. /\ ears' = IF Here(m).op \in {"recv", "select"}
                   THEN [ears EXCEPT ![c] = @ \cup {m}] ELSE ears
      /\ life' = [life EXCEPT ![m] = "yielded"]
      /\ UNCHANGED <<demo, code, at, got, asked, mail, minted, ends, msgs, woken, out>>
  BY DEF Suspend
<1>2. PICK op \in {"recv", "ask", "join", "select"} : Is(m, op)
  BY DEF Suspend
<1>3. Here(m).op = op /\ life[m] = "polling"
  BY <1>2, IsHere
<1>4. op \in {"recv", "select"} => c \in Channels /\ ears[c] \in SUBSET Machines
  BY <1>2, ChannelHere
<1> HIDE DEF c
<1>5. ChannelsOK'
  BY <1>1, <1>3, <1>4 DEF RoutinesOK, ChannelsOK
<1>6. LifeOK'
  BY <1>1, <1>3, LivesOn DEF Lives, RoutinesOK
<1>7. PlaceOK' /\ MailOK' /\ EndsOK' /\ OutOK'
  BY <1>1 DEF RoutinesOK, PlaceOK, MailOK, EndsOK, OutOK
<1>8. QED
  BY <1>5, <1>6, <1>7 DEF RoutinesOK

LEMMA ReturnOK ==
  ASSUME RoutinesOK, NEW m \in Machines, Return(m)
  PROVE  RoutinesOK'
<1> DEFINE E == ends[m]
<1>1. /\ life[m] = "polling" /\ life' = [life EXCEPT ![m] = "returned"]
      /\ ends' = [ends EXCEPT ![m] = {}]
      /\ ears' = EarsWithout(m, E) /\ msgs' = msgs
      /\ Wakes(m, Hears(m, E))
      /\ UNCHANGED <<demo, code, at, got, asked, mail, minted>>
  BY DEF Return
<1> HIDE DEF E
<1>2. ChannelsOK' /\ Hears(m, E) \in SUBSET Machines
  BY <1>1, EarsAre DEF RoutinesOK
<1>3. OutOK'
  BY <1>1, <1>2, WakesOK DEF RoutinesOK
<1>4. LifeOK'
  BY <1>1, LivesOn DEF Lives, RoutinesOK
<1>5. EndsOK'
  BY <1>1 DEF RoutinesOK, EndsOK
<1>6. PlaceOK' /\ MailOK'
  BY <1>1 DEF RoutinesOK, PlaceOK, MailOK
<1>7. QED
  BY <1>2, <1>3, <1>4, <1>5, <1>6 DEF RoutinesOK

LEMMA PollStepOK ==
  ASSUME RoutinesOK, NEW m \in Machines, PollStep(m)
  PROVE  RoutinesOK'
  BY WriteLineOK, SpawnChildOK, SendMessageOK, ReceiveOK, RecordOK, CollectOK,
     JoinBothOK, SelectFirstOK, DropEndsOK, ContinueOK, SuspendOK, ReturnOK
     DEF PollStep

-----------------------------------------------------------------------------
(* Sequences the hosts build                                                *)

LEMMA AppendIs ==
  ASSUME NEW S, NEW s \in Seq(S), NEW e \in S
  PROVE  /\ Append(s, e) \in Seq(S) /\ Len(Append(s, e)) = Len(s) + 1
         /\ Append(s, e)[Len(s) + 1] = e
         /\ \A i \in 1 .. Len(s) : Append(s, e)[i] = s[i]
  OBVIOUS

\* A function f with f[0] = b and f[i] computed from f[i - 1] by h.
LEMMA IterateIs ==
  ASSUME NEW V, NEW b \in V, NEW n \in Nat, NEW h \in [(1 .. n) \X V -> V],
         NEW g, Iterates(g, V, b, n, h)
  PROVE  g = [i \in 0 .. n |-> IF i = 0 THEN b ELSE h[<<i, g[i - 1]>>]]
<1>1. \A i \in 0 .. n : g[i] = IF i = 0 THEN b ELSE h[<<i, g[i - 1]>>]
  <2>1. \A i \in 0 .. n : i # 0 => i \in 1 .. n
    OBVIOUS
  <2>2. QED
    BY <2>1 DEF Iterates
<1>2. QED
  BY <1>1 DEF Iterates

LEMMA OnlyIs ==
  ASSUME NEW T, NEW s \in Seq(T), NEW S
  PROVE  Only(s, S) \in Seq(T \cap S)
<1> DEFINE n == Len(s)
           V == Seq(T \cap S)
           Is0(f) == f = [i \in 0 .. n |->
                            IF i = 0 THEN << >>
                            ELSE IF s[i] \in S THEN Append(f[i - 1], s[i])
                                 ELSE f[i - 1]]
           h == [p \in (1 .. n) \X V |->
                   IF s[p[1]] \in S THEN Append(p[2], s[p[1]]) ELSE p[2]]
<1>1. n \in Nat /\ << >> \in V /\ \A i \in 1 .. n : s[i] \in T
  OBVIOUS
<1>2. h \in [(1 .. n) \X V -> V]
  <2>1. ASSUME NEW p \in (1 .. n) \X V
        PROVE  (IF s[p[1]] \in S THEN Append(p[2], s[p[1]]) ELSE p[2]) \in V
    <3>1. p[1] \in 1 .. n /\ p[2] \in Seq(T \cap S)
      OBVIOUS
    <3>2. s[p[1]] \in S => s[p[1]] \in T \cap S
      BY <3>1, <1>1
    <3>3. s[p[1]] \in S => Append(p[2], s[p[1]]) \in Seq(T \cap S)
      BY <3>1, <3>2, AppendIs
    <3>4. QED
      BY <3>1, <3>3
  <2>2. QED
    BY <2>1
<1>3. \A i \in 1 .. n, t \in V :
        h[<<i, t>>] = IF s[i] \in S THEN Append(t, s[i]) ELSE t
  OBVIOUS
<1> HIDE DEF h, V, n
<1>4. PICK g : Iterates(g, V, << >>, n, h)
  BY <1>1, <1>2, IterateExists
<1>5. \E f : Is0(f)
  <2>1. g \in [0 .. n -> V] /\ g = [i \in 0 .. n |-> IF i = 0 THEN << >> ELSE h[<<i, g[i - 1]>>]]
    BY <1>1, <1>2, <1>4, IterateIs DEF Iterates
  <2>2. ASSUME NEW i \in 0 .. n, i # 0
        PROVE  h[<<i, g[i - 1]>>] = IF s[i] \in S THEN Append(g[i - 1], s[i]) ELSE g[i - 1]
    <3>1. i \in 1 .. n /\ i - 1 \in 0 .. n
      BY <1>1, <2>2
    <3>2. g[i - 1] \in V
      BY <2>1, <3>1
    <3>3. QED
      BY <3>1, <3>2, <1>3
  <2>3. \A i \in 0 .. n : g[i] = IF i = 0 THEN << >>
                                 ELSE IF s[i] \in S THEN Append(g[i - 1], s[i])
                                      ELSE g[i - 1]
    BY <2>1, <2>2, Zenon
  <2>4. Is0(g)
    BY <2>1, <2>3
  <2>5. QED
    BY <2>4
<1> DEFINE F == CHOOSE f : Is0(f)
<1>6. Is0(F)
  BY <1>5
<1>7. Only(s, S) = F[n]
  BY Zenon DEF Only, n
<1> HIDE DEF F
<1>8. F[0] = << >> /\ \A i \in 1 .. n : F[i] = IF s[i] \in S THEN Append(F[i - 1], s[i])
                                                ELSE F[i - 1]
  <2>1. \A i \in 0 .. n : F[i] = IF i = 0 THEN << >>
                                 ELSE IF s[i] \in S THEN Append(F[i - 1], s[i])
                                      ELSE F[i - 1]
    BY <1>6
  <2>2. 0 \in 0 .. n /\ \A i \in 1 .. n : i \in 0 .. n /\ i # 0
    BY <1>1
  <2>3. QED
    BY <2>1, <2>2, Zenon
<1> HIDE DEF Is0
<1> DEFINE W == {i \in 0 .. n : F[i] \in V}
<1>9. 0 \in W
  BY <1>1, <1>8
<1>10. \A i \in 1 .. n : i - 1 \in W => i \in W
  <2> TAKE i \in 1 .. n
  <2> HAVE i - 1 \in W
  <2>1. F[i - 1] \in Seq(T \cap S) /\ i \in 0 .. n
    BY <1>1 DEF V
  <2>2. s[i] \in S => Append(F[i - 1], s[i]) \in Seq(T \cap S)
    <3>1. s[i] \in S => s[i] \in T \cap S
      BY <1>1
    <3>2. QED
      BY <2>1, <3>1, AppendIs
  <2>3. QED
    BY <2>1, <2>2, <1>8 DEF V
<1> HIDE DEF W
<1>11. n \in W
  <2>1. \A i \in 0 .. n : i \in W
    BY <1>1, <1>9, <1>10, Upwards
  <2>2. QED
    BY <2>1, <1>1
<1>12. QED
  BY <1>7, <1>11 DEF W, V

LEMMA RangeIs ==
  ASSUME NEW S, NEW s \in Seq(S)
  PROVE  /\ DOMAIN s = 1 .. Len(s) /\ Len(s) \in Nat
         /\ Range(s) \subseteq S /\ s \in Seq(Range(s))
         /\ \A i \in 1 .. Len(s) : s[i] \in Range(s) /\ s[i] \in S
         /\ \A x \in Range(s) : \E i \in 1 .. Len(s) : s[i] = x
  BY DEF Range

\* The queue with the resumes of the machines heard: what was there is in its
\* place, and every machine heard has a resume.
LEMMA TakenIs ==
  ASSUME NEW S, queue \in Seq(S), heard \in Seq(Machines),
         \A m \in Machines : ResumeOf(m) \in S
  PROVE  /\ Taken \in Seq(S)
         /\ Len(queue) <= Len(Taken)
         /\ \A i \in 1 .. Len(queue) : Taken[i] = queue[i]
         /\ \A i \in 1 .. Len(heard) : ResumeOf(heard[i]) \in Range(Taken)
         /\ Range(Taken) \subseteq
              Range(queue) \cup {ResumeOf(m) : m \in Range(heard)}
<1> DEFINE n == Len(heard)
           U == Range(queue) \cup {ResumeOf(m) : m \in Range(heard)}
           V == Seq(U)
           Is0(f) == f = [i \in 0 .. n |->
                            IF i = 0 THEN queue
                            ELSE LET before == f[i - 1]
                                 IN IF ResumeOf(heard[i]) \in Range(before) THEN before
                                    ELSE Append(before, ResumeOf(heard[i]))]
           h == [p \in (1 .. n) \X V |->
                   IF ResumeOf(heard[p[1]]) \in Range(p[2]) THEN p[2]
                   ELSE Append(p[2], ResumeOf(heard[p[1]]))]
<1>1. n \in Nat /\ \A i \in 1 .. n : heard[i] \in Range(heard)
  BY RangeIs
<1>2. queue \in V
  <2>1. queue \in Seq(Range(queue))
    BY RangeIs
  <2>2. Range(queue) \subseteq U
    OBVIOUS
  <2> HIDE DEF U
  <2>3. QED
    BY <2>1, <2>2
<1>3. \A i \in 1 .. n : ResumeOf(heard[i]) \in U
  BY <1>1
<1>4. U \subseteq S
  BY RangeIs
<1> HIDE DEF U
<1>5. h \in [(1 .. n) \X V -> V]
  <2>1. ASSUME NEW p \in (1 .. n) \X V
        PROVE  (IF ResumeOf(heard[p[1]]) \in Range(p[2]) THEN p[2]
                ELSE Append(p[2], ResumeOf(heard[p[1]]))) \in V
    <3>1. p[1] \in 1 .. n /\ p[2] \in Seq(U)
      OBVIOUS
    <3>2. Append(p[2], ResumeOf(heard[p[1]])) \in Seq(U)
      BY <3>1, <1>3, AppendIs
    <3>3. QED
      BY <3>1, <3>2
  <2>2. QED
    BY <2>1
<1>6. \A i \in 1 .. n, t \in V :
        h[<<i, t>>] = IF ResumeOf(heard[i]) \in Range(t) THEN t
                      ELSE Append(t, ResumeOf(heard[i]))
  OBVIOUS
<1> HIDE DEF h, V, n
<1>7. PICK g : Iterates(g, V, queue, n, h)
  BY <1>1, <1>2, <1>5, IterateExists
<1>8. \E f : Is0(f)
  <2>1. g \in [0 .. n -> V] /\ g = [i \in 0 .. n |-> IF i = 0 THEN queue ELSE h[<<i, g[i - 1]>>]]
    BY <1>1, <1>2, <1>5, <1>7, IterateIs DEF Iterates
  <2>2. ASSUME NEW i \in 0 .. n, i # 0
        PROVE  h[<<i, g[i - 1]>>] = IF ResumeOf(heard[i]) \in Range(g[i - 1]) THEN g[i - 1]
                                    ELSE Append(g[i - 1], ResumeOf(heard[i]))
    <3>1. i \in 1 .. n /\ i - 1 \in 0 .. n
      BY <1>1, <2>2
    <3>2. g[i - 1] \in V
      BY <2>1, <3>1
    <3>3. QED
      BY <3>1, <3>2, <1>6
  <2>3. \A i \in 0 .. n : g[i] = IF i = 0 THEN queue
                                 ELSE IF ResumeOf(heard[i]) \in Range(g[i - 1]) THEN g[i - 1]
                                      ELSE Append(g[i - 1], ResumeOf(heard[i]))
    BY <2>1, <2>2, Zenon
  <2>4. Is0(g)
    BY <2>1, <2>3
  <2>5. QED
    BY <2>4
<1> DEFINE F == CHOOSE f : Is0(f)
<1>9. Is0(F)
  BY <1>8
<1>10. Taken = F[n]
  BY Zenon DEF Taken, n
<1> HIDE DEF F
<1>11. F[0] = queue
       /\ \A i \in 1 .. n : F[i] = IF ResumeOf(heard[i]) \in Range(F[i - 1]) THEN F[i - 1]
                                   ELSE Append(F[i - 1], ResumeOf(heard[i]))
  <2>1. \A i \in 0 .. n : F[i] = IF i = 0 THEN queue
                                 ELSE IF ResumeOf(heard[i]) \in Range(F[i - 1]) THEN F[i - 1]
                                      ELSE Append(F[i - 1], ResumeOf(heard[i]))
    BY <1>9
  <2>2. 0 \in 0 .. n /\ \A i \in 1 .. n : i \in 0 .. n /\ i # 0
    BY <1>1
  <2>3. QED
    BY <2>1, <2>2, Zenon
<1> HIDE DEF Is0
<1> DEFINE Good(k) ==
             /\ F[k] \in Seq(U) /\ Len(queue) <= Len(F[k])
             /\ \A i \in 1 .. Len(queue) : F[k][i] = queue[i]
             /\ \A i \in 1 .. k : ResumeOf(heard[i]) \in Range(F[k])
           W == {i \in 0 .. n : Good(i)}
<1>12. 0 \in W
  <2>1. Len(queue) \in Nat /\ \A i \in 1 .. 0 : FALSE
    BY RangeIs
  <2>2. Good(0)
    BY <2>1, <1>2, <1>11 DEF V
  <2>3. QED
    BY <2>2, <1>1
<1>13. \A i \in 1 .. n : i - 1 \in W => i \in W
  <2> TAKE i \in 1 .. n
  <2> HAVE i - 1 \in W
  <2> DEFINE r == ResumeOf(heard[i])
  <2>1. Good(i - 1) /\ i \in 0 .. n /\ r \in U
    BY <1>1, <1>3
  <2>2. F[i] = IF r \in Range(F[i - 1]) THEN F[i - 1] ELSE Append(F[i - 1], r)
    BY <1>11
  <2> DEFINE k == i - 1
  <2>3. \A j \in 1 .. i : j = i \/ j \in 1 .. k
    BY <1>1
  <2>4. Good(k)
    BY <2>1
  <2> HIDE DEF r, k
  <2>5. CASE r \in Range(F[i - 1])
    <3>1. F[i] = F[k]
      BY <2>2, <2>5 DEF k
    <3>2. r \in Range(F[k])
      BY <2>5 DEF k
    <3>3. \A j \in 1 .. i : ResumeOf(heard[j]) \in Range(F[k])
      BY <2>3, <2>4, <3>2 DEF r
    <3>4. Good(i)
      BY <2>4, <3>1, <3>3
    <3>5. QED
      BY <2>1, <3>4
  <2>6. CASE r \notin Range(F[i - 1])
    <3>1. F[i] = Append(F[k], r)
      BY <2>2, <2>6 DEF k
    <3> DEFINE L == Len(F[k])
    <3>2. /\ F[k] \in Seq(U) /\ L \in Nat /\ Len(queue) \in Nat /\ Len(queue) <= L
      BY <2>4, RangeIs
    <3>3. /\ F[i] \in Seq(U) /\ Len(F[i]) = L + 1 /\ F[i][L + 1] = r
          /\ \A j \in 1 .. L : F[i][j] = F[k][j]
      BY <2>1, <3>1, <3>2, AppendIs
    <3>4. \A j \in 1 .. Len(queue) : F[i][j] = queue[j]
      <4>1. \A j \in 1 .. Len(queue) : j \in 1 .. L
        BY <3>2
      <4>2. QED
        BY <4>1, <3>3, <2>4
    <3>5. \A x \in Range(F[k]) : x \in Range(F[i])
      <4> TAKE x \in Range(F[k])
      <4>1. PICK j \in 1 .. L : F[k][j] = x
        BY <3>2, RangeIs
      <4>2. j \in 1 .. Len(F[i]) /\ F[i][j] = x
        BY <3>2, <3>3, <4>1
      <4>3. QED
        BY <4>2, <3>3, RangeIs
    <3>6. r \in Range(F[i])
      <4>1. L + 1 \in 1 .. Len(F[i])
        BY <3>2, <3>3
      <4>2. QED
        BY <4>1, <3>3, RangeIs
    <3>7. \A j \in 1 .. i : ResumeOf(heard[j]) \in Range(F[i])
      BY <2>3, <2>4, <3>5, <3>6 DEF r
    <3>8. Len(queue) <= Len(F[i])
      BY <3>2, <3>3
    <3>9. Good(i)
      BY <3>3, <3>4, <3>7, <3>8
    <3>10. QED
      BY <2>1, <3>9
  <2>7. QED
    BY <2>5, <2>6
<1> HIDE DEF W
<1>14. n \in W
  <2>1. \A i \in 0 .. n : i \in W
    BY <1>1, <1>12, <1>13, Upwards
  <2>2. QED
    BY <2>1, <1>1
<1>15. Good(n)
  BY <1>14 DEF W
<1>16. Taken \in Seq(U)
  BY <1>10, <1>15
<1>17. Range(Taken) \subseteq U /\ Taken \in Seq(S)
  BY <1>16, <1>4, RangeIs
<1>18. QED
  BY <1>10, <1>15, <1>17 DEF n, U

LEMMA RemoveIs ==
  ASSUME NEW S, NEW s \in Seq(S), NEW i \in 1 .. Len(s)
  PROVE  /\ RemoveAt(s, i) \in Seq(S)
         /\ Len(RemoveAt(s, i)) = Len(s) - 1
         /\ \A j \in 1 .. i - 1 : RemoveAt(s, i)[j] = s[j]
         /\ \A j \in i .. Len(s) - 1 : RemoveAt(s, i)[j] = s[j + 1]
<1> DEFINE a == SubSeq(s, 1, i - 1)
           b == SubSeq(s, i + 1, Len(s))
<1>0. Len(s) \in Nat /\ i \in Nat /\ i >= 1 /\ i <= Len(s)
  OBVIOUS
<1>1. /\ a \in Seq(S) /\ Len(a) = i - 1
      /\ \A j \in 1 .. i - 1 : a[j] = s[j]
  <2>1. \A j \in 1 .. i - 1 : s[j] \in S
    BY <1>0
  <2>2. /\ a \in Seq(S) /\ Len(a) = (IF 1 <= i - 1 THEN (i - 1) - 1 + 1 ELSE 0)
        /\ \A j \in 1 .. (i - 1) - 1 + 1 : a[j] = s[1 + j - 1]
    BY <1>0, <2>1, SubSeqProperties
  <2> HIDE DEF a
  <2>3. QED
    BY <1>0, <2>2
<1>2. /\ b \in Seq(S) /\ Len(b) = Len(s) - i
      /\ \A j \in 1 .. Len(s) - i : b[j] = s[i + j]
  <2>1. \A j \in i + 1 .. Len(s) : s[j] \in S
    BY <1>0
  <2>2. /\ b \in Seq(S)
        /\ Len(b) = (IF i + 1 <= Len(s) THEN Len(s) - (i + 1) + 1 ELSE 0)
        /\ \A j \in 1 .. Len(s) - (i + 1) + 1 : b[j] = s[(i + 1) + j - 1]
    BY <1>0, <2>1, SubSeqProperties
  <2> HIDE DEF b
  <2>3. QED
    BY <1>0, <2>2
<1>3. RemoveAt(s, i) = a \o b
  BY DEF RemoveAt
<1> HIDE DEF a, b
<1>4. /\ a \o b \in Seq(S) /\ Len(a \o b) = Len(a) + Len(b)
      /\ \A j \in 1 .. Len(a) + Len(b) :
           (a \o b)[j] = IF j <= Len(a) THEN a[j] ELSE b[j - Len(a)]
  BY <1>1, <1>2, ConcatProperties
<1>5. \A j \in i .. Len(s) - 1 : (a \o b)[j] = s[j + 1]
  <2> TAKE j \in i .. Len(s) - 1
  <2>1. j \in 1 .. Len(a) + Len(b) /\ ~(j <= Len(a)) /\ j - (i - 1) \in 1 .. Len(s) - i
        /\ i + (j - (i - 1)) = j + 1
    BY <1>0, <1>1, <1>2
  <2>2. (a \o b)[j] = b[j - (i - 1)]
    BY <2>1, <1>1, <1>4
  <2>3. QED
    BY <2>1, <2>2, <1>2
<1>6. \A j \in 1 .. i - 1 : (a \o b)[j] = s[j]
  <2> TAKE j \in 1 .. i - 1
  <2>1. j \in 1 .. Len(a) + Len(b) /\ j <= Len(a)
    BY <1>0, <1>1, <1>2
  <2>2. QED
    BY <2>1, <1>1, <1>4
<1>7. QED
  BY <1>0, <1>1, <1>2, <1>3, <1>4, <1>5, <1>6

-----------------------------------------------------------------------------
(* What a host does to a machine keeps the types                            *)

LEMMA NothingIs ==
  Nothing \in Outs
<1>1. << >> \in Seq(GoodEffect) /\ << >> \in Seq(Nat) /\ << >> \in Seq(Machines)
  OBVIOUS
<1>2. QED
  BY <1>1 DEF Nothing, Outs

LEMMA NoMailIs ==
  << >> \in Mails /\ DOMAIN << >> = {}
<1>1. << >> \in [{} -> Int]
  OBVIOUS
<1>2. QED
  BY <1>1, MailsAre

LEMMA NothingOut ==
  ASSUME OutOK, NEW m \in Machines, out' = [out EXCEPT ![m] = Nothing],
         woken' \in [Machines -> BOOLEAN]
  PROVE  OutOK'
  BY NothingIs DEF OutOK

LEMMA PollBegins ==
  ASSUME RoutinesOK, NEW m \in Machines, Pollable(m),
         life' = [life EXCEPT ![m] = "polling"], woken' = [woken EXCEPT ![m] = FALSE],
         out' = [out EXCEPT ![m] = Nothing], demo' = demo, code' = code
  PROVE  LifeOK' /\ OutOK'
<1>1. LifeOK'
  BY LivesOn DEF Pollable, Lives, RoutinesOK
<1>2. woken' \in [Machines -> BOOLEAN]
  BY DEF RoutinesOK, OutOK
<1>3. QED
  BY <1>1, <1>2, NothingOut DEF RoutinesOK

LEMMA AnswerPut ==
  ASSUME MailOK, NEW m \in Machines, NEW id, Open(m, id), NEW n \in Int,
         mail' = [mail EXCEPT ![m][id] = n], minted' = minted, asked' = asked
  PROVE  MailOK' /\ DOMAIN mail'[m] = DOMAIN mail[m]
<1>1. /\ DOMAIN mail[m] \subseteq 1 .. minted[m] /\ minted[m] \in Nat
      /\ mail[m] \in [DOMAIN mail[m] -> Int] /\ id \in DOMAIN mail[m]
  BY MailIs DEF Open
<1>2. [mail[m] EXCEPT ![id] = n] \in [DOMAIN mail[m] -> Int]
  BY <1>1
<1>3. DOMAIN mail[m] \in SUBSET Nat
  BY <1>1
<1>4. [mail[m] EXCEPT ![id] = n] \in Mails
  BY <1>2, <1>3, MailsAre
<1>5. mail' = [mail EXCEPT ![m] = [mail[m] EXCEPT ![id] = n]]
  OBVIOUS
<1>6. mail' \in [Machines -> Mails]
  BY <1>4, <1>5 DEF MailOK
<1>7. \A x \in Machines : DOMAIN mail'[x] = DOMAIN mail[x]
  BY <1>2, <1>5 DEF MailOK
<1>8. QED
  BY <1>6, <1>7 DEF MailOK

LEMMA ResumesOK ==
  ASSUME RoutinesOK, NEW m \in Machines, Resumes(m)
  PROVE  RoutinesOK'
<1>1. LifeOK' /\ OutOK'
  BY PollBegins DEF Resumes
<1>2. PlaceOK' /\ MailOK' /\ EndsOK' /\ ChannelsOK'
  BY DEF Resumes, RoutinesOK, PlaceOK, MailOK, EndsOK, ChannelsOK
<1>3. QED
  BY <1>1, <1>2 DEF RoutinesOK

LEMMA RepliesOK ==
  ASSUME RoutinesOK, NEW m \in Machines, NEW id, NEW n \in Int, Replies(m, id, n)
  PROVE  RoutinesOK'
<1>1. LifeOK' /\ OutOK'
  BY PollBegins DEF Replies
<1>2. MailOK'
  BY AnswerPut DEF Replies, RoutinesOK
<1>3. PlaceOK' /\ EndsOK' /\ ChannelsOK'
  BY DEF Replies, RoutinesOK, PlaceOK, EndsOK, ChannelsOK
<1>4. QED
  BY <1>1, <1>2, <1>3 DEF RoutinesOK

LEMMA DeliversOK ==
  ASSUME RoutinesOK, NEW m \in Machines, NEW id, NEW n \in Int, Delivers(m, id, n)
  PROVE  RoutinesOK'
<1>1. MailOK'
  BY AnswerPut DEF Delivers, RoutinesOK
<1>2. LifeOK' /\ PlaceOK' /\ EndsOK' /\ ChannelsOK' /\ OutOK'
  BY DEF Delivers, RoutinesOK, LifeOK, PlaceOK, EndsOK, ChannelsOK, OutOK
<1>3. QED
  BY <1>1, <1>2 DEF RoutinesOK

LEMMA ReadsOK ==
  ASSUME RoutinesOK, NEW m \in Machines, Reads(m)
  PROVE  RoutinesOK'
<1>1. LifeOK'
  <2>1. life[m] # "none" /\ (IF life[m] = "returned" THEN "done" ELSE "waiting") \in Lives
    BY DEF Reads, Lives
  <2>2. QED
    BY <2>1, LivesOn DEF Reads, RoutinesOK
<1>2. OutOK'
  <2>1. woken' \in [Machines -> BOOLEAN]
    BY DEF Reads, RoutinesOK, OutOK
  <2>2. QED
    BY <2>1, NothingOut DEF Reads, RoutinesOK
<1>3. PlaceOK' /\ MailOK' /\ EndsOK' /\ ChannelsOK'
  BY DEF Reads, RoutinesOK, PlaceOK, MailOK, EndsOK, ChannelsOK
<1>4. QED
  BY <1>1, <1>2, <1>3 DEF RoutinesOK

LEMMA KillsOK ==
  ASSUME RoutinesOK, NEW m \in Machines, life[m] # "none", Kills(m)
  PROVE  RoutinesOK' /\ Hears(m, ends[m]) \in SUBSET Machines
<1> DEFINE E == ends[m]
<1>1. /\ life' = [life EXCEPT ![m] = "dropped"]
      /\ ends' = [ends EXCEPT ![m] = {}]
      /\ mail' = [mail EXCEPT ![m] = << >>]
      /\ asked' = [asked EXCEPT ![m] = << >>]
      /\ ears' = EarsWithout(m, E) /\ msgs' = msgs
      /\ woken' = [x \in Machines |-> woken[x] \/ x \in Hears(m, E)]
      /\ UNCHANGED <<demo, code, at, got, minted, out>>
  BY DEF Kills
<1>2. LifeOK'
  BY <1>1, LivesOn DEF Lives, RoutinesOK
<1> HIDE DEF E
<1>3. ChannelsOK' /\ Hears(m, E) \in SUBSET Machines
  BY <1>1, EarsAre DEF RoutinesOK
<1>4. OutOK'
  <2>1. \A x \in Machines : (woken[x] \/ x \in Hears(m, E)) \in BOOLEAN
    BY Zenon
  <2>2. woken' \in [Machines -> BOOLEAN]
    BY <1>1, <2>1
  <2>3. QED
    BY <1>1, <2>2 DEF RoutinesOK, OutOK
<1>5. MailOK'
  <2>1. << >> \in Seq(Nat)
    OBVIOUS
  <2>2. asked' \in [Machines -> Seq(Nat)] /\ minted' \in [Machines -> Nat]
    BY <1>1, <2>1 DEF RoutinesOK, MailOK
  <2>3. mail' \in [Machines -> Mails]
    BY <1>1, NoMailIs DEF RoutinesOK, MailOK
  <2>4. \A x \in Machines : DOMAIN mail'[x] \subseteq 1 .. minted'[x]
    BY <1>1, NoMailIs DEF RoutinesOK, MailOK
  <2>5. QED
    BY <2>2, <2>3, <2>4 DEF MailOK
<1>6. EndsOK'
  BY <1>1 DEF RoutinesOK, EndsOK
<1>7. PlaceOK'
  BY <1>1 DEF RoutinesOK, PlaceOK
<1>8. QED
  BY <1>2, <1>3, <1>4, <1>5, <1>6, <1>7 DEF RoutinesOK, E

LEMMA RestOK ==
  ASSUME RoutinesOK, UNCHANGED routines
  PROVE  RoutinesOK'
  BY DEF routines, RoutinesOK, LifeOK, PlaceOK, MailOK, EndsOK, ChannelsOK, OutOK

LEMMA RootIs ==
  ASSUME NEW d \in Roots
  PROVE  <<d, 0>> \in Kin(d)
  BY DEF Roots, Kin

LEMMA RoutinesStart ==
  ASSUME RoutinesInit
  PROVE  RoutinesOK
<1>1. LifeOK
  <2>1. demo \in Demos /\ demo \in Roots
    BY RoutinesAssumption DEF RoutinesInit
  <2>2. <<demo, 0>> \in Kin(demo)
    BY <2>1, RootIs
  <2>3. life \in [Machines -> Lives]
    BY DEF RoutinesInit, Lives
  <2>4. \A m \in Machines : code[m] = IF m = Root THEN <<demo, 0>> ELSE NoName
    BY DEF RoutinesInit, NoName
  <2>5. code \in [Machines -> Kin(demo) \cup {NoName}]
    <3>1. code = [m \in Machines |-> code[m]]
      BY DEF RoutinesInit
    <3>2. QED
      BY <2>2, <2>4, <3>1
  <2>6. \A m \in Machines : life[m] # "none" => m = Root
    BY DEF RoutinesInit
  <2>7. QED
    BY <2>1, <2>2, <2>3, <2>4, <2>5, <2>6 DEF LifeOK
<1>2. PlaceOK
  <2>1. 1 \in Nat \ {0} /\ 0 \in Int
    OBVIOUS
  <2>2. QED
    BY <2>1 DEF RoutinesInit, PlaceOK
<1>3. MailOK
  <2>1. << >> \in Seq(Nat)
    OBVIOUS
  <2>2. asked \in [Machines -> Seq(Nat)] /\ minted \in [Machines -> Nat]
    BY <2>1 DEF RoutinesInit
  <2>3. mail \in [Machines -> Mails] /\ \A m \in Machines : DOMAIN mail[m] = {}
    BY NoMailIs DEF RoutinesInit
  <2>4. QED
    BY <2>2, <2>3 DEF MailOK
<1>4. EndsOK
  <2>1. ends = [m \in Machines |-> IF m = Root THEN EndsOf(demo) ELSE {}]
    BY DEF RoutinesInit, EndsOf
  <2>2. QED
    BY <2>1 DEF EndsOK
<1>5. ChannelsOK
  <2>1. << >> \in Seq(Int)
    OBVIOUS
  <2>2. QED
    BY <2>1 DEF RoutinesInit, ChannelsOK
<1>6. OutOK
  BY NothingIs DEF RoutinesInit, OutOK
<1>7. QED
  BY <1>1, <1>2, <1>3, <1>4, <1>5, <1>6 DEF RoutinesOK

\* The types as the model states them.
LEMMA RoutinesTypes ==
  ASSUME RoutinesOK
  PROVE  RoutinesTypeOK
<1>1. \A m \in Machines : life[m] # "none" => code[m] \in Routine
  BY CodeIs DEF RoutinesOK, LifeOK
<1>2. demo \in Demos /\ life \in [Machines -> Lives]
  BY DEF RoutinesOK, LifeOK
<1>3. \A m \in Machines : at[m] \in Nat /\ got[m] \in Int /\ minted[m] \in Nat
  BY DEF RoutinesOK, PlaceOK, MailOK
<1>4. \A m \in Machines : asked[m] \in Seq(Nat) /\ DOMAIN mail[m] \subseteq 1 .. minted[m]
  BY DEF RoutinesOK, MailOK
<1>5. \A m \in Machines :
        ends[m] \subseteq {Tx(c) : c \in Channels} \cup {Rx(c) : c \in Channels}
  <2>1. Made[demo] \in SUBSET Channels
    BY <1>2, ChannelsAre
  <2>2. \A m \in Machines : ends[m] \subseteq EndsOf(demo)
    BY DEF RoutinesOK, EndsOK
  <2>3. QED
    BY <2>1, <2>2 DEF EndsOf
<1>6. \A c \in Channels : msgs[c] \in Seq(Int) /\ ears[c] \subseteq Machines
  BY DEF RoutinesOK, ChannelsOK
<1>7. woken \in [Machines -> BOOLEAN]
  BY DEF RoutinesOK, OutOK
<1>8. \A m \in Machines :
        /\ out[m].effects \in Seq(Effect)
        /\ out[m].closed \in Seq(Nat)
        /\ out[m].woke \in Seq(Machines)
  <2>1. \A m \in Machines : out[m].effects \in Seq(GoodEffect)
             /\ out[m].closed \in Seq(Nat) /\ out[m].woke \in Seq(Machines)
    BY DEF RoutinesOK, OutOK, Outs
  <2>2. GoodEffect \subseteq Effect
    BY DEF GoodEffect
  <2>3. QED
    BY <2>1, <2>2
<1>9. QED
  BY <1>1, <1>2, <1>3, <1>4, <1>5, <1>6, <1>7, <1>8 DEF RoutinesTypeOK


-----------------------------------------------------------------------------
(* The types of the single-threaded hosts                                   *)

GoodItem == {a \in Item : a.effect \in GoodEffect}
Written == [text : Text, n : Int]
HostNames == {"fifo", "choices", "plain", "seeded", "java", "tokio", "js"}

HeadsOK ==
  /\ host \in HostNames /\ phase \in {"top", "pick"}
  /\ stutters \in Nat /\ refused \in BOOLEAN
  /\ verdict \in {"running", "completed", "stalled"}
WorldOK == world \in World /\ written \in Seq(Written)
ClockOK ==
  /\ now \in Nat /\ timers \in Seq(Timer) /\ heard \in Seq(Machines)
  /\ closed \in SUBSET (Machines \X Nat) /\ killed \in SUBSET Machines
QueueOK == queue \in Seq(GoodItem)
LoopOK == HeadsOK /\ WorldOK /\ ClockOK /\ QueueOK

LEMMA LoopTypes ==
  ASSUME LoopOK
  PROVE  LoopTypeOK
<1>1. queue \in Seq(Item)
  <2>1. GoodItem \subseteq Item
    BY DEF GoodItem
  <2>2. QED
    BY <2>1 DEF LoopOK, QueueOK
<1>2. written \in Seq([text : Text, n : Int])
  BY DEF LoopOK, WorldOK, Written
<1>3. QED
  BY <1>1, <1>2 DEF LoopOK, HeadsOK, WorldOK, ClockOK, LoopTypeOK, HostNames

LEMMA NoEffectIs ==
  NoEffect \in GoodEffect
<1>1. "" \in Text /\ 0 \in Nat /\ 0 \in Int /\ "write" \in Asks \cup {"write"}
  BY DEF Text
<1>2. QED
  BY <1>1, EffectIs DEF NoEffect

LEMMA LanesAre ==
  \A m \in Machines : m \in 0 .. MaxMachine /\ m \in Nat /\ m # 0
  BY Rounding DEF Machines

LEMMA ItemsAre ==
  ASSUME NEW m \in Machines, NEW e \in GoodEffect, NEW n \in Int
  PROVE  /\ EffectOf(m, e) \in GoodItem /\ ReplyTo(m, e, n) \in GoodItem
         /\ ResumeOf(m) \in GoodItem
         /\ \A x \in Machines : [ResumeOf(m) EXCEPT !.lane = x] \in GoodItem
<1>1. e \in Effect /\ NoEffect \in Effect /\ NoEffect \in GoodEffect
  BY NoEffectIs DEF GoodEffect
<1>2. m \in 0 .. MaxMachine /\ 0 \in 0 .. MaxMachine /\ 0 \in Int
  BY LanesAre, Rounding
<1>3. EffectOf(m, e) \in Item /\ EffectOf(m, e).effect = e
  BY <1>1, <1>2 DEF EffectOf, Item
<1>4. ReplyTo(m, e, n) \in Item /\ ReplyTo(m, e, n).effect = e
  BY <1>1, <1>2 DEF ReplyTo, Item
<1>5. ResumeOf(m) \in Item /\ ResumeOf(m).effect = NoEffect
  BY <1>1, <1>2 DEF ResumeOf, Item
<1>6. \A x \in Machines : /\ [ResumeOf(m) EXCEPT !.lane = x] \in Item
                          /\ [ResumeOf(m) EXCEPT !.lane = x].effect = NoEffect
  <2> TAKE x \in Machines
  <2>1. x \in 0 .. MaxMachine
    BY LanesAre
  <2>2. QED
    BY <2>1, <1>5 DEF Item
<1>7. QED
  BY <1>1, <1>3, <1>4, <1>5, <1>6 DEF GoodItem

LEMMA ItemIs ==
  ASSUME NEW a \in GoodItem
  PROVE  /\ a.m \in Machines /\ a.effect \in GoodEffect /\ a.n \in Int
         /\ a.effect.id \in Nat /\ a.effect.text \in Text /\ a.effect.n \in Int
         /\ a.effect.kind \in {"spawned", "spawned_pinned"} => a.effect.id \in Machines
         /\ a.lane \in 0 .. MaxMachine
<1>1. a \in Item /\ a.effect \in GoodEffect
  BY DEF GoodItem
<1>2. a.effect \in Effect
  BY <1>1 DEF GoodEffect
<1>3. QED
  BY <1>1, <1>2 DEF Item, Effect, GoodEffect

LEMMA AnswerIs ==
  ASSUME world \in World, NEW e
  PROVE  /\ AnswerTo(world, e) \in Int /\ HandlerAnswer(e) \in Int
         /\ e.n \in Int => WorldAfter(world, e) \in World
<1>1. /\ world.lines \in 0 .. Lines /\ world.greeted \in Nat /\ world.file \in Int
      /\ Lines \in Nat
  BY RoutinesAssumption DEF World
<1>2. AnswerTo(world, e) \in Int
  <2>1. /\ Lines - world.lines + 1 \in Int /\ Ended \in Int /\ world.greeted + 1 \in Int
        /\ world.file \in Int /\ 0 \in Int
    BY <1>1 DEF Ended
  <2>2. QED
    BY <2>1 DEF AnswerTo
<1>3. HandlerAnswer(e) \in Int
  BY <1>2 DEF HandlerAnswer
<1>4. ASSUME e.n \in Int
      PROVE  WorldAfter(world, e) \in World
  <2>1. world.lines > 0 => world.lines - 1 \in 0 .. Lines
    BY <1>1
  <2>2. world.greeted + 1 \in Nat
    BY <1>1
  <2>3. /\ world.lines > 0 => [world EXCEPT !.lines = world.lines - 1] \in World
        /\ [world EXCEPT !.greeted = world.greeted + 1] \in World
        /\ [world EXCEPT !.file = e.n] \in World
    BY <2>1, <2>2, <1>4 DEF World
  <2>4. QED
    BY <2>3 DEF WorldAfter
<1>5. QED
  BY <1>2, <1>3, <1>4

LEMMA WrittenIs ==
  ASSUME WorldOK, NEW text \in Text, NEW n \in Int
  PROVE  Append(written, Line(text, n)) \in Seq(Written)
<1>1. Line(text, n) \in Written
  BY DEF Line, Written
<1>2. written \in Seq(Written)
  BY DEF WorldOK
<1>3. QED
  BY <1>1, <1>2, AppendIs

LEMMA MappedIs ==
  ASSUME NEW S, NEW n \in Nat, NEW f \in [1 .. n -> S]
  PROVE  f \in Seq(S)
  OBVIOUS

LEMMA TimerIs ==
  ASSUME ClockOK, NEW m \in Machines, NEW e \in GoodEffect, NEW kind
  PROVE  /\ Append(timers, [due |-> now + Delay(kind), m |-> m, effect |-> e]) \in Seq(Timer)
<1>1. now + Delay(kind) \in Nat
  BY DEF ClockOK, Delay
<1>2. e \in Effect
  BY DEF GoodEffect
<1>3. [due |-> now + Delay(kind), m |-> m, effect |-> e] \in Timer
  BY <1>1, <1>2 DEF Timer
<1>4. timers \in Seq(Timer)
  BY DEF ClockOK
<1>5. QED
  BY <1>3, <1>4, AppendIs

\* The timer due first is one of the timers.
LEMMA NextTimerIs ==
  ASSUME ClockOK, timers # << >>
  PROVE  /\ NextTimer \in 1 .. Len(timers)
         /\ timers[NextTimer] \in Timer
         /\ timers[NextTimer].m \in Machines /\ timers[NextTimer].effect.id \in Nat
         /\ timers[NextTimer].due \in Nat
         /\ RemoveAt(timers, NextTimer) \in Seq(Timer)
<1> DEFINE L == Len(timers)
           Dues == {timers[i].due : i \in 1 .. L}
<1>1. /\ timers \in Seq(Timer) /\ DOMAIN timers = 1 .. L /\ L \in Nat /\ L > 0
      /\ \A i \in 1 .. L : timers[i] \in Timer /\ timers[i].due \in Nat
  <2>1. timers \in Seq(Timer) /\ timers # << >>
    BY DEF ClockOK
  <2>2. L \in Nat /\ L > 0 /\ DOMAIN timers = 1 .. L /\ \A i \in 1 .. L : timers[i] \in Timer
    BY <2>1
  <2>3. QED
    BY <2>1, <2>2 DEF Timer
<1> HIDE DEF L
<1>2. PICK d \in Dues : \A x \in Dues : ~(x < d)
  <2>1. Dues \subseteq Nat /\ Dues # {}
    <3>1. 1 \in 1 .. L
      BY <1>1
    <3>2. QED
      BY <1>1, <3>1
  <2> HIDE DEF Dues
  <2>2. QED
    BY <2>1, LeastExists
<1>3. d \in Nat /\ \A i \in 1 .. L : d <= timers[i].due
  <2>1. \A i \in 1 .. L : timers[i].due \in Dues /\ timers[i].due \in Nat
    BY <1>1
  <2>2. d \in Nat
    BY <1>1
  <2> HIDE DEF Dues
  <2>3. \A i \in 1 .. L : ~(timers[i].due < d) /\ timers[i].due \in Nat
    BY <2>1, <1>2, Zenon
  <2>4. QED
    BY <2>2, <2>3
<1> DEFINE T == {i \in 1 .. L : timers[i].due = d}
<1>4. PICK k \in T : \A x \in T : ~(x < k)
  <2>1. T \subseteq Nat /\ T # {}
    BY <1>2
  <2> HIDE DEF T
  <2>2. QED
    BY <2>1, LeastExists
<1>5. k \in 1 .. L /\ timers[k].due = d
  BY <1>4
<1>6. \A j \in 1 .. L : j # k =>
        \/ timers[k].due < timers[j].due
        \/ timers[k].due = timers[j].due /\ k < j
  <2> TAKE j \in 1 .. L
  <2> HAVE j # k
  <2>1. CASE timers[j].due = d
    <3>1. j \in T
      BY <2>1
    <3>2. ~(j < k)
      BY <3>1, <1>4
    <3>3. k < j
      BY <3>2, <1>5, <1>1
    <3>4. QED
      BY <3>3, <2>1, <1>5
  <2>2. CASE timers[j].due # d
    <3>1. d <= timers[j].due /\ timers[j].due \in Nat /\ d \in Nat
      BY <1>1, <1>3
    <3>2. d < timers[j].due
      BY <2>2, <3>1
    <3>3. timers[k].due < timers[j].due
      BY <3>2, <1>5, Zenon
    <3>4. QED
      BY <3>3, Zenon
  <2>3. QED
    BY <2>1, <2>2
<1> HIDE DEF T, Dues
<1> DEFINE First(i) == \A j \in DOMAIN timers \ {i} :
                          \/ timers[i].due < timers[j].due
                          \/ timers[i].due = timers[j].due /\ i < j
<1>7. \E i \in DOMAIN timers : First(i)
  BY <1>1, <1>5, <1>6
<1>8. NextTimer \in DOMAIN timers
  BY <1>7 DEF NextTimer
<1> HIDE DEF First
<1>9. timers[NextTimer] \in Timer
  BY <1>1, <1>8
<1>10. timers[NextTimer].m \in Machines /\ timers[NextTimer].due \in Nat
       /\ timers[NextTimer].effect.id \in Nat
  BY <1>9 DEF Timer, Effect
<1>11. RemoveAt(timers, NextTimer) \in Seq(Timer)
  BY <1>1, <1>8, RemoveIs DEF L
<1>12. QED
  BY <1>1, <1>8, <1>9, <1>10, <1>11 DEF L

LEMMA LoopRests ==
  ASSUME LoopOK, UNCHANGED loop
  PROVE  LoopOK'
  BY DEF loop, LoopOK, HeadsOK, WorldOK, ClockOK, QueueOK

LEMMA QueueKept ==
  ASSUME LoopOK, NEW i \in 1 .. Len(queue)
  PROVE  RemoveAt(queue, i) \in Seq(GoodItem) /\ queue[i] \in GoodItem
<1>1. queue \in Seq(GoodItem)
  BY DEF LoopOK, QueueOK
<1>2. QED
  BY <1>1, RemoveIs, RangeIs

LEMMA TakenTypes ==
  ASSUME LoopOK
  PROVE  /\ Taken \in Seq(GoodItem)
         /\ \A i \in 1 .. Len(Taken) : Taken[i] \in GoodItem /\ RemoveAt(Taken, i) \in Seq(GoodItem)
         /\ DOMAIN Taken = 1 .. Len(Taken)
<1>1. queue \in Seq(GoodItem) /\ heard \in Seq(Machines)
  BY DEF LoopOK, QueueOK, ClockOK
<1>2. \A m \in Machines : ResumeOf(m) \in GoodItem
  BY ItemsAre, NoEffectIs
<1>3. Taken \in Seq(GoodItem)
  BY <1>1, <1>2, TakenIs
<1>4. QED
  BY <1>3, RemoveIs, RangeIs

LEMMA ChoosableIs ==
  ASSUME LoopOK, Taken # << >>
  PROVE  Choosable \subseteq 1 .. Len(Taken)
<1>1. Taken \in Seq(GoodItem) /\ DOMAIN Taken = 1 .. Len(Taken)
  BY TakenTypes
<1>2. 1 \in 1 .. Len(Taken)
  BY <1>1
<1>3. QED
  BY <1>1, <1>2 DEF Choosable, Eligible

LEMMA KillTypes ==
  ASSUME RoutinesOK, LoopOK, Kill
  PROVE  RoutinesOK' /\ LoopOK'
<1>1. PICK m \in Adopted :
        /\ Kills(m)
        /\ killed' = IF life[m] = "done" THEN killed ELSE killed \cup {m}
        /\ timers' = Only(timers, {t \in Timer : t.m # m})
        /\ heard' = Hooked(Hears(m, ends[m]))
        /\ queue' = Taken
  BY DEF Kill
<1>2. m \in Machines /\ life[m] # "none"
  BY DEF Adopted
<1>3. RoutinesOK' /\ Hears(m, ends[m]) \in SUBSET Machines
  BY <1>1, <1>2, KillsOK
<1>4. heard' \in Seq(Machines)
  BY <1>1, <1>3, HookedIs DEF RoutinesOK
<1>5. timers' \in Seq(Timer)
  <2> DEFINE S == {t \in Timer : t.m # m}
  <2>1. timers \in Seq(Timer)
    BY DEF LoopOK, ClockOK
  <2> HIDE DEF S
  <2>2. Only(timers, S) \in Seq(Timer \cap S)
    BY <2>1, OnlyIs
  <2>3. Only(timers, S) \in Seq(Timer)
    BY <2>2
  <2>4. QED
    BY <1>1, <2>3 DEF S
<1>6. killed' \in SUBSET Machines
  BY <1>1, <1>2 DEF LoopOK, ClockOK
<1>7. ClockOK'
  BY <1>4, <1>5, <1>6 DEF Kill, LoopOK, ClockOK
<1>8. QueueOK'
  BY <1>1, TakenTypes DEF QueueOK
<1>9. HeadsOK' /\ WorldOK'
  BY DEF Kill, LoopOK, HeadsOK, WorldOK
<1>10. QED
  BY <1>3, <1>7, <1>8, <1>9 DEF LoopOK

LEMMA StutterTypes ==
  ASSUME RoutinesOK, LoopOK, Stutter
  PROVE  RoutinesOK' /\ LoopOK'
<1>1. RoutinesOK'
  BY ResumesOK DEF Stutter, Adopted
<1>2. QueueOK'
  BY TakenTypes DEF Stutter, QueueOK
<1>3. << >> \in Seq(Machines)
  OBVIOUS
<1>4. HeadsOK' /\ WorldOK' /\ ClockOK'
  BY <1>3 DEF Stutter, LoopOK, HeadsOK, WorldOK, ClockOK
<1>5. QED
  BY <1>1, <1>2, <1>4 DEF LoopOK

\* What m's poll recorded, as items of the queue.
LEMMA RecordedIs ==
  ASSUME RoutinesOK, NEW m \in Machines
  PROVE  /\ [i \in DOMAIN out[m].effects |-> EffectOf(m, out[m].effects[i])] \in Seq(GoodItem)
         /\ out[m].woke \in Seq(Machines) /\ out[m].closed \in Seq(Nat)
         /\ [i \in DOMAIN out[m].woke |-> [ResumeOf(out[m].woke[i]) EXCEPT !.lane = m]]
              \in Seq(GoodItem)
<1> DEFINE e == out[m].effects
           w == out[m].woke
<1>1. e \in Seq(GoodEffect) /\ w \in Seq(Machines) /\ out[m].closed \in Seq(Nat)
  BY DEF RoutinesOK, OutOK, Outs
<1> HIDE DEF e, w
<1>2. /\ DOMAIN e = 1 .. Len(e) /\ Len(e) \in Nat /\ \A i \in 1 .. Len(e) : e[i] \in GoodEffect
      /\ DOMAIN w = 1 .. Len(w) /\ Len(w) \in Nat /\ \A i \in 1 .. Len(w) : w[i] \in Machines
  BY <1>1, RangeIs
<1>3. \A i \in 1 .. Len(e) : EffectOf(m, e[i]) \in GoodItem
  BY <1>2, ItemsAre
<1>4. \A i \in 1 .. Len(w) : [ResumeOf(w[i]) EXCEPT !.lane = m] \in GoodItem
  BY <1>2, ItemsAre, NoEffectIs
<1>5. [i \in 1 .. Len(e) |-> EffectOf(m, e[i])] \in Seq(GoodItem)
  BY <1>2, <1>3, MappedIs
<1>6. [i \in 1 .. Len(w) |-> [ResumeOf(w[i]) EXCEPT !.lane = m]] \in Seq(GoodItem)
  BY <1>2, <1>4, MappedIs
<1>7. QED
  BY <1>1, <1>2, <1>5, <1>6 DEF e, w

LEMMA YieldsTypes ==
  ASSUME RoutinesOK, LoopOK, Yields
  PROVE  RoutinesOK' /\ LoopOK'
<1>1. PICK m \in Machines :
        /\ Reads(m)
        /\ queue' = queue \o [i \in DOMAIN out[m].effects |-> EffectOf(m, out[m].effects[i])]
        /\ heard' = heard \o out[m].woke
  BY DEF Yields
<1>2. RoutinesOK'
  BY <1>1, ReadsOK
<1>3. QueueOK'
  BY <1>1, RecordedIs, ConcatProperties DEF LoopOK, QueueOK
<1>4. heard' \in Seq(Machines)
  BY <1>1, RecordedIs, ConcatProperties DEF LoopOK, ClockOK
<1>5. HeadsOK' /\ WorldOK' /\ ClockOK'
  BY <1>4 DEF Yields, LoopOK, HeadsOK, WorldOK, ClockOK
<1>6. QED
  BY <1>2, <1>3, <1>5 DEF LoopOK

LEMMA HandleTypes ==
  ASSUME RoutinesOK, LoopOK, Handle
  PROVE  RoutinesOK' /\ LoopOK'
<1>1. PICK i \in Choosable :
        LET a == Taken[i]
            e == a.effect
            rest == RemoveAt(Taken, i)
        IN /\ a.kind = "effect"
           /\ world' = WorldAfter(world, e)
           /\ written' = IF e.kind = "write"
                           THEN Append(written, Line(e.text, e.n)) ELSE written
           /\ timers' = IF e.kind \in Sleeps
                          THEN Append(timers, [due |-> now + Delay(e.kind),
                                               m |-> a.m, effect |-> e])
                          ELSE timers
           /\ queue' =
                CASE e.kind \in Asks \ Sleeps ->
                       Append(rest, ReplyTo(a.m, e, HandlerAnswer(e)))
                  [] e.kind \in {"spawned", "spawned_pinned"} ->
                       Append(rest, ResumeOf(e.id))
                  [] OTHER -> rest
  BY DEF Handle
<1> DEFINE a == Taken[i]
           e == a.effect
           rest == RemoveAt(Taken, i)
<1>2. Taken # << >>
  BY DEF Handle
<1>3. a \in GoodItem /\ rest \in Seq(GoodItem)
  BY <1>2, ChoosableIs, TakenTypes
<1>4. /\ a.m \in Machines /\ e \in GoodEffect /\ e.text \in Text /\ e.n \in Int
      /\ e.kind \in {"spawned", "spawned_pinned"} => e.id \in Machines
  BY <1>3, ItemIs
<1>5. /\ world' = WorldAfter(world, e)
      /\ written' = IF e.kind = "write" THEN Append(written, Line(e.text, e.n)) ELSE written
      /\ timers' = IF e.kind \in Sleeps
                     THEN Append(timers, [due |-> now + Delay(e.kind), m |-> a.m, effect |-> e])
                     ELSE timers
      /\ \/ e.kind \in Asks \ Sleeps /\ queue' = Append(rest, ReplyTo(a.m, e, HandlerAnswer(e)))
         \/ e.kind \in {"spawned", "spawned_pinned"} /\ queue' = Append(rest, ResumeOf(e.id))
         \/ queue' = rest
  BY <1>1
<1> HIDE DEF a, e, rest
<1>6. WorldOK'
  <2>1. world \in World /\ written \in Seq(Written)
    BY DEF LoopOK, WorldOK
  <2>2. world' \in World
    BY <1>4, <1>5, <2>1, AnswerIs
  <2>3. written' \in Seq(Written)
    BY <1>4, <1>5, <2>1, WrittenIs DEF LoopOK
  <2>4. QED
    BY <2>2, <2>3 DEF WorldOK
<1>7. timers' \in Seq(Timer)
  BY <1>4, <1>5, TimerIs DEF LoopOK, ClockOK
<1>8. << >> \in Seq(Machines)
  OBVIOUS
<1>9. ClockOK'
  BY <1>7, <1>8 DEF Handle, Turned, LoopOK, ClockOK
<1>10. QueueOK'
  <2>1. HandlerAnswer(e) \in Int
    BY AnswerIs DEF LoopOK, WorldOK
  <2>2. ReplyTo(a.m, e, HandlerAnswer(e)) \in GoodItem
    BY <1>4, <2>1, ItemsAre
  <2>3. e.kind \in {"spawned", "spawned_pinned"} => ResumeOf(e.id) \in GoodItem
    BY <1>4, ItemsAre
  <2>4. QED
    BY <1>3, <1>5, <2>2, <2>3, AppendIs DEF QueueOK
<1>11. HeadsOK'
  BY DEF Handle, Turned, LoopOK, HeadsOK
<1>12. RoutinesOK'
  BY RestOK DEF Handle
<1>13. QED
  BY <1>6, <1>9, <1>10, <1>11, <1>12 DEF LoopOK

LEMMA DeliverOK ==
  ASSUME RoutinesOK, NEW a \in GoodItem, Deliver(a)
  PROVE  RoutinesOK'
<1>1. a.m \in Machines /\ a.n \in Int
  BY ItemIs
<1>2. \/ Replies(a.m, a.effect.id, a.n) \/ Resumes(a.m) \/ UNCHANGED routines
  BY DEF Deliver
<1>3. QED
  BY <1>1, <1>2, RepliesOK, ResumesOK, RestOK

LEMMA CallTypes ==
  ASSUME RoutinesOK, LoopOK, Call
  PROVE  RoutinesOK' /\ LoopOK'
<1>1. PICK i \in Choosable : Deliver(Taken[i]) /\ queue' = RemoveAt(Taken, i)
  BY DEF Call
<1>2. Taken[i] \in GoodItem /\ RemoveAt(Taken, i) \in Seq(GoodItem)
  BY ChoosableIs, TakenTypes DEF Call
<1>3. RoutinesOK'
  BY <1>1, <1>2, DeliverOK
<1>4. << >> \in Seq(Machines)
  OBVIOUS
<1>5. QueueOK'
  BY <1>1, <1>2 DEF QueueOK
<1>6. HeadsOK' /\ WorldOK' /\ ClockOK'
  BY <1>4 DEF Call, Turned, LoopOK, HeadsOK, WorldOK, ClockOK
<1>7. QED
  BY <1>3, <1>5, <1>6 DEF LoopOK

LEMMA FireTypes ==
  ASSUME RoutinesOK, LoopOK, Fire
  PROVE  RoutinesOK' /\ LoopOK'
<1> DEFINE t == timers[NextTimer]
<1>1. /\ timers # << >> /\ Deliver(ReplyTo(t.m, t.effect, 0))
      /\ now' = (IF t.due > now THEN t.due ELSE now)
      /\ timers' = RemoveAt(timers, NextTimer)
  BY DEF Fire
<1>2. t \in Timer /\ t.m \in Machines /\ t.due \in Nat /\ timers' \in Seq(Timer)
  BY <1>1, NextTimerIs DEF LoopOK
<1> HIDE DEF t
<1>3. RoutinesOK'
  <2> DEFINE a == ReplyTo(t.m, t.effect, 0)
  <2>1. a.m = t.m /\ a.n = 0 /\ a.kind = "reply" /\ a.effect = t.effect
    BY DEF ReplyTo
  <2>2. Deliver(a)
    BY <1>1
  <2> HIDE DEF a
  <2>3. Replies(t.m, t.effect.id, 0) \/ UNCHANGED routines
    BY <2>1, <2>2 DEF Deliver
  <2>4. QED
    BY <1>2, <2>3, RepliesOK, RestOK
<1>4. now' \in Nat
  BY <1>1, <1>2 DEF LoopOK, ClockOK
<1>5. << >> \in Seq(Machines)
  OBVIOUS
<1>6. ClockOK'
  BY <1>2, <1>4, <1>5 DEF Fire, Turned, LoopOK, ClockOK
<1>7. HeadsOK' /\ WorldOK' /\ QueueOK'
  BY DEF Fire, Turned, LoopOK, HeadsOK, WorldOK, QueueOK
<1>8. QED
  BY <1>3, <1>6, <1>7 DEF LoopOK

LEMMA JudgeTypes ==
  ASSUME RoutinesOK, LoopOK, Judge
  PROVE  RoutinesOK' /\ LoopOK'
<1>1. RoutinesOK'
  BY RestOK DEF Judge
<1>2. << >> \in Seq(Machines)
  OBVIOUS
<1>3. LoopOK'
  BY <1>2 DEF Judge, Turned, LoopOK, HeadsOK, WorldOK, ClockOK, QueueOK
<1>4. QED
  BY <1>1, <1>3

LEMMA DriveTypes ==
  ASSUME RoutinesOK, LoopOK, DriveNext
  PROVE  RoutinesOK' /\ LoopOK'
  BY KillTypes, StutterTypes, YieldsTypes, HandleTypes, CallTypes, FireTypes, JudgeTypes
     DEF DriveNext

LEMMA TurnIs ==
  ASSUME LoopOK
  PROVE  Turn \subseteq 1 .. Len(queue)
<1>1. DOMAIN queue = 1 .. Len(queue)
  BY DEF LoopOK, QueueOK
<1>2. QED
  BY <1>1 DEF Turn

LEMMA RanTypes ==
  ASSUME RoutinesOK, LoopOK, Ran
  PROVE  RoutinesOK' /\ LoopOK'
<1>1. PICK m \in Machines :
        /\ Reads(m)
        /\ queue' = queue
                    \o [i \in DOMAIN out[m].effects |-> EffectOf(m, out[m].effects[i])]
                    \o [i \in DOMAIN out[m].woke |->
                          [ResumeOf(out[m].woke[i]) EXCEPT !.lane = m]]
        /\ closed' = closed \cup {<<m, id>> : id \in Range(out[m].closed)}
  BY DEF Ran
<1> DEFINE e == [i \in DOMAIN out[m].effects |-> EffectOf(m, out[m].effects[i])]
           w == [i \in DOMAIN out[m].woke |-> [ResumeOf(out[m].woke[i]) EXCEPT !.lane = m]]
<1>2. e \in Seq(GoodItem) /\ w \in Seq(GoodItem) /\ out[m].closed \in Seq(Nat)
      /\ queue \in Seq(GoodItem)
  BY RecordedIs DEF LoopOK, QueueOK
<1>3. queue' = queue \o e \o w
  BY <1>1
<1> HIDE DEF e, w
<1>4. QueueOK'
  <2>1. queue \o e \in Seq(GoodItem)
    BY <1>2, ConcatProperties
  <2>2. (queue \o e) \o w \in Seq(GoodItem)
    BY <1>2, <2>1, ConcatProperties
  <2>3. QED
    BY <1>3, <2>2 DEF QueueOK
<1>5. RoutinesOK'
  BY <1>1, ReadsOK
<1>6. closed' \in SUBSET (Machines \X Nat)
  <2>1. Range(out[m].closed) \subseteq Nat
    BY <1>2, RangeIs
  <2>2. QED
    BY <1>1, <2>1 DEF LoopOK, ClockOK
<1>7. HeadsOK' /\ WorldOK' /\ ClockOK'
  BY <1>6 DEF Ran, LoopOK, HeadsOK, WorldOK, ClockOK
<1>8. QED
  BY <1>4, <1>5, <1>7 DEF LoopOK

LEMMA SeededStutterTypes ==
  ASSUME RoutinesOK, LoopOK, SeededStutter
  PROVE  RoutinesOK' /\ LoopOK'
<1>1. RoutinesOK'
  BY ResumesOK DEF SeededStutter, Known
<1>2. LoopOK'
  BY DEF SeededStutter, LoopOK, HeadsOK, WorldOK, ClockOK, QueueOK
<1>3. QED
  BY <1>1, <1>2

LEMMA SkipTypes ==
  ASSUME RoutinesOK, LoopOK, Skip
  PROVE  RoutinesOK' /\ LoopOK'
<1>1. RoutinesOK'
  BY RestOK DEF Skip
<1>2. QueueOK'
  BY TurnIs, QueueKept DEF Skip, QueueOK
<1>3. HeadsOK' /\ WorldOK' /\ ClockOK'
  BY DEF Skip, LoopOK, HeadsOK, WorldOK, ClockOK
<1>4. QED
  BY <1>1, <1>2, <1>3 DEF LoopOK

LEMMA NoteTypes ==
  ASSUME RoutinesOK, LoopOK, Note
  PROVE  RoutinesOK' /\ LoopOK'
<1>1. PICK i \in Turn :
        LET a == queue[i]
            e == a.effect
        IN /\ \/ /\ written' = Append(written, Line(e.text, e.n))
                 /\ UNCHANGED timers
              \/ /\ timers' = Append(timers, [due |-> now + Delay(e.kind),
                                              m |-> a.m, effect |-> e])
                 /\ UNCHANGED written
           /\ queue' = RemoveAt(queue, i)
  BY DEF Note
<1> DEFINE a == queue[i]
           e == a.effect
<1>2. a \in GoodItem /\ RemoveAt(queue, i) \in Seq(GoodItem)
  BY TurnIs, QueueKept
<1>3. a.m \in Machines /\ e \in GoodEffect /\ e.text \in Text /\ e.n \in Int
  BY <1>2, ItemIs
<1>4. \/ /\ written' = Append(written, Line(e.text, e.n))
         /\ timers' = timers
      \/ /\ timers' = Append(timers, [due |-> now + Delay(e.kind), m |-> a.m, effect |-> e])
         /\ written' = written
  BY <1>1
<1> HIDE DEF a, e
<1>5. written' \in Seq(Written)
  BY <1>3, <1>4, WrittenIs DEF LoopOK, WorldOK
<1>6. timers' \in Seq(Timer)
  BY <1>3, <1>4, TimerIs DEF LoopOK, ClockOK
<1>7. QueueOK'
  BY <1>1, <1>2 DEF QueueOK
<1>8. HeadsOK' /\ WorldOK' /\ ClockOK'
  BY <1>5, <1>6 DEF Note, LoopOK, HeadsOK, WorldOK, ClockOK
<1>9. RoutinesOK'
  BY RestOK DEF Note
<1>10. QED
  BY <1>7, <1>8, <1>9 DEF LoopOK

LEMMA PerformTypes ==
  ASSUME RoutinesOK, LoopOK, Perform
  PROVE  RoutinesOK' /\ LoopOK'
<1>1. PICK i \in Turn :
        LET a == queue[i]
            e == a.effect
            answer == AnswerTo(world, e)
            rest == RemoveAt(queue, i)
        IN /\ world' = WorldAfter(world, e)
           /\ IF host = "seeded"
                THEN /\ queue' = Append(rest, ReplyTo(a.m, e, answer))
                     /\ UNCHANGED <<routines, refused>>
                ELSE /\ queue' = rest
                     /\ IF Pollable(a.m) /\ Open(a.m, e.id)
                          THEN Replies(a.m, e.id, answer) /\ UNCHANGED refused
                          ELSE UNCHANGED routines /\ refused' = TRUE
  BY DEF Perform
<1> DEFINE a == queue[i]
           e == a.effect
           answer == AnswerTo(world, e)
           rest == RemoveAt(queue, i)
<1>2. a \in GoodItem /\ rest \in Seq(GoodItem)
  BY TurnIs, QueueKept
<1>3. a.m \in Machines /\ e \in GoodEffect /\ e.n \in Int
  BY <1>2, ItemIs
<1>4. answer \in Int
  BY AnswerIs DEF LoopOK, WorldOK
<1>5. /\ world' = WorldAfter(world, e)
      /\ queue' = rest \/ queue' = Append(rest, ReplyTo(a.m, e, answer))
      /\ refused' = refused \/ refused' = TRUE
      /\ Replies(a.m, e.id, answer) \/ UNCHANGED routines
  BY <1>1
<1> HIDE DEF a, e, answer, rest
<1>6. RoutinesOK'
  BY <1>3, <1>4, <1>5, RepliesOK, RestOK
<1>7. WorldOK'
  BY <1>3, <1>5, AnswerIs DEF Perform, LoopOK, WorldOK
<1>8. QueueOK'
  BY <1>2, <1>3, <1>4, <1>5, ItemsAre, AppendIs DEF QueueOK
<1>9. HeadsOK' /\ ClockOK'
  BY <1>5 DEF Perform, LoopOK, HeadsOK, ClockOK
<1>10. QED
  BY <1>6, <1>7, <1>8, <1>9 DEF LoopOK

LEMMA ResumeTypes ==
  ASSUME RoutinesOK, LoopOK, Resume
  PROVE  RoutinesOK' /\ LoopOK'
<1>1. PICK i \in Turn, m \in Machines :
        /\ queue' = RemoveAt(queue, i)
        /\ Resumes(m) \/ UNCHANGED routines
        /\ refused' = refused \/ refused' = TRUE
  <2>1. PICK i \in Turn :
          LET a == queue[i]
              spawn == a.kind = "effect" /\ a.effect.kind \in {"spawned", "spawned_pinned"}
              m == IF spawn THEN a.effect.id ELSE a.m
          IN /\ queue' = RemoveAt(queue, i)
             /\ Resumes(m) \/ UNCHANGED routines
             /\ refused' = refused \/ refused' = TRUE
    BY DEF Resume
  <2>2. queue[i] \in GoodItem
    BY TurnIs, QueueKept
  <2>3. /\ queue[i].m \in Machines
        /\ queue[i].effect.kind \in {"spawned", "spawned_pinned"} => queue[i].effect.id \in Machines
    BY <2>2, ItemIs
  <2>4. QED
    BY <2>1, <2>3
<1>2. RoutinesOK'
  BY <1>1, ResumesOK, RestOK
<1>3. QueueOK'
  BY <1>1, TurnIs, QueueKept DEF QueueOK
<1>4. HeadsOK' /\ WorldOK' /\ ClockOK'
  BY <1>1 DEF Resume, LoopOK, HeadsOK, WorldOK, ClockOK
<1>5. QED
  BY <1>2, <1>3, <1>4 DEF LoopOK

LEMMA AnswerTypes ==
  ASSUME RoutinesOK, LoopOK, Answer
  PROVE  RoutinesOK' /\ LoopOK'
<1>1. PICK i \in Turn :
        LET a == queue[i]
        IN /\ queue' = RemoveAt(queue, i)
           /\ Replies(a.m, a.effect.id, a.n) \/ UNCHANGED routines
           /\ refused' = refused \/ refused' = TRUE
  BY DEF Answer
<1>2. queue[i].m \in Machines /\ queue[i].n \in Int
  BY TurnIs, QueueKept, ItemIs
<1>3. RoutinesOK'
  BY <1>1, <1>2, RepliesOK, RestOK
<1>4. QueueOK'
  BY <1>1, TurnIs, QueueKept DEF QueueOK
<1>5. HeadsOK' /\ WorldOK' /\ ClockOK'
  BY <1>1 DEF Answer, LoopOK, HeadsOK, WorldOK, ClockOK
<1>6. QED
  BY <1>3, <1>4, <1>5 DEF LoopOK

LEMMA FireTimerTypes ==
  ASSUME RoutinesOK, LoopOK, FireTimer
  PROVE  RoutinesOK' /\ LoopOK'
<1> DEFINE t == timers[NextTimer]
<1>1. /\ timers # << >>
      /\ timers' = RemoveAt(timers, NextTimer)
      /\ now' = now \/ now' = t.due
      /\ refused' = refused \/ refused' = TRUE
      /\ Replies(t.m, t.effect.id, 0) \/ UNCHANGED routines
  BY DEF FireTimer
<1>2. t.m \in Machines /\ t.due \in Nat /\ timers' \in Seq(Timer)
  BY <1>1, NextTimerIs DEF LoopOK
<1> HIDE DEF t
<1>3. RoutinesOK'
  BY <1>1, <1>2, RepliesOK, RestOK
<1>4. HeadsOK' /\ WorldOK' /\ ClockOK' /\ QueueOK'
  BY <1>1, <1>2 DEF FireTimer, LoopOK, HeadsOK, WorldOK, ClockOK, QueueOK
<1>5. QED
  BY <1>3, <1>4 DEF LoopOK

LEMMA ConcludeTypes ==
  ASSUME RoutinesOK, LoopOK, Conclude
  PROVE  RoutinesOK' /\ LoopOK'
<1>1. RoutinesOK'
  BY RestOK DEF Conclude
<1>2. LoopOK'
  BY DEF Conclude, LoopOK, HeadsOK, WorldOK, ClockOK, QueueOK
<1>3. QED
  BY <1>1, <1>2

LEMMA PythonTypes ==
  ASSUME RoutinesOK, LoopOK, PythonNext
  PROVE  RoutinesOK' /\ LoopOK'
  BY RanTypes, SeededStutterTypes, SkipTypes, NoteTypes, PerformTypes, ResumeTypes,
     AnswerTypes, FireTimerTypes, ConcludeTypes DEF PythonNext

LEMMA SingleTypes ==
  ASSUME RoutinesOK, LoopOK, Single
  PROVE  RoutinesOK' /\ LoopOK' /\ UNCHANGED <<java, native>>
<1>1. CASE Polling
  BY <1>1, PollStepOK, LoopRests DEF Polling, Single
<1>2. QED
  BY <1>1, DriveTypes, PythonTypes DEF Single

-----------------------------------------------------------------------------
(* The types of Java's host                                                 *)

Pcs == {"idle", "drain", "handle", "call", "dispatch", "counted", "spurious",
        "end", "settle"}
Jobs == [pc : Pcs, m : 0 .. MaxMachine, event : Events]
Wakes1 == {"spawned", "spawned_pinned", "woke", ""}
Kinds == {"write", "closed"} \cup Asks \cup Wakes1
Framed ==
  {f \in [kind : Kinds, id : Nat, text : Text, n : Int] :
     f.kind \in Wakes1 => f.id \in Machines}
TaskPcs == {"running", "performed", "counted"}
TaskOf == [pc : TaskPcs, effect : Effect, n : Int]
Requests == Machines \X Nat

KnownOK ==
  threads \in WorkerIds /\ machines \in SUBSET Machines /\ pinned \in SUBSET machines
PlacesOK ==
  /\ home \in [Machines -> 0 .. threads] /\ inbox \in [Machines -> Seq(Events)]
  /\ running \in SUBSET Machines /\ line \in [WorkerIds -> Seq(Machines)]
  /\ next \in 0 .. threads - 1
JobsOK ==
  /\ job \in [WorkerIds -> Jobs]
  /\ \A w \in WorkerIds : InHand(w) => job[w].m \in Machines
BatchOK ==
  /\ batch \in [WorkerIds -> Seq(Framed)]
  /\ \A w \in WorkerIds : job[w].pc \in {"counted", "spurious"} =>
       batch[w] # << >> /\ Head(batch[w]).kind \in Wakes1
TasksOK ==
  /\ inFlight \in SUBSET Requests /\ DOMAIN tasks \in SUBSET Requests
  /\ tasks \in [DOMAIN tasks -> TaskOf]
  /\ settled \in SUBSET DOMAIN tasks
JavaOK == KnownOK /\ PlacesOK /\ JobsOK /\ BatchOK /\ TasksOK /\ pending \in Int

LEMMA WorkersAre ==
  ASSUME KnownOK
  PROVE  /\ Workers \in Nat \ {0} /\ threads \in Nat /\ threads >= 1 /\ threads <= Workers
         /\ \A x \in 1 .. threads : x \in WorkerIds
  BY LoopAssumption DEF KnownOK, WorkerIds

LEMMA JavaTypes ==
  ASSUME JavaOK, pending \in Nat
  PROVE  JavaTypeOK
<1>1. /\ threads \in WorkerIds /\ machines \subseteq Machines /\ pinned \subseteq machines
      /\ home \in [Machines -> 0 .. threads]
      /\ \A m \in Machines : inbox[m] \in Seq(Events)
      /\ running \subseteq Machines
      /\ \A w \in WorkerIds : line[w] \in Seq(Machines)
      /\ next \in 0 .. threads - 1
  BY DEF JavaOK, KnownOK, PlacesOK
<1>2. job \in [WorkerIds -> [pc : {"idle", "drain", "handle", "call", "dispatch",
                                   "counted", "spurious", "end", "settle"},
                             m : 0 .. MaxMachine, event : Events]]
  BY DEF JavaOK, JobsOK, Jobs, Pcs
<1>3. /\ \A r \in DOMAIN tasks :
           /\ r \in Machines \X Nat
           /\ tasks[r] \in [pc : {"running", "performed", "counted"}, effect : Effect, n : Int]
      /\ inFlight \subseteq Machines \X Nat /\ settled \subseteq DOMAIN tasks
  BY DEF JavaOK, TasksOK, TaskOf, TaskPcs, Requests
<1>4. QED
  BY <1>1, <1>2, <1>3 DEF JavaTypeOK

LEMMA WorkerForIs ==
  ASSUME KnownOK, PlacesOK, NEW m \in Machines, NEW here \in 0 .. threads
  PROVE  WorkerFor(m, here) \in 1 .. threads /\ WorkerFor(m, here) \in WorkerIds
<1>1. threads \in Nat /\ threads >= 1 /\ \A x \in 1 .. threads : x \in WorkerIds
  BY WorkersAre
<1>2. home[m] \in 0 .. threads /\ next \in 0 .. threads - 1
  BY DEF PlacesOK
<1>3. /\ home[m] # 0 => home[m] \in 1 .. threads
      /\ here # 0 => here \in 1 .. threads
      /\ next + 1 \in 1 .. threads
  BY <1>1, <1>2
<1>4. WorkerFor(m, here) \in 1 .. threads
  BY <1>3 DEF WorkerFor
<1>5. QED
  BY <1>1, <1>4

LEMMA QueueTypes ==
  ASSUME KnownOK, PlacesOK, NEW m \in Machines, NEW event \in Events,
         NEW here \in 0 .. threads, Queue(m, event, here), threads' = threads
  PROVE  PlacesOK'
<1> DEFINE w == WorkerFor(m, here)
<1>1. /\ inbox' = [inbox EXCEPT ![m] = Append(@, event)]
      /\ running' = running \cup {m}
      /\ IF m \in running
           THEN UNCHANGED <<line, home, next>>
           ELSE /\ line' = [line EXCEPT ![w] = Append(@, m)]
                /\ home' = IF m \in pinned THEN [home EXCEPT ![m] = w] ELSE home
                /\ next' = IF InTurn(m, here) THEN (next + 1) % threads ELSE next
  BY DEF Queue
<1>2. w \in 1 .. threads /\ w \in WorkerIds
  BY WorkerForIs
<1> HIDE DEF w
<1>3. inbox' \in [Machines -> Seq(Events)]
  <2>1. inbox[m] \in Seq(Events)
    BY DEF PlacesOK
  <2>2. Append(inbox[m], event) \in Seq(Events)
    BY <2>1, AppendIs
  <2>3. QED
    BY <1>1, <2>2 DEF PlacesOK
<1>4. line' \in [WorkerIds -> Seq(Machines)]
  <2>1. line[w] \in Seq(Machines)
    BY <1>2 DEF PlacesOK
  <2>2. Append(line[w], m) \in Seq(Machines)
    BY <2>1, AppendIs
  <2>3. QED
    BY <1>1, <2>2 DEF PlacesOK
<1>5. home' \in [Machines -> 0 .. threads]
  <2>1. w \in 0 .. threads
    BY <1>2
  <2>2. QED
    BY <1>1, <2>1 DEF PlacesOK
<1>6. next' \in 0 .. threads - 1
  <2>1. threads \in Nat /\ threads >= 1 /\ next \in 0 .. threads - 1
    BY WorkersAre DEF PlacesOK
  <2>2. (next + 1) % threads \in 0 .. threads - 1
    BY <2>1
  <2>3. QED
    BY <1>1, <2>1, <2>2
<1>7. running' \in SUBSET Machines
  BY <1>1 DEF PlacesOK
<1>8. QED
  BY <1>3, <1>4, <1>5, <1>6, <1>7 DEF PlacesOK

LEMMA FrameIs ==
  ASSUME NEW kind \in Kinds, NEW id \in Nat, kind \in Wakes1 => id \in Machines
  PROVE  Frame(kind, id) \in Framed /\ Frame(kind, id).kind = kind
                                   /\ Frame(kind, id).id = id
<1>1. "" \in Text /\ 0 \in Int
  BY DEF Text
<1>2. QED
  BY <1>1 DEF Frame, Framed

LEMMA EffectsFramed ==
  GoodEffect \subseteq Framed
<1>1. \A k \in {"write", "spawned", "spawned_pinned", "patience", "pause",
                "read_line", "lookup", "count", "var", "read_file", "now",
                "random", "write_file"} :
        /\ k \in Kinds
        /\ k \in Wakes1 => k \in {"spawned", "spawned_pinned"}
  BY DEF Kinds, Wakes1, Asks
<1>2. QED
  BY <1>1 DEF GoodEffect, Effect, Framed

LEMMA FramesAre ==
  ASSUME NEW o \in Outs
  PROVE  Frames(o) \in Seq(Framed)
<1> DEFINE c == [i \in DOMAIN o.closed |-> Frame("closed", o.closed[i])]
           w == [i \in DOMAIN o.woke |-> Frame("woke", o.woke[i])]
<1>1. o.effects \in Seq(GoodEffect) /\ o.closed \in Seq(Nat) /\ o.woke \in Seq(Machines)
  BY DEF Outs
<1>2. /\ DOMAIN o.closed = 1 .. Len(o.closed) /\ Len(o.closed) \in Nat
      /\ \A i \in 1 .. Len(o.closed) : o.closed[i] \in Nat
      /\ DOMAIN o.woke = 1 .. Len(o.woke) /\ Len(o.woke) \in Nat
      /\ \A i \in 1 .. Len(o.woke) : o.woke[i] \in Machines /\ o.woke[i] \in Nat
  BY <1>1, RangeIs, LanesAre
<1>3. "closed" \in Kinds /\ "woke" \in Kinds /\ "closed" \notin Wakes1
  BY DEF Kinds, Wakes1
<1>4. c \in Seq(Framed)
  <2>1. \A i \in 1 .. Len(o.closed) : Frame("closed", o.closed[i]) \in Framed
    BY <1>2, <1>3, FrameIs
  <2>2. QED
    BY <2>1, <1>2, MappedIs
<1>5. w \in Seq(Framed)
  <2>1. \A i \in 1 .. Len(o.woke) : Frame("woke", o.woke[i]) \in Framed
    BY <1>2, <1>3, FrameIs
  <2>2. QED
    BY <2>1, <1>2, MappedIs
<1>6. Frames(o) = (o.effects \o c) \o w
  BY DEF Frames
<1> HIDE DEF c, w
<1>7. o.effects \in Seq(Framed)
  BY <1>1, EffectsFramed
<1>8. o.effects \o c \in Seq(Framed)
  BY <1>4, <1>7, ConcatProperties
<1>9. (o.effects \o c) \o w \in Seq(Framed)
  BY <1>5, <1>8, ConcatProperties
<1>10. QED
  BY <1>6, <1>9

\* The frame a worker is at, and the rest of its batch.
LEMMA BatchIs ==
  ASSUME BatchOK, NEW w \in WorkerIds, batch[w] # << >>
  PROVE  /\ Head(batch[w]) \in Framed /\ Tail(batch[w]) \in Seq(Framed)
         /\ Head(batch[w]).id \in Nat /\ Head(batch[w]).text \in Text
         /\ Head(batch[w]).n \in Int
         /\ Head(batch[w]).kind \in Wakes1 => Head(batch[w]).id \in Machines
         /\ [batch EXCEPT ![w] = Tail(@)] \in [WorkerIds -> Seq(Framed)]
<1>1. batch[w] \in Seq(Framed)
  BY DEF BatchOK
<1>2. Head(batch[w]) \in Framed /\ Tail(batch[w]) \in Seq(Framed)
  BY <1>1, HeadTailProperties
<1>3. [batch EXCEPT ![w] = Tail(@)] \in [WorkerIds -> Seq(Framed)]
  BY <1>2 DEF BatchOK
<1>4. QED
  BY <1>2, <1>3 DEF Framed

\* A worker moves on with the machine it has in hand.
LEMMA GoesOn ==
  ASSUME JobsOK, NEW w \in WorkerIds, InHand(w), NEW pc \in Pcs, Goes(w, pc)
  PROVE  /\ JobsOK'
         /\ job'[w].pc = pc /\ job'[w].m = job[w].m /\ job'[w].event = job[w].event
         /\ \A x \in WorkerIds : x # w => job'[x] = job[x]
         /\ \A x \in WorkerIds : job'[x].m = job[x].m
<1>1. job' = [job EXCEPT ![w] = [job[w] EXCEPT !.pc = pc]]
  BY DEF Goes
<1>2. job[w] \in Jobs /\ job \in [WorkerIds -> Jobs]
  BY DEF JobsOK
<1>3. [job[w] EXCEPT !.pc = pc] \in Jobs
  BY <1>2 DEF Jobs
<1>4. /\ job'[w].pc = pc /\ job'[w].m = job[w].m /\ job'[w].event = job[w].event
      /\ \A x \in WorkerIds : x # w => job'[x] = job[x]
  BY <1>1, <1>2 DEF Jobs
<1>5. job' \in [WorkerIds -> Jobs]
  BY <1>1, <1>2, <1>3
<1>6. \A x \in WorkerIds : InHand(x)' => job'[x].m \in Machines
  BY <1>4 DEF JobsOK, InHand
<1>7. QED
  BY <1>4, <1>5, <1>6 DEF JobsOK

TypesOK == RoutinesOK /\ LoopOK /\ JavaOK

\* The world changes, and nothing else that other hosts keep.
LEMMA OutcomeOK ==
  ASSUME LoopOK, UNCHANGED Elsewhere, WorldOK', stutters' \in Nat, refused' \in BOOLEAN,
         verdict' \in {"running", "completed", "stalled"}
  PROVE  LoopOK'
  BY DEF LoopOK, Elsewhere, HeadsOK, WorldOK, ClockOK, QueueOK

LEMMA OutcomeRests ==
  ASSUME LoopOK, UNCHANGED <<world, written>>
  PROVE  WorldOK' /\ stutters \in Nat /\ refused \in BOOLEAN
         /\ verdict \in {"running", "completed", "stalled"}
  BY DEF LoopOK, WorldOK, HeadsOK

LEMMA SameOutcome ==
  ASSUME LoopOK, UNCHANGED <<world, written, stutters, refused, verdict>>, UNCHANGED Elsewhere
  PROVE  LoopOK'
  BY OutcomeRests, OutcomeOK

\* Only worker w's step changes its job, and not from within a batch.
LEMMA BatchRests ==
  ASSUME BatchOK, NEW w \in WorkerIds, batch' = batch,
         \A x \in WorkerIds : x # w => job'[x] = job[x],
         job'[w].pc \notin {"counted", "spurious"}
  PROVE  BatchOK'
  BY DEF BatchOK

LEMMA IdleIs ==
  Idle \in Jobs /\ Idle.pc = "idle" /\ ResumeEvent \in Events
<1>1. ResumeEvent \in Events
  BY DEF ResumeEvent, Events
<1>2. 0 \in 0 .. MaxMachine
  BY Rounding
<1>3. QED
  BY <1>1, <1>2 DEF Idle, Jobs, Pcs

LEMMA TakeTypes ==
  ASSUME TypesOK, NEW w \in WorkerIds, Take(w), UNCHANGED Elsewhere
  PROVE  TypesOK'
<1> DEFINE new == [pc |-> "drain", m |-> Head(line[w]), event |-> ResumeEvent]
<1>1. /\ line[w] # << >>
      /\ line' = [line EXCEPT ![w] = Tail(@)]
      /\ job' = [job EXCEPT ![w] = new]
      /\ UNCHANGED <<world, written, stutters, refused, verdict>> /\ UNCHANGED routines
      /\ UNCHANGED <<threads, machines, pinned, tasks, inFlight, settled, pending,
                     home, inbox, running, batch, next>>
  BY DEF Take, outcome, known, asking
<1>2. line[w] \in Seq(Machines)
  BY DEF TypesOK, JavaOK, PlacesOK
<1>3. Head(line[w]) \in Machines /\ Tail(line[w]) \in Seq(Machines)
  BY <1>1, <1>2, HeadTailProperties
<1>4. new \in Jobs /\ new.m \in Machines /\ new.pc = "drain"
  <2>1. Head(line[w]) \in 0 .. MaxMachine
    BY <1>3, LanesAre
  <2>2. QED
    BY <1>3, <2>1, IdleIs DEF Jobs, Pcs
<1> HIDE DEF new
<1>5. JobsOK'
  <2>1. job' \in [WorkerIds -> Jobs]
    BY <1>1, <1>4 DEF TypesOK, JavaOK, JobsOK
  <2>2. job'[w] = new /\ \A x \in WorkerIds : x # w => job'[x] = job[x]
    BY <1>1 DEF TypesOK, JavaOK, JobsOK
  <2>3. QED
    BY <1>4, <2>1, <2>2 DEF TypesOK, JavaOK, JobsOK, InHand
<1>6. BatchOK'
  <2>1. job'[w] = new /\ \A x \in WorkerIds : x # w => job'[x] = job[x]
    BY <1>1 DEF TypesOK, JavaOK, JobsOK
  <2>2. QED
    BY <1>1, <1>4, <2>1, BatchRests DEF TypesOK, JavaOK
<1>7. PlacesOK'
  BY <1>1, <1>3 DEF TypesOK, JavaOK, PlacesOK
<1>8. KnownOK' /\ TasksOK' /\ pending' \in Int
  BY <1>1 DEF TypesOK, JavaOK, KnownOK, TasksOK
<1>9. RoutinesOK' /\ LoopOK'
  BY <1>1, RestOK, SameOutcome DEF TypesOK
<1>10. QED
  BY <1>5, <1>6, <1>7, <1>8, <1>9 DEF TypesOK, JavaOK

LEMMA DrainTypes ==
  ASSUME TypesOK, NEW w \in WorkerIds, Drain(w), UNCHANGED Elsewhere
  PROVE  TypesOK'
<1> DEFINE m == job[w].m
           handling == [[job[w] EXCEPT !.pc = "handle"] EXCEPT !.event = Head(inbox[m])]
<1>1. /\ \/ /\ inbox[m] = << >>
            /\ running' = running \ {m}
            /\ job' = [job EXCEPT ![w] = Idle]
            /\ inbox' = inbox
         \/ /\ inbox[m] # << >>
            /\ job' = [job EXCEPT ![w].pc = "handle", ![w].event = Head(inbox[m])]
            /\ inbox' = [inbox EXCEPT ![m] = Tail(@)]
            /\ running' = running
      /\ UNCHANGED <<world, written, stutters, refused, verdict>> /\ UNCHANGED routines
      /\ UNCHANGED <<threads, machines, pinned, tasks, inFlight, settled, pending,
                     home, line, batch, next>>
  BY DEF Drain, outcome, known, asking
<1>2. /\ job \in [WorkerIds -> Jobs] /\ job[w] \in Jobs /\ job[w].pc = "drain"
      /\ m \in Machines /\ inbox[m] \in Seq(Events)
  <2>1. job \in [WorkerIds -> Jobs] /\ job[w].pc = "drain" /\ InHand(w)
    BY DEF Drain, At, TypesOK, JavaOK, JobsOK, InHand
  <2>2. m \in Machines
    BY <2>1 DEF TypesOK, JavaOK, JobsOK
  <2> HIDE DEF m
  <2>3. inbox[m] \in Seq(Events)
    BY <2>2 DEF TypesOK, JavaOK, PlacesOK
  <2>4. QED
    BY <2>1, <2>2, <2>3
<1>3. inbox[m] # << >> => Head(inbox[m]) \in Events /\ Tail(inbox[m]) \in Seq(Events)
  <2> HIDE DEF m
  <2>1. QED
    BY <1>2, HeadTailProperties
<1>4. inbox[m] # << >> => /\ job' = [job EXCEPT ![w] = handling]
                          /\ handling \in Jobs /\ handling.pc = "handle" /\ handling.m = m
  <2>1. inbox[m] # << >> => job' = [job EXCEPT ![w] = handling]
    BY <1>1, <1>2
  <2>2. inbox[m] # << >> =>
          handling \in Jobs /\ handling.pc = "handle" /\ handling.m = m
    BY <1>2, <1>3 DEF Jobs, Pcs
  <2>3. QED
    BY <2>1, <2>2
<1> HIDE DEF handling, m
<1>5. PICK new \in Jobs :
        /\ job' = [job EXCEPT ![w] = new]
        /\ new.pc \in {"idle", "handle"}
        /\ new.pc # "idle" => new.m \in Machines
  <2>1. CASE inbox[m] = << >>
    BY <1>1, <2>1, IdleIs
  <2>2. CASE inbox[m] # << >>
    BY <1>2, <1>4, <2>2
  <2>3. QED
    BY <2>1, <2>2
<1>6. job'[w] = new /\ \A x \in WorkerIds : x # w => job'[x] = job[x]
  BY <1>2, <1>5
<1>7. JobsOK'
  <2>1. job' \in [WorkerIds -> Jobs]
    BY <1>2, <1>5
  <2>2. QED
    BY <1>5, <1>6, <2>1 DEF TypesOK, JavaOK, JobsOK, InHand
<1>8. BatchOK'
  BY <1>1, <1>5, <1>6, BatchRests DEF TypesOK, JavaOK
<1>9. PlacesOK'
  BY <1>1, <1>2, <1>3 DEF TypesOK, JavaOK, PlacesOK
<1>10. KnownOK' /\ TasksOK' /\ pending' \in Int
  BY <1>1 DEF TypesOK, JavaOK, KnownOK, TasksOK
<1>11. RoutinesOK' /\ LoopOK'
  BY <1>1, RestOK, SameOutcome DEF TypesOK
<1>12. QED
  BY <1>7, <1>8, <1>9, <1>10, <1>11 DEF TypesOK, JavaOK

LEMMA HandleEventTypes ==
  ASSUME TypesOK, NEW w \in WorkerIds, HandleEvent(w), UNCHANGED Elsewhere
  PROVE  TypesOK'
<1> DEFINE m == job[w].m
           event == job[w].event
<1>1. /\ \/ Resumes(m) \/ Replies(m, event.id, event.n) \/ UNCHANGED routines
      /\ Goes(w, "call") \/ Goes(w, "settle")
      /\ inFlight' = inFlight \/ inFlight' = inFlight \ {<<m, event.id>>}
      /\ refused' = refused \/ refused' = TRUE
  BY DEF HandleEvent, Calls
<1>2. /\ UNCHANGED <<threads, machines, pinned, home, inbox, running, line, next, batch,
                     tasks, settled, pending>>
      /\ UNCHANGED <<world, written, stutters, verdict>>
  BY DEF HandleEvent, known, places
<1>3. InHand(w) /\ m \in Machines /\ event \in Events
  <2>1. job[w] \in Jobs /\ InHand(w)
    BY DEF HandleEvent, At, InHand, TypesOK, JavaOK, JobsOK
  <2>2. QED
    BY <2>1 DEF TypesOK, JavaOK, JobsOK, Jobs
<1>4. event.n \in Int
  BY <1>3 DEF Events
<1> HIDE DEF m, event
<1>5. PICK pc \in {"call", "settle"} : Goes(w, pc)
  BY <1>1
<1>6. pc \in Pcs
  BY DEF Pcs
<1>7. JobsOK' /\ job'[w].pc = pc /\ \A x \in WorkerIds : x # w => job'[x] = job[x]
  BY <1>3, <1>5, <1>6, GoesOn DEF TypesOK, JavaOK
<1>8. BatchOK'
  BY <1>2, <1>7, BatchRests DEF TypesOK, JavaOK
<1>9. KnownOK' /\ PlacesOK' /\ TasksOK' /\ pending' \in Int
  BY <1>1, <1>2 DEF TypesOK, JavaOK, KnownOK, PlacesOK, TasksOK
<1>10. RoutinesOK'
  BY <1>1, <1>3, <1>4, ResumesOK, RepliesOK, RestOK DEF TypesOK
<1>11. LoopOK'
  <2>1. refused' \in BOOLEAN
    BY <1>1 DEF TypesOK, LoopOK, HeadsOK
  <2>2. QED
    BY <1>2, <2>1, OutcomeRests, OutcomeOK DEF TypesOK
<1>12. QED
  BY <1>7, <1>8, <1>9, <1>10, <1>11 DEF TypesOK, JavaOK

LEMMA JavaRests ==
  ASSUME JavaOK, UNCHANGED java
  PROVE  JavaOK'
<1>1. UNCHANGED <<threads, machines, pinned, home, inbox, running, line, next, tasks,
                  inFlight, settled, pending, job, batch>>
  BY DEF java, known, places, asking
<1>2. KnownOK' /\ PlacesOK' /\ TasksOK' /\ pending' \in Int
  BY <1>1 DEF JavaOK, KnownOK, PlacesOK, TasksOK
<1>3. JobsOK' /\ BatchOK'
  BY <1>1 DEF JavaOK, JobsOK, BatchOK, InHand
<1>4. QED
  BY <1>2, <1>3 DEF JavaOK

LEMMA PollTypes ==
  ASSUME TypesOK, NEW w \in WorkerIds, Poll(w), UNCHANGED Elsewhere
  PROVE  TypesOK'
<1>1. job[w].m \in Machines
  BY DEF Poll, At, InHand, TypesOK, JavaOK, JobsOK
<1>2. RoutinesOK'
  BY <1>1, PollStepOK DEF Poll, TypesOK
<1>3. LoopOK' /\ JavaOK'
  BY JavaRests, SameOutcome DEF Poll, outcome, TypesOK
<1>4. QED
  BY <1>2, <1>3 DEF TypesOK

LEMMA TakesBatchTypes ==
  ASSUME TypesOK, NEW w \in WorkerIds, TakesBatch(w), UNCHANGED Elsewhere
  PROVE  TypesOK'
<1> DEFINE m == job[w].m
<1>1. /\ Reads(m)
      /\ batch' = [batch EXCEPT ![w] = Frames(out[m])]
      /\ Goes(w, "dispatch")
      /\ UNCHANGED <<threads, machines, pinned, home, inbox, running, line, next, tasks,
                     inFlight, settled, pending>>
      /\ UNCHANGED <<world, written, stutters, refused, verdict>>
  BY DEF TakesBatch, known, places, asking, outcome
<1>2. InHand(w) /\ m \in Machines
  BY DEF TakesBatch, At, InHand, TypesOK, JavaOK, JobsOK
<1> HIDE DEF m
<1>3. JobsOK' /\ job'[w].pc = "dispatch" /\ \A x \in WorkerIds : x # w => job'[x] = job[x]
  BY <1>1, <1>2, GoesOn DEF TypesOK, JavaOK, Pcs
<1>4. BatchOK'
  <2>1. out[m] \in Outs
    BY <1>2 DEF TypesOK, RoutinesOK, OutOK
  <2>2. Frames(out[m]) \in Seq(Framed)
    BY <2>1, FramesAre
  <2>3. batch' \in [WorkerIds -> Seq(Framed)]
    BY <1>1, <2>2 DEF TypesOK, JavaOK, BatchOK
  <2>4. \A x \in WorkerIds : x # w => batch'[x] = batch[x]
    BY <1>1 DEF TypesOK, JavaOK, BatchOK
  <2>5. QED
    BY <1>3, <2>3, <2>4 DEF TypesOK, JavaOK, BatchOK
<1>5. KnownOK' /\ PlacesOK' /\ TasksOK' /\ pending' \in Int
  BY <1>1 DEF TypesOK, JavaOK, KnownOK, PlacesOK, TasksOK
<1>6. RoutinesOK' /\ LoopOK'
  BY <1>1, <1>2, ReadsOK, SameOutcome DEF TypesOK
<1>7. QED
  BY <1>3, <1>4, <1>5, <1>6 DEF TypesOK, JavaOK

\* A worker at "dispatch" goes through its batch.
LEMMA BatchGoesOn ==
  ASSUME BatchOK, NEW w \in WorkerIds, NEW s \in Seq(Framed),
         batch' = [batch EXCEPT ![w] = s],
         \A x \in WorkerIds : x # w => job'[x] = job[x],
         job'[w].pc \in {"counted", "spurious"} => s # << >> /\ Head(s).kind \in Wakes1
  PROVE  BatchOK'
<1>1. batch' \in [WorkerIds -> Seq(Framed)]
  BY DEF BatchOK
<1>2. batch'[w] = s /\ \A x \in WorkerIds : x # w => batch'[x] = batch[x]
  BY DEF BatchOK
<1>3. QED
  BY <1>1, <1>2 DEF BatchOK

LEMMA SameJobs ==
  ASSUME JobsOK, job' = job
  PROVE  JobsOK'
  BY DEF JobsOK, InHand

LEMMA WriteOutTypes ==
  ASSUME TypesOK, NEW w \in WorkerIds, WriteOut(w), UNCHANGED Elsewhere
  PROVE  TypesOK'
<1> DEFINE f == Head(batch[w])
<1>1. /\ batch[w] # << >> /\ job[w].pc = "dispatch"
      /\ written' = Append(written, Line(f.text, f.n))
      /\ batch' = [batch EXCEPT ![w] = Tail(batch[w])]
      /\ UNCHANGED <<threads, machines, pinned, home, inbox, running, line, next, tasks,
                     inFlight, settled, pending, job>>
      /\ UNCHANGED <<world, stutters, refused, verdict>>
      /\ UNCHANGED routines
  BY DEF WriteOut, At1, At, Dispatched, known, places, asking
<1>2. f.text \in Text /\ f.n \in Int /\ Tail(batch[w]) \in Seq(Framed)
  BY <1>1, BatchIs DEF TypesOK, JavaOK
<1> HIDE DEF f
<1>3. BatchOK'
  BY <1>1, <1>2, BatchGoesOn DEF TypesOK, JavaOK
<1>4. WorldOK'
  <2>1. written' \in Seq(Written)
    BY <1>1, <1>2, WrittenIs DEF TypesOK, LoopOK
  <2>2. QED
    BY <1>1, <2>1 DEF TypesOK, LoopOK, WorldOK
<1>5. LoopOK'
  BY <1>1, <1>4, OutcomeOK DEF TypesOK, LoopOK, HeadsOK
<1>6. RoutinesOK' /\ KnownOK' /\ PlacesOK' /\ TasksOK' /\ JobsOK' /\ pending' \in Int
  BY <1>1, RestOK, SameJobs DEF TypesOK, JavaOK, KnownOK, PlacesOK, TasksOK
<1>7. QED
  BY <1>3, <1>5, <1>6 DEF TypesOK, JavaOK

LEMMA CountResumeTypes ==
  ASSUME TypesOK, NEW w \in WorkerIds, CountResume(w), UNCHANGED Elsewhere
  PROVE  TypesOK'
<1> DEFINE f == Head(batch[w])
<1>1. /\ batch[w] # << >> /\ job[w].pc = "dispatch"
      /\ f.kind \in {"woke", "spawned", "spawned_pinned"}
      /\ \/ /\ batch' = [batch EXCEPT ![w] = Tail(batch[w])]
            /\ UNCHANGED <<machines, pinned, pending, job>>
         \/ /\ machines' = machines \cup {f.id}
            /\ pinned' = pinned \/ pinned' = pinned \cup {f.id}
            /\ pending' = pending + 1
            /\ Goes(w, "counted")
            /\ batch' = batch
      /\ UNCHANGED <<threads, home, inbox, running, line, next, tasks, inFlight, settled>>
      /\ UNCHANGED <<world, written, stutters, refused, verdict>>
      /\ UNCHANGED routines
  BY DEF CountResume, At1, At, Dispatched, places, outcome
<1>2. f.kind \in Wakes1 /\ f.id \in Machines /\ Tail(batch[w]) \in Seq(Framed)
  BY <1>1, BatchIs DEF TypesOK, JavaOK, Wakes1
<1> HIDE DEF f
<1>3. InHand(w)
  BY <1>1 DEF InHand
<1>4. JobsOK' /\ BatchOK' /\ pending' \in Int
  <2>1. CASE batch' = [batch EXCEPT ![w] = Tail(batch[w])] /\ UNCHANGED <<pending, job>>
    BY <1>1, <1>2, <2>1, BatchGoesOn, SameJobs DEF TypesOK, JavaOK
  <2>2. CASE pending' = pending + 1 /\ Goes(w, "counted") /\ batch' = batch
    <3>1. /\ JobsOK' /\ job'[w].pc = "counted"
          /\ \A x \in WorkerIds : x # w => job'[x] = job[x]
      BY <1>3, <2>2, GoesOn DEF TypesOK, JavaOK, Pcs
    <3>2. BatchOK'
      BY <1>1, <1>2, <2>2, <3>1 DEF TypesOK, JavaOK, BatchOK, f
    <3>3. QED
      BY <2>2, <3>1, <3>2 DEF TypesOK, JavaOK
  <2>3. QED
    BY <1>1, <2>1, <2>2
<1>5. KnownOK'
  BY <1>1, <1>2 DEF TypesOK, JavaOK, KnownOK
<1>6. PlacesOK' /\ TasksOK'
  BY <1>1 DEF TypesOK, JavaOK, PlacesOK, TasksOK
<1>7. RoutinesOK' /\ LoopOK'
  BY <1>1, RestOK, SameOutcome DEF TypesOK
<1>8. QED
  BY <1>4, <1>5, <1>6, <1>7 DEF TypesOK, JavaOK

\* w is among the workers that run.
LEMMA ThreadIs ==
  ASSUME KnownOK, NEW w \in WorkerIds, w <= threads
  PROVE  w \in 0 .. threads
<1>1. threads \in Nat /\ w \in Nat
  BY WorkersAre DEF WorkerIds
<1>2. QED
  BY <1>1

LEMMA QueueResumeTypes ==
  ASSUME TypesOK, NEW w \in WorkerIds, QueueResume(w), UNCHANGED Elsewhere
  PROVE  TypesOK'
<1> DEFINE f == Head(batch[w])
<1>1. /\ w <= threads /\ job[w].pc = "counted"
      /\ Queue(f.id, ResumeEvent, w)
      /\ batch' = [batch EXCEPT ![w] = Tail(batch[w])]
      /\ Goes(w, "dispatch")
      /\ UNCHANGED <<threads, machines, pinned, tasks, inFlight, settled, pending>>
      /\ UNCHANGED <<world, written, stutters, refused, verdict>>
      /\ UNCHANGED routines
  BY DEF QueueResume, At, Dispatched, known, asking, outcome
<1>2. f.id \in Machines /\ Tail(batch[w]) \in Seq(Framed)
  <2>1. batch[w] # << >> /\ f.kind \in Wakes1
    BY <1>1 DEF TypesOK, JavaOK, BatchOK
  <2>2. QED
    BY <2>1, BatchIs DEF TypesOK, JavaOK
<1> HIDE DEF f
<1>3. /\ JobsOK' /\ job'[w].pc = "dispatch" /\ \A x \in WorkerIds : x # w => job'[x] = job[x]
  <2>1. InHand(w)
    BY <1>1 DEF InHand
  <2>2. QED
    BY <1>1, <2>1, GoesOn DEF TypesOK, JavaOK, Pcs
<1>4. BatchOK'
  BY <1>1, <1>2, <1>3, BatchGoesOn DEF TypesOK, JavaOK
<1>5. PlacesOK'
  BY <1>1, <1>2, ThreadIs, IdleIs, QueueTypes DEF TypesOK, JavaOK
<1>6. KnownOK' /\ TasksOK' /\ pending' \in Int
  BY <1>1 DEF TypesOK, JavaOK, KnownOK, TasksOK
<1>7. RoutinesOK' /\ LoopOK'
  BY <1>1, RestOK, SameOutcome DEF TypesOK
<1>8. QED
  BY <1>3, <1>4, <1>5, <1>6, <1>7 DEF TypesOK, JavaOK

\* A task is over, or cancelled.
LEMMA TaskEnds ==
  ASSUME TasksOK, NEW r, tasks' = [q \in DOMAIN tasks \ {r} |-> tasks[q]],
         inFlight' \in SUBSET Requests, settled' \in SUBSET (DOMAIN tasks \ {r})
  PROVE  TasksOK' /\ DOMAIN tasks' = DOMAIN tasks \ {r}
         /\ \A q \in DOMAIN tasks' : tasks'[q] = tasks[q]
<1>1. tasks \in [DOMAIN tasks -> TaskOf] /\ DOMAIN tasks \in SUBSET Requests
  BY DEF TasksOK
<1>2. DOMAIN tasks' = DOMAIN tasks \ {r} /\ \A q \in DOMAIN tasks' : tasks'[q] = tasks[q]
  OBVIOUS
<1>3. tasks' \in [DOMAIN tasks \ {r} -> TaskOf]
  BY <1>1
<1>4. QED
  BY <1>1, <1>2, <1>3 DEF TasksOK

LEMMA TasksRest ==
  ASSUME TasksOK, tasks' = tasks, inFlight' \in SUBSET Requests,
         settled' \in SUBSET DOMAIN tasks
  PROVE  TasksOK'
<1>1. tasks \in [DOMAIN tasks -> TaskOf] /\ DOMAIN tasks \in SUBSET Requests
  BY DEF TasksOK
<1>2. tasks' \in [DOMAIN tasks' -> TaskOf] /\ DOMAIN tasks' \in SUBSET Requests
      /\ settled' \in SUBSET DOMAIN tasks'
  BY <1>1
<1>3. QED
  BY <1>2 DEF TasksOK

LEMMA CancelTypes ==
  ASSUME TypesOK, NEW w \in WorkerIds, Cancel(w), UNCHANGED Elsewhere
  PROVE  TypesOK'
<1> DEFINE r == <<job[w].m, Head(batch[w]).id>>
           counts == r \in DOMAIN tasks \ settled
<1>1. /\ batch[w] # << >> /\ job[w].pc = "dispatch"
      /\ batch' = [batch EXCEPT ![w] = Tail(batch[w])]
      /\ UNCHANGED <<threads, machines, pinned, home, inbox, running, line, next, job>>
      /\ UNCHANGED <<world, written, stutters, refused, verdict>>
      /\ UNCHANGED routines
  BY DEF Cancel, At1, At, Dispatched, known, places, outcome
<1>2. \/ UNCHANGED <<inFlight, pending, tasks, settled>>
      \/ /\ inFlight' = inFlight \ {r}
         /\ pending' = pending \/ pending' = pending - 1
         /\ \/ /\ tasks' = tasks
               /\ settled' = IF counts THEN settled \cup {r} ELSE settled
            \/ /\ counts
               /\ tasks' = [q \in DOMAIN tasks \ {r} |-> tasks[q]]
               /\ settled' = settled
  BY DEF Cancel
<1>3. TasksOK' /\ pending' \in Int
  <2> HIDE DEF r
  <2>0. /\ TasksOK /\ inFlight \in SUBSET Requests /\ settled \in SUBSET DOMAIN tasks
        /\ pending \in Int
    BY DEF TypesOK, JavaOK, TasksOK
  <2>1. pending' \in Int
    BY <1>2, <2>0
  <2>2. inFlight' \in SUBSET Requests
    BY <1>2, <2>0
  <2>3. CASE tasks' = tasks
    <3>1. settled' \in SUBSET DOMAIN tasks
      BY <1>2, <2>0, <2>3
    <3>2. QED
      BY <2>0, <2>1, <2>2, <2>3, <3>1, TasksRest
  <2>4. CASE /\ counts /\ tasks' = [q \in DOMAIN tasks \ {r} |-> tasks[q]]
             /\ settled' = settled
    <3>1. settled' \in SUBSET (DOMAIN tasks \ {r})
      BY <2>4, <2>0
    <3>2. tasks' = [q \in DOMAIN tasks \ {r} |-> tasks[q]]
      BY <2>4
    <3> HIDE DEF counts
    <3>3. QED
      BY <2>0, <2>1, <2>2, <3>1, <3>2, TaskEnds
  <2>5. TasksOK'
    BY <1>2, <2>3, <2>4, <2>0
  <2>6. QED
    BY <2>1, <2>5
<1>4. BatchOK'
  <2>1. Tail(batch[w]) \in Seq(Framed)
    BY <1>1, BatchIs DEF TypesOK, JavaOK
  <2>2. QED
    BY <1>1, <2>1, BatchGoesOn DEF TypesOK, JavaOK
<1>5. KnownOK' /\ PlacesOK' /\ JobsOK'
  BY <1>1, SameJobs DEF TypesOK, JavaOK, KnownOK, PlacesOK
<1>6. RoutinesOK' /\ LoopOK'
  BY <1>1, RestOK, SameOutcome DEF TypesOK
<1>7. QED
  BY <1>3, <1>4, <1>5, <1>6 DEF TypesOK, JavaOK

LEMMA AskTaskTypes ==
  ASSUME TypesOK, NEW w \in WorkerIds, AskTask(w), UNCHANGED Elsewhere
  PROVE  TypesOK'
<1> DEFINE f == Head(batch[w])
           r == <<job[w].m, f.id>>
           new == [pc |-> "running", effect |-> f, n |-> 0]
<1>1. /\ batch[w] # << >> /\ job[w].pc = "dispatch" /\ f.kind \in Asks
      /\ batch' = [batch EXCEPT ![w] = Tail(batch[w])]
      /\ pending' = pending + 1
      /\ inFlight' = inFlight \cup {r}
      /\ tasks' = [q \in DOMAIN tasks \cup {r} |-> IF q = r THEN new ELSE tasks[q]]
      /\ UNCHANGED <<threads, machines, pinned, home, inbox, running, line, next, job, settled>>
      /\ UNCHANGED <<world, written, stutters, refused, verdict>>
      /\ UNCHANGED routines
  BY DEF AskTask, At1, At, Dispatched, known, places, outcome
<1>2. /\ f \in Framed /\ f.id \in Nat /\ Tail(batch[w]) \in Seq(Framed)
      /\ job[w].m \in Machines
  BY <1>1, BatchIs DEF TypesOK, JavaOK, JobsOK, InHand
<1>3. f \in Effect
  <2>1. f \in [kind : Kinds, id : Nat, text : Text, n : Int]
    BY <1>2 DEF Framed
  <2>2. QED
    BY <1>1, <2>1 DEF Effect, Asks
<1>4. r \in Requests
  BY <1>2 DEF Requests
<1>5. new \in TaskOf
  BY <1>3 DEF TaskOf, TaskPcs
<1> HIDE DEF f, r, new
<1>6. TasksOK'
  <2>1. tasks' \in [DOMAIN tasks \cup {r} -> TaskOf]
    <3>1. \A q \in DOMAIN tasks \cup {r} : (IF q = r THEN new ELSE tasks[q]) \in TaskOf
      BY <1>5 DEF TypesOK, JavaOK, TasksOK
    <3>2. QED
      BY <1>1, <3>1
  <2>2. DOMAIN tasks' = DOMAIN tasks \cup {r}
    BY <2>1
  <2>3. QED
    BY <1>1, <1>4, <2>1, <2>2 DEF TypesOK, JavaOK, TasksOK
<1>7. BatchOK'
  BY <1>1, <1>2, BatchGoesOn DEF TypesOK, JavaOK
<1>8. KnownOK' /\ PlacesOK' /\ JobsOK' /\ pending' \in Int
  BY <1>1, SameJobs DEF TypesOK, JavaOK, KnownOK, PlacesOK
<1>9. RoutinesOK' /\ LoopOK'
  BY <1>1, RestOK, SameOutcome DEF TypesOK
<1>10. QED
  BY <1>6, <1>7, <1>8, <1>9 DEF TypesOK, JavaOK

LEMMA DispatchTypes ==
  ASSUME TypesOK, NEW w \in WorkerIds, Dispatch(w), UNCHANGED Elsewhere
  PROVE  TypesOK'
<1>1. /\ job[w].pc = "dispatch"
      /\ \/ Goes(w, "end") /\ UNCHANGED <<pending, batch, stutters>>
         \/ /\ stutters' = stutters + 1
            /\ \E m \in machines : batch' = [batch EXCEPT ![w] = <<Frame("", m)>>]
            /\ pending' = pending + 1
            /\ Goes(w, "spurious")
      /\ UNCHANGED <<threads, machines, pinned, home, inbox, running, line, next, tasks,
                     inFlight, settled>>
      /\ UNCHANGED <<world, written, refused, verdict>>
      /\ UNCHANGED routines
  BY DEF Dispatch, At, known, places
<1>2. InHand(w)
  BY <1>1 DEF InHand
<1>3. JobsOK' /\ BatchOK' /\ pending' \in Int /\ stutters' \in Nat
  <2>1. CASE Goes(w, "end") /\ UNCHANGED <<pending, batch, stutters>>
    <3>1. JobsOK' /\ job'[w].pc = "end" /\ \A x \in WorkerIds : x # w => job'[x] = job[x]
      BY <1>2, <2>1, GoesOn DEF TypesOK, JavaOK, Pcs
    <3>2. QED
      BY <2>1, <3>1, BatchRests DEF TypesOK, JavaOK, LoopOK, HeadsOK
  <2>2. CASE /\ stutters' = stutters + 1
             /\ \E m \in machines : batch' = [batch EXCEPT ![w] = <<Frame("", m)>>]
             /\ pending' = pending + 1 /\ Goes(w, "spurious")
    <3>1. PICK m \in Machines : batch' = [batch EXCEPT ![w] = <<Frame("", m)>>]
      BY <2>2 DEF TypesOK, JavaOK, KnownOK
    <3> DEFINE s == <<Frame("", m)>>
    <3>2. Frame("", m) \in Framed /\ Frame("", m).kind = "" /\ "" \in Wakes1
      <4>1. m \in Nat /\ "" \in Kinds
        BY LanesAre DEF Kinds, Wakes1
      <4>2. QED
        BY <4>1, FrameIs DEF Wakes1
    <3>3. s \in Seq(Framed) /\ s # << >> /\ Head(s).kind \in Wakes1
      <4> DEFINE g == Frame("", m)
      <4>1. g \in Framed /\ g.kind \in Wakes1
        BY <3>2
      <4> HIDE DEF g
      <4>2. <<g>> \in Seq(Framed) /\ <<g>> # << >> /\ Head(<<g>>) = g
        BY <4>1
      <4>3. s = <<g>>
        BY DEF g
      <4> HIDE DEF s
      <4>4. QED
        BY <4>1, <4>2, <4>3
    <3> HIDE DEF s
    <3>4. JobsOK' /\ job'[w].pc = "spurious" /\ \A x \in WorkerIds : x # w => job'[x] = job[x]
      BY <1>2, <2>2, GoesOn DEF TypesOK, JavaOK, Pcs
    <3>5. BatchOK'
      BY <3>1, <3>3, <3>4, BatchGoesOn DEF TypesOK, JavaOK, s
    <3>6. stutters \in Nat /\ pending \in Int
      BY DEF TypesOK, JavaOK, LoopOK, HeadsOK
    <3>7. stutters' \in Nat /\ pending' \in Int
      <4>1. stutters' = stutters + 1 /\ pending' = pending + 1
        BY <2>2
      <4>2. QED
        BY <3>6, <4>1
    <3>8. QED
      BY <3>4, <3>5, <3>7
  <2>3. QED
    BY <1>1, <2>1, <2>2
<1>4. KnownOK' /\ PlacesOK' /\ TasksOK'
  BY <1>1 DEF TypesOK, JavaOK, KnownOK, PlacesOK, TasksOK
<1>5. RoutinesOK' /\ LoopOK'
  BY <1>1, <1>3, RestOK, OutcomeRests, OutcomeOK DEF TypesOK
<1>6. QED
  BY <1>3, <1>4, <1>5 DEF TypesOK, JavaOK

LEMMA QueueSpuriousTypes ==
  ASSUME TypesOK, NEW w \in WorkerIds, QueueSpurious(w), UNCHANGED Elsewhere
  PROVE  TypesOK'
<1> DEFINE f == Head(batch[w])
<1>1. /\ w <= threads /\ job[w].pc = "spurious"
      /\ Queue(f.id, ResumeEvent, w)
      /\ batch' = [batch EXCEPT ![w] = << >>]
      /\ Goes(w, "end")
      /\ UNCHANGED <<threads, machines, pinned, tasks, inFlight, settled, pending>>
      /\ UNCHANGED <<world, written, stutters, refused, verdict>>
      /\ UNCHANGED routines
  BY DEF QueueSpurious, At, known, asking, outcome
<1>2. f.id \in Machines
  <2>1. batch[w] # << >> /\ f.kind \in Wakes1
    BY <1>1 DEF TypesOK, JavaOK, BatchOK
  <2>2. QED
    BY <2>1, BatchIs DEF TypesOK, JavaOK
<1> HIDE DEF f
<1>3. /\ JobsOK' /\ job'[w].pc = "end" /\ \A x \in WorkerIds : x # w => job'[x] = job[x]
  <2>1. InHand(w)
    BY <1>1 DEF InHand
  <2>2. QED
    BY <1>1, <2>1, GoesOn DEF TypesOK, JavaOK, Pcs
<1>4. BatchOK'
  <2>1. << >> \in Seq(Framed)
    OBVIOUS
  <2>2. QED
    BY <1>1, <1>3, <2>1, BatchGoesOn DEF TypesOK, JavaOK
<1>5. PlacesOK'
  BY <1>1, <1>2, ThreadIs, IdleIs, QueueTypes DEF TypesOK, JavaOK
<1>6. KnownOK' /\ TasksOK' /\ pending' \in Int
  BY <1>1 DEF TypesOK, JavaOK, KnownOK, TasksOK
<1>7. RoutinesOK' /\ LoopOK'
  BY <1>1, RestOK, SameOutcome DEF TypesOK
<1>8. QED
  BY <1>3, <1>4, <1>5, <1>6, <1>7 DEF TypesOK, JavaOK

LEMMA EndTypes ==
  ASSUME TypesOK, NEW w \in WorkerIds, End(w), UNCHANGED Elsewhere
  PROVE  TypesOK'
<1> DEFINE m == job[w].m
<1>1. /\ job[w].pc = "end"
      /\ \/ /\ life[m] = "done" /\ Kills(m)
            /\ machines' = machines \ {m} /\ pinned' = pinned \ {m}
         \/ UNCHANGED routines /\ UNCHANGED <<machines, pinned>>
      /\ Goes(w, "settle")
      /\ UNCHANGED <<threads, home, inbox, running, line, next, tasks, inFlight, settled,
                     pending, batch>>
      /\ UNCHANGED <<world, written, stutters, refused, verdict>>
  BY DEF End, At, places, asking, outcome
<1>2. InHand(w) /\ m \in Machines
  BY <1>1 DEF InHand, TypesOK, JavaOK, JobsOK
<1> HIDE DEF m
<1>3. JobsOK' /\ job'[w].pc = "settle" /\ \A x \in WorkerIds : x # w => job'[x] = job[x]
  BY <1>1, <1>2, GoesOn DEF TypesOK, JavaOK, Pcs
<1>4. BatchOK'
  BY <1>1, <1>3, BatchRests DEF TypesOK, JavaOK
<1>5. KnownOK' /\ PlacesOK' /\ TasksOK' /\ pending' \in Int
  BY <1>1 DEF TypesOK, JavaOK, KnownOK, PlacesOK, TasksOK
<1>6. RoutinesOK' /\ LoopOK'
  BY <1>1, <1>2, KillsOK, RestOK, SameOutcome DEF TypesOK
<1>7. QED
  BY <1>3, <1>4, <1>5, <1>6 DEF TypesOK, JavaOK

LEMMA SettleTypes ==
  ASSUME TypesOK, NEW w \in WorkerIds, Settle(w), UNCHANGED Elsewhere
  PROVE  TypesOK'
<1>1. /\ job[w].pc = "settle"
      /\ pending' = pending - 1
      /\ Goes(w, "drain")
      /\ UNCHANGED <<threads, machines, pinned, home, inbox, running, line, next, tasks,
                     inFlight, settled, batch>>
      /\ UNCHANGED <<world, written, stutters, refused, verdict>>
      /\ UNCHANGED routines
  BY DEF Settle, At, known, places, outcome
<1>2. InHand(w)
  BY <1>1 DEF InHand
<1>3. JobsOK' /\ job'[w].pc = "drain" /\ \A x \in WorkerIds : x # w => job'[x] = job[x]
  BY <1>1, <1>2, GoesOn DEF TypesOK, JavaOK, Pcs
<1>4. BatchOK'
  BY <1>1, <1>3, BatchRests DEF TypesOK, JavaOK
<1>5. KnownOK' /\ PlacesOK' /\ TasksOK' /\ pending' \in Int
  BY <1>1 DEF TypesOK, JavaOK, KnownOK, PlacesOK, TasksOK
<1>6. RoutinesOK' /\ LoopOK'
  BY <1>1, RestOK, SameOutcome DEF TypesOK
<1>7. QED
  BY <1>3, <1>4, <1>5, <1>6 DEF TypesOK, JavaOK

LEMMA WorkTypes ==
  ASSUME TypesOK, NEW w \in WorkerIds, Works(w)
  PROVE  TypesOK'
  BY TakeTypes, DrainTypes, HandleEventTypes, PollTypes, TakesBatchTypes, WriteOutTypes,
     CountResumeTypes, QueueResumeTypes, CancelTypes, AskTaskTypes, DispatchTypes,
     QueueSpuriousTypes, EndTypes, SettleTypes DEF Works, Work

\* A step of task r changes only that task.
LEMMA TaskMoves ==
  ASSUME TasksOK, NEW r \in DOMAIN tasks, NEW t \in TaskOf,
         tasks' = [tasks EXCEPT ![r] = t], inFlight' = inFlight, settled' = settled
  PROVE  TasksOK'
<1>1. DOMAIN tasks' = DOMAIN tasks /\ tasks' \in [DOMAIN tasks -> TaskOf]
  BY DEF TasksOK
<1>2. QED
  BY <1>1 DEF TasksOK

LEMMA TaskTypes ==
  ASSUME TypesOK, NEW r \in DOMAIN tasks, Task(r), UNCHANGED Elsewhere
  PROVE  TypesOK'
<1>1. tasks[r] \in TaskOf /\ r \in Requests /\ tasks[r].effect \in Effect /\ tasks[r].n \in Int
  <2>1. tasks[r] \in TaskOf /\ r \in Requests
    BY DEF TypesOK, JavaOK, TasksOK
  <2>2. QED
    BY <2>1 DEF TaskOf
<1>2. CASE PerformTask(r)
  <2> DEFINE e == tasks[r].effect
             n == AnswerTo(world, e)
             t == [[tasks[r] EXCEPT !.pc = "performed"] EXCEPT !.n = n]
  <2>1. /\ tasks' = [tasks EXCEPT ![r].pc = "performed", ![r].n = n]
        /\ world' = WorldAfter(world, e)
        /\ UNCHANGED <<threads, machines, pinned, home, inbox, running, line, next, job, batch,
                       inFlight, settled, pending>>
        /\ UNCHANGED <<written, stutters, refused, verdict>> /\ UNCHANGED routines
    BY <1>2 DEF PerformTask, known, places
  <2>2. n \in Int
    BY AnswerIs DEF TypesOK, LoopOK, WorldOK
  <2>3. e.n \in Int
    BY <1>1 DEF Effect
  <2> HIDE DEF e, n
  <2>4. t \in TaskOf
    BY <1>1, <2>2 DEF TaskOf, TaskPcs
  <2>5. tasks' = [tasks EXCEPT ![r] = t]
    BY <2>1 DEF TypesOK, JavaOK, TasksOK
  <2> HIDE DEF t
  <2>6. TasksOK'
    BY <2>1, <2>4, <2>5, TaskMoves DEF TypesOK, JavaOK
  <2>7. WorldOK'
    BY <2>1, <2>3, AnswerIs DEF TypesOK, LoopOK, WorldOK
  <2>8. LoopOK'
    BY <2>1, <2>7, OutcomeOK DEF TypesOK, LoopOK, HeadsOK
  <2>9. KnownOK' /\ PlacesOK' /\ JobsOK' /\ BatchOK' /\ pending' \in Int
    BY <2>1, SameJobs DEF TypesOK, JavaOK, KnownOK, PlacesOK, BatchOK
  <2>10. RoutinesOK'
    BY <2>1, RestOK DEF TypesOK
  <2>11. QED
    BY <2>6, <2>8, <2>9, <2>10 DEF TypesOK, JavaOK
<1>3. CASE CountReply(r)
  <2> DEFINE t == [tasks[r] EXCEPT !.pc = "counted"]
  <2>1. /\ tasks' = [tasks EXCEPT ![r] = t]
        /\ pending' = pending + 1
        /\ UNCHANGED <<threads, machines, pinned, home, inbox, running, line, next, job, batch,
                       inFlight, settled>>
        /\ UNCHANGED <<world, written, stutters, refused, verdict>> /\ UNCHANGED routines
    BY <1>3 DEF CountReply, known, places, outcome
  <2>2. t \in TaskOf
    BY <1>1 DEF TaskOf, TaskPcs
  <2> HIDE DEF t
  <2>3. TasksOK'
    BY <2>1, <2>2, TaskMoves DEF TypesOK, JavaOK
  <2>4. KnownOK' /\ PlacesOK' /\ JobsOK' /\ BatchOK' /\ pending' \in Int
    BY <2>1, SameJobs DEF TypesOK, JavaOK, KnownOK, PlacesOK, BatchOK
  <2>5. RoutinesOK' /\ LoopOK'
    BY <2>1, RestOK, SameOutcome DEF TypesOK
  <2>6. QED
    BY <2>3, <2>4, <2>5 DEF TypesOK, JavaOK
<1>4. CASE QueueReply(r)
  <2> DEFINE event == [id |-> r[2], n |-> tasks[r].n]
  <2>1. /\ Queue(r[1], event, 0)
        /\ pending' = pending \/ pending' = pending - 1
        /\ tasks' = [q \in DOMAIN tasks \ {r} |-> tasks[q]]
        /\ settled' = settled \ {r}
        /\ UNCHANGED <<threads, machines, pinned, job, batch, inFlight>>
        /\ UNCHANGED <<world, written, stutters, refused, verdict>> /\ UNCHANGED routines
    BY <1>4 DEF QueueReply, known, outcome
  <2>2. r[1] \in Machines /\ event \in Events
    BY <1>1 DEF Requests, Events
  <2> HIDE DEF event
  <2>3. PlacesOK'
    <3>1. 0 \in 0 .. threads
      BY WorkersAre DEF TypesOK, JavaOK
    <3>2. QED
      BY <2>1, <2>2, <3>1, QueueTypes DEF TypesOK, JavaOK
  <2>4. TasksOK'
    <3>1. inFlight' \in SUBSET Requests /\ settled' \in SUBSET (DOMAIN tasks \ {r})
      BY <2>1 DEF TypesOK, JavaOK, TasksOK
    <3>2. QED
      BY <2>1, <3>1, TaskEnds DEF TypesOK, JavaOK
  <2>5. KnownOK' /\ JobsOK' /\ BatchOK' /\ pending' \in Int
    BY <2>1, SameJobs DEF TypesOK, JavaOK, KnownOK, BatchOK
  <2>6. RoutinesOK' /\ LoopOK'
    BY <2>1, RestOK, SameOutcome DEF TypesOK
  <2>7. QED
    BY <2>3, <2>4, <2>5, <2>6 DEF TypesOK, JavaOK
<1>5. QED
  BY <1>2, <1>3, <1>4 DEF Task

LEMMA QuietTypes ==
  ASSUME TypesOK, Quiet
  PROVE  TypesOK'
<1>1. /\ UNCHANGED <<threads, machines, pinned, home, inbox, running, line, next, tasks,
                     inFlight, settled, pending, job, batch>>
      /\ UNCHANGED <<world, written, stutters, refused>> /\ UNCHANGED routines
      /\ UNCHANGED Elsewhere
      /\ verdict' \in {"running", "completed", "stalled"}
  BY DEF Quiet, Decide, known, places, asking
<1>2. JavaOK'
  BY <1>1, JavaRests DEF java, known, places, asking, TypesOK
<1>3. RoutinesOK' /\ LoopOK'
  BY <1>1, RestOK, OutcomeRests, OutcomeOK DEF TypesOK
<1>4. QED
  BY <1>2, <1>3 DEF TypesOK

LEMMA ParallelTypes ==
  ASSUME TypesOK, JavaNext
  PROVE  TypesOK'
<1>1. CASE Tasks
  BY <1>1, TaskTypes DEF Tasks
<1>2. QED
  BY <1>1, WorkTypes, QuietTypes DEF JavaNext

-----------------------------------------------------------------------------
(* The types of the native hosts                                            *)

WaitOf == [kind : Asks, n : Int]
Asked1 == [kind : Asks \cup {"write", "abandon"}, id : Nat, text : Text, n : Int]
Requested == [m : Machines, effect : Asked1]

TasksRunOK ==
  runnable \in SUBSET Machines /\ local \in SUBSET Machines /\ workers \in 1 .. Workers
WaitsOK == DOMAIN waits \in SUBSET Requests /\ waits \in [DOMAIN waits -> WaitOf]
NativeOK == TasksRunOK /\ requests \in Seq(Requested) /\ WaitsOK

LEMMA NativeTypes ==
  ASSUME NativeOK
  PROVE  NativeTypeOK
<1>1. \A i \in DOMAIN requests : requests[i].m \in Machines /\ requests[i].effect.id \in Nat
  <2>1. \A i \in DOMAIN requests : requests[i] \in Requested
    BY DEF NativeOK
  <2>2. \A r \in Requested : r.m \in Machines /\ r.effect.id \in Nat
    BY DEF Requested, Asked1
  <2>3. QED
    BY <2>1, <2>2
<1>2. \A r \in DOMAIN waits : r \in Machines \X Nat /\ waits[r] \in [kind : Asks, n : Int]
  BY DEF NativeOK, WaitsOK, Requests, WaitOf
<1>3. QED
  BY <1>1, <1>2 DEF NativeOK, TasksRunOK, NativeTypeOK

\* What is at the end of a sequence.
LEMMA AppendedIs ==
  ASSUME NEW S, NEW old \in Seq(S), NEW new \in Seq(S)
  PROVE  Appended(old, new) \in Seq(S)
<1>1. Len(old) \in Nat /\ Len(new) \in Nat
  BY RangeIs
<1>2. \A i \in Len(old) + 1 .. Len(new) : new[i] \in S
  <2>1. \A i \in Len(old) + 1 .. Len(new) : i \in 1 .. Len(new)
    BY <1>1
  <2>2. QED
    BY <2>1, RangeIs
<1>3. Len(old) + 1 \in Int /\ Len(new) \in Int
  BY <1>1
<1>4. SubSeq(new, Len(old) + 1, Len(new)) \in Seq(S)
  BY <1>1, <1>2, <1>3, SubSeqProperties
<1>5. QED
  BY <1>4 DEF Appended

\* A poll is suspended at a select only with its sleep begun.
LEMMA SuspendedIs ==
  ASSUME RoutinesOK, NEW m \in Machines, PollStep(m), Is(m, "select"), life'[m] = "yielded"
  PROVE  asked[m] # << >>
<1>1. life[m] = "polling" /\ Here(m).op = "select" /\ m \in DOMAIN life
  BY DEF Is, RoutinesOK, LifeOK
<1>2. CASE Suspend(m)
  BY <1>1, <1>2 DEF Suspend, Is
<1>3. CASE life' = life
  BY <1>1, <1>3
<1>4. CASE SpawnChild(m)
  BY <1>1, <1>4 DEF SpawnChild, Is
<1>5. CASE Return(m)
  BY <1>1, <1>5 DEF Return
<1>6. QED
  BY <1>2, <1>3, <1>4, <1>5 DEF PollStep, WriteLine, SendMessage, Receive, Record, Collect,
     JoinBoth, SelectFirst, DropEnds, Continue

LEMMA SleepIs ==
  ASSUME RoutinesOK, NEW m \in Machines, Is(m, "select"), asked[m] # << >>
  PROVE  SleepOf(m) \in GoodEffect /\ RaceOf(m) \in Nat
<1>1. Here(m).kinds \in Seq(Asks) /\ Len(Here(m).kinds) = 1
  <2>1. Here(m) \in Instrs(demo) /\ Here(m).op = "select" /\ Here(m) \in Records(demo)
    BY IsHere
  <2>2. QED
    BY <2>1 DEF Instrs, Records
<1> DEFINE kind == Here(m).kinds[1]
<1>2. kind \in Asks
  BY <1>1
<1>3. RaceOf(m) \in Nat
  <2>1. asked[m] \in Seq(Nat)
    BY MailIs DEF RoutinesOK
  <2>2. QED
    BY <2>1, HeadTailProperties DEF RaceOf
<1> HIDE DEF kind
<1> DEFINE id == RaceOf(m)
           e == [[NoEffect EXCEPT !.kind = kind] EXCEPT !.id = id]
<1>4. SleepOf(m) = e
  BY DEF SleepOf, kind
<1> HIDE DEF id
<1>5. NoEffect \in Effect /\ id \in Nat
  BY <1>3, NoEffectIs DEF GoodEffect, id
<1>6. e \in Effect /\ e.kind = kind
  BY <1>2, <1>5 DEF Effect, Asks
<1>7. kind \notin {"spawned", "spawned_pinned"}
  BY <1>2 DEF Asks
<1>8. QED
  BY <1>3, <1>4, <1>6, <1>7 DEF GoodEffect

LEMMA StartsAre ==
  ASSUME RoutinesOK, NEW m \in Machines, PollStep(m)
  PROVE  Starts(m) \in Seq(GoodEffect)
<1>1. CASE ~Is(m, "select")
  <2>1. RoutinesOK'
    BY PollStepOK
  <2>2. out[m].effects \in Seq(GoodEffect) /\ out'[m].effects \in Seq(GoodEffect)
    BY <2>1 DEF RoutinesOK, OutOK, Outs
  <2>3. Appended(out[m].effects, out'[m].effects) \in Seq(GoodEffect)
    BY <2>2, AppendedIs
  <2>4. QED
    BY <1>1, <2>3 DEF Starts
<1>2. CASE Is(m, "select") /\ life'[m] = "yielded" /\ ~Begun(m, RaceOf(m))
  <2> DEFINE e == SleepOf(m)
  <2>1. e \in GoodEffect
    BY <1>2, SuspendedIs, SleepIs
  <2> HIDE DEF e
  <2>2. <<e>> \in Seq(GoodEffect)
    BY <2>1
  <2>3. Starts(m) = <<e>>
    BY <1>2 DEF Starts, e
  <2>4. QED
    BY <2>2, <2>3
<1>3. CASE Is(m, "select") /\ ~(life'[m] = "yielded" /\ ~Begun(m, RaceOf(m)))
  <2>1. Starts(m) = << >>
    BY <1>3 DEF Starts
  <2>2. << >> \in Seq(GoodEffect)
    OBVIOUS
  <2>3. QED
    BY <2>1, <2>2
<1>4. QED
  BY <1>1, <1>2, <1>3

LEMMA ChildrenAre ==
  ASSUME NEW s \in Seq(GoodEffect), NEW kinds
  PROVE  /\ ChildrenIn(s, kinds) \in SUBSET Nat
         /\ kinds \subseteq {"spawned", "spawned_pinned"} => ChildrenIn(s, kinds) \in SUBSET Machines
<1>1. \A j \in DOMAIN s : s[j] \in GoodEffect
  BY RangeIs
<1>2. \A e \in GoodEffect :
        /\ e.id \in Nat
        /\ e.kind \in {"spawned", "spawned_pinned"} => e.id \in Machines
  BY DEF GoodEffect, Effect
<1>3. \A j \in DOMAIN s :
        /\ s[j].id \in Nat
        /\ s[j].kind \in {"spawned", "spawned_pinned"} => s[j].id \in Machines
  BY <1>1, <1>2
<1>4. QED
  BY <1>3 DEF ChildrenIn

LEMMA SchedulesOK ==
  ASSUME RoutinesOK, TasksRunOK, NEW m \in Machines, PollStep(m), Schedules(m),
         workers' = workers
  PROVE  TasksRunOK'
<1> DEFINE a == Appended(out[m].woke, out'[m].woke)
           s == Starts(m)
<1>1. /\ runnable' = runnable \cup Range(a) \cup ChildrenIn(s, {"spawned", "spawned_pinned"})
      /\ local' = local \cup ChildrenIn(s, {"spawned_pinned"})
  BY DEF Schedules
<1>2. Range(a) \subseteq Machines
  <2>1. RoutinesOK'
    BY PollStepOK
  <2>2. out[m].woke \in Seq(Machines) /\ out'[m].woke \in Seq(Machines)
    BY <2>1 DEF RoutinesOK, OutOK, Outs
  <2>3. a \in Seq(Machines)
    BY <2>2, AppendedIs
  <2> HIDE DEF a
  <2>4. QED
    BY <2>3, RangeIs
<1>3. s \in Seq(GoodEffect)
  BY StartsAre
<1> HIDE DEF a, s
<1>4. /\ ChildrenIn(s, {"spawned", "spawned_pinned"}) \in SUBSET Machines
      /\ ChildrenIn(s, {"spawned_pinned"}) \in SUBSET Machines
  BY <1>3, ChildrenAre
<1>5. QED
  BY <1>1, <1>2, <1>4 DEF TasksRunOK

LEMMA LinesAre ==
  ASSUME NEW s \in Seq(GoodEffect), WorldOK
  PROVE  written \o LinesOf(s) \in Seq(Written)
<1> DEFINE W == {e \in Effect : e.kind = "write"}
           ws == Only(s, W)
<1>1. ws \in Seq(GoodEffect \cap W)
  BY OnlyIs
<1>2. \A e \in GoodEffect \cap W : Line(e.text, e.n) \in Written
  BY DEF GoodEffect, Effect, Line, Written
<1>3. LinesOf(s) = [i \in DOMAIN ws |-> Line(ws[i].text, ws[i].n)]
  BY DEF LinesOf
<1> HIDE DEF W, ws
<1>4. DOMAIN ws = 1 .. Len(ws) /\ Len(ws) \in Nat /\ \A i \in 1 .. Len(ws) : ws[i] \in GoodEffect \cap W
  BY <1>1, RangeIs
<1>5. LinesOf(s) \in [1 .. Len(ws) -> Written]
  BY <1>2, <1>3, <1>4
<1>6. LinesOf(s) \in Seq(Written)
  BY <1>4, <1>5, MappedIs
<1>7. QED
  BY <1>6, ConcatProperties DEF WorldOK

\* What is under way after a step of m: what was, and what it starts.
LEMMA WaitsAre ==
  ASSUME WaitsOK, NEW m \in Machines, NEW s \in Seq(GoodEffect), NEW K, K \subseteq Asks,
         NEW S, S \subseteq DOMAIN waits \cup {<<m, id>> : id \in ChildrenIn(s, K)},
         waits' = WaitsOf(S, m, s)
  PROVE  WaitsOK'
<1>1. S \in SUBSET Requests
  <2>1. ChildrenIn(s, K) \in SUBSET Nat
    BY ChildrenAre
  <2>2. QED
    BY <2>1 DEF WaitsOK, Requests
<1>2. ASSUME NEW r \in S, r \notin DOMAIN waits
      PROVE  (CHOOSE e \in Range(s) : e.id = r[2] /\ e.kind \in Asks).kind \in Asks
  <2>1. PICK id \in ChildrenIn(s, K) : r = <<m, id>>
    BY <1>2
  <2>2. PICK j \in DOMAIN s : s[j].kind \in K /\ id = s[j].id
    BY <2>1 DEF ChildrenIn
  <2>3. s[j] \in Range(s)
    BY <2>2, RangeIs
  <2>4. \E e \in Range(s) : e.id = r[2] /\ e.kind \in Asks
    BY <2>1, <2>2, <2>3
  <2>5. QED
    BY <2>4
<1>3. \A r \in S : (IF r \in DOMAIN waits THEN waits[r] ELSE
         [kind |-> (CHOOSE e \in Range(s) : e.id = r[2] /\ e.kind \in Asks).kind, n |-> 0])
           \in WaitOf
  <2> TAKE r \in S
  <2>1. CASE r \in DOMAIN waits
    BY <2>1 DEF WaitsOK
  <2>2. CASE r \notin DOMAIN waits
    BY <2>2, <1>2 DEF WaitOf
  <2>3. QED
    BY <2>1, <2>2
<1>4. waits' \in [S -> WaitOf]
  BY <1>3 DEF WaitsOf
<1>5. QED
  BY <1>1, <1>4 DEF WaitsOK

\* The steps of the native hosts keep what only the other hosts change.
LEMMA LoopsOK ==
  ASSUME LoopOK, UNCHANGED Loops, WorldOK', verdict' \in {"running", "completed", "stalled"}
  PROVE  LoopOK'
  BY DEF LoopOK, Loops, HeadsOK, ClockOK, QueueOK

LEMMA SameLoops ==
  ASSUME LoopOK, UNCHANGED Loops, world' = world, written' = written, verdict' = verdict
  PROVE  LoopOK'
<1>1. WorldOK' /\ verdict' \in {"running", "completed", "stalled"}
  BY DEF LoopOK, WorldOK, HeadsOK
<1>2. QED
  BY <1>1, LoopsOK

LEMMA WaitsRest ==
  ASSUME WaitsOK, waits' = waits
  PROVE  WaitsOK'
  BY DEF WaitsOK

LEMMA BeginPollTypes ==
  ASSUME RoutinesOK, LoopOK, NativeOK, NEW m \in Machines, BeginPoll(m)
  PROVE  RoutinesOK' /\ LoopOK' /\ NativeOK'
<1>1. RoutinesOK'
  BY ResumesOK DEF BeginPoll
<1>2. LoopOK'
  BY SameLoops DEF BeginPoll
<1>3. NativeOK'
  BY WaitsRest DEF BeginPoll, NativeOK, TasksRunOK
<1>4. QED
  BY <1>1, <1>2, <1>3

LEMMA TokioStepTypes ==
  ASSUME RoutinesOK, LoopOK, NativeOK, NEW m \in Machines, TokioStep(m)
  PROVE  RoutinesOK' /\ LoopOK' /\ NativeOK'
<1> DEFINE s == Starts(m)
           K == Asks \ Immediate
           begun == {<<m, id>> : id \in ChildrenIn(s, K)}
           kept == {r \in DOMAIN waits \cup begun : r[2] \in DOMAIN mail'[r[1]]}
<1>1. /\ PollStep(m) /\ Schedules(m)
      /\ written' = written \o LinesOf(s)
      /\ waits' = WaitsOf(kept, m, s)
      /\ UNCHANGED Loops /\ UNCHANGED <<world, verdict, workers, requests>>
  BY DEF TokioStep
<1>2. s \in Seq(GoodEffect)
  BY <1>1, StartsAre
<1> HIDE DEF s
<1>3. RoutinesOK'
  BY <1>1, PollStepOK
<1>4. TasksRunOK'
  BY <1>1, SchedulesOK DEF NativeOK
<1>5. WorldOK'
  <2>1. WorldOK
    BY DEF LoopOK
  <2>2. written \o LinesOf(s) \in Seq(Written)
    BY <1>2, <2>1, LinesAre
  <2>3. QED
    BY <1>1, <2>1, <2>2 DEF WorldOK
<1>6. LoopOK'
  <2>1. verdict' \in {"running", "completed", "stalled"}
    BY <1>1 DEF LoopOK, HeadsOK
  <2>2. QED
    BY <1>1, <1>5, <2>1, LoopsOK
<1>7. WaitsOK'
  <2>1. kept \subseteq DOMAIN waits \cup {<<m, id>> : id \in ChildrenIn(s, K)} /\ K \subseteq Asks
    OBVIOUS
  <2> HIDE DEF kept, K
  <2>2. QED
    BY <1>1, <1>2, <2>1, WaitsAre DEF NativeOK
<1>8. QED
  BY <1>1, <1>3, <1>4, <1>6, <1>7 DEF NativeOK

LEMMA AnswerNowTypes ==
  ASSUME RoutinesOK, LoopOK, NativeOK, NEW m \in Machines, AnswerNow(m)
  PROVE  RoutinesOK' /\ LoopOK' /\ NativeOK'
<1> DEFINE id == asked[m][Min(OpenNow(m))]
<1>1. PICK e \in Range(out[m].effects) :
        Delivers(m, id, AnswerTo(world, e)) /\ world' = WorldAfter(world, e)
  BY DEF AnswerNow
<1>2. UNCHANGED Loops /\ UNCHANGED native /\ written' = written /\ verdict' = verdict
  BY DEF AnswerNow
<1> HIDE DEF id
<1>3. e.n \in Int
  <2>1. out[m].effects \in Seq(GoodEffect)
    BY DEF RoutinesOK, OutOK, Outs
  <2>2. e \in GoodEffect
    BY <2>1, RangeIs
  <2>3. QED
    BY <2>2 DEF GoodEffect, Effect
<1>4. AnswerTo(world, e) \in Int /\ WorldAfter(world, e) \in World
  BY <1>3, AnswerIs DEF LoopOK, WorldOK
<1>5. RoutinesOK'
  BY <1>1, <1>4, DeliversOK
<1>6. LoopOK'
  <2>1. WorldOK' /\ verdict' \in {"running", "completed", "stalled"}
    BY <1>1, <1>2, <1>4 DEF LoopOK, WorldOK, HeadsOK
  <2>2. QED
    BY <1>2, <2>1, LoopsOK
<1>7. NativeOK'
  BY <1>2, WaitsRest DEF native, NativeOK, TasksRunOK
<1>8. QED
  BY <1>5, <1>6, <1>7

\* The requests a JavaScript task sends.
LEMMA SentAre ==
  ASSUME NEW m \in Machines, NEW s \in Seq(GoodEffect),
         NEW sent, sent = Only(s, {e \in Effect : e.kind \in Asks \cup {"write"}})
  PROVE  [i \in DOMAIN sent |-> [m |-> m, effect |-> sent[i]]] \in Seq(Requested)
<1> DEFINE W == {e \in Effect : e.kind \in Asks \cup {"write"}}
<1>1. sent \in Seq(GoodEffect \cap W)
  BY OnlyIs
<1>2. \A e \in W : e \in Asked1
  BY DEF Effect, Asked1
<1> HIDE DEF W
<1>3. /\ DOMAIN sent = 1 .. Len(sent) /\ Len(sent) \in Nat
      /\ \A i \in 1 .. Len(sent) : sent[i] \in Asked1
  <2>1. /\ DOMAIN sent = 1 .. Len(sent) /\ Len(sent) \in Nat
        /\ \A i \in 1 .. Len(sent) : sent[i] \in GoodEffect \cap W
    BY <1>1, RangeIs
  <2>2. QED
    BY <2>1, <1>2
<1>4. \A i \in 1 .. Len(sent) : [m |-> m, effect |-> sent[i]] \in Requested
  BY <1>3 DEF Requested
<1>5. [i \in DOMAIN sent |-> [m |-> m, effect |-> sent[i]]] \in [1 .. Len(sent) -> Requested]
  BY <1>3, <1>4
<1>6. QED
  BY <1>3, <1>5, MappedIs

LEMMA JsStepTypes ==
  ASSUME RoutinesOK, LoopOK, NativeOK, NEW m \in Machines, JsStep(m)
  PROVE  RoutinesOK' /\ LoopOK' /\ NativeOK'
<1> DEFINE s == Starts(m)
           sent == Only(s, {e \in Effect : e.kind \in Asks \cup {"write"}})
           a == [i \in DOMAIN sent |-> [m |-> m, effect |-> sent[i]]]
           id == RaceOf(m)
           abandon == [[NoEffect EXCEPT !.kind = "abandon"] EXCEPT !.id = id]
           b == IF LosesSleep(m) THEN <<[m |-> m, effect |-> abandon]>> ELSE << >>
<1>1. /\ PollStep(m) /\ Schedules(m)
      /\ requests' = requests \o a \o b
      /\ UNCHANGED Loops /\ UNCHANGED <<world, written, verdict, workers, waits>>
  BY DEF JsStep
<1>2. s \in Seq(GoodEffect)
  BY <1>1, StartsAre
<1> HIDE DEF s
<1>3. a \in Seq(Requested)
  BY <1>2, SentAre
<1>4. b \in Seq(Requested)
  <2>1. CASE LosesSleep(m)
    <3>1. id \in Nat
      BY <2>1, SleepIs DEF LosesSleep
    <3> HIDE DEF id
    <3>2. NoEffect \in Effect
      BY NoEffectIs DEF GoodEffect
    <3>3. abandon \in Asked1
      BY <3>1, <3>2 DEF Effect, Asked1, Asks
    <3> DEFINE r == [m |-> m, effect |-> abandon]
    <3> HIDE DEF abandon
    <3>4. r \in Requested
      BY <3>3 DEF Requested
    <3> HIDE DEF r
    <3>5. <<r>> \in Seq(Requested)
      BY <3>4
    <3>6. QED
      BY <2>1, <3>5 DEF r
  <2>2. CASE ~LosesSleep(m)
    <3>1. << >> \in Seq(Requested) /\ b = << >>
      BY <2>2
    <3>2. QED
      BY <3>1
  <2>3. QED
    BY <2>1, <2>2
<1> HIDE DEF a, b
<1>5. requests' \in Seq(Requested)
  <2>1. requests \in Seq(Requested)
    BY DEF NativeOK
  <2>2. requests \o a \in Seq(Requested)
    BY <1>3, <2>1, ConcatProperties
  <2>3. requests \o a \o b \in Seq(Requested)
    BY <1>4, <2>2, ConcatProperties
  <2>4. QED
    BY <1>1, <2>3
<1>6. TasksRunOK'
  BY <1>1, SchedulesOK DEF NativeOK
<1>7. RoutinesOK' /\ LoopOK'
  BY <1>1, PollStepOK, SameLoops
<1>8. QED
  BY <1>1, <1>5, <1>6, <1>7, WaitsRest DEF NativeOK

LEMMA EndPollTypes ==
  ASSUME RoutinesOK, LoopOK, NativeOK, NEW m \in Machines, EndPoll(m)
  PROVE  RoutinesOK' /\ LoopOK' /\ NativeOK'
<1>1. RoutinesOK'
  BY ReadsOK DEF EndPoll
<1>2. LoopOK'
  BY SameLoops DEF EndPoll
<1>3. NativeOK'
  BY WaitsRest DEF EndPoll, native, NativeOK, TasksRunOK
<1>4. QED
  BY <1>1, <1>2, <1>3

\* A wait is over.
LEMMA WithoutWaitIs ==
  ASSUME NEW f, DOMAIN f \in SUBSET Requests, f \in [DOMAIN f -> WaitOf], NEW r
  PROVE  /\ DOMAIN WithoutWait(f, r) = DOMAIN f \ {r}
         /\ DOMAIN WithoutWait(f, r) \in SUBSET Requests
         /\ WithoutWait(f, r) \in [DOMAIN WithoutWait(f, r) -> WaitOf]
  BY DEF WithoutWait

LEMMA WaitEnded ==
  ASSUME WaitsOK, NEW r, waits' = WithoutWait(waits, r)
  PROVE  WaitsOK' /\ DOMAIN waits' = DOMAIN waits \ {r}
<1>1. DOMAIN waits \in SUBSET Requests /\ waits \in [DOMAIN waits -> WaitOf]
  BY DEF WaitsOK
<1>2. QED
  BY <1>1, WithoutWaitIs DEF WaitsOK

LEMMA WaitIs ==
  ASSUME WaitsOK, NEW r \in DOMAIN waits
  PROVE  r[1] \in Machines /\ r[2] \in Nat /\ waits[r].kind \in Asks /\ waits[r].n \in Int
<1>1. r \in Machines \X Nat /\ waits[r] \in WaitOf
  BY DEF WaitsOK, Requests
<1>2. QED
  BY <1>1 DEF WaitOf

LEMMA WaitEndsTypes ==
  ASSUME RoutinesOK, LoopOK, NativeOK, NEW r \in DOMAIN waits, WaitEnds(r)
  PROVE  RoutinesOK' /\ LoopOK' /\ NativeOK'
<1> DEFINE e == [[NoEffect EXCEPT !.kind = waits[r].kind] EXCEPT !.id = r[2]]
<1>1. /\ Delivers(r[1], r[2], AnswerTo(world, e)) /\ world' = WorldAfter(world, e)
      /\ runnable' = runnable \cup {r[1]} /\ waits' = WithoutWait(waits, r)
      /\ UNCHANGED Loops /\ UNCHANGED <<written, verdict, workers, local, requests>>
  BY DEF WaitEnds
<1>2. r[1] \in Machines /\ r[2] \in Nat
  BY WaitIs DEF NativeOK
<1>3. e.n \in Int
  BY DEF NoEffect
<1> HIDE DEF e
<1>4. AnswerTo(world, e) \in Int /\ WorldAfter(world, e) \in World
  BY <1>3, AnswerIs DEF LoopOK, WorldOK
<1>5. RoutinesOK'
  BY <1>1, <1>2, <1>4, DeliversOK
<1>6. LoopOK'
  <2>1. WorldOK' /\ verdict' \in {"running", "completed", "stalled"}
    BY <1>1, <1>4 DEF LoopOK, WorldOK, HeadsOK
  <2>2. QED
    BY <1>1, <2>1, LoopsOK
<1>7. TasksRunOK'
  BY <1>1, <1>2 DEF NativeOK, TasksRunOK
<1>8. WaitsOK'
  BY <1>1, WaitEnded DEF NativeOK
<1>9. QED
  BY <1>1, <1>5, <1>6, <1>7, <1>8 DEF NativeOK

LEMMA PromiseSettlesTypes ==
  ASSUME RoutinesOK, LoopOK, NativeOK, NEW r \in DOMAIN waits, PromiseSettles(r)
  PROVE  RoutinesOK' /\ LoopOK' /\ NativeOK'
<1>1. /\ waits' = WithoutWait(waits, r)
      /\ \/ Delivers(r[1], r[2], waits[r].n) /\ runnable' = runnable \cup {r[1]}
         \/ UNCHANGED routines /\ runnable' = runnable
      /\ UNCHANGED Loops /\ UNCHANGED <<world, written, verdict, workers, local, requests>>
  BY DEF PromiseSettles
<1>2. r[1] \in Machines /\ r[2] \in Nat /\ waits[r].n \in Int
  BY WaitIs DEF NativeOK
<1>3. RoutinesOK'
  BY <1>1, <1>2, DeliversOK, RestOK
<1>4. LoopOK'
  BY <1>1, SameLoops
<1>5. TasksRunOK'
  BY <1>1, <1>2 DEF NativeOK, TasksRunOK
<1>6. WaitsOK'
  BY <1>1, WaitEnded DEF NativeOK
<1>7. QED
  BY <1>1, <1>3, <1>4, <1>5, <1>6 DEF NativeOK

\* What serving requests changes.
WaitMaps == UNION {[S -> WaitOf] : S \in SUBSET Requests}
Served == [written : Seq(Written), world : World, waits : WaitMaps]

LEMMA WaitMapsAre ==
  /\ \A S \in SUBSET Requests : \A f \in [S -> WaitOf] : f \in WaitMaps
  /\ \A f \in WaitMaps : DOMAIN f \in SUBSET Requests /\ f \in [DOMAIN f -> WaitOf]
<1>1. ASSUME NEW f \in WaitMaps
      PROVE  DOMAIN f \in SUBSET Requests /\ f \in [DOMAIN f -> WaitOf]
  <2>1. PICK S \in SUBSET Requests : f \in [S -> WaitOf]
    BY DEF WaitMaps
  <2>2. QED
    BY <2>1
<1>2. QED
  BY <1>1 DEF WaitMaps

LEMMA ServedFields ==
  ASSUME NEW s \in Served
  PROVE  s.written \in Seq(Written) /\ s.world \in World /\ s.waits \in WaitMaps
  BY DEF Served

LEMMA WorldStays ==
  ASSUME NEW w \in World, NEW e, e.n \in Int
  PROVE  WorldAfter(w, e) \in World /\ AnswerTo(w, e) \in Int
<1>1. w.lines \in 0 .. Lines /\ w.greeted \in Nat /\ w.file \in Int /\ Lines \in Nat
  BY RoutinesAssumption DEF World
<1>2. AnswerTo(w, e) \in Int
  <2>1. /\ Lines - w.lines + 1 \in Int /\ Ended \in Int /\ w.greeted + 1 \in Int
        /\ w.file \in Int /\ 0 \in Int
    BY <1>1 DEF Ended
  <2>2. QED
    BY <2>1 DEF AnswerTo
<1>3. w.lines > 0 => w.lines - 1 \in 0 .. Lines
  BY <1>1
<1>4. w.greeted + 1 \in Nat
  BY <1>1
<1>5. /\ w.lines > 0 => [w EXCEPT !.lines = w.lines - 1] \in World
      /\ [w EXCEPT !.greeted = w.greeted + 1] \in World
      /\ [w EXCEPT !.file = e.n] \in World
  BY <1>3, <1>4 DEF World
<1>6. WorldAfter(w, e) \in World
  BY <1>5 DEF WorldAfter
<1>7. QED
  BY <1>2, <1>6

LEMMA ServeIs ==
  ASSUME NEW s \in Served, NEW r \in Requested
  PROVE  Serve(s, r) \in Served
<1> DEFINE e == r.effect
           q == <<r.m, e.id>>
<1>1. /\ e.kind \in Asks \cup {"write", "abandon"} /\ e.id \in Nat /\ e.text \in Text
      /\ e.n \in Int /\ r.m \in Machines
  <2>1. r.m \in Machines /\ r.effect \in Asked1
    BY DEF Requested
  <2>2. QED
    BY <2>1 DEF Asked1
<1>2. q \in Requests
  BY <1>1 DEF Requests
<1> HIDE DEF e, q
<1>3. /\ s.written \in Seq(Written) /\ s.world \in World /\ s.waits \in WaitMaps
  BY ServedFields
<1>4. e.kind = "write" => Append(s.written, Line(e.text, e.n)) \in Seq(Written)
  <2>1. Line(e.text, e.n) \in Written
    BY <1>1 DEF Line, Written
  <2>2. QED
    BY <1>3, <2>1, AppendIs
<1> DEFINE n == AnswerTo(s.world, e)
           v == [kind |-> e.kind, n |-> n]
<1>5. WorldAfter(s.world, e) \in World /\ n \in Int
  BY <1>1, <1>3, WorldStays
<1>6. DOMAIN s.waits \in SUBSET Requests /\ s.waits \in [DOMAIN s.waits -> WaitOf]
  BY <1>3, WaitMapsAre
<1>7. WithoutWait(s.waits, q) \in WaitMaps
  BY <1>6, WithoutWaitIs, WaitMapsAre
<1>8. e.kind \in Asks => WithWait(s.waits, q, v) \in WaitMaps
  <2> HAVE e.kind \in Asks
  <2>1. v \in WaitOf
    BY <1>5 DEF WaitOf
  <2> HIDE DEF v
  <2> DEFINE x == WithWait(s.waits, q, v)
  <2>2. x \in [DOMAIN s.waits \cup {q} -> WaitOf]
    BY <1>6, <2>1 DEF WithWait
  <2>3. DOMAIN s.waits \cup {q} \in SUBSET Requests
    BY <1>2, <1>6
  <2> HIDE DEF x
  <2>4. QED
    BY <2>2, <2>3, WaitMapsAre DEF x
<1> DEFINE a == IF e.kind = "write" THEN Append(s.written, Line(e.text, e.n))
                                    ELSE s.written
           c == WorldAfter(s.world, e)
           d == IF e.kind = "abandon" THEN WithoutWait(s.waits, q)
                ELSE IF e.kind \in Asks THEN WithWait(s.waits, q, v) ELSE s.waits
<1>9. Serve(s, r) = [written |-> a, world |-> c, waits |-> d]
  BY DEF Serve, e, q
<1>10. a \in Seq(Written) /\ c \in World /\ d \in WaitMaps
  BY <1>3, <1>4, <1>5, <1>7, <1>8
<1> HIDE DEF a, c, d
<1>11. QED
  BY <1>9, <1>10 DEF Served

\* The states a dispatcher passes through, a request at a time.
Serves(F) ==
  /\ F[0] = [written |-> written, world |-> world, waits |-> waits]
  /\ \A i \in 1 .. Len(requests) : F[i] = Serve(F[i - 1], requests[i])
  /\ \A i \in 0 .. Len(requests) : F[i] \in Served

LEMMA ServedInTurn ==
  ASSUME WorldOK, WaitsOK, requests \in Seq(Requested), DispatchRequests
  PROVE  \E F : /\ Serves(F)
                /\ written' = F[Len(requests)].written
                /\ world' = F[Len(requests)].world /\ waits' = F[Len(requests)].waits
<1> DEFINE n == Len(requests)
           b == [written |-> written, world |-> world, waits |-> waits]
           Is0(f) == f = [i \in 0 .. n |-> IF i = 0 THEN b ELSE Serve(f[i - 1], requests[i])]
           h == [p \in (1 .. n) \X Served |-> Serve(p[2], requests[p[1]])]
<1>1. n \in Nat /\ \A i \in 1 .. n : requests[i] \in Requested
  BY RangeIs
<1>2. b \in Served
  <2>1. waits \in WaitMaps
    BY WaitMapsAre DEF WaitsOK
  <2>2. QED
    BY <2>1 DEF WorldOK, Served
<1>3. h \in [(1 .. n) \X Served -> Served]
  <2>1. \A p \in (1 .. n) \X Served : Serve(p[2], requests[p[1]]) \in Served
    BY <1>1, ServeIs
  <2>2. QED
    BY <2>1
<1>4. \A i \in 1 .. n, t \in Served : h[<<i, t>>] = Serve(t, requests[i])
  OBVIOUS
<1> HIDE DEF h, n, b
<1>5. PICK g : Iterates(g, Served, b, n, h)
  BY <1>1, <1>2, <1>3, IterateExists
<1>6. \E f : Is0(f)
  <2>1. /\ g \in [0 .. n -> Served]
        /\ g = [i \in 0 .. n |-> IF i = 0 THEN b ELSE h[<<i, g[i - 1]>>]]
    BY <1>1, <1>2, <1>3, <1>5, IterateIs DEF Iterates
  <2>2. ASSUME NEW i \in 0 .. n, i # 0
        PROVE  h[<<i, g[i - 1]>>] = Serve(g[i - 1], requests[i])
    <3>1. i \in 1 .. n /\ i - 1 \in 0 .. n
      BY <1>1, <2>2
    <3>2. g[i - 1] \in Served
      BY <2>1, <3>1
    <3>3. QED
      BY <3>1, <3>2, <1>4
  <2>3. \A i \in 0 .. n : g[i] = IF i = 0 THEN b ELSE Serve(g[i - 1], requests[i])
    BY <2>1, <2>2, Zenon
  <2>4. Is0(g)
    BY <2>1, <2>3
  <2>5. QED
    BY <2>4
<1> DEFINE F == CHOOSE f : Is0(f)
<1>7. Is0(F)
  BY <1>6
<1>8. written' = F[n].written /\ world' = F[n].world /\ waits' = F[n].waits
  BY Zenon DEF DispatchRequests, n, b
<1> HIDE DEF F
<1>9. F[0] = b /\ \A i \in 1 .. n : F[i] = Serve(F[i - 1], requests[i])
  <2>1. \A i \in 0 .. n : F[i] = IF i = 0 THEN b ELSE Serve(F[i - 1], requests[i])
    BY <1>7
  <2>2. 0 \in 0 .. n /\ \A i \in 1 .. n : i \in 0 .. n /\ i # 0
    BY <1>1
  <2>3. QED
    BY <2>1, <2>2, Zenon
<1> HIDE DEF Is0
<1> DEFINE W == {i \in 0 .. n : F[i] \in Served}
<1>10. 0 \in W
  BY <1>1, <1>2, <1>9
<1>11. \A i \in 1 .. n : i - 1 \in W => i \in W
  <2> TAKE i \in 1 .. n
  <2> HAVE i - 1 \in W
  <2>1. F[i - 1] \in Served /\ i \in 0 .. n
    BY <1>1
  <2>2. F[i] \in Served
    BY <1>1, <1>9, <2>1, ServeIs
  <2>3. QED
    BY <2>1, <2>2
<1> HIDE DEF W
<1>12. \A i \in 0 .. n : F[i] \in Served
  <2>1. \A i \in 0 .. n : i \in W
    BY <1>1, <1>10, <1>11, Upwards
  <2>2. QED
    BY <2>1 DEF W
<1>13. Serves(F)
  BY <1>9, <1>12 DEF Serves, n, b
<1>14. QED
  BY <1>8, <1>13 DEF n

LEMMA ServedIs ==
  ASSUME WorldOK, WaitsOK, requests \in Seq(Requested), DispatchRequests
  PROVE  WorldOK' /\ WaitsOK'
<1> DEFINE n == Len(requests)
<1>1. PICK F : Serves(F) /\ written' = F[n].written /\ world' = F[n].world /\ waits' = F[n].waits
  BY ServedInTurn
<1>2. F[n] \in Served
  <2>1. n \in 0 .. n
    BY RangeIs
  <2>2. QED
    BY <1>1, <2>1 DEF Serves
<1>3. written' \in Seq(Written) /\ world' \in World /\ waits' \in WaitMaps
  BY <1>1, <1>2, ServedFields
<1>4. DOMAIN waits' \in SUBSET Requests /\ waits' \in [DOMAIN waits' -> WaitOf]
  BY <1>3, WaitMapsAre
<1>5. QED
  BY <1>3, <1>4 DEF WorldOK, WaitsOK

LEMMA DispatchRequestsTypes ==
  ASSUME RoutinesOK, LoopOK, NativeOK, DispatchRequests
  PROVE  RoutinesOK' /\ LoopOK' /\ NativeOK'
<1>1. /\ requests' = << >>
      /\ UNCHANGED routines /\ UNCHANGED Loops /\ UNCHANGED <<verdict, runnable, workers, local>>
  BY DEF DispatchRequests
<1>2. WorldOK' /\ WaitsOK'
  BY ServedIs DEF LoopOK, NativeOK
<1>3. RoutinesOK'
  BY <1>1, RestOK
<1>4. LoopOK'
  <2>1. verdict' \in {"running", "completed", "stalled"}
    BY <1>1 DEF LoopOK, HeadsOK
  <2>2. QED
    BY <1>1, <1>2, <2>1, LoopsOK
<1>5. requests' \in Seq(Requested)
  <2>1. << >> \in Seq(Requested)
    OBVIOUS
  <2>2. QED
    BY <1>1, <2>1
<1>6. QED
  BY <1>1, <1>2, <1>3, <1>4, <1>5 DEF NativeOK, TasksRunOK

LEMMA TokioEndsTypes ==
  ASSUME RoutinesOK, LoopOK, NativeOK, TokioEnds
  PROVE  RoutinesOK' /\ LoopOK' /\ NativeOK'
<1>1. /\ verdict' = "completed"
      /\ life' = [m \in Machines |-> IF life[m] \in {"new", "waiting"} THEN "dropped"
                                                                     ELSE life[m]]
      /\ runnable' = {} /\ waits' = << >>
      /\ UNCHANGED <<demo, code, at, got, asked, mail, minted, ends, msgs, ears, woken, out>>
      /\ UNCHANGED Loops /\ UNCHANGED <<world, written, workers, local, requests>>
  BY DEF TokioEnds
<1>2. LifeOK'
  <2>1. \A m \in Machines :
          (IF life[m] \in {"new", "waiting"} THEN "dropped" ELSE life[m]) \in Lives
    BY DEF RoutinesOK, LifeOK, Lives
  <2>2. life' \in [Machines -> Lives]
    BY <1>1, <2>1
  <2>3. \A m \in Machines : life'[m] # "none" => code'[m] \in Kin(demo)
    <3>1. \A m \in Machines : life'[m] # "none" => life[m] # "none"
      BY <1>1
    <3>2. QED
      BY <1>1, <3>1 DEF RoutinesOK, LifeOK
  <2>4. QED
    BY <1>1, <2>2, <2>3 DEF RoutinesOK, LifeOK
<1>3. RoutinesOK'
  BY <1>1, <1>2 DEF RoutinesOK, PlaceOK, MailOK, EndsOK, ChannelsOK, OutOK
<1>4. LoopOK'
  <2>1. WorldOK'
    BY <1>1 DEF LoopOK, WorldOK
  <2>2. QED
    BY <1>1, <2>1, LoopsOK
<1>5. WaitsOK'
  <2>1. DOMAIN waits' = {} /\ waits' \in [{} -> WaitOf]
    BY <1>1
  <2>2. QED
    BY <2>1 DEF WaitsOK
<1>6. QED
  BY <1>1, <1>3, <1>4, <1>5 DEF NativeOK, TasksRunOK

LEMMA JsEndsTypes ==
  ASSUME RoutinesOK, LoopOK, NativeOK, JsEnds
  PROVE  RoutinesOK' /\ LoopOK' /\ NativeOK'
<1>1. /\ verdict' \in {"running", "completed", "stalled"}
      /\ UNCHANGED routines /\ UNCHANGED Loops /\ UNCHANGED native
      /\ UNCHANGED <<world, written>>
  BY DEF JsEnds
<1>2. LoopOK'
  <2>1. WorldOK'
    BY <1>1 DEF LoopOK, WorldOK
  <2>2. QED
    BY <1>1, <2>1, LoopsOK
<1>3. NativeOK'
  BY <1>1, WaitsRest DEF native, NativeOK, TasksRunOK
<1>4. QED
  BY <1>1, <1>2, <1>3, RestOK

LEMMA NativeNextTypes ==
  ASSUME RoutinesOK, LoopOK, NativeOK, NativeNext
  PROVE  RoutinesOK' /\ LoopOK' /\ NativeOK'
  BY BeginPollTypes, TokioStepTypes, AnswerNowTypes, JsStepTypes, EndPollTypes,
     WaitEndsTypes, PromiseSettlesTypes, DispatchRequestsTypes, TokioEndsTypes, JsEndsTypes
     DEF NativeNext

-----------------------------------------------------------------------------
(* The types of every host, together                                        *)

AllOK == TypesOK /\ NativeOK

LEMMA NoTasks ==
  ASSUME tasks = << >>, inFlight = {}, settled = {}
  PROVE  TasksOK
<1>1. DOMAIN tasks = {} /\ tasks \in [{} -> TaskOf]
  OBVIOUS
<1>2. QED
  BY <1>1 DEF TasksOK

LEMMA NoJavaIs ==
  ASSUME NoJava, JavaRest
  PROVE  JavaOK
<1>1. KnownOK
  <2>1. 1 \in WorkerIds
    BY LoopAssumption DEF WorkerIds
  <2>2. QED
    BY <2>1 DEF NoJava, JavaRest, KnownOK
<1>2. PlacesOK
  <2>1. << >> \in Seq(Events) /\ << >> \in Seq(Machines) /\ 0 \in 0 .. 1 /\ 0 \in 0 .. 1 - 1
    OBVIOUS
  <2>2. QED
    BY <2>1 DEF NoJava, JavaRest, PlacesOK
<1>3. JobsOK /\ BatchOK
  <2>1. Idle \in Jobs /\ Idle.pc = "idle" /\ << >> \in Seq(Framed)
    BY IdleIs
  <2>2. QED
    BY <2>1 DEF JavaRest, JobsOK, BatchOK, InHand
<1>4. TasksOK /\ pending \in Int
  BY NoTasks DEF NoJava, JavaRest
<1>5. QED
  BY <1>1, <1>2, <1>3, <1>4 DEF JavaOK

LEMMA NoNativeIs ==
  ASSUME requests = << >>, waits = << >>, local = {}, workers \in 1 .. Workers,
         runnable \in SUBSET Machines
  PROVE  NativeOK
<1>1. << >> \in Seq(Requested) /\ DOMAIN waits = {} /\ waits \in [{} -> WaitOf]
  OBVIOUS
<1>2. QED
  BY <1>1 DEF NativeOK, TasksRunOK, WaitsOK

LEMMA LoopStart ==
  ASSUME LoopInit, host \in HostNames, queue \in Seq(GoodItem)
  PROVE  RoutinesOK /\ LoopOK
<1>1. HeadsOK
  BY DEF LoopInit, HeadsOK
<1>2. WorldOK
  <2>1. Lines \in 0 .. Lines /\ 0 \in Nat /\ 0 \in Int
    BY Rounding
  <2>2. FirstWorld \in World
    BY <2>1 DEF FirstWorld, World
  <2>3. << >> \in Seq(Written)
    OBVIOUS
  <2>4. QED
    BY <2>2, <2>3 DEF LoopInit, WorldOK
<1>3. ClockOK
  <2>1. << >> \in Seq(Timer) /\ << >> \in Seq(Machines)
    OBVIOUS
  <2>2. QED
    BY <2>1 DEF LoopInit, ClockOK
<1>4. RoutinesOK
  BY RoutinesStart DEF LoopInit
<1>5. QED
  BY <1>1, <1>2, <1>3, <1>4 DEF LoopOK, QueueOK

LEMMA FirstQueues ==
  /\ << >> \in Seq(GoodItem)
  /\ <<ResumeOf(Root)>> \in Seq(GoodItem)
<1> DEFINE a == ResumeOf(Root)
<1>1. a \in GoodItem
  BY MachinesFinite, NoEffectIs, ItemsAre
<1> HIDE DEF a
<1>2. <<a>> \in Seq(GoodItem) /\ << >> \in Seq(GoodItem)
  BY <1>1
<1>3. QED
  BY <1>2 DEF a

LEMMA JavaStart ==
  ASSUME JavaInit
  PROVE  JavaOK
<1>0. 1 \in WorkerIds /\ Workers \in Nat /\ Root \in Machines /\ threads \in WorkerIds
  BY LoopAssumption, MachinesFinite DEF WorkerIds, JavaInit
<1>1. KnownOK
  BY <1>0 DEF JavaInit, JavaRest, KnownOK
<1>2. home \in [Machines -> 0 .. threads] /\ next \in 0 .. threads - 1
  <2>1. threads \in Nat /\ threads >= 1
    BY <1>1, WorkersAre
  <2>2. 0 \in 0 .. threads /\ 1 % threads \in 0 .. threads - 1
    BY <2>1
  <2>3. QED
    BY <2>2 DEF JavaInit, JavaRest
<1>3. inbox \in [Machines -> Seq(Events)]
  <2>1. ResumeEvent \in Events
    BY IdleIs
  <2>2. <<ResumeEvent>> \in Seq(Events) /\ << >> \in Seq(Events)
    BY <2>1
  <2>3. QED
    BY <2>2 DEF JavaInit
<1>4. line \in [WorkerIds -> Seq(Machines)]
  <2>1. <<Root>> \in Seq(Machines) /\ << >> \in Seq(Machines)
    BY <1>0
  <2>2. QED
    BY <2>1 DEF JavaInit
<1>5. PlacesOK
  BY <1>0, <1>2, <1>3, <1>4 DEF PlacesOK, JavaInit
<1>6. JobsOK /\ BatchOK
  <2>1. Idle \in Jobs /\ Idle.pc = "idle" /\ << >> \in Seq(Framed)
    BY IdleIs
  <2>2. QED
    BY <2>1 DEF JavaInit, JavaRest, JobsOK, BatchOK, InHand
<1>7. TasksOK /\ pending \in Int
  BY NoTasks DEF JavaInit, JavaRest
<1>8. QED
  BY <1>1, <1>5, <1>6, <1>7 DEF JavaOK

LEMMA AllStart ==
  ASSUME Init
  PROVE  AllOK
<1>0. Root \in Machines /\ 1 \in 1 .. Workers
  BY MachinesFinite, LoopAssumption
<1>1. CASE DriveInit /\ NoJava /\ JavaRest /\ NoNative
  <2>1. RoutinesOK /\ LoopOK
    BY <1>1, FirstQueues, LoopStart DEF DriveInit, HostNames
  <2>2. JavaOK /\ NativeOK
    BY <1>0, <1>1, NoJavaIs, NoNativeIs DEF NoNative
  <2>3. QED
    BY <2>1, <2>2 DEF AllOK, TypesOK
<1>2. CASE PythonInit /\ NoJava /\ JavaRest /\ NoNative
  <2>1. RoutinesOK /\ LoopOK
    BY <1>2, FirstQueues, LoopStart DEF PythonInit, HostNames
  <2>2. JavaOK /\ NativeOK
    BY <1>0, <1>2, NoJavaIs, NoNativeIs DEF NoNative
  <2>3. QED
    BY <2>1, <2>2 DEF AllOK, TypesOK
<1>3. CASE JavaInit /\ NoNative
  <2>1. RoutinesOK /\ LoopOK
    BY <1>3, FirstQueues, LoopStart DEF JavaInit, HostNames
  <2>2. JavaOK /\ NativeOK
    BY <1>0, <1>3, JavaStart, NoNativeIs DEF NoNative
  <2>3. QED
    BY <2>1, <2>2 DEF AllOK, TypesOK
<1>4. CASE NativeInit /\ NoJava /\ JavaRest
  <2>1. RoutinesOK /\ LoopOK
    BY <1>4, FirstQueues, LoopStart DEF NativeInit, HostNames
  <2>2. JavaOK /\ NativeOK
    BY <1>0, <1>4, NoJavaIs, NoNativeIs DEF NativeInit
  <2>3. QED
    BY <2>1, <2>2 DEF AllOK, TypesOK
<1>5. QED
  BY <1>1, <1>2, <1>3, <1>4 DEF Init

LEMMA NativeRests ==
  ASSUME NativeOK, UNCHANGED native
  PROVE  NativeOK'
  BY WaitsRest DEF native, NativeOK, TasksRunOK

LEMMA AllSteps ==
  ASSUME AllOK, [Next]_vars
  PROVE  AllOK'
<1>1. CASE Single
  <2>1. RoutinesOK' /\ LoopOK' /\ UNCHANGED java /\ UNCHANGED native
    BY <1>1, SingleTypes DEF AllOK, TypesOK
  <2>2. QED
    BY <2>1, JavaRests, NativeRests DEF AllOK, TypesOK
<1>2. CASE Parallel
  BY <1>2, ParallelTypes, NativeRests DEF Parallel, AllOK
<1>3. CASE Native
  <2>1. RoutinesOK' /\ LoopOK' /\ NativeOK'
    BY <1>3, NativeNextTypes DEF Native, AllOK, TypesOK
  <2>2. JavaOK'
    BY <1>3, JavaRests DEF Native, AllOK, TypesOK
  <2>3. QED
    BY <2>1, <2>2 DEF AllOK, TypesOK
<1>4. CASE UNCHANGED vars
  BY <1>4, RestOK, LoopRests, JavaRests, NativeRests DEF vars, AllOK, TypesOK
<1>5. QED
  BY <1>1, <1>2, <1>3, <1>4 DEF Next
=============================================================================
