------------------------------ MODULE Routines ------------------------------
(***************************************************************************)
(* The demo's routines (demo/routines/src), the combinators they use       *)
(* (join.rs, select.rs) and what their machines promise a host: a poll     *)
(* runs a routine to its next wait, and yields the effects it recorded,    *)
(* the requests it dropped and the machines it woke.                       *)
(*                                                                         *)
(* A routine is a sequence of instructions, one per effect, channel        *)
(* operation or await of its source; hosts run them (TestHost, PythonHost, *)
(* JavaHost).  Polls of different machines may interleave instruction by   *)
(* instruction.  Channels are async-channel's, which is external: a queue, *)
(* closed once every sender or every receiver is dropped.  A demo's        *)
(* channels exist from the start.  The order of effects within one machine *)
(* and the mailbox are Outbox's and Mailbox's subject: here requests are a *)
(* map.  Texts are labels with the number they show.                       *)
(***************************************************************************)
EXTENDS Integers, Sequences, FiniteSets, SequencesExt

CONSTANTS
  Demos,      \* the routines a host may run
  Rounds,     \* ping-pong's rounds, the ring's laps
  Size,       \* machines in the ring
  Lines,      \* lines the host can read
  Entries,    \* the ticker's ticks, the journal's entries
  MaxMachine  \* bound: machines of one run

\* The routines a host can start.
Roots == {"ping_pong", "ring", "deadline", "deadlock", "greeter", "fanout",
          "front_desk", "ticker", "journal"}

ASSUME RoutinesAssumption ==
  /\ Demos \subseteq Roots
  /\ Rounds \in Nat \ {0} /\ Size \in Nat \ {0, 1} /\ Lines \in Nat
  /\ Entries \in Nat /\ MaxMachine \in Nat \ {0}

Machines == 1 .. MaxMachine
Root == 1

\* Outcomes of an await that are not a number.
Gone == -1       \* the channel closed
Late == -2       \* the deadline passed first
Ended == -3      \* no line left to read
Pending == -4    \* a request not answered

Tx(c) == <<"tx", c>>
Rx(c) == <<"rx", c>>

-----------------------------------------------------------------------------
\* Instructions.  `orElse` is where control goes on a closed channel or the
\* end of input; `child`, `keep` and `give` are a spawn's routine, and the
\* ends it clones and moves.

Instr(op) == [op |-> op, text |-> "", ch |-> <<"", 0>>, n |-> 0,
              orElse |-> 0, child |-> <<"", 0>>, keep |-> {}, give |-> {},
              kinds |-> << >>]

Write(text) == [Instr("write") EXCEPT !.text = text]
Show(text) == [Instr("show") EXCEPT !.text = text]
Spawn(child, give, keep) ==
  [Instr("spawned") EXCEPT !.child = child, !.give = give, !.keep = keep]
SpawnPinned(child, give) ==
  [Instr("spawned_pinned") EXCEPT !.child = child, !.give = give]
Send(c, n, orElse) ==
  [Instr("send") EXCEPT !.ch = c, !.n = n, !.orElse = orElse]
Forward(c, n, orElse) ==
  [Instr("forward") EXCEPT !.ch = c, !.n = n, !.orElse = orElse]
Recv(c, n, orElse) ==
  [Instr("recv") EXCEPT !.ch = c, !.n = n, !.orElse = orElse]
Ask(kind) == [Instr("ask") EXCEPT !.kinds = <<kind>>]
Read(orElse) ==
  [Instr("ask") EXCEPT !.kinds = <<"read_line">>, !.orElse = orElse]
Join(a, b) == [Instr("join") EXCEPT !.kinds = <<a, b>>]
Select(c, kind) == [Instr("select") EXCEPT !.ch = c, !.kinds = <<kind>>]
Drop(ends) == [Instr("drop") EXCEPT !.give = ends]
Goto(at) == [Instr("goto") EXCEPT !.orElse = at]

\* A sequence of instructions once per i in 1 .. k.
Unroll(k, Code(_)) == FlattenSeq([i \in 1 .. k |-> Code(i)])

-----------------------------------------------------------------------------
\* The routines.

Pings == <<"pings", 0>>
Pongs == <<"pongs", 0>>

PingPong ==
  LET over == 3 * Rounds + 2
  IN <<Spawn(<<"ponger", 0>>, {Rx(Pings), Tx(Pongs)}, {})>>
     \o Unroll(Rounds, LAMBDA i : <<Send(Pings, i, over),
                                    Recv(Pongs, 0, over), Show("pong")>>)

Ponger == <<Recv(Pings, 0, 4), Forward(Pongs, 0, 4), Goto(1)>>

Hop(i) == <<"ring", i>>
Onward(i) == Hop(IF i = Size THEN 1 ELSE i + 1)

Ring ==
  LET over == Size + 2 * Rounds + 1
  IN [i \in 1 .. Size - 1 |->
         Spawn(<<"node", i + 1>>, {Rx(Hop(i + 1))}, {Tx(Onward(i + 1))})]
     \o <<Drop({Tx(Hop(i)) : i \in 1 .. Size} \ {Tx(Onward(1))})>>
     \o Unroll(Rounds, LAMBDA i : <<Forward(Onward(1), 0, over),
                                    Recv(Hop(1), 1, over)>>)
     \o <<Show("hops")>>

Node(i) == <<Recv(Hop(i), 0, 4), Forward(Onward(i), 1, 4), Goto(1)>>

Quick == <<"quick", 0>>
Slow == <<"slow", 0>>
Gate == <<"gate", 0>>

Deadline ==
  <<Spawn(<<"worker", 1>>, {Tx(Quick)}, {}),
    Select(Quick, "patience"), Show("quick worker"),
    Spawn(<<"worker", 2>>, {Rx(Gate), Tx(Slow)}, {}),
    Select(Slow, "pause"), Show("slow worker"),
    Send(Gate, 0, 8),
    Recv(Slow, 0, 9), Show("slow worker")>>

Worker(i) ==
  IF i = 1 THEN <<Send(Quick, 1, 2)>>
           ELSE <<Recv(Gate, 0, 3), Send(Slow, 2, 3)>>

ToChild == <<"child", 0>>
ToParent == <<"parent", 0>>

Deadlock ==
  <<Spawn(<<"first", 0>>, {Rx(ToChild), Tx(ToParent)}, {}),
    Write("each waits"), Recv(ToParent, 0, 4),
    Drop({Tx(ToChild)}), Show("heard")>>

Waiter == <<Recv(ToChild, 0, 3), Send(ToParent, 0, 3)>>

\* The routine stops at the first end of input: `bye` is its last line.
Greeter ==
  <<Write("who"), Read(9), Ask("lookup"), Ask("pause"), Write("hello"),
    Ask("count"), Show("greeted"), Goto(1), Write("bye")>>

Fanout ==
  <<Write("who"), Read(6), Join("lookup", "count"), Show("greeted"),
    Join("pause", "read_line"), Write("bye")>>

Reply(k) == <<"reply", k>>

FrontDesk ==
  LET reads == 2 * Lines + 1
  IN Unroll(Lines, LAMBDA k :
       <<Read(reads + 1), SpawnPinned(<<"clerk", k>>, {Tx(Reply(k))})>>)
     \o <<Read(reads + 1)>>
     \o Unroll(Lines, LAMBDA k : <<Recv(Reply(k), 0, reads + 3 * k),
                                   Show("greeting"), Drop({Rx(Reply(k))})>>)
     \o <<Write("closed")>>

Clerk(k) == <<Ask("lookup"), Send(Reply(k), k, 3)>>

Ticker == Unroll(Entries, LAMBDA i : <<Write("tick"), Ask("pause")>>)

Journal ==
  Unroll(Entries, LAMBDA i :
    <<Ask("var"), Ask("read_file"), Ask("now"), Ask("random"),
      Ask("write_file"), Show("entry")>>)

Routine ==
  {<<d, 0>> : d \in Roots \cup {"ponger", "first"}}
    \cup {<<"node", i>> : i \in 2 .. Size} \cup {<<"worker", i>> : i \in 1 .. 2}
    \cup {<<"clerk", k>> : k \in 1 .. Lines}

Code == [r \in Routine |->
  CASE r[1] = "ping_pong" -> PingPong [] r[1] = "ponger" -> Ponger
    [] r[1] = "ring" -> Ring [] r[1] = "node" -> Node(r[2])
    [] r[1] = "deadline" -> Deadline [] r[1] = "worker" -> Worker(r[2])
    [] r[1] = "deadlock" -> Deadlock [] r[1] = "first" -> Waiter
    [] r[1] = "greeter" -> Greeter [] r[1] = "fanout" -> Fanout
    [] r[1] = "front_desk" -> FrontDesk [] r[1] = "clerk" -> Clerk(r[2])
    [] r[1] = "ticker" -> Ticker [] r[1] = "journal" -> Journal]

\* The ends a root makes: every one its instructions or its children name.
Made == [d \in Demos |->
  CASE d = "ping_pong" -> {Pings, Pongs}
    [] d = "ring" -> {Hop(i) : i \in 1 .. Size}
    [] d = "deadline" -> {Quick, Slow, Gate}
    [] d = "deadlock" -> {ToChild, ToParent}
    [] d = "front_desk" -> {Reply(k) : k \in 1 .. Lines}
    [] OTHER -> {}]

-----------------------------------------------------------------------------
VARIABLES
  demo,     \* which routine the root is
  life,     \* machine -> where it is between its creation and its end
  code,     \* machine -> its routine
  at,       \* machine -> the instruction it is at
  got,      \* machine -> what its last await that has a result gave
  asked,    \* machine -> ids of the requests its instruction awaits, if begun
  mail,     \* machine -> its open requests: id -> answer, or Pending
  minted,   \* machine -> the newest id
  ends,     \* machine -> the channel ends it holds
  msgs,     \* channel -> what was sent and not received
  ears,     \* channel -> the machines its receiver would wake
  woken,    \* machine -> its hook was called since its last poll began
  out       \* machine -> what its poll has to yield

routines == <<demo, life, code, at, got, asked, mail, minted, ends, msgs,
              ears, woken, out>>

\* none: not created.  new: created, never polled.  polling.  yielded,
\* returned: the poll is over, its output not read yet.  waiting: suspended.
\* done: returned.  dropped: killed.
Lives == {"none", "new", "polling", "yielded", "returned", "waiting", "done",
          "dropped"}

Channels == UNION {Made[d] : d \in Demos}
Text == {"", "pong", "hops", "quick worker", "slow worker", "each waits",
         "heard", "who", "hello", "greeted", "bye", "greeting", "closed",
         "tick", "entry"}
Effect == [kind : {"write", "spawned", "spawned_pinned", "patience", "pause",
                   "read_line", "lookup", "count", "var", "read_file", "now",
                   "random", "write_file"},
           id : Nat, text : Text, n : Int]
Nothing == [effects |-> << >>, closed |-> << >>, woke |-> << >>]

RoutinesTypeOK ==
  /\ demo \in Demos
  /\ life \in [Machines -> Lives]
  /\ \A m \in Machines : life[m] # "none" => code[m] \in Routine
  /\ \A m \in Machines : at[m] \in Nat /\ got[m] \in Int /\ minted[m] \in Nat
  /\ \A m \in Machines : asked[m] \in Seq(Nat)
  /\ \A m \in Machines : DOMAIN mail[m] \subseteq 1 .. minted[m]
  /\ \A m \in Machines :
       ends[m] \subseteq {Tx(c) : c \in Channels} \cup {Rx(c) : c \in Channels}
  /\ \A c \in Channels : msgs[c] \in Seq(Int) /\ ears[c] \subseteq Machines
  /\ woken \in [Machines -> BOOLEAN]
  /\ \A m \in Machines :
       /\ out[m].effects \in Seq(Effect)
       /\ out[m].closed \in Seq(Nat)
       /\ out[m].woke \in Seq(Machines)

RoutinesInit ==
  /\ demo \in Demos
  /\ life = [m \in Machines |-> IF m = Root THEN "new" ELSE "none"]
  /\ code = [m \in Machines |-> <<IF m = Root THEN demo ELSE "", 0>>]
  /\ at = [m \in Machines |-> 1]
  /\ got = [m \in Machines |-> 0]
  /\ asked = [m \in Machines |-> << >>]
  /\ mail = [m \in Machines |-> << >>]
  /\ minted = [m \in Machines |-> 0]
  /\ ends = [m \in Machines |->
               IF m = Root THEN {Tx(c) : c \in Made[demo]}
                                  \cup {Rx(c) : c \in Made[demo]}
                           ELSE {}]
  /\ msgs = [c \in Channels |-> << >>]
  /\ ears = [c \in Channels |-> {}]
  /\ woken = [m \in Machines |-> FALSE]
  /\ out = [m \in Machines |-> Nothing]

-----------------------------------------------------------------------------
\* The instruction m is at.
Here(m) == Code[code[m]][at[m]]
Is(m, op) ==
  /\ life[m] = "polling"
  /\ at[m] <= Len(Code[code[m]])
  /\ Here(m).op = op

Held(e) == \E m \in Machines : e \in ends[m]

Next1(m) == at' = [at EXCEPT ![m] = @ + 1]
Jump(m) == at' = [at EXCEPT ![m] = Here(m).orElse]

\* The machines among S whose hook is called by a wake: once per wait.
Hooked(S) == SetToSeq({x \in S : ~woken[x]})

\* Dropping the ends E, m drops the last sender of c.
Closes(m, E, c) ==
  /\ Tx(c) \in E \cap ends[m]
  /\ \A x \in Machines \ {m} : Tx(c) \notin ends[x]

\* The machines that hear a channel close when m drops the ends E.
Hears(m, E) == UNION {ears[c] : c \in {d \in Channels : Closes(m, E, d)}}

\* Closed channels are heard once, and m's dropped receivers stop listening.
EarsWithout(m, E) ==
  [c \in Channels |-> IF Closes(m, E, c) THEN {}
                      ELSE IF Rx(c) \in E THEN ears[c] \ {m} ELSE ears[c]]

Wakes(m, S) ==
  /\ woken' = [x \in Machines |-> woken[x] \/ x \in S]
  /\ out' = [out EXCEPT ![m].woke = @ \o Hooked(S)]

Emits(m, effects) == out' = [out EXCEPT ![m].effects = @ \o effects]

\* The routine tells the host to write a line.
WriteLine(m) ==
  /\ Is(m, "write") \/ Is(m, "show")
  /\ Emits(m, <<[kind |-> "write", id |-> 0, text |-> Here(m).text,
                 n |-> IF Here(m).op = "show" THEN got[m] ELSE 0]>>)
  /\ Next1(m)
  /\ UNCHANGED <<demo, life, code, got, asked, mail, minted, ends, msgs, ears,
                 woken>>

\* The child is made now, with the ends moved into it; it is begun later.
SpawnChild(m) ==
  /\ Is(m, "spawned") \/ Is(m, "spawned_pinned")
  /\ \E c \in Machines :
       /\ life[c] = "none"
       /\ \A d \in 1 .. c - 1 : life[d] # "none"
       /\ life' = [life EXCEPT ![c] = "new"]
       /\ code' = [code EXCEPT ![c] = Here(m).child]
       /\ ends' = [ends EXCEPT ![m] = @ \ Here(m).give,
                               ![c] = Here(m).give \cup Here(m).keep]
       /\ Emits(m, <<[kind |-> Here(m).op, id |-> c, text |-> "", n |-> 0]>>)
  /\ Next1(m)
  /\ UNCHANGED <<demo, got, asked, mail, minted, msgs, ears, woken>>

\* No channel here is ever full: a send fails or is done at once.
SendMessage(m) ==
  /\ Is(m, "send") \/ Is(m, "forward")
  /\ LET c == Here(m).ch
         n == IF Here(m).op = "send" THEN Here(m).n ELSE got[m] + Here(m).n
     IN IF Held(Rx(c))
          THEN /\ msgs' = [msgs EXCEPT ![c] = Append(@, n)]
               /\ ears' = [ears EXCEPT ![c] = {}]
               /\ Wakes(m, ears[c])
               /\ Next1(m)
          ELSE /\ Jump(m)
               /\ UNCHANGED <<msgs, ears, woken, out>>
  /\ UNCHANGED <<demo, life, code, got, asked, mail, minted, ends>>

Ready(c) == msgs[c] # << >>
Closed(c) == msgs[c] = << >> /\ ~Held(Tx(c))

Receive(m) ==
  /\ Is(m, "recv")
  /\ LET c == Here(m).ch
     IN \/ /\ Ready(c)
           /\ got' = [got EXCEPT ![m] = Head(msgs[c]) + Here(m).n]
           /\ msgs' = [msgs EXCEPT ![c] = Tail(@)]
           /\ Next1(m)
        \/ /\ Closed(c)
           /\ got' = [got EXCEPT ![m] = Gone]
           /\ Jump(m)
           /\ UNCHANGED msgs
  /\ UNCHANGED <<demo, life, code, asked, mail, minted, ends, ears, woken,
                 out>>

\* Faulty: the next request gets the same id.
RecordSameId(m) ==
  /\ Is(m, "ask") \/ Is(m, "join") \/ Is(m, "select")
  /\ asked[m] = << >>
  /\ LET kinds == Here(m).kinds
         ids == [i \in 1 .. Len(kinds) |-> minted[m] + i]
     IN /\ asked' = [asked EXCEPT ![m] = ids]
        /\ mail' = [mail EXCEPT ![m] =
                      [id \in DOMAIN @ \cup Range(ids) |-> Pending]]
        /\ Emits(m, [i \in 1 .. Len(kinds) |->
                       [kind |-> kinds[i], id |-> ids[i], text |-> "",
                        n |-> 0]])
  /\ UNCHANGED <<demo, life, code, at, got, minted, ends, msgs, ears, woken>>

\* Requests become futures when their await, join or select starts, in
\* order, before anything is polled: minted and recorded.
Record(m) ==
  /\ Is(m, "ask") \/ Is(m, "join") \/ Is(m, "select")
  /\ asked[m] = << >>
  /\ LET kinds == Here(m).kinds
         ids == [i \in 1 .. Len(kinds) |-> minted[m] + i]
     IN /\ asked' = [asked EXCEPT ![m] = ids]
        /\ minted' = [minted EXCEPT ![m] = @ + Len(kinds)]
        /\ mail' = [mail EXCEPT ![m] =
                      [id \in DOMAIN @ \cup Range(ids) |->
                         IF id \in DOMAIN @ THEN @[id] ELSE Pending]]
        /\ Emits(m, [i \in 1 .. Len(kinds) |->
                       [kind |-> kinds[i], id |-> ids[i], text |-> "",
                        n |-> IF kinds[i] = "write_file" THEN got[m] + 1
                                                         ELSE 0]])
  /\ UNCHANGED <<demo, life, code, at, got, ends, msgs, ears, woken>>

Answered(m, id) == id \in DOMAIN mail[m] /\ mail[m][id] # Pending
Without(m, S) == [id \in DOMAIN mail[m] \ S |-> mail[m][id]]

\* Answers a routine keeps for a line it writes later.
Kept == {"read_line", "count", "read_file"}

Collect(m) ==
  /\ Is(m, "ask")
  /\ asked[m] # << >>
  /\ LET id == Head(asked[m])
         kind == Here(m).kinds[1]
         ended == kind = "read_line" /\ mail[m][id] = Ended
     IN /\ Answered(m, id)
        /\ mail' = [mail EXCEPT ![m] = Without(m, {id})]
        /\ got' = [got EXCEPT ![m] = IF kind \in Kept THEN mail[m][id] ELSE @]
        /\ IF ended THEN Jump(m) ELSE Next1(m)
  /\ asked' = [asked EXCEPT ![m] = << >>]
  /\ UNCHANGED <<demo, life, code, minted, ends, msgs, ears, woken, out>>

\* join polls both sides at every poll, and keeps what finished.
JoinBoth(m) ==
  /\ Is(m, "join")
  /\ asked[m] # << >>
  /\ LET ready == {id \in Range(asked[m]) : Answered(m, id)}
         left == (Range(asked[m]) \cap DOMAIN mail[m]) \ ready
     IN /\ ready # {}
        /\ mail' = [mail EXCEPT ![m] = Without(m, ready)]
        /\ got' = [got EXCEPT ![m] =
                     IF asked[m][2] \in ready THEN mail[m][asked[m][2]] ELSE @]
        /\ IF left = {} THEN /\ asked' = [asked EXCEPT ![m] = << >>]
                             /\ Next1(m)
                        ELSE UNCHANGED <<asked, at>>
  /\ UNCHANGED <<demo, life, code, minted, ends, msgs, ears, woken, out>>

\* select polls the receive first; what loses is dropped, and a request not
\* answered is then closed.
SelectFirst(m) ==
  /\ Is(m, "select")
  /\ asked[m] # << >>
  /\ LET c == Here(m).ch
         id == Head(asked[m])
         abandoned == IF Answered(m, id) THEN << >> ELSE <<id>>
     IN /\ \/ /\ Ready(c)
              /\ got' = [got EXCEPT ![m] = Head(msgs[c])]
              /\ msgs' = [msgs EXCEPT ![c] = Tail(@)]
           \/ /\ ~Ready(c)
              /\ Closed(c) \/ Answered(m, id)
              /\ got' = [got EXCEPT ![m] = IF Closed(c) THEN Gone ELSE Late]
              /\ UNCHANGED msgs
        /\ out' = [out EXCEPT ![m].closed = @ \o abandoned]
        /\ mail' = [mail EXCEPT ![m] = Without(m, {id})]
        /\ ears' = [ears EXCEPT ![c] = @ \ {m}]
  /\ asked' = [asked EXCEPT ![m] = << >>]
  /\ Next1(m)
  /\ UNCHANGED <<demo, life, code, minted, ends, woken>>

DropEnds(m) ==
  /\ Is(m, "drop")
  /\ ends' = [ends EXCEPT ![m] = @ \ Here(m).give]
  /\ ears' = EarsWithout(m, Here(m).give)
  /\ Wakes(m, Hears(m, Here(m).give))
  /\ Next1(m)
  /\ UNCHANGED <<demo, life, code, got, asked, mail, minted, msgs>>

Continue(m) ==
  /\ Is(m, "goto")
  /\ Jump(m)
  /\ UNCHANGED <<demo, life, code, got, asked, mail, minted, ends, msgs, ears,
                 woken, out>>

\* Nothing the routine awaits is ready: it leaves its waker and suspends.
Suspend(m) ==
  /\ \/ /\ Is(m, "recv")
        /\ ~Ready(Here(m).ch) /\ ~Closed(Here(m).ch)
     \/ /\ Is(m, "ask") \/ Is(m, "join")
        /\ asked[m] # << >>
        /\ \A id \in Range(asked[m]) : ~Answered(m, id)
     \/ /\ Is(m, "select")
        /\ asked[m] # << >>
        /\ ~Ready(Here(m).ch) /\ ~Closed(Here(m).ch)
        /\ ~Answered(m, Head(asked[m]))
  /\ ears' = IF Here(m).op \in {"recv", "select"}
               THEN [ears EXCEPT ![Here(m).ch] = @ \cup {m}] ELSE ears
  /\ life' = [life EXCEPT ![m] = "yielded"]
  /\ UNCHANGED <<demo, code, at, got, asked, mail, minted, ends, msgs, woken,
                 out>>

\* The routine returns: what it still holds is dropped in its last poll.
Return(m) ==
  /\ life[m] = "polling"
  /\ at[m] > Len(Code[code[m]])
  /\ life' = [life EXCEPT ![m] = "returned"]
  /\ ends' = [ends EXCEPT ![m] = {}]
  /\ ears' = EarsWithout(m, ends[m])
  /\ Wakes(m, Hears(m, ends[m]))
  /\ UNCHANGED <<demo, code, at, got, asked, mail, minted, msgs>>

\* m is suspended and could go on: its answer or message is there, or will
\* never come.
CanGo(m) ==
  LET i == Code[code[m]][at[m]]
  IN \/ life[m] = "new"
     \/ /\ life[m] = "waiting"
        /\ \/ i.op \in {"recv", "select"} /\ (Ready(i.ch) \/ Closed(i.ch))
           \/ \E id \in Range(asked[m]) : Answered(m, id)

\* One step of m's poll.
PollStep(m) ==
  \/ WriteLine(m) \/ SpawnChild(m) \/ SendMessage(m) \/ Receive(m)
  \/ Record(m) \/ Collect(m) \/ JoinBoth(m) \/ SelectFirst(m) \/ DropEnds(m)
  \/ Continue(m) \/ Suspend(m) \/ Return(m)

-----------------------------------------------------------------------------
\* What a host does to a machine.

Pollable(m) == life[m] \in {"new", "waiting"}
Open(m, id) == id \in DOMAIN mail[m] /\ mail[m][id] = Pending

\* A resume: the hook may be called again from here on.
Resumes(m) ==
  /\ Pollable(m)
  /\ life' = [life EXCEPT ![m] = "polling"]
  /\ woken' = [woken EXCEPT ![m] = FALSE]
  /\ out' = [out EXCEPT ![m] = Nothing]
  /\ UNCHANGED <<demo, code, at, got, asked, mail, minted, ends, msgs, ears>>

\* A reply delivered, and the poll that follows it.
Replies(m, id, answer) ==
  /\ Pollable(m)
  /\ Open(m, id)
  /\ mail' = [mail EXCEPT ![m][id] = answer]
  /\ life' = [life EXCEPT ![m] = "polling"]
  /\ woken' = [woken EXCEPT ![m] = FALSE]
  /\ out' = [out EXCEPT ![m] = Nothing]
  /\ UNCHANGED <<demo, code, at, got, asked, minted, ends, msgs, ears>>

\* An answer delivered, with no poll of its own: also during one.
Delivers(m, id, answer) ==
  /\ Open(m, id)
  /\ mail' = [mail EXCEPT ![m][id] = answer]
  /\ UNCHANGED <<demo, life, code, at, got, asked, minted, ends, msgs, ears,
                 woken, out>>

\* The host has read the poll's output.
Reads(m) ==
  /\ life[m] \in {"yielded", "returned"}
  /\ life' = [life EXCEPT ![m] = IF @ = "returned" THEN "done" ELSE "waiting"]
  /\ out' = [out EXCEPT ![m] = Nothing]
  /\ UNCHANGED <<demo, code, at, got, asked, mail, minted, ends, msgs, ears,
                 woken>>

\* The machine is dropped outside any poll; its host hears whom that woke.
Kills(m) ==
  /\ life' = [life EXCEPT ![m] = "dropped"]
  /\ ends' = [ends EXCEPT ![m] = {}]
  /\ mail' = [mail EXCEPT ![m] = << >>]
  /\ asked' = [asked EXCEPT ![m] = << >>]
  /\ ears' = EarsWithout(m, ends[m])
  /\ woken' = [x \in Machines |-> woken[x] \/ x \in Hears(m, ends[m])]
  /\ UNCHANGED <<demo, code, at, got, minted, msgs, out>>

-----------------------------------------------------------------------------
\* The world the demo's hosts share: input, a count, one file.

Asks == {"patience", "pause", "read_line", "lookup", "count", "var",
         "read_file", "now", "random", "write_file"}
Sleeps == {"patience", "pause"}

World == [lines : 0 .. Lines, greeted : Nat, file : Int]
FirstWorld == [lines |-> Lines, greeted |-> 0, file |-> 0]

\* The answer to an effect, and the world after it.
AnswerTo(w, e) ==
  CASE e.kind = "read_line" -> IF w.lines > 0 THEN Lines - w.lines + 1
                                              ELSE Ended
    [] e.kind = "count" -> w.greeted + 1
    [] e.kind = "read_file" -> w.file
    [] OTHER -> 0

WorldAfter(w, e) ==
  CASE e.kind = "read_line" /\ w.lines > 0 -> [w EXCEPT !.lines = @ - 1]
    [] e.kind = "count" -> [w EXCEPT !.greeted = @ + 1]
    [] e.kind = "write_file" -> [w EXCEPT !.file = e.n]
    [] OTHER -> w

Line(text, n) == [text |-> text, n |-> n]

\* What each demo writes, whatever the schedule (the constants of
\* boundary/src/lib.rs and the hosts' transcripts); a host answers its i-th
\* count with counts[i].
Transcript(d, counts) ==
  CASE d = "ping_pong" -> [i \in 1 .. Rounds |-> Line("pong", i)]
    [] d = "ring" -> <<Line("hops", Size * Rounds)>>
    [] d = "deadline" -> <<Line("quick worker", 1), Line("slow worker", Late),
                           Line("slow worker", 2)>>
    [] d = "deadlock" -> <<Line("each waits", 0)>>
    [] d = "greeter" ->
         Unroll(Lines, LAMBDA i : <<Line("who", 0), Line("hello", 0),
                                    Line("greeted", counts[i])>>)
           \o <<Line("who", 0), Line("bye", 0)>>
    [] d = "fanout" -> IF Lines = 0
         THEN <<Line("who", 0), Line("bye", 0)>>
         ELSE <<Line("who", 0), Line("greeted", counts[1]), Line("bye", 0)>>
    [] d = "front_desk" ->
         [k \in 1 .. Lines |-> Line("greeting", k)] \o <<Line("closed", 0)>>
    [] d = "ticker" -> [i \in 1 .. Entries |-> Line("tick", 0)]
    [] d = "journal" -> [i \in 1 .. Entries |-> Line("entry", i - 1)]

=============================================================================
