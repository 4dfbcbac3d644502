------------------------------ MODULE WakeProofs ------------------------------
(***************************************************************************)
(* Proofs that no wake is lost: a routine suspended on a channel is among  *)
(* its listeners until it is woken (Listens), one that was woken or made   *)
(* is in its host's hands until it is polled (Called), whichever host runs *)
(* it; so no machine that can go on is forgotten. Proofs that a timer      *)
(* still running is the timer of a race still being decided, and that a    *)
(* host gives its verdict when nothing is left that could go on.           *)
(***************************************************************************)
EXTENDS SchedulerProofs

-----------------------------------------------------------------------------
(* What a suspended routine waits for                                        *)

Silent(c) == ~Ready(c) /\ ~Closed(c)
Attends(m, c) == woken[m] \/ (m \in ears[c] /\ Silent(c))
Suspended(m) == life[m] \in {"yielded", "waiting"}
Hearkens(m) ==
  /\ at[m] <= Len(Code[code[m]])
  /\ Here(m).op \in {"recv", "select"}
Unanswered(m) == \A id \in Range(asked[m]) : ~Answered(m, id)

\* A suspended routine is at an instruction, and listens to its channel
\* unless it was woken; what is not made yet holds no end.
Listens(m) ==
  /\ Suspended(m) => at[m] <= Len(Code[code[m]])
  /\ Suspended(m) /\ Hearkens(m) => Attends(m, Here(m).ch)
  /\ life[m] = "none" => ends[m] = {}
Listening == \A m \in Machines : Listens(m)

LEMMA SilentIs ==
  ASSUME NEW c
  PROVE  Silent(c) <=> msgs[c] = << >> /\ Held(Tx(c))
BY DEF Silent, Ready, Closed

LEMMA SameAttends ==
  ASSUME NEW m, NEW c, Attends(m, c), woken[m] => woken'[m],
         m \in ears[c] => m \in ears'[c],
         msgs'[c] = msgs[c], Held(Tx(c)) => Held(Tx(c))'
  PROVE  Attends(m, c)'
BY SilentIs DEF Attends, Silent, Ready, Closed

\* When ends are dropped, whoever listened is woken or has still a sender.
LEMMA DropAttends ==
  ASSUME RoutinesOK, NEW p \in Machines, NEW E, NEW m \in Machines, m # p,
         NEW c \in Channels, Attends(m, c),
         ends'[p] = ends[p] \ E, \A x \in Machines : x # p => ends'[x] = ends[x],
         ears' = EarsWithout(p, E), msgs' = msgs,
         woken'[m] <=> woken[m] \/ m \in Hears(p, E)
  PROVE  Attends(m, c)'
<1>1. CASE woken[m]
  BY <1>1 DEF Attends
<1>2. CASE m \in ears[c] /\ Silent(c) /\ Closes(p, E, c)
  BY <1>2 DEF Attends, Hears
<1>3. CASE m \in ears[c] /\ Silent(c) /\ ~Closes(p, E, c)
  <2>1. m \in ears'[c]
    BY <1>3 DEF EarsWithout
  <2>2. PICK y \in Machines : Tx(c) \in ends[y]
    BY <1>3, SilentIs DEF Held
  <2>3. Held(Tx(c))'
    <3>1. CASE y # p
      BY <2>2, <3>1 DEF Held
    <3>2. CASE Tx(c) \notin E
      BY <2>2, <3>2 DEF Held
    <3>3. CASE y = p /\ Tx(c) \in E
      <4>1. PICK x \in Machines \ {p} : Tx(c) \in ends[x]
        BY <1>3, <2>2, <3>3 DEF Closes
      <4>2. QED
        BY <4>1 DEF Held
    <3>4. QED
      BY <3>1, <3>2, <3>3
  <2>4. QED
    BY <1>3, <2>1, <2>3, SilentIs DEF Attends, Silent, Ready, Closed
<1>4. QED
  BY <1>1, <1>2, <1>3 DEF Attends

LEMMA WakesAre ==
  ASSUME RoutinesOK, NEW p \in Machines, NEW S, Wakes(p, S)
  PROVE  /\ \A m \in Machines : woken'[m] <=> woken[m] \/ m \in S
         /\ out'[p].woke = out[p].woke \o Hooked(S)
BY DEF Wakes, RoutinesOK, OutOK, Outs

LEMMA SendAttends ==
  ASSUME RoutinesOK, NEW p \in Machines, SendMessage(p), NEW m \in Machines,
         NEW c \in Channels, Attends(m, c)
  PROVE  Attends(m, c)'
<1> DEFINE d == Here(p).ch
           n == IF Here(p).op = "send" THEN Here(p).n ELSE got[p] + Here(p).n
<1>0. ends' = ends /\ d \in Channels
  BY ChannelHere DEF SendMessage
<1>1. CASE Held(Rx(d))
  <2>1. /\ msgs' = [msgs EXCEPT ![d] = Append(@, n)]
        /\ ears' = [ears EXCEPT ![d] = {}] /\ Wakes(p, ears[d])
    BY <1>1 DEF SendMessage
  <2>2. woken'[m] <=> woken[m] \/ m \in ears[d]
    BY <2>1, WakesAre
  <2>3. CASE c = d \/ woken[m]
    BY <2>2, <2>3 DEF Attends
  <2>4. CASE c # d
    <3>1. msgs'[c] = msgs[c] /\ ears'[c] = ears[c]
      BY <2>1, <2>4 DEF RoutinesOK, ChannelsOK
    <3>2. QED
      BY <1>0, <2>2, <3>1, SameAttends DEF Held
  <2>5. QED
    BY <2>3, <2>4
<1>2. CASE ~Held(Rx(d))
  <2>1. UNCHANGED <<msgs, ears, woken>>
    BY <1>2 DEF SendMessage
  <2>2. QED
    BY <1>0, <2>1, SameAttends DEF Held
<1>3. QED
  BY <1>1, <1>2

LEMMA TakeAttends ==
  ASSUME RoutinesOK, NEW p \in Machines, Receive(p) \/ SelectFirst(p), NEW m \in Machines,
         m # p, NEW c \in Channels, Attends(m, c)
  PROVE  Attends(m, c)'
<1> DEFINE d == Here(p).ch
<1>0. /\ ends' = ends /\ woken' = woken
      /\ ears' = ears \/ ears' = [ears EXCEPT ![d] = @ \ {p}]
  BY DEF Receive, SelectFirst
<1>1. d \in Channels
  BY ChannelHere DEF Receive, SelectFirst
<1>2. m \in ears[c] => m \in ears'[c]
  BY <1>0 DEF RoutinesOK, ChannelsOK
<1>3. msgs' = msgs \/ (Ready(d) /\ msgs' = [msgs EXCEPT ![d] = Tail(@)])
  BY Zenon DEF Receive, SelectFirst
<1>4. CASE woken[m]
  BY <1>0, <1>4 DEF Attends
<1>5. CASE Silent(c)
  <2>1. msgs'[c] = msgs[c]
    BY <1>1, <1>3, <1>5 DEF Silent, RoutinesOK, ChannelsOK
  <2>2. QED
    BY <1>0, <1>2, <2>1, SameAttends DEF Held
<1>6. QED
  BY <1>4, <1>5 DEF Attends

LEMMA SpawnIs ==
  ASSUME RoutinesOK, NEW p \in Machines, SpawnChild(p)
  PROVE  \E c \in Machines :
           /\ c # p /\ life[p] = "polling" /\ life[c] = "none"
           /\ life'[c] = "new" /\ \A x \in Machines : x # c => life'[x] = life[x]
           /\ \A x \in Machines : x # c => code'[x] = code[x]
           /\ ends'[p] = ends[p] \ Here(p).give
           /\ ends'[c] = Here(p).give \cup Here(p).keep
           /\ \A x \in Machines : x # p /\ x # c => ends'[x] = ends[x]
           /\ Emits(p, <<[kind |-> Here(p).op, id |-> c, text |-> "", n |-> 0]>>)
           /\ Here(p).op \in Begets
<1>1. PICK c \in Machines :
        /\ life[c] = "none"
        /\ life' = [life EXCEPT ![c] = "new"]
        /\ code' = [code EXCEPT ![c] = Here(p).child]
        /\ ends' = [ends EXCEPT ![p] = @ \ Here(p).give,
                                ![c] = Here(p).give \cup Here(p).keep]
        /\ Emits(p, <<[kind |-> Here(p).op, id |-> c, text |-> "", n |-> 0]>>)
  BY DEF SpawnChild
<1>2. life[p] = "polling" /\ Here(p).op \in Begets
  BY DEF SpawnChild, Is, Begets
<1>3. c # p
  BY <1>1, <1>2
<1>4. life'[c] = "new" /\ \A x \in Machines : x # c => life'[x] = life[x] /\ code'[x] = code[x]
  BY <1>1 DEF RoutinesOK, LifeOK
<1>5. /\ ends'[p] = ends[p] \ Here(p).give /\ ends'[c] = Here(p).give \cup Here(p).keep
      /\ \A x \in Machines : x # p /\ x # c => ends'[x] = ends[x]
  BY <1>1, <1>3 DEF RoutinesOK, EndsOK
<1>6. QED
  BY <1>1, <1>2, <1>3, <1>4, <1>5

LEMMA SpawnAttends ==
  ASSUME RoutinesOK, Listening, NEW p \in Machines, SpawnChild(p), NEW m \in Machines,
         NEW c \in Channels, Attends(m, c)
  PROVE  Attends(m, c)'
<1>1. PICK k \in Machines :
        /\ k # p /\ life[k] = "none"
        /\ ends'[p] = ends[p] \ Here(p).give
        /\ ends'[k] = Here(p).give \cup Here(p).keep
        /\ \A x \in Machines : x # p /\ x # k => ends'[x] = ends[x]
  BY SpawnIs
<1>2. ends[k] = {}
  BY <1>1 DEF Listening, Listens
<1>3. Held(Tx(c)) => Held(Tx(c))'
  BY <1>1, <1>2, Zenon DEF Held
<1>4. UNCHANGED <<msgs, ears, woken>>
  BY DEF SpawnChild
<1>5. QED
  BY <1>3, <1>4, SameAttends

\* A poll of p takes nothing from those that listen.
LEMMA PollAttends ==
  ASSUME RoutinesOK, Listening, NEW p \in Machines, PollStep(p), NEW m \in Machines,
         m # p, NEW c \in Channels, Attends(m, c)
  PROVE  Attends(m, c)'
<1>1. CASE WriteLine(p) \/ Record(p) \/ Collect(p) \/ JoinBoth(p) \/ Continue(p)
  <2>1. UNCHANGED <<ends, msgs, ears, woken>>
    BY <1>1 DEF WriteLine, Record, Collect, JoinBoth, Continue
  <2>2. QED
    BY <2>1, SameAttends DEF Held
<1>2. CASE Suspend(p)
  <2>1. UNCHANGED <<ends, msgs, woken>>
    BY <1>2 DEF Suspend
  <2>2. ears' = ears \/ ears' = [ears EXCEPT ![Here(p).ch] = @ \cup {p}]
    BY <1>2 DEF Suspend
  <2>3. m \in ears[c] => m \in ears'[c]
    BY <2>2 DEF RoutinesOK, ChannelsOK
  <2>4. QED
    BY <2>1, <2>3, SameAttends DEF Held
<1>3. CASE DropEnds(p)
  <2> DEFINE E == Here(p).give
  <2>1. /\ ends' = [ends EXCEPT ![p] = @ \ E] /\ ears' = EarsWithout(p, E)
        /\ Wakes(p, Hears(p, E)) /\ msgs' = msgs
    BY <1>3 DEF DropEnds
  <2>2. ends'[p] = ends[p] \ E /\ \A x \in Machines : x # p => ends'[x] = ends[x]
    BY <2>1 DEF RoutinesOK, EndsOK
  <2> HIDE DEF E
  <2>3. QED
    BY <2>1, <2>2, WakesAre, DropAttends
<1>4. CASE Return(p)
  <2> DEFINE E == ends[p]
  <2>1. /\ ends' = [ends EXCEPT ![p] = {}] /\ ears' = EarsWithout(p, E)
        /\ Wakes(p, Hears(p, E)) /\ msgs' = msgs
    BY <1>4 DEF Return
  <2>2. ends'[p] = ends[p] \ E /\ \A x \in Machines : x # p => ends'[x] = ends[x]
    BY <2>1 DEF RoutinesOK, EndsOK
  <2> HIDE DEF E
  <2>3. QED
    BY <2>1, <2>2, WakesAre, DropAttends
<1>5. QED
  BY <1>1, <1>2, <1>3, <1>4, SendAttends, TakeAttends, SpawnAttends DEF PollStep

\* A step of p's poll changes the place of no other machine, nor what it asked.
RestsAll(p) ==
  \A x \in Machines : x # p =>
    /\ at'[x] = at[x] /\ asked'[x] = asked[x] /\ mail'[x] = mail[x]
    /\ life'[x] = life[x] \/ (life[x] = "none" /\ life'[x] = "new")
    /\ life[x] # "none" => code'[x] = code[x]

LEMMA PollRests ==
  ASSUME RoutinesOK, Asking, NEW p \in Machines, PollStep(p)
  PROVE  RestsAll(p) /\ code'[p] = code[p]
<1>1. \A x \in Machines : x # p =>
        mail'[x] = mail[x] /\ (life'[x] = life[x] \/ (life[x] = "none" /\ life'[x] = "new"))
  BY PollProgress DEF Progress, PollsAlone, PollsOn
<1>2. \A x \in Machines : x # p => at'[x] = at[x]
  <2>1. at' = at \/ Next1(p) \/ Jump(p)
    BY Zenon DEF PollStep, WriteLine, SpawnChild, SendMessage, Receive, Record, Collect,
       JoinBoth, SelectFirst, DropEnds, Continue, Suspend, Return
  <2>2. QED
    BY <2>1, NextMoves DEF RoutinesOK
<1>3. \A x \in Machines : x # p => asked'[x] = asked[x]
  <2>1. asked' = asked \/ \E s : asked' = [asked EXCEPT ![p] = s]
    BY Zenon DEF PollStep, WriteLine, SpawnChild, SendMessage, Receive, Record, Collect,
       JoinBoth, SelectFirst, DropEnds, Continue, Suspend, Return
  <2>2. QED
    BY <2>1 DEF RoutinesOK, MailOK
<1>4. \A x \in Machines : life[x] # "none" => code'[x] = code[x]
  <2>1. CASE SpawnChild(p)
    BY <2>1, SpawnIs
  <2>2. CASE code' = code
    BY <2>2
  <2>3. QED
    BY <2>1, <2>2 DEF PollStep, WriteLine, SendMessage, Receive, Record, Collect,
       JoinBoth, SelectFirst, DropEnds, Continue, Suspend, Return
<1>5. life[p] # "none"
  BY PollProgress DEF Progress, PollsOn
<1>6. QED
  BY <1>1, <1>2, <1>3, <1>4, <1>5 DEF RestsAll

LEMMA ListenChannel ==
  ASSUME RoutinesOK, NEW m \in Machines, life[m] # "none", Hearkens(m)
  PROVE  Here(m).ch \in Channels
<1>1. Here(m) \in Instrs(demo)
  BY HereIs DEF Hearkens, RoutinesOK
<1>2. Here(m).ch \in Made[demo]
  BY <1>1 DEF Hearkens, Instrs
<1>3. QED
  BY <1>2, ChannelsAre DEF RoutinesOK, LifeOK

LEMMA OneAsked ==
  ASSUME RoutinesOK, Asking, NEW m \in Machines, Is(m, "select"), asked[m] # << >>
  PROVE  Range(asked[m]) = {Head(asked[m])}
<1>1. Len(asked[m]) = 1
  <2>1. Here(m) \in Instrs(demo) /\ Here(m).op = "select"
    BY IsHere
  <2>2. Len(Here(m).kinds) = 1
    BY <2>1 DEF Instrs
  <2>3. QED
    BY <2>2 DEF Asking, AskOK
<1>2. asked[m] \in Seq(Nat)
  BY DEF RoutinesOK, MailOK
<1>3. Head(asked[m]) = asked[m][1] /\ DOMAIN asked[m] = {1}
  BY <1>1, <1>2
<1>4. QED
  BY <1>3 DEF Range

\* A poll suspends with nothing it waits for there, and listens.
LEMMA SuspendWaits ==
  ASSUME RoutinesOK, Asking, NEW p \in Machines, Suspend(p)
  PROVE  /\ at'[p] <= Len(Code[code'[p]])
         /\ Hearkens(p)' => Attends(p, Here(p).ch)'
         /\ Unanswered(p)'
<1>1. /\ UNCHANGED <<code, at, asked, mail, ends, msgs, woken>>
      /\ ears' = IF Here(p).op \in {"recv", "select"}
                   THEN [ears EXCEPT ![Here(p).ch] = @ \cup {p}] ELSE ears
      /\ Here(p)' = Here(p)
  BY DEF Suspend, Here
<1>2. /\ at[p] <= Len(Code[code[p]]) /\ life[p] = "polling"
      /\ Here(p).op \in {"recv", "ask", "join", "select"}
  BY DEF Suspend, Is
<1>3. Hearkens(p)' => Attends(p, Here(p).ch)'
  <2> SUFFICES ASSUME Here(p).op \in {"recv", "select"}
               PROVE  Attends(p, Here(p).ch)'
    BY <1>1 DEF Hearkens
  <2> DEFINE c == Here(p).ch
  <2>1. c \in Channels
    BY <1>2, ListenChannel DEF Hearkens
  <2>2. Silent(c)
    BY DEF Suspend, Is, Silent
  <2>3. p \in ears'[c]
    BY <1>1, <2>1 DEF RoutinesOK, ChannelsOK
  <2>4. Silent(c)'
    BY <1>1, <2>2 DEF Silent, Ready, Closed, Held
  <2>5. c' = c
    BY <1>1
  <2> HIDE DEF c
  <2>6. QED
    BY <2>3, <2>4, <2>5 DEF Attends, c
<1>4. Unanswered(p)
  <2>1. CASE Is(p, "recv")
    <3>1. "recv" \notin Awaits
      BY DEF Awaits
    <3>2. asked[p] = << >>
      BY <2>1, <3>1, AsksNothing DEF Asking
    <3>3. QED
      BY <3>2, RangeOfNone DEF Unanswered
  <2>2. CASE Is(p, "ask") \/ Is(p, "join")
    BY <2>2 DEF Suspend, Is, Unanswered
  <2>3. CASE Is(p, "select")
    <3>1. asked[p] # << >> /\ ~Answered(p, Head(asked[p]))
      BY <2>3 DEF Suspend, Is
    <3>2. QED
      BY <2>3, <3>1, OneAsked DEF Unanswered
  <2>4. QED
    BY <2>1, <2>2, <2>3 DEF Suspend
<1>5. Unanswered(p)'
  BY <1>1, <1>4 DEF Unanswered, Answered
<1>6. QED
  BY <1>1, <1>2, <1>3, <1>5

\* A poll goes on, returns, or suspends.
LEMMA PollEnds ==
  ASSUME RoutinesOK, NEW p \in Machines, PollStep(p)
  PROVE  life'[p] \in {"polling", "returned"} \/ (Suspend(p) /\ life'[p] = "yielded")
<1>1. CASE SpawnChild(p)
  <2>1. life'[p] = "polling"
    BY <1>1, SpawnIs
  <2>2. QED
    BY <2>1
<1>2. CASE Suspend(p) \/ Return(p)
  BY <1>2 DEF Suspend, Return, RoutinesOK, LifeOK
<1>3. CASE life' = life /\ life[p] = "polling"
  BY <1>3
<1>4. QED
  BY <1>1, <1>2, <1>3 DEF PollStep, WriteLine, SendMessage, Receive, Record, Collect, JoinBoth,
     SelectFirst, DropEnds, Continue, Is

LEMMA PollListens ==
  ASSUME RoutinesOK, Asking, Listening, NEW p \in Machines, PollStep(p)
  PROVE  Listening'
<1>1. RestsAll(p)
  BY PollRests
<1>2. ASSUME NEW m \in Machines, m # p PROVE Listens(m)'
  <2>1. /\ at'[m] = at[m]
        /\ life'[m] = life[m] \/ (life[m] = "none" /\ life'[m] = "new")
        /\ life[m] # "none" => code'[m] = code[m]
    BY <1>1, <1>2 DEF RestsAll
  <2>2. Suspended(m)' => Suspended(m) /\ life[m] # "none" /\ code'[m] = code[m]
    BY <2>1 DEF Suspended
  <2>3. Suspended(m)' => at'[m] <= Len(Code[code'[m]])
    BY <2>1, <2>2 DEF Listening, Listens
  <2>4. ASSUME Suspended(m)', Hearkens(m)' PROVE Attends(m, Here(m).ch)'
    <3>1. Here(m)' = Here(m) /\ Hearkens(m) /\ Suspended(m) /\ life[m] # "none"
      BY <2>1, <2>2, <2>4 DEF Here, Hearkens
    <3> DEFINE c == Here(m).ch
    <3>2. Attends(m, c) /\ c \in Channels /\ c' = c
      BY <3>1, ListenChannel DEF Listening, Listens
    <3> HIDE DEF c
    <3>3. Attends(m, c)'
      BY <1>2, <3>2, PollAttends
    <3>4. QED
      BY <3>2, <3>3 DEF Attends, Silent, Ready, Closed, Held, c
  <2>5. life'[m] = "none" => ends'[m] = {}
    <3>1. ASSUME life'[m] = "none" PROVE ends'[m] = {}
      <4>1. ends[m] = {}
        BY <2>1, <3>1 DEF Listening, Listens
      <4>2. CASE SpawnChild(p)
        <5>1. PICK c \in Machines :
                life'[c] = "new" /\ \A x \in Machines : x # p /\ x # c => ends'[x] = ends[x]
          BY <4>2, SpawnIs
        <5>2. QED
          BY <1>2, <3>1, <4>1, <5>1
      <4>3. CASE ends' = ends \/ \E E : ends' = [ends EXCEPT ![p] = E]
        BY <1>2, <4>1, <4>3 DEF RoutinesOK, EndsOK
      <4>4. QED
        BY <4>2, <4>3 DEF PollStep, WriteLine, SendMessage, Receive, Record, Collect, JoinBoth,
           SelectFirst, DropEnds, Continue, Suspend, Return
    <3>2. QED
      BY <3>1
  <2>6. QED
    BY <2>3, <2>4, <2>5 DEF Listens
<1>3. Listens(p)'
  <2>1. life'[p] # "none"
    BY PollEnds
  <2>2. Suspended(p)' => Suspend(p)
    BY PollEnds DEF Suspended
  <2>3. QED
    BY <2>1, <2>2, SuspendWaits DEF Listens
<1>4. QED
  BY <1>2, <1>3 DEF Listening

\* An answer waits for a suspended machine only if it came since.
LEMMA PollHeeds ==
  ASSUME RoutinesOK, Asking, NEW p \in Machines, PollStep(p), NEW m \in Machines,
         Suspended(m)', Suspended(m) => Unanswered(m) \/ m = p
  PROVE  Unanswered(m)'
<1>1. CASE m = p
  BY <1>1, PollEnds, SuspendWaits DEF Suspended
<1>2. CASE m # p
  <2>1. life'[m] = life[m] /\ asked'[m] = asked[m] /\ mail'[m] = mail[m]
    BY <1>2, PollRests DEF RestsAll, Suspended
  <2>2. QED
    BY <1>2, <2>1 DEF Unanswered, Answered, Suspended
<1>3. QED
  BY <1>1, <1>2

\* What a host does to a machine.
LEMMA LivesListen ==
  ASSUME Listening, UNCHANGED <<code, at, ends, msgs, ears>>,
         \A m \in Machines : /\ Suspended(m)' => Suspended(m) /\ (woken[m] => woken'[m])
                             /\ life'[m] = "none" => life[m] = "none"
  PROVE  Listening'
<1>1. ASSUME NEW m \in Machines PROVE Listens(m)'
  <2>1. Here(m)' = Here(m) /\ (Hearkens(m)' <=> Hearkens(m))
    BY DEF Here, Hearkens
  <2>2. Attends(m, Here(m).ch) /\ (woken[m] => woken'[m]) => Attends(m, Here(m).ch)'
    BY <2>1 DEF Attends, Silent, Ready, Closed, Held
  <2>3. QED
    BY <2>1, <2>2 DEF Listening, Listens
<1>2. QED
  BY <1>1 DEF Listening

LEMMA KillListens ==
  ASSUME RoutinesOK, Listening, NEW p \in Machines, Kills(p)
  PROVE  Listening'
<1> DEFINE E == ends[p]
<1>1. /\ at' = at /\ code' = code /\ msgs' = msgs /\ ears' = EarsWithout(p, E)
      /\ life'[p] = "dropped" /\ \A x \in Machines : x # p => life'[x] = life[x]
      /\ ends'[p] = {} /\ \A x \in Machines : x # p => ends'[x] = ends[x]
      /\ \A x \in Machines : woken'[x] <=> woken[x] \/ x \in Hears(p, E)
  BY DEF Kills, RoutinesOK, LifeOK, EndsOK
<1>2. ends'[p] = ends[p] \ E
  BY <1>1
<1> HIDE DEF E
<1>3. ASSUME NEW m \in Machines, m # p PROVE Listens(m)'
  <2>1. /\ Here(m)' = Here(m) /\ (Hearkens(m)' <=> Hearkens(m))
        /\ (Suspended(m)' <=> Suspended(m)) /\ life'[m] = life[m] /\ ends'[m] = ends[m]
    BY <1>1, <1>3 DEF Here, Hearkens, Suspended
  <2>2. ASSUME Suspended(m), Hearkens(m) PROVE Attends(m, Here(m).ch)'
    <3> DEFINE c == Here(m).ch
    <3>1. Attends(m, c) /\ c \in Channels /\ c' = c
      BY <2>1, <2>2, ListenChannel DEF Listening, Listens, Suspended
    <3> HIDE DEF c
    <3>2. Attends(m, c)'
      BY <1>1, <1>2, <1>3, <3>1, DropAttends
    <3>3. QED
      BY <3>1, <3>2 DEF Attends, Silent, Ready, Closed, Held, c
  <2>3. QED
    BY <1>1, <2>1, <2>2 DEF Listening, Listens
<1>4. Listens(p)'
  BY <1>1 DEF Listens, Suspended
<1>5. QED
  BY <1>3, <1>4 DEF Listening

LEMMA CallListens ==
  ASSUME RoutinesOK, Listening, NEW p \in Machines,
         \/ Resumes(p) \/ (\E id, n : Replies(p, id, n)) \/ Reads(p)
         \/ Kills(p) \/ UNCHANGED routines
  PROVE  Listening'
<1>1. CASE Resumes(p) \/ \E id, n : Replies(p, id, n)
  <2>1. /\ UNCHANGED <<code, at, ends, msgs, ears>>
        /\ life' = [life EXCEPT ![p] = "polling"] /\ woken' = [woken EXCEPT ![p] = FALSE]
    BY <1>1 DEF Resumes, Replies
  <2>2. life'[p] = "polling" /\ \A x \in Machines : x # p => life'[x] = life[x] /\ woken'[x] = woken[x]
    BY <2>1 DEF RoutinesOK, LifeOK, OutOK
  <2>3. QED
    BY <2>1, <2>2, LivesListen DEF Suspended
<1>2. CASE Reads(p)
  <2>1. /\ UNCHANGED <<code, at, ends, msgs, ears, woken>> /\ life[p] \in {"yielded", "returned"}
        /\ life' = [life EXCEPT ![p] = IF @ = "returned" THEN "done" ELSE "waiting"]
    BY <1>2 DEF Reads
  <2>2. /\ life'[p] \in {"done", "waiting"} /\ (life'[p] = "waiting" => life[p] = "yielded")
        /\ \A x \in Machines : x # p => life'[x] = life[x]
    BY <2>1 DEF RoutinesOK, LifeOK
  <2>3. QED
    BY <2>1, <2>2, LivesListen DEF Suspended
<1>3. CASE UNCHANGED routines
  BY <1>3, LivesListen DEF routines, Suspended
<1>4. QED
  BY <1>1, <1>2, <1>3, KillListens

LEMMA DeliverListens ==
  ASSUME Listening, NEW p, NEW id, NEW n, Delivers(p, id, n)
  PROVE  Listening'
BY LivesListen DEF Delivers, Suspended

LEMMA CallHeeds ==
  ASSUME RoutinesOK, NEW p \in Machines,
         \/ Resumes(p) \/ (\E id, n : Replies(p, id, n)) \/ Reads(p)
         \/ Kills(p) \/ UNCHANGED routines,
         NEW m \in Machines, Suspended(m)'
  PROVE  Suspended(m) /\ (Unanswered(m) => Unanswered(m)')
<1>1. CASE Resumes(p) \/ \E id, n : Replies(p, id, n)
  <2>1. /\ asked' = asked /\ life' = [life EXCEPT ![p] = "polling"]
        /\ mail' = mail \/ \E id, n : mail' = [mail EXCEPT ![p][id] = n]
    BY <1>1 DEF Resumes, Replies
  <2>2. m # p /\ life'[m] = life[m]
    BY <2>1 DEF RoutinesOK, LifeOK, Suspended
  <2>3. mail'[m] = mail[m]
    BY <2>1, <2>2 DEF RoutinesOK, MailOK
  <2>4. QED
    BY <2>1, <2>2, <2>3 DEF Unanswered, Answered, Suspended
<1>2. CASE Reads(p)
  <2>1. /\ asked' = asked /\ mail' = mail /\ life[p] \in {"yielded", "returned"}
        /\ life' = [life EXCEPT ![p] = IF @ = "returned" THEN "done" ELSE "waiting"]
    BY <1>2 DEF Reads
  <2>2. Suspended(m)
    BY <2>1 DEF RoutinesOK, LifeOK, Suspended
  <2>3. QED
    BY <2>1, <2>2 DEF Unanswered, Answered
<1>3. CASE Kills(p)
  <2>1. /\ life' = [life EXCEPT ![p] = "dropped"]
        /\ mail' = [mail EXCEPT ![p] = << >>] /\ asked' = [asked EXCEPT ![p] = << >>]
    BY <1>3 DEF Kills
  <2>2. m # p /\ life'[m] = life[m]
    BY <2>1 DEF RoutinesOK, LifeOK, Suspended
  <2>3. mail'[m] = mail[m] /\ asked'[m] = asked[m]
    BY <2>1, <2>2 DEF RoutinesOK, MailOK
  <2>4. QED
    BY <2>2, <2>3 DEF Unanswered, Answered, Suspended
<1>4. CASE UNCHANGED routines
  BY <1>4 DEF routines, Unanswered, Answered, Suspended
<1>5. QED
  BY <1>1, <1>2, <1>3, <1>4

-----------------------------------------------------------------------------
(* What a step makes and wakes                                               *)

\* The sequence t after s.
LEMMA AppendedOne ==
  ASSUME NEW S, NEW s \in Seq(S), NEW t \in Seq(S)
  PROVE  Appended(s, s \o t) = t
<1> DEFINE u == SubSeq(s \o t, Len(s) + 1, Len(s \o t))
<1>1. Len(s) \in Nat /\ Len(t) \in Nat /\ Len(s \o t) = Len(s) + Len(t)
  BY ConcatProperties
<1>2. \A i \in 1 .. Len(t) : (s \o t)[Len(s) + i] = t[i]
  BY <1>1
<1>3. \A i \in Len(s) + 1 .. Len(s \o t) : (s \o t)[i] \in S
  <2>1. s \o t \in Seq(S)
    BY ConcatProperties
  <2>2. QED
    BY <1>1, <2>1, RangeIs
<1>4. /\ u \in Seq(S) /\ Len(u) = Len(t)
      /\ \A i \in 1 .. Len(u) : u[i] = (s \o t)[Len(s) + i]
  <2> DEFINE from == Len(s) + 1
             to == Len(s \o t)
             v == s \o t
  <2>1. from \in Int /\ to \in Int /\ \A i \in from .. to : v[i] \in S
    BY <1>1, <1>3
  <2>2. u = SubSeq(v, from, to)
    OBVIOUS
  <2>3. to - from + 1 = Len(t) /\ (from <= to <=> Len(t) # 0)
    BY <1>1
  <2>4. \A i \in 1 .. Len(t) : from + i - 1 = Len(s) + i
    BY <1>1
  <2> HIDE DEF from, to, v, u
  <2>5. /\ u \in Seq(S) /\ Len(u) = IF from <= to THEN to - from + 1 ELSE 0
        /\ \A i \in 1 .. to - from + 1 : u[i] = v[from + i - 1]
    BY <2>1, <2>2, SubSeqProperties
  <2>6. Len(u) = Len(t)
    BY <1>1, <2>3, <2>5
  <2>7. QED
    BY <2>3, <2>4, <2>5, <2>6 DEF v
<1> HIDE DEF u
<1>5. u = t
  BY <1>2, <1>4, SeqEqual
<1>6. QED
  BY <1>5 DEF Appended, u

LEMMA HookedHas ==
  ASSUME OutOK, NEW S \in SUBSET Machines, NEW m \in S
  PROVE  woken[m] \/ m \in Range(Hooked(S))
<1> DEFINE H == {x \in S : ~woken[x]}
<1>1. IsFiniteSet(H)
  BY MachinesFinite
<1>2. ~woken[m] => m \in H
  OBVIOUS
<1> HIDE DEF H
<1>3. m \in H => \E i \in DOMAIN SetToSeq(H) : SetToSeq(H)[i] = m
  BY <1>1, SetToSeqIs
<1>4. QED
  BY <1>2, <1>3 DEF Hooked, Range, H

\* What p's output is told: t of effects and s of machines woken.
Tells(p, t, s) ==
  /\ t \in Seq(GoodEffect) /\ s \in Seq(Machines)
  /\ out'[p].effects = out[p].effects \o t /\ out'[p].woke = out[p].woke \o s
  /\ \A x \in Machines : x # p => out'[x] = out[x]
  /\ \A m \in Machines :
       /\ life'[m] = "new" => life[m] = "new" \/ Bears(t, m)
       /\ woken'[m] => woken[m] \/ m \in Range(s)

LEMMA TellsNothing ==
  ASSUME RoutinesOK, NEW p \in Machines, out'[p].effects = out[p].effects,
         out'[p].woke = out[p].woke, \A x \in Machines : x # p => out'[x] = out[x],
         \A m \in Machines : life'[m] = "new" => life[m] = "new",
         woken' = woken
  PROVE  Tells(p, << >>, << >>)
<1>1. out[p].effects \in Seq(GoodEffect) /\ out[p].woke \in Seq(Machines)
  BY DEF RoutinesOK, OutOK, Outs
<1>2. out[p].effects \o << >> = out[p].effects /\ out[p].woke \o << >> = out[p].woke
  BY <1>1
<1>3. << >> \in Seq(GoodEffect) /\ << >> \in Seq(Machines)
  OBVIOUS
<1>4. QED
  BY <1>2, <1>3 DEF Tells

LEMMA WakesTell ==
  ASSUME RoutinesOK, NEW p \in Machines, NEW S \in SUBSET Machines, Wakes(p, S),
         \A m \in Machines : life'[m] = "new" => life[m] = "new"
  PROVE  \E t, s : Tells(p, t, s)
<1>1. Hooked(S) \in Seq(Machines) /\ << >> \in Seq(GoodEffect)
  BY HookedIs DEF RoutinesOK
<1>2. /\ out'[p].effects = out[p].effects
      /\ \A x \in Machines : x # p => out'[x] = out[x]
  BY WakesAdd
<1>3. /\ \A m \in Machines : woken'[m] <=> woken[m] \/ m \in S
      /\ out'[p].woke = out[p].woke \o Hooked(S)
  BY WakesAre
<1>4. \A m \in Machines : m \in S => woken[m] \/ m \in Range(Hooked(S))
  BY HookedHas DEF RoutinesOK
<1>5. out[p].effects \in Seq(GoodEffect)
  BY DEF RoutinesOK, OutOK, Outs
<1>6. out[p].effects \o << >> = out[p].effects
  BY <1>5
<1>7. Tells(p, << >>, Hooked(S))
  BY <1>1, <1>2, <1>3, <1>4, <1>6 DEF Tells
<1>8. QED
  BY <1>7

LEMMA EmitsTell ==
  ASSUME RoutinesOK, NEW p \in Machines, NEW t \in Seq(GoodEffect), Emits(p, t), woken' = woken,
         \A m \in Machines : life'[m] = "new" => life[m] = "new" \/ Bears(t, m)
  PROVE  \E s : Tells(p, t, s)
<1>1. /\ out'[p].effects = out[p].effects \o t /\ out'[p].woke = out[p].woke
      /\ \A x \in Machines : x # p => out'[x] = out[x]
  BY DEF Emits, RoutinesOK, OutOK, Outs
<1>2. out[p].woke \in Seq(Machines) /\ << >> \in Seq(Machines)
  BY DEF RoutinesOK, OutOK, Outs
<1>3. out[p].woke \o << >> = out[p].woke
  BY <1>2
<1>4. Tells(p, t, << >>)
  BY <1>1, <1>2, <1>3 DEF Tells
<1>5. QED
  BY <1>4

LEMMA PollTells ==
  ASSUME RoutinesOK, NEW p \in Machines, PollStep(p)
  PROVE  \E t, s : Tells(p, t, s)
<1>0. life' = life => \A m \in Machines : life'[m] = "new" => life[m] = "new"
  OBVIOUS
<1>1. CASE WriteLine(p) \/ Record(p)
  <2>1. woken' = woken /\ life' = life /\ \E t : Emits(p, t)
    BY <1>1 DEF WriteLine, Record
  <2>2. PICK t : Emits(p, t)
    BY <2>1
  <2>3. PICK u : Added(p, u)
    BY PollAdds
  <2>4. u \in Seq(GoodEffect) /\ out'[p].effects = out[p].effects \o u
    BY <2>3 DEF Added
  <2>5. out'[p].woke = out[p].woke /\ \A x \in Machines : x # p => out'[x] = out[x]
    BY <2>2 DEF Emits, RoutinesOK, OutOK, Outs
  <2>6. out[p].woke \in Seq(Machines) /\ << >> \in Seq(Machines)
    BY DEF RoutinesOK, OutOK, Outs
  <2>7. out[p].woke \o << >> = out[p].woke
    BY <2>6
  <2>8. Tells(p, u, << >>)
    BY <2>1, <2>4, <2>5, <2>6, <2>7 DEF Tells
  <2>9. QED
    BY <2>8
<1>2. CASE SpawnChild(p)
  <2>1. PICK c \in Machines :
          /\ life'[c] = "new" /\ \A x \in Machines : x # c => life'[x] = life[x]
          /\ Emits(p, <<[kind |-> Here(p).op, id |-> c, text |-> "", n |-> 0]>>)
          /\ Here(p).op \in Begets
    BY <1>2, SpawnIs
  <2> DEFINE e == [kind |-> Here(p).op, id |-> c, text |-> "", n |-> 0]
             t == <<e>>
  <2>2. e \in GoodEffect
    <3>1. c \in Nat /\ "" \in Text /\ 0 \in Int
      BY LanesAre DEF Text
    <3>2. QED
      BY <2>1, <3>1, SpawnEffectIs DEF Begets
  <2>3. e.kind \in Begets /\ e.id = c
    BY <2>1
  <2>4. Emits(p, t) /\ woken' = woken
    BY <1>2, <2>1 DEF SpawnChild
  <2> HIDE DEF e
  <2>5. t \in Seq(GoodEffect) /\ Len(t) = 1 /\ t[1] = e
    BY <2>2
  <2>6. Bears(t, c)
    BY <2>3, <2>5 DEF Bears
  <2> HIDE DEF t
  <2>7. QED
    BY <2>1, <2>4, <2>5, <2>6, EmitsTell
<1>3. CASE SendMessage(p)
  <2> DEFINE d == Here(p).ch
  <2>1. ears[d] \in SUBSET Machines
    BY <1>3, ChannelHere DEF SendMessage
  <2>2. life' = life /\ (Wakes(p, ears[d]) \/ UNCHANGED <<woken, out>>)
    BY <1>3, Zenon DEF SendMessage
  <2> HIDE DEF d
  <2>3. QED
    BY <1>0, <2>1, <2>2, WakesTell, TellsNothing
<1>4. CASE DropEnds(p)
  <2> DEFINE E == Here(p).give
  <2>1. life' = life /\ Wakes(p, Hears(p, E)) /\ ears' = EarsWithout(p, E) /\ msgs' = msgs
    BY <1>4 DEF DropEnds
  <2> HIDE DEF E
  <2>2. QED
    BY <1>0, <2>1, EarsAre, WakesTell DEF RoutinesOK
<1>5. CASE Return(p)
  <2>1. /\ life' = [life EXCEPT ![p] = "returned"]
        /\ Wakes(p, Hears(p, ends[p])) /\ ears' = EarsWithout(p, ends[p]) /\ msgs' = msgs
    BY <1>5 DEF Return
  <2>2. \A m \in Machines : life'[m] = "new" => life[m] = "new"
    BY <2>1 DEF RoutinesOK, LifeOK
  <2>3. QED
    BY <2>1, <2>2, EarsAre, WakesTell DEF RoutinesOK
<1>6. CASE \/ Receive(p) \/ Collect(p) \/ JoinBoth(p) \/ SelectFirst(p) \/ Continue(p)
           \/ Suspend(p)
  <2>1. woken' = woken /\ (out' = out \/ \E s : out' = [out EXCEPT ![p].closed = s])
    BY <1>6 DEF Receive, Collect, JoinBoth, SelectFirst, Continue, Suspend
  <2>2. /\ out'[p].effects = out[p].effects /\ out'[p].woke = out[p].woke
        /\ \A x \in Machines : x # p => out'[x] = out[x]
    BY <2>1 DEF RoutinesOK, OutOK, Outs
  <2>3. \A m \in Machines : life'[m] = "new" => life[m] = "new"
    <3>1. life' = life \/ life' = [life EXCEPT ![p] = "yielded"]
      BY <1>6 DEF Receive, Collect, JoinBoth, SelectFirst, Continue, Suspend
    <3>2. QED
      BY <3>1 DEF RoutinesOK, LifeOK
  <2>4. QED
    BY <2>1, <2>2, <2>3, TellsNothing
<1>7. QED
  BY <1>1, <1>2, <1>3, <1>4, <1>5, <1>6 DEF PollStep

-----------------------------------------------------------------------------
(* The hosts with a queue: whoever is to be called is in their hands         *)

Roused(m) == woken[m] /\ life[m] \in {"polling", "yielded", "waiting"}

\* The item begins m, or resumes it.
Beginning(a, m) ==
  \/ a = ResumeOf(m)
  \/ a.kind = "effect" /\ a.effect.kind \in Begets /\ a.effect.id = m
Resuming(a, m) == a.kind = "resume" /\ a.m = m
Begins(q, m) == \E i \in 1 .. Len(q) : Beginning(q[i], m)
ToResume(q, m) == \E i \in 1 .. Len(q) : Resuming(q[i], m)

\* A machine made is about to be begun, and one that was woken to be resumed.
BirthDue(m) == Begins(queue, m) \/ \E x \in Machines : Bears(out[x].effects, m)
WakeDue(m) ==
  ToResume(queue, m) \/ m \in Range(heard) \/ \E x \in Machines : m \in Range(out[x].woke)
Due(m) == (life[m] = "new" => BirthDue(m)) /\ (Roused(m) => WakeDue(m))
AllDue == \A m \in Machines : Due(m)

\* Each element of s is one of u.
Within(s, u) == \A i \in 1 .. Len(s) : \E k \in 1 .. Len(u) : u[k] = s[i]

LEMMA WithinOn ==
  ASSUME NEW s, NEW v, NEW u, Within(s, v), Within(v, u)
  PROVE  Within(s, u)
<1>1. SUFFICES ASSUME NEW i \in 1 .. Len(s) PROVE \E k \in 1 .. Len(u) : u[k] = s[i]
  BY DEF Within
<1>2. PICK j \in 1 .. Len(v) : v[j] = s[i]
  BY DEF Within
<1>3. PICK k \in 1 .. Len(u) : u[k] = v[j]
  BY DEF Within
<1>4. QED
  BY <1>2, <1>3

LEMMA RangeJoined ==
  ASSUME NEW S, NEW s \in Seq(S), NEW t \in Seq(S), NEW u, u = s \o t
  PROVE  /\ u \in Seq(S) /\ Within(s, u) /\ Within(t, u)
         /\ Range(s) \subseteq Range(u) /\ Range(t) \subseteq Range(u)
<1>1. /\ u \in Seq(S) /\ Len(u) = Len(s) + Len(t) /\ Len(s) \in Nat /\ Len(t) \in Nat
      /\ \A i \in 1 .. Len(s) : u[i] = s[i]
      /\ \A i \in 1 .. Len(t) : u[Len(s) + i] = t[i]
  BY ConcatProperties
<1>2. /\ DOMAIN u = 1 .. Len(u) /\ DOMAIN s = 1 .. Len(s) /\ DOMAIN t = 1 .. Len(t)
  BY <1>1
<1>3. \A i \in 1 .. Len(s) : \E k \in 1 .. Len(u) : u[k] = s[i]
  BY <1>1
<1>4. \A i \in 1 .. Len(t) : \E k \in 1 .. Len(u) : u[k] = t[i]
  <2> TAKE i \in 1 .. Len(t)
  <2>1. Len(s) + i \in 1 .. Len(u) /\ u[Len(s) + i] = t[i]
    BY <1>1
  <2>2. QED
    BY <2>1
<1>5. Range(s) \subseteq Range(u) /\ Range(t) \subseteq Range(u)
  <2>1. ASSUME NEW x \in Range(s) PROVE x \in Range(u)
    <3>1. PICK i \in 1 .. Len(s) : s[i] = x
      BY <1>2, <2>1 DEF Range
    <3>2. PICK k \in 1 .. Len(u) : u[k] = s[i]
      BY <1>3
    <3>3. QED
      BY <1>2, <3>1, <3>2 DEF Range
  <2>2. ASSUME NEW x \in Range(t) PROVE x \in Range(u)
    <3>1. PICK i \in 1 .. Len(t) : t[i] = x
      BY <1>2, <2>2 DEF Range
    <3>2. PICK k \in 1 .. Len(u) : u[k] = t[i]
      BY <1>4
    <3>3. QED
      BY <1>2, <3>1, <3>2 DEF Range
  <2>3. QED
    BY <2>1, <2>2
<1>6. QED
  BY <1>1, <1>3, <1>4, <1>5 DEF Within

LEMMA WokeJoined ==
  ASSUME NEW s \in Seq(Machines), NEW t \in Seq(Machines)
  PROVE  \A x : x \in Range(s) \/ x \in Range(t) => x \in Range(s \o t)
<1>1. PICK u : u = s \o t
  OBVIOUS
<1>2. Range(s) \subseteq Range(u) /\ Range(t) \subseteq Range(u)
  BY <1>1, RangeJoined
<1>3. QED
  BY <1>1, <1>2

LEMMA BearsMore ==
  ASSUME NEW s \in Seq(GoodEffect), NEW t \in Seq(GoodEffect), NEW m,
         Bears(s, m) \/ Bears(t, m)
  PROVE  Bears(s \o t, m)
<1>1. \A v : Within(v, s \o t) /\ Bears(v, m) => Bears(s \o t, m)
  <2> TAKE v
  <2> SUFFICES ASSUME Within(v, s \o t), Bears(v, m) PROVE Bears(s \o t, m)
    OBVIOUS
  <2>1. PICK i \in 1 .. Len(v) : v[i].kind \in Begets /\ v[i].id = m
    BY DEF Bears
  <2>2. PICK k \in 1 .. Len(s \o t) : (s \o t)[k] = v[i]
    BY DEF Within
  <2>3. QED
    BY <2>1, <2>2 DEF Bears
<1>2. Within(s, s \o t) /\ Within(t, s \o t)
  BY RangeJoined
<1>3. QED
  BY <1>1, <1>2

LEMMA PollDue ==
  ASSUME RoutinesOK, Asking, AllDue, NEW p \in Machines, PollStep(p),
         queue' = queue, heard' = heard
  PROVE  AllDue'
<1>1. PICK t, s : Tells(p, t, s)
  BY PollTells
<1>2. /\ t \in Seq(GoodEffect) /\ s \in Seq(Machines)
      /\ out[p].effects \in Seq(GoodEffect) /\ out[p].woke \in Seq(Machines)
  BY <1>1 DEF Tells, RoutinesOK, OutOK, Outs
<1>3. ASSUME NEW m \in Machines, NEW x \in Machines PROVE
        /\ Bears(out[x].effects, m) => Bears(out'[x].effects, m)
        /\ m \in Range(out[x].woke) => m \in Range(out'[x].woke)
  <2>1. CASE x # p
    BY <1>1, <2>1 DEF Tells
  <2>2. CASE x = p
    <3>1. /\ out'[p].effects = out[p].effects \o t
          /\ out'[p].woke = out[p].woke \o s
      BY <1>1 DEF Tells
    <3>2. Bears(out[p].effects, m) => Bears(out'[p].effects, m)
      BY <1>2, <3>1, BearsMore
    <3>3. m \in Range(out[p].woke) => m \in Range(out'[p].woke)
      <4>1. \A y : y \in Range(out[p].woke) => y \in Range(out[p].woke \o s)
        BY <1>2, WokeJoined, Zenon
      <4>2. QED
        BY <3>1, <4>1
    <3>4. QED
      BY <2>2, <3>2, <3>3
  <2>3. QED
    BY <2>1, <2>2
<1>4. ASSUME NEW m \in Machines PROVE
        /\ Bears(t, m) => Bears(out'[p].effects, m)
        /\ m \in Range(s) => m \in Range(out'[p].woke)
  <2>1. /\ out'[p].effects = out[p].effects \o t
        /\ out'[p].woke = out[p].woke \o s
    BY <1>1 DEF Tells
  <2>2. Bears(t, m) => Bears(out'[p].effects, m)
    BY <1>2, <2>1, BearsMore
  <2>3. \A y : y \in Range(s) => y \in Range(out[p].woke \o s)
    BY <1>2, WokeJoined, Zenon
  <2>4. QED
    BY <2>1, <2>2, <2>3
<1>5. ASSUME NEW m \in Machines PROVE Due(m)'
  <2>1. ASSUME life'[m] = "new" PROVE BirthDue(m)'
    <3>1. life[m] = "new" \/ Bears(t, m)
      BY <1>1, <2>1 DEF Tells
    <3>2. BirthDue(m) \/ Bears(t, m)
      BY <3>1 DEF AllDue, Due
    <3>3. QED
      BY <1>3, <1>4, <3>2 DEF BirthDue
  <2>2. ASSUME Roused(m)' PROVE WakeDue(m)'
    <3>1. life[m] \in {"polling", "yielded", "waiting"}
      <4>1. CASE m = p
        BY <4>1, PollProgress DEF Progress, PollsOn
      <4>2. CASE m # p
        BY <2>2, <4>2, PollRests DEF RestsAll, Roused
      <4>3. QED
        BY <4>1, <4>2
    <3>2. woken[m] \/ m \in Range(s)
      BY <1>1, <2>2 DEF Tells, Roused
    <3>3. WakeDue(m) \/ m \in Range(s)
      BY <3>1, <3>2 DEF AllDue, Due, Roused
    <3>4. QED
      BY <1>3, <1>4, <3>3 DEF WakeDue
  <2>3. QED
    BY <2>1, <2>2 DEF Due
<1>6. QED
  BY <1>5 DEF AllDue

\* A host calls a machine between polls: nothing else is disturbed, and the
\* machine is not due any more.
Quietly(p) ==
  /\ out' = out
  /\ \A m \in Machines : /\ life'[m] = "new" => life[m] = "new"
                         /\ Roused(m)' => Roused(m)

LEMMA CallQuiet ==
  ASSUME RoutinesOK, Yielded, NEW p \in Machines,
         Resumes(p) \/ (\E id, n : Replies(p, id, n)) \/ UNCHANGED routines
  PROVE  /\ Quietly(p)
         /\ ~UNCHANGED routines => life'[p] # "new" /\ ~Roused(p)'
<1>1. CASE Resumes(p) \/ \E id, n : Replies(p, id, n)
  <2>1. /\ Pollable(p) /\ out' = [out EXCEPT ![p] = Nothing]
        /\ life' = [life EXCEPT ![p] = "polling"] /\ woken' = [woken EXCEPT ![p] = FALSE]
    BY <1>1 DEF Resumes, Replies
  <2>2. life[p] \notin Mid
    BY <2>1 DEF Pollable, Mid
  <2>3. out[p] = Nothing
    BY <2>2 DEF Yielded
  <2>4. out' = out
    BY <2>1, <2>3 DEF RoutinesOK, OutOK
  <2>5. /\ life'[p] = "polling" /\ ~woken'[p]
        /\ \A m \in Machines : m # p => life'[m] = life[m] /\ woken'[m] = woken[m]
    BY <2>1 DEF RoutinesOK, LifeOK, OutOK
  <2>6. QED
    BY <2>4, <2>5 DEF Quietly, Roused
<1>2. CASE UNCHANGED routines
  BY <1>2 DEF routines, Quietly, Roused
<1>3. QED
  BY <1>1, <1>2

\* Element i taken out of q, the rest is in r.
KeepsBut(q, i, r) == \A j \in 1 .. Len(q) : j # i => \E k \in 1 .. Len(r) : r[k] = q[j]

LEMMA LessKeeps ==
  ASSUME NEW s \in Seq(GoodItem), NEW i \in 1 .. Len(s)
  PROVE  KeepsBut(s, i, RemoveAt(s, i))
<1> DEFINE r == RemoveAt(s, i)
<1>1. /\ Len(r) = Len(s) - 1 /\ Len(s) \in Nat
      /\ \A j \in 1 .. i - 1 : r[j] = s[j]
      /\ \A j \in i .. Len(s) - 1 : r[j] = s[j + 1]
  BY RemoveIs
<1> HIDE DEF r
<1>2. ASSUME NEW j \in 1 .. Len(s), j # i PROVE \E k \in 1 .. Len(r) : r[k] = s[j]
  <2>1. CASE j < i
    <3>1. j \in 1 .. Len(r) /\ r[j] = s[j]
      BY <1>1, <2>1
    <3>2. QED
      BY <3>1
  <2>2. CASE j > i
    <3>1. j - 1 \in 1 .. Len(r) /\ j - 1 \in i .. Len(s) - 1 /\ (j - 1) + 1 = j
      BY <1>1, <2>2
    <3>2. r[j - 1] = s[j]
      BY <1>1, <3>1
    <3>3. QED
      BY <3>1, <3>2
  <2>3. QED
    BY <1>2, <2>1, <2>2
<1>3. QED
  BY <1>2 DEF KeepsBut, r

LEMMA MoreKeeps ==
  ASSUME NEW q, NEW i, NEW r \in Seq(GoodItem), NEW e \in GoodItem, KeepsBut(q, i, r)
  PROVE  /\ KeepsBut(q, i, Append(r, e))
         /\ \E k \in 1 .. Len(Append(r, e)) : Append(r, e)[k] = e
<1> DEFINE u == Append(r, e)
<1>1. /\ Len(u) = Len(r) + 1 /\ u[Len(r) + 1] = e /\ Len(r) \in Nat
      /\ \A k \in 1 .. Len(r) : u[k] = r[k]
  BY AppendIs
<1> HIDE DEF u
<1>2. \A k \in 1 .. Len(r) : k \in 1 .. Len(u) /\ u[k] = r[k]
  BY <1>1
<1>3. KeepsBut(q, i, u)
  BY <1>2 DEF KeepsBut
<1>4. Len(r) + 1 \in 1 .. Len(u)
  BY <1>1
<1>5. QED
  BY <1>1, <1>3, <1>4 DEF u

\* A turn: item i of q is spent (i is 0 if none is), and whom it was for is
\* not due any more, or for something else.
LEMMA TurnDue ==
  ASSUME AllDue, out' = out, NEW q, NEW i,
         \A m \in Machines :
           /\ Begins(queue, m) => Begins(q, m)
           /\ ToResume(queue, m) => ToResume(q, m)
           /\ m \in Range(heard) => m \in Range(heard') \/ ToResume(q, m),
         KeepsBut(q, i, queue'),
         \A m \in Machines :
           /\ life'[m] = "new" =>
                life[m] = "new" /\ (Beginning(q[i], m) /\ i \in 1 .. Len(q) => Begins(queue', m))
           /\ Roused(m)' =>
                \/ m \in Range(heard')
                \/ Roused(m) /\ ~(Resuming(q[i], m) /\ i \in 1 .. Len(q))
  PROVE  AllDue'
<1>1. ASSUME NEW m \in Machines PROVE Due(m)'
  <2>1. ASSUME life'[m] = "new" PROVE BirthDue(m)'
    <3>1. BirthDue(m)
      BY <2>1 DEF AllDue, Due
    <3>2. CASE Begins(queue, m)
      <4>1. PICK j \in 1 .. Len(q) : Beginning(q[j], m)
        BY <3>2 DEF Begins
      <4>2. CASE j = i
        BY <2>1, <4>1, <4>2 DEF BirthDue
      <4>3. CASE j # i
        BY <4>1, <4>3 DEF BirthDue, Begins, KeepsBut
      <4>4. QED
        BY <4>2, <4>3
    <3>3. QED
      BY <3>1, <3>2 DEF BirthDue
  <2>2. ASSUME Roused(m)', m \notin Range(heard') PROVE WakeDue(m)'
    <3>1. WakeDue(m)
      BY <2>2 DEF AllDue, Due
    <3>2. CASE ToResume(q, m)
      <4>1. PICK j \in 1 .. Len(q) : Resuming(q[j], m)
        BY <3>2 DEF ToResume
      <4>2. j # i
        BY <2>2, <4>1
      <4>3. QED
        BY <4>1, <4>2 DEF WakeDue, ToResume, KeepsBut
    <3>3. QED
      BY <2>2, <3>1, <3>2 DEF WakeDue
  <2>3. QED
    BY <2>1, <2>2 DEF Due, WakeDue
<1>2. QED
  BY <1>1 DEF AllDue

\* A turn that calls p, or nobody.
LEMMA ServedDue ==
  ASSUME RoutinesOK, Yielded, AllDue, NEW q, NEW i,
         \A m \in Machines :
           /\ Begins(queue, m) => Begins(q, m)
           /\ ToResume(queue, m) => ToResume(q, m)
           /\ m \in Range(heard) => m \in Range(heard') \/ ToResume(q, m),
         KeepsBut(q, i, queue'), NEW p \in Machines,
         Resumes(p) \/ (\E id, n : Replies(p, id, n)) \/ UNCHANGED routines,
         \A m \in Machines : Beginning(q[i], m) \/ Resuming(q[i], m) => m = p,
         UNCHANGED routines =>
           /\ Beginning(q[i], p) => life[p] # "new"
           /\ Resuming(q[i], p) => ~Roused(p)
  PROVE  AllDue'
<1>1. Quietly(p) /\ (~UNCHANGED routines => life'[p] # "new" /\ ~Roused(p)')
  BY CallQuiet
<1>2. ASSUME NEW m \in Machines PROVE
        /\ life'[m] = "new" => life[m] = "new" /\ ~Beginning(q[i], m)
        /\ Roused(m)' => Roused(m) /\ ~Resuming(q[i], m)
  BY <1>1 DEF Quietly
<1>3. QED
  BY <1>1, <1>2, TurnDue DEF Quietly

LEMMA ReadDue ==
  ASSUME RoutinesOK, AllDue, NEW p \in Machines, Reads(p), KeepsBut(queue, 0, queue'),
         \A m \in Machines :
           /\ m \in Range(heard) => m \in Range(heard')
           /\ Bears(out[p].effects, m) => Begins(queue', m)
           /\ m \in Range(out[p].woke) => ToResume(queue', m) \/ m \in Range(heard')
  PROVE  AllDue'
<1>1. /\ life[p] \in {"yielded", "returned"} /\ woken' = woken
      /\ life' = [life EXCEPT ![p] = IF @ = "returned" THEN "done" ELSE "waiting"]
      /\ out' = [out EXCEPT ![p] = Nothing]
  BY DEF Reads
<1>2. /\ \A x \in Machines : x # p => out'[x] = out[x] /\ life'[x] = life[x]
      /\ life'[p] \in {"done", "waiting"}
      /\ life'[p] = "waiting" => life[p] = "yielded"
  BY <1>1 DEF RoutinesOK, LifeOK, OutOK
<1>3. \A j \in 1 .. Len(queue) : \E k \in 1 .. Len(queue') : queue'[k] = queue[j]
  <2>1. \A j \in 1 .. Len(queue) : j # 0
    OBVIOUS
  <2>2. QED
    BY <2>1 DEF KeepsBut
<1>4. ASSUME NEW m \in Machines PROVE Due(m)'
  <2>1. ASSUME life'[m] = "new" PROVE BirthDue(m)'
    <3>1. life[m] = "new"
      BY <1>2, <2>1
    <3>2. BirthDue(m)
      BY <3>1 DEF AllDue, Due
    <3>3. CASE Begins(queue, m)
      BY <1>3, <3>3 DEF BirthDue, Begins
    <3>4. CASE \E x \in Machines : Bears(out[x].effects, m)
      <4>1. PICK x \in Machines : Bears(out[x].effects, m)
        BY <3>4
      <4>2. CASE x = p
        BY <4>1, <4>2 DEF BirthDue
      <4>3. CASE x # p
        BY <1>2, <4>1, <4>3 DEF BirthDue
      <4>4. QED
        BY <4>2, <4>3
    <3>5. QED
      BY <3>2, <3>3, <3>4 DEF BirthDue
  <2>2. ASSUME Roused(m)' PROVE WakeDue(m)'
    <3>1. Roused(m)
      BY <1>1, <1>2, <2>2 DEF Roused
    <3>2. WakeDue(m)
      BY <3>1 DEF AllDue, Due
    <3>3. CASE ToResume(queue, m)
      BY <1>3, <3>3 DEF WakeDue, ToResume
    <3>4. CASE m \in Range(heard)
      BY <3>4 DEF WakeDue
    <3>5. CASE \E x \in Machines : m \in Range(out[x].woke)
      <4>1. PICK x \in Machines : m \in Range(out[x].woke)
        BY <3>5
      <4>2. CASE x = p
        BY <4>1, <4>2 DEF WakeDue
      <4>3. CASE x # p
        BY <1>2, <4>1, <4>3 DEF WakeDue
      <4>4. QED
        BY <4>2, <4>3
    <3>6. QED
      BY <3>2, <3>3, <3>4, <3>5 DEF WakeDue
  <2>3. QED
    BY <2>1, <2>2 DEF Due
<1>5. QED
  BY <1>4 DEF AllDue

LEMMA TakenHas ==
  ASSUME LoopOK, NEW m \in Machines
  PROVE  /\ Begins(queue, m) => Begins(Taken, m)
         /\ ToResume(queue, m) => ToResume(Taken, m)
         /\ m \in Range(heard) => ToResume(Taken, m)
<1>1. queue \in Seq(GoodItem) /\ heard \in Seq(Machines)
  BY DEF LoopOK, QueueOK, ClockOK
<1>2. \A x \in Machines : ResumeOf(x) \in GoodItem
  BY ItemsAre, NoEffectIs
<1>3. /\ Taken \in Seq(GoodItem) /\ Len(queue) <= Len(Taken)
      /\ \A i \in 1 .. Len(queue) : Taken[i] = queue[i]
      /\ \A i \in 1 .. Len(heard) : ResumeOf(heard[i]) \in Range(Taken)
  BY <1>1, <1>2, TakenIs
<1>4. /\ Len(queue) \in Nat /\ Len(Taken) \in Nat /\ DOMAIN Taken = 1 .. Len(Taken)
      /\ DOMAIN heard = 1 .. Len(heard)
  BY <1>1, <1>3
<1>5. \A i \in 1 .. Len(queue) : i \in 1 .. Len(Taken) /\ Taken[i] = queue[i]
  BY <1>3, <1>4
<1>6. m \in Range(heard) => ToResume(Taken, m)
  <2> SUFFICES ASSUME m \in Range(heard) PROVE ToResume(Taken, m)
    OBVIOUS
  <2>1. ResumeOf(m) \in Range(Taken)
    BY <1>3, <1>4 DEF Range
  <2>2. PICK i \in 1 .. Len(Taken) : Taken[i] = ResumeOf(m)
    BY <1>4, <2>1 DEF Range
  <2>3. Resuming(Taken[i], m)
    BY <2>2 DEF Resuming, ResumeOf
  <2>4. QED
    BY <2>3 DEF ToResume
<1>7. QED
  BY <1>5, <1>6 DEF Begins, ToResume

\* What an item begins or resumes is the machine it is for.
LEMMA BeginningIs ==
  ASSUME NEW a, NEW m
  PROVE  /\ a.kind = "reply" => ~Beginning(a, m)
         /\ a.kind = "effect" => (Beginning(a, m) <=> a.effect.kind \in Begets /\ a.effect.id = m)
         /\ a.kind = "resume" => (Beginning(a, m) => a.m = m /\ a.lane = 0)
         /\ a.kind # "resume" => ~Resuming(a, m)
         /\ a = ResumeOf(m) => Beginning(a, m)
<1>1. ResumeOf(m).kind = "resume" /\ ResumeOf(m).m = m /\ ResumeOf(m).lane = 0
  BY DEF ResumeOf
<1>2. QED
  BY <1>1 DEF Beginning, Resuming

LEMMA NoneSpent ==
  ASSUME NEW q, NEW r, r = q \/ Len(q) = 0
  PROVE  KeepsBut(q, 0, r) /\ 0 \notin 1 .. Len(q)
<1>1. 0 \notin 1 .. Len(q)
  OBVIOUS
<1>2. QED
  BY <1>1 DEF KeepsBut

LEMMA KillDue ==
  ASSUME RoutinesOK, LoopOK, AllDue, Kill
  PROVE  AllDue'
<1>1. PICK p \in Machines :
        Kills(p) /\ heard' = Hooked(Hears(p, ends[p])) /\ queue' = Taken
  BY DEF Kill, Adopted
<1>2. /\ out' = out /\ life'[p] = "dropped" /\ \A x \in Machines : x # p => life'[x] = life[x]
      /\ ears' = EarsWithout(p, ends[p]) /\ msgs' = msgs
      /\ \A x \in Machines : woken'[x] <=> woken[x] \/ x \in Hears(p, ends[p])
  BY <1>1 DEF Kills, RoutinesOK, LifeOK
<1>3. Hears(p, ends[p]) \in SUBSET Machines
  BY <1>2, EarsAre DEF RoutinesOK
<1>4. \A x \in Machines : x \in Hears(p, ends[p]) => woken[x] \/ x \in Range(heard')
  BY <1>1, <1>3, HookedHas DEF RoutinesOK
<1>5. KeepsBut(Taken, 0, queue') /\ 0 \notin 1 .. Len(Taken)
  BY <1>1, NoneSpent
<1>6. \A m \in Machines :
        /\ life'[m] = "new" => life[m] = "new"
        /\ Roused(m)' => m \in Range(heard') \/ Roused(m)
  BY <1>2, <1>4 DEF Roused
<1>7. QED
  BY <1>2, <1>5, <1>6, TakenHas, TurnDue

LEMMA StutterDue ==
  ASSUME RoutinesOK, LoopOK, Yielded, AllDue, Stutter
  PROVE  AllDue'
<1>1. PICK p \in Machines : Resumes(p)
  BY DEF Stutter, Adopted
<1>2. Quietly(p)
  BY <1>1, CallQuiet
<1>3. KeepsBut(Taken, 0, queue') /\ 0 \notin 1 .. Len(Taken)
  BY NoneSpent DEF Stutter
<1>4. QED
  BY <1>2, <1>3, TakenHas, TurnDue DEF Quietly

LEMMA YieldsDue ==
  ASSUME RoutinesOK, LoopOK, AllDue, Yields
  PROVE  AllDue'
<1>1. PICK p \in Machines :
        /\ Reads(p)
        /\ queue' = queue \o [i \in DOMAIN out[p].effects |-> EffectOf(p, out[p].effects[i])]
        /\ heard' = heard \o out[p].woke
  BY DEF Yields
<1> DEFINE s == out[p].effects
           t == [i \in DOMAIN s |-> EffectOf(p, s[i])]
<1>2. queue \in Seq(GoodItem) /\ heard \in Seq(Machines)
  BY DEF LoopOK, QueueOK, ClockOK
<1>3. t \in Seq(GoodItem) /\ out[p].woke \in Seq(Machines) /\ s \in Seq(GoodEffect)
  BY RecordedIs DEF RoutinesOK, OutOK, Outs
<1>4. /\ DOMAIN s = 1 .. Len(s) /\ Len(t) = Len(s)
      /\ \A i \in 1 .. Len(s) : t[i] = EffectOf(p, s[i])
  BY <1>3
<1>5. queue' = queue \o t
  BY <1>1
<1> HIDE DEF t
<1>6. Within(queue, queue') /\ Within(t, queue')
  BY <1>2, <1>3, <1>5, RangeJoined
<1>7. Range(heard) \subseteq Range(heard') /\ Range(out[p].woke) \subseteq Range(heard')
  <2>1. \A y : y \in Range(heard) \/ y \in Range(out[p].woke) => y \in Range(heard \o out[p].woke)
    BY <1>2, <1>3, WokeJoined, Zenon
  <2>2. QED
    BY <1>1, <2>1
<1>8. KeepsBut(queue, 0, queue')
  BY <1>6 DEF KeepsBut, Within
<1>9. ASSUME NEW m \in Machines, Bears(s, m) PROVE Begins(queue', m)
  <2>1. PICK i \in 1 .. Len(s) : s[i].kind \in Begets /\ s[i].id = m
    BY <1>9 DEF Bears
  <2>2. Beginning(t[i], m)
    <3>1. t[i] = EffectOf(p, s[i])
      BY <1>4
    <3>2. t[i].kind = "effect" /\ t[i].effect = s[i]
      BY <3>1 DEF EffectOf
    <3>3. QED
      BY <2>1, <3>2 DEF Beginning
  <2>3. QED
    BY <1>4, <1>6, <2>1, <2>2 DEF Begins, Within
<1>10. QED
  BY <1>1, <1>7, <1>8, <1>9, ReadDue

LEMMA BegetsAre ==
  Begets \cap Asks = {} /\ "write" \notin Begets /\ {"spawned", "spawned_pinned"} = Begets
BY DEF Begets, Asks

LEMMA HandleDue ==
  ASSUME RoutinesOK, LoopOK, AllDue, Handle
  PROVE  AllDue'
<1>1. PICK i \in Choosable :
        LET a == Taken[i]
            e == a.effect
            rest == RemoveAt(Taken, i)
        IN /\ a.kind = "effect"
           /\ queue' =
                CASE e.kind \in Asks \ Sleeps ->
                       Append(rest, ReplyTo(a.m, e, HandlerAnswer(e)))
                  [] e.kind \in {"spawned", "spawned_pinned"} ->
                       Append(rest, ResumeOf(e.id))
                  [] OTHER -> rest
  BY DEF Handle
<1> DEFINE a == Taken[i]
           e == a.effect
           rest == RemoveAt(Taken, i)
<1>2. /\ i \in 1 .. Len(Taken) /\ Taken \in Seq(GoodItem) /\ a \in GoodItem
      /\ rest \in Seq(GoodItem)
  BY ChoosableIs, TakenTypes DEF Handle
<1>3. a.m \in Machines /\ e \in GoodEffect /\ (e.kind \in Begets => e.id \in Machines)
  BY <1>2, ItemIs DEF Begets
<1>4. HandlerAnswer(e) \in Int
  <2>1. world \in World /\ e \in Effect
    BY <1>3 DEF LoopOK, WorldOK, GoodEffect
  <2>2. QED
    BY <2>1, AnswerIs DEF HandlerAnswer
<1>5. ReplyTo(a.m, e, HandlerAnswer(e)) \in GoodItem /\ (e.kind \in Begets => ResumeOf(e.id) \in GoodItem)
  BY <1>3, <1>4, ItemsAre, NoEffectIs
<1>6. KeepsBut(Taken, i, rest)
  BY <1>2, LessKeeps
<1>7. \/ e.kind \notin Begets /\ (queue' = rest \/ queue' = Append(rest, ReplyTo(a.m, e, HandlerAnswer(e))))
      \/ e.kind \in Begets /\ queue' = Append(rest, ResumeOf(e.id))
  BY <1>1, BegetsAre
<1> HIDE DEF a, rest
<1>8. KeepsBut(Taken, i, queue')
  <2>1. KeepsBut(Taken, i, Append(rest, ReplyTo(a.m, e, HandlerAnswer(e))))
    BY <1>2, <1>5, <1>6, MoreKeeps, SMTT(20)
  <2>2. e.kind \in Begets => KeepsBut(Taken, i, Append(rest, ResumeOf(e.id)))
    BY <1>2, <1>5, <1>6, MoreKeeps, SMTT(20)
  <2>3. QED
    BY <1>6, <1>7, <2>1, <2>2
<1>9. \A m \in Machines : Beginning(Taken[i], m) => Begins(queue', m)
  <2> TAKE m \in Machines
  <2> SUFFICES ASSUME Beginning(Taken[i], m) PROVE Begins(queue', m)
    OBVIOUS
  <2>1. e.kind \in Begets /\ e.id = m
    BY <1>1, BeginningIs DEF a
  <2>2. \E k \in 1 .. Len(queue') : queue'[k] = ResumeOf(m)
    BY <1>2, <1>5, <1>6, <1>7, <2>1, MoreKeeps
  <2>3. QED
    BY <2>2 DEF Begins, Beginning
<1>10. /\ out' = out /\ \A m \in Machines : life'[m] = life[m] /\ (Roused(m)' <=> Roused(m))
  BY DEF Handle, routines, Roused
<1>11. \A m \in Machines : ~Resuming(Taken[i], m)
  BY <1>1, BeginningIs
<1>12. QED
  BY <1>2, <1>8, <1>9, <1>10, <1>11, TakenHas, TurnDue

\* A call, or what was queued came too late for one.
LEMMA CallDue ==
  ASSUME RoutinesOK, LoopOK, Yielded, AllDue, Call
  PROVE  AllDue'
<1>1. PICK i \in Choosable :
        Taken[i].kind # "effect" /\ Deliver(Taken[i]) /\ queue' = RemoveAt(Taken, i)
  BY DEF Call
<1>2. PICK a : a = Taken[i]
  OBVIOUS
<1>3. PICK p : p = a.m
  OBVIOUS
<1>4. i \in 1 .. Len(Taken) /\ Taken \in Seq(GoodItem) /\ a \in GoodItem
  BY <1>2, ChoosableIs, TakenTypes DEF Call
<1>5. p \in Machines /\ a.kind \in {"reply", "resume"}
  BY <1>1, <1>2, <1>3, <1>4, ItemIs DEF GoodItem, Item
<1>6. KeepsBut(Taken, i, queue')
  BY <1>1, <1>4, LessKeeps
<1>7. AtLoop
  BY DEF Call, Driving
<1>8. Resumes(p) \/ (\E id, n : Replies(p, id, n)) \/ UNCHANGED routines
  BY <1>1, <1>2, <1>3 DEF Deliver
<1>9. \A m \in Machines : Beginning(a, m) \/ Resuming(a, m) => m = p /\ a.kind = "resume"
  BY <1>3, <1>5, BeginningIs DEF Resuming
<1>10. a.kind = "resume" /\ UNCHANGED routines => life[p] # "new" /\ ~Roused(p)
  <2> SUFFICES ASSUME a.kind = "resume", UNCHANGED routines PROVE life[p] # "new" /\ ~Roused(p)
    OBVIOUS
  <2>1. CASE Pollable(p)
    <3>1. Resumes(p)
      BY <1>1, <1>2, <1>3, <2>1 DEF Deliver
    <3>2. life' = [life EXCEPT ![p] = "polling"] /\ life' = life
      BY <3>1 DEF Resumes, routines
    <3>3. QED
      BY <1>5, <2>1, <3>2 DEF RoutinesOK, LifeOK, Pollable
  <2>2. CASE ~Pollable(p)
    BY <1>5, <1>7, <2>2 DEF Pollable, AtLoop, Roused
  <2>3. QED
    BY <2>1, <2>2
<1>11. /\ \A m \in Machines : Beginning(Taken[i], m) \/ Resuming(Taken[i], m) => m = p
       /\ UNCHANGED routines =>
            /\ Beginning(Taken[i], p) => life[p] # "new"
            /\ Resuming(Taken[i], p) => ~Roused(p)
  BY <1>2, <1>5, <1>9, <1>10
<1>12. QED
  BY <1>5, <1>6, <1>8, <1>11, TakenHas, ServedDue

LEMMA FireDue ==
  ASSUME RoutinesOK, LoopOK, Yielded, AllDue, Fire
  PROVE  AllDue'
<1>1. timers[NextTimer].m \in Machines
  BY NextTimerIs DEF Fire, LoopOK
<1> DEFINE t == timers[NextTimer]
<1>2. Deliver(ReplyTo(t.m, t.effect, 0)) /\ ReplyTo(t.m, t.effect, 0).m = t.m /\ queue' = queue
  BY DEF Fire, ReplyTo
<1>3. Resumes(t.m) \/ (\E id, n : Replies(t.m, id, n)) \/ UNCHANGED routines
  BY <1>2 DEF Deliver
<1>4. Quietly(t.m)
  BY <1>1, <1>3, CallQuiet
<1>5. KeepsBut(Taken, 0, queue') /\ 0 \notin 1 .. Len(Taken)
  BY NoneSpent, NothingHas DEF Fire
<1>6. QED
  BY <1>4, <1>5, TakenHas, TurnDue DEF Quietly

\* The test host, while it runs.
LEMMA DriveDue ==
  ASSUME RoutinesOK, LoopOK, Yielded, AllDue, DriveNext, verdict' = "running"
  PROVE  AllDue'
BY KillDue, StutterDue, YieldsDue, HandleDue, CallDue, FireDue DEF DriveNext, Judge

-----------------------------------------------------------------------------
(* PythonHost                                                                *)

LEMMA RanDue ==
  ASSUME RoutinesOK, LoopOK, AllDue, Ran
  PROVE  AllDue'
<1>1. PICK p \in Machines :
        /\ Reads(p)
        /\ queue' = queue
                    \o [i \in DOMAIN out[p].effects |-> EffectOf(p, out[p].effects[i])]
                    \o [i \in DOMAIN out[p].woke |->
                          [ResumeOf(out[p].woke[i]) EXCEPT !.lane = p]]
        /\ heard' = heard
  BY DEF Ran
<1> DEFINE s == out[p].effects
           k1 == out[p].woke
           t == [i \in DOMAIN s |-> EffectOf(p, s[i])]
           w == [i \in DOMAIN k1 |-> [ResumeOf(k1[i]) EXCEPT !.lane = p]]
<1>2. queue \in Seq(GoodItem)
  BY DEF LoopOK, QueueOK
<1>3. t \in Seq(GoodItem) /\ w \in Seq(GoodItem) /\ k1 \in Seq(Machines) /\ s \in Seq(GoodEffect)
  BY RecordedIs DEF RoutinesOK, OutOK, Outs
<1>4. /\ DOMAIN s = 1 .. Len(s) /\ Len(t) = Len(s) /\ DOMAIN k1 = 1 .. Len(k1) /\ Len(w) = Len(k1)
      /\ \A i \in 1 .. Len(s) : t[i] = EffectOf(p, s[i])
      /\ \A i \in 1 .. Len(k1) : w[i] = [ResumeOf(k1[i]) EXCEPT !.lane = p]
  BY <1>3
<1>5. queue' = queue \o t \o w
  BY <1>1
<1> HIDE DEF t, w
<1>6. Within(queue, queue \o t) /\ Within(t, queue \o t) /\ queue \o t \in Seq(GoodItem)
  BY <1>2, <1>3, RangeJoined
<1>7. Within(queue \o t, queue') /\ Within(w, queue')
  BY <1>3, <1>5, <1>6, RangeJoined
<1>9. Within(queue, queue') /\ Within(t, queue')
  BY <1>6, <1>7, WithinOn
<1>8. KeepsBut(queue, 0, queue')
  BY <1>9 DEF KeepsBut, Within
<1>10. ASSUME NEW m \in Machines, Bears(s, m) PROVE Begins(queue', m)
  <2>1. PICK i \in 1 .. Len(s) : s[i].kind \in Begets /\ s[i].id = m
    BY <1>10 DEF Bears
  <2>2. t[i] = EffectOf(p, s[i])
    BY <1>4
  <2>3. t[i].kind = "effect" /\ t[i].effect = s[i]
    BY <2>2 DEF EffectOf
  <2>4. Beginning(t[i], m)
    BY <2>1, <2>3 DEF Beginning
  <2>5. QED
    BY <1>4, <1>9, <2>1, <2>4 DEF Begins, Within
<1>11. ASSUME NEW m \in Machines, m \in Range(k1) PROVE ToResume(queue', m)
  <2>1. PICK i \in 1 .. Len(k1) : k1[i] = m
    BY <1>4, <1>11 DEF Range
  <2>2. w[i] = [ResumeOf(m) EXCEPT !.lane = p]
    BY <1>4, <2>1
  <2>3. w[i].kind = "resume" /\ w[i].m = m
    BY <2>2 DEF ResumeOf
  <2>4. QED
    BY <1>4, <1>7, <2>1, <2>3 DEF Within, ToResume, Resuming
<1>12. QED
  BY <1>1, <1>8, <1>10, <1>11, ReadDue

LEMMA NobodyDue ==
  ASSUME RoutinesOK, LoopOK, Yielded, AllDue, heard' = heard, NEW i \in Turn,
         KeepsBut(queue, i, queue'), NEW p \in Machines,
         Resumes(p) \/ (\E id, n : Replies(p, id, n)) \/ UNCHANGED routines,
         queue[i].kind # "resume",
         queue[i].kind = "effect" => queue[i].effect.kind \notin Begets
  PROVE  AllDue'
<1>1. queue[i].kind \in {"effect", "reply", "resume"}
  <2>1. i \in 1 .. Len(queue)
    BY TurnIs
  <2>2. queue[i] \in GoodItem
    BY <2>1, RangeIs DEF LoopOK, QueueOK
  <2>3. QED
    BY <2>2 DEF GoodItem, Item
<1>2. \A m \in Machines : ~Beginning(queue[i], m) /\ ~Resuming(queue[i], m)
  BY <1>1, BeginningIs
<1>3. QED
  BY <1>2, ServedDue

LEMMA SpendIs ==
  ASSUME LoopOK, NEW i \in Turn, queue' = RemoveAt(queue, i)
  PROVE  KeepsBut(queue, i, queue')
<1>1. queue \in Seq(GoodItem) /\ i \in 1 .. Len(queue)
  BY TurnIs DEF LoopOK, QueueOK
<1>2. QED
  BY <1>1, LessKeeps

LEMMA TurnItem ==
  ASSUME LoopOK, NEW i \in Turn
  PROVE  /\ i \in 1 .. Len(queue) /\ queue[i] \in GoodItem /\ queue[i].m \in Machines
         /\ queue[i].effect \in GoodEffect
         /\ queue[i].kind \in {"effect", "reply", "resume"}
         /\ queue[i].effect.kind \in Begets => queue[i].effect.id \in Machines
         /\ RemoveAt(queue, i) \in Seq(GoodItem)
<1>1. queue \in Seq(GoodItem) /\ i \in 1 .. Len(queue)
  BY TurnIs DEF LoopOK, QueueOK
<1>2. queue[i] \in GoodItem
  BY <1>1, RangeIs
<1>3. RemoveAt(queue, i) \in Seq(GoodItem)
  BY <1>1, QueueKept
<1>4. QED
  BY <1>1, <1>2, <1>3, ItemIs DEF GoodItem, Item, Begets

LEMMA SkipDue ==
  ASSUME RoutinesOK, LoopOK, Yielded, AllDue, Skip
  PROVE  AllDue'
<1>1. PICK i \in Turn : Abandoned(queue[i]) /\ queue' = RemoveAt(queue, i)
  BY DEF Skip
<1>2. heard' = heard /\ UNCHANGED routines
  BY DEF Skip
<1>3. /\ queue[i].kind # "resume"
      /\ queue[i].kind = "effect" => queue[i].effect.kind \notin Begets
  BY <1>1, BegetsAre DEF Abandoned
<1>4. QED
  BY <1>1, <1>2, <1>3, SpendIs, TurnItem, NobodyDue

LEMMA NoteDue ==
  ASSUME RoutinesOK, LoopOK, Yielded, AllDue, Note
  PROVE  AllDue'
<1>1. PICK i \in Turn :
        /\ queue[i].kind = "effect" /\ queue[i].effect.kind \in {"write"} \cup Sleeps
        /\ queue' = RemoveAt(queue, i)
  BY DEF Note
<1>2. heard' = heard /\ UNCHANGED routines
  BY DEF Note
<1>3. queue[i].effect.kind \notin Begets
  BY <1>1 DEF Sleeps, Begets
<1>4. QED
  BY <1>1, <1>2, <1>3, SpendIs, TurnItem, NobodyDue

LEMMA PerformDue ==
  ASSUME RoutinesOK, LoopOK, Yielded, AllDue, Perform
  PROVE  AllDue'
<1>1. PICK i \in Turn :
        LET a == queue[i]
            e == a.effect
            answer == AnswerTo(world, e)
            rest == RemoveAt(queue, i)
        IN /\ a.kind = "effect" /\ e.kind \in Asks \ Sleeps
           /\ IF host = "seeded"
                THEN /\ queue' = Append(rest, ReplyTo(a.m, e, answer))
                     /\ UNCHANGED routines
                ELSE /\ queue' = rest
                     /\ Replies(a.m, e.id, answer) \/ UNCHANGED routines
  BY DEF Perform
<1> DEFINE a == queue[i]
           e == a.effect
<1>2. /\ heard' = heard /\ a.kind = "effect" /\ e.kind \notin Begets
      /\ Replies(a.m, e.id, AnswerTo(world, e)) \/ UNCHANGED routines
      /\ \/ queue' = RemoveAt(queue, i)
         \/ queue' = Append(RemoveAt(queue, i), ReplyTo(a.m, e, AnswerTo(world, e)))
  BY <1>1, BegetsAre DEF Perform
<1>3. a.m \in Machines /\ e \in GoodEffect /\ i \in 1 .. Len(queue) /\ RemoveAt(queue, i) \in Seq(GoodItem)
  BY TurnItem
<1>4. AnswerTo(world, e) \in Int
  <2>1. world \in World /\ e \in Effect
    BY <1>3 DEF LoopOK, WorldOK, GoodEffect
  <2>2. QED
    BY <2>1, AnswerIs
<1>5. ReplyTo(a.m, e, AnswerTo(world, e)) \in GoodItem
  BY <1>3, <1>4, ItemsAre
<1>6. KeepsBut(queue, i, RemoveAt(queue, i))
  BY <1>3, LessKeeps DEF LoopOK, QueueOK
<1>7. KeepsBut(queue, i, queue')
  <2>1. KeepsBut(queue, i, Append(RemoveAt(queue, i), ReplyTo(a.m, e, AnswerTo(world, e))))
    BY <1>3, <1>5, <1>6, MoreKeeps, SMTT(20)
  <2>2. QED
    BY <1>2, <1>6, <2>1
<1>8. QED
  BY <1>2, <1>3, <1>7, NobodyDue

LEMMA AnswerDue ==
  ASSUME RoutinesOK, LoopOK, Yielded, AllDue, Answer
  PROVE  AllDue'
<1>1. PICK i \in Turn :
        /\ queue[i].kind = "reply" /\ queue' = RemoveAt(queue, i)
        /\ (\E id, n : Replies(queue[i].m, id, n)) \/ UNCHANGED routines
  BY DEF Answer
<1>2. heard' = heard
  BY DEF Answer
<1>3. QED
  BY <1>1, <1>2, SpendIs, TurnItem, NobodyDue

LEMMA ResumeDue ==
  ASSUME RoutinesOK, LoopOK, Yielded, AllDue, Resume
  PROVE  AllDue'
<1>1. PICK i \in Turn :
       LET a == queue[i]
           spawn == a.kind = "effect"
           m == IF spawn THEN a.effect.id ELSE a.m
       IN /\ \/ a.kind = "resume"
             \/ spawn /\ a.effect.kind \in {"spawned", "spawned_pinned"}
          /\ queue' = RemoveAt(queue, i)
          /\ IF life[m] = "done" \/ (~spawn /\ a.lane # 0 /\ m \notin Known)
               THEN UNCHANGED <<routines, refused>>
               ELSE IF Pollable(m) THEN Resumes(m) /\ UNCHANGED refused
                                   ELSE UNCHANGED routines /\ refused' = TRUE
  BY DEF Resume
<1> DEFINE a == queue[i]
           spawn == a.kind = "effect"
           p == IF spawn THEN a.effect.id ELSE a.m
<1>2. /\ a.kind = "resume" \/ (a.kind = "effect" /\ a.effect.kind \in Begets)
      /\ queue' = RemoveAt(queue, i)
      /\ IF life[p] = "done" \/ (~spawn /\ a.lane # 0 /\ p \notin Known)
           THEN UNCHANGED routines
           ELSE IF Pollable(p) THEN Resumes(p) ELSE UNCHANGED routines
  BY <1>1 DEF Begets
<1>3. p \in Machines
  BY <1>2, TurnItem
<1>4. heard' = heard /\ AtLoop
  BY DEF Resume, Serving
<1>5. \A m \in Machines : Beginning(a, m) \/ Resuming(a, m) => m = p
  BY <1>2, BeginningIs DEF Resuming
<1>6. Resumes(p) => ~UNCHANGED routines
  <2> SUFFICES ASSUME Resumes(p), UNCHANGED routines PROVE FALSE
    OBVIOUS
  <2>1. Pollable(p) /\ life' = [life EXCEPT ![p] = "polling"] /\ life' = life
    BY DEF Resumes, routines
  <2>2. QED
    BY <1>3, <2>1 DEF RoutinesOK, LifeOK, Pollable
<1>7. UNCHANGED routines =>
        /\ Beginning(a, p) => life[p] # "new"
        /\ Resuming(a, p) => ~Roused(p)
  <2> SUFFICES ASSUME UNCHANGED routines PROVE /\ Beginning(a, p) => life[p] # "new"
                                               /\ Resuming(a, p) => ~Roused(p)
    OBVIOUS
  <2>1. life[p] \notin {"polling", "yielded", "returned"}
    BY <1>3, <1>4 DEF AtLoop
  <2>2. CASE life[p] = "done"
    BY <2>2 DEF Roused
  <2>3. CASE ~spawn /\ a.lane # 0 /\ p \notin Known
    <3>1. a.kind = "resume"
      BY <1>2, <2>3
    <3>2. ~Beginning(a, p)
      BY <2>3, <3>1, BeginningIs
    <3>3. life[p] # "waiting"
      BY <1>3, <2>3 DEF Known
    <3>4. QED
      BY <2>1, <3>2, <3>3 DEF Roused
  <2>4. CASE ~Pollable(p)
    BY <2>1, <2>4 DEF Pollable, Roused
  <2>5. QED
    BY <1>2, <1>6, <2>2, <2>3, <2>4
<1>8. Resumes(p) \/ UNCHANGED routines
  BY <1>2
<1>9. KeepsBut(queue, i, queue')
  BY <1>2, SpendIs
<1> HIDE DEF p
<1>10. QED
  BY <1>3, <1>4, <1>5, <1>7, <1>8, <1>9, ServedDue

LEMMA StutterFireDue ==
  ASSUME RoutinesOK, LoopOK, Yielded, AllDue, SeededStutter \/ FireTimer
  PROVE  AllDue'
<1>1. \E p \in Machines : Resumes(p) \/ (\E id, n : Replies(p, id, n)) \/ UNCHANGED routines
  <2>1. CASE SeededStutter
    BY <2>1 DEF SeededStutter, Known
  <2>2. CASE FireTimer
    <3>1. timers[NextTimer].m \in Machines
      BY <2>2, NextTimerIs DEF FireTimer, LoopOK
    <3>2. \/ \E id, n : Replies(timers[NextTimer].m, id, n)
          \/ UNCHANGED routines
      BY <2>2 DEF FireTimer
    <3>3. QED
      BY <3>1, <3>2
  <2>3. QED
    BY <2>1, <2>2
<1>2. PICK p \in Machines : Resumes(p) \/ (\E id, n : Replies(p, id, n)) \/ UNCHANGED routines
  BY <1>1
<1>3. Quietly(p)
  BY <1>2, CallQuiet
<1>4. queue' = queue /\ heard' = heard
  BY DEF SeededStutter, FireTimer
<1>5. KeepsBut(queue, 0, queue') /\ 0 \notin 1 .. Len(queue)
  BY <1>4, NoneSpent
<1>6. QED
  BY <1>3, <1>4, <1>5, TurnDue DEF Quietly

\* The Python host, while it runs.
LEMMA PythonDue ==
  ASSUME RoutinesOK, LoopOK, Yielded, AllDue, PythonNext, verdict' = "running"
  PROVE  AllDue'
<1>1. CASE Conclude
  BY <1>1 DEF Conclude
<1>2. QED
  BY <1>1, RanDue, StutterFireDue, SkipDue, NoteDue, PerformDue, ResumeDue, AnswerDue
  DEF PythonNext

-----------------------------------------------------------------------------
(* What a step of any host does to its machines                              *)

Natives == {"tokio", "js"}

Finished ==
  /\ \A m \in Machines : life[m] \notin Mid
  /\ life' = [m \in Machines |-> IF life[m] \in {"new", "waiting"} THEN "dropped" ELSE life[m]]
  /\ UNCHANGED <<demo, code, at, got, asked, mail, minted, ends, msgs, ears, woken, out>>

\* A step of m's poll, a call of m, an answer put in m's mailbox during its
\* poll or with a poll scheduled, or the end of all.
CallOf(m) ==
  \/ Resumes(m) \/ (\E id, n : Replies(m, id, n)) \/ Reads(m)
  \/ Kills(m) /\ life[m] \notin Mid
  \/ UNCHANGED routines
AnswerOf(m) ==
  /\ \E id, n : Delivers(m, id, n)
  /\ life[m] = "polling" \/ (host \in Natives /\ m \in runnable')
StepOf(m) == PollStep(m) \/ CallOf(m) \/ AnswerOf(m) \/ Finished

LEMMA DriveSteps ==
  ASSUME LoopOK, DriveNext
  PROVE  \E m \in Machines : CallOf(m)
<1>0. UNCHANGED routines => \E m \in Machines : CallOf(m)
  BY MachinesFinite DEF CallOf
<1>1. CASE Kill
  <2>1. PICK m \in Machines : Kills(m)
    BY <1>1 DEF Kill, Adopted
  <2>2. life[m] \notin Mid
    BY <1>1, <2>1 DEF Kill, Driving, AtLoop, Mid
  <2>3. QED
    BY <2>1, <2>2 DEF CallOf
<1>2. CASE Stutter \/ Yields
  BY <1>2 DEF Stutter, Adopted, Yields, CallOf
<1>3. CASE Handle \/ Judge
  BY <1>0, <1>3 DEF Handle, Judge
<1>4. CASE Call
  <2>1. PICK i \in Choosable : Deliver(Taken[i])
    BY <1>4 DEF Call
  <2>2. Taken[i] \in GoodItem
    BY <1>4, ChoosableIs, TakenTypes DEF Call
  <2>3. Taken[i].m \in Machines
    BY <2>2, ItemIs
  <2>4. QED
    BY <2>1, <2>3 DEF Deliver, CallOf
<1>5. CASE Fire
  <2>1. timers[NextTimer].m \in Machines
    BY <1>5, NextTimerIs DEF Fire, LoopOK
  <2> DEFINE t == timers[NextTimer]
  <2>2. Deliver(ReplyTo(t.m, t.effect, 0)) /\ ReplyTo(t.m, t.effect, 0).m = t.m
    BY <1>5 DEF Fire, ReplyTo
  <2>3. QED
    BY <2>1, <2>2 DEF Deliver, CallOf
<1>6. QED
  BY <1>1, <1>2, <1>3, <1>4, <1>5 DEF DriveNext

LEMMA PythonSteps ==
  ASSUME LoopOK, PythonNext
  PROVE  \E m \in Machines : CallOf(m)
<1>0. UNCHANGED routines => \E m \in Machines : CallOf(m)
  BY MachinesFinite DEF CallOf
<1>1. CASE Ran \/ SeededStutter
  BY <1>1 DEF Ran, SeededStutter, Known, CallOf
<1>2. CASE Skip \/ Note \/ Conclude
  BY <1>0, <1>2 DEF Skip, Note, Conclude
<1>3. CASE Perform \/ Answer
  <2>1. PICK i \in Turn : (\E id, n : Replies(queue[i].m, id, n)) \/ UNCHANGED routines
    BY <1>3 DEF Perform, Answer
  <2>2. QED
    BY <2>1, TurnItem DEF CallOf
<1>4. CASE Resume
  <2>1. PICK i \in Turn :
          LET a == queue[i]
              spawn == a.kind = "effect"
              m == IF spawn THEN a.effect.id ELSE a.m
          IN /\ spawn => a.effect.kind \in Begets
             /\ Resumes(m) \/ UNCHANGED routines
    BY <1>4 DEF Resume, Begets
  <2>2. queue[i].m \in Machines /\ (queue[i].effect.kind \in Begets => queue[i].effect.id \in Machines)
    BY TurnItem
  <2>3. PICK m : m = IF queue[i].kind = "effect" THEN queue[i].effect.id ELSE queue[i].m
    OBVIOUS
  <2>4. m \in Machines /\ (Resumes(m) \/ UNCHANGED routines)
    BY <2>1, <2>2, <2>3
  <2>5. QED
    BY <2>4 DEF CallOf
<1>5. CASE FireTimer
  <2>1. timers[NextTimer].m \in Machines
    BY <1>5, NextTimerIs DEF FireTimer, LoopOK
  <2>2. (\E id, n : Replies(timers[NextTimer].m, id, n)) \/ UNCHANGED routines
    BY <1>5 DEF FireTimer
  <2>3. QED
    BY <2>1, <2>2 DEF CallOf
<1>6. QED
  BY <1>1, <1>2, <1>3, <1>4, <1>5 DEF PythonNext

LEMMA JavaSteps ==
  ASSUME JavaOK, JavaNext
  PROVE  \E m \in Machines : PollStep(m) \/ CallOf(m)
<1>0. UNCHANGED routines => \E m \in Machines : CallOf(m)
  BY MachinesFinite DEF CallOf
<1>1. CASE Tasks \/ Quiet
  BY <1>0, <1>1 DEF Tasks, Task, PerformTask, CountReply, QueueReply, Quiet, Decide
<1>2. ASSUME NEW w \in WorkerIds, Work(w)
      PROVE  \E m \in Machines : PollStep(m) \/ CallOf(m)
  <2>1. CASE \/ Take(w) \/ Drain(w) \/ WriteOut(w) \/ CountResume(w) \/ QueueResume(w)
             \/ Cancel(w) \/ AskTask(w) \/ Dispatch(w) \/ QueueSpurious(w) \/ Settle(w)
    BY <1>0, <2>1 DEF Take, Drain, WriteOut, CountResume, QueueResume, Cancel, AskTask, Dispatch,
       QueueSpurious, Settle
  <2>2. job[w].pc \in {"handle", "call", "end"} => job[w].m \in Machines
    BY DEF JavaOK, JobsOK, InHand
  <2>3. CASE HandleEvent(w)
    <3>1. job[w].pc = "handle"
      BY <2>3 DEF HandleEvent, At
    <3>2. CASE Calls(w, job[w].m, job[w].event)
      BY <2>2, <3>1, <3>2 DEF Calls, CallOf
    <3>3. CASE UNCHANGED routines
      BY <1>0, <3>3
    <3>4. QED
      BY <2>3, <3>2, <3>3 DEF HandleEvent
  <2>4. CASE Poll(w) \/ TakesBatch(w)
    BY <2>2, <2>4 DEF Poll, TakesBatch, At, CallOf
  <2>5. CASE End(w)
    <3>1. job[w].m \in Machines
      BY <2>2, <2>5 DEF End, At
    <3>2. \/ Kills(job[w].m) /\ life[job[w].m] = "done"
          \/ UNCHANGED routines
      BY <2>5 DEF End
    <3>3. QED
      BY <3>1, <3>2 DEF CallOf, Mid
  <2>6. QED
    BY <1>2, <2>1, <2>3, <2>4, <2>5 DEF Work
<1>3. QED
  BY <1>1, <1>2 DEF JavaNext, Works

\* Of those that suspend, the runtimes keep every task they had scheduled.
LEMMA NativeSteps ==
  ASSUME RoutinesOK, NativeOK, NativeNext
  PROVE  /\ \E m \in Machines : StepOf(m)
         /\ \A m \in Machines : Suspended(m)' /\ m \in runnable => m \in runnable'
<1>0. UNCHANGED routines => \E m \in Machines : StepOf(m)
  BY MachinesFinite DEF CallOf, StepOf
<1>1. CASE \E m \in Machines : BeginPoll(m)
  <2>1. PICK m \in Machines : BeginPoll(m)
    BY <1>1
  <2>2. Resumes(m) /\ runnable' = runnable \ {m} /\ life' = [life EXCEPT ![m] = "polling"]
    BY <2>1 DEF BeginPoll, Resumes
  <2>3. \A x \in Machines : Suspended(x)' => x # m
    BY <2>2 DEF Suspended, RoutinesOK, LifeOK
  <2>4. QED
    BY <2>2, <2>3 DEF CallOf, StepOf
<1>2. CASE \E m \in Machines : TokioStep(m) \/ JsStep(m)
  <2>1. PICK m \in Machines : TokioStep(m) \/ JsStep(m)
    BY <1>2
  <2>2. PollStep(m) /\ runnable \subseteq runnable'
    BY <2>1 DEF TokioStep, JsStep, Schedules
  <2>3. QED
    BY <2>2 DEF StepOf
<1>3. CASE \E m \in Machines : AnswerNow(m) \/ EndPoll(m)
  <2>1. PICK m \in Machines : AnswerNow(m) \/ EndPoll(m)
    BY <1>3
  <2>2. runnable' = runnable
    BY <2>1 DEF AnswerNow, EndPoll, native
  <2>3. (life[m] = "polling" /\ \E id, n : Delivers(m, id, n)) \/ Reads(m)
    BY <2>1 DEF AnswerNow, EndPoll
  <2>4. QED
    BY <2>2, <2>3 DEF CallOf, AnswerOf, StepOf
<1>4. CASE \E r \in DOMAIN waits : WaitEnds(r) \/ PromiseSettles(r)
  <2>1. PICK r \in DOMAIN waits : WaitEnds(r) \/ PromiseSettles(r)
    BY <1>4
  <2>2. r[1] \in Machines
    BY DEF NativeOK, WaitsOK, Requests
  <2>3. \/ /\ \E id, n : Delivers(r[1], id, n)
           /\ runnable' = runnable \cup {r[1]}
        \/ UNCHANGED <<routines, runnable>>
    BY <2>1 DEF WaitEnds, PromiseSettles
  <2>4. host \in Natives
    BY <2>1 DEF WaitEnds, PromiseSettles, On, Natives
  <2>5. QED
    BY <1>0, <2>2, <2>3, <2>4 DEF AnswerOf, StepOf
<1>5. CASE DispatchRequests \/ JsEnds
  <2>1. UNCHANGED routines /\ runnable' = runnable
    BY <1>5 DEF DispatchRequests, JsEnds, native
  <2>2. QED
    BY <1>0, <2>1
<1>6. CASE TokioEnds
  <2>1. Finished
    BY <1>6 DEF TokioEnds, Finished, Busy, Mid
  <2>2. \A x \in Machines : ~Suspended(x)'
    BY <2>1 DEF Finished, Suspended, Mid
  <2>3. QED
    BY <2>1, <2>2, MachinesFinite DEF StepOf
<1>7. QED
  BY <1>1, <1>2, <1>3, <1>4, <1>5, <1>6 DEF NativeNext

LEMMA StepsAre ==
  ASSUME AllOK, [Next]_vars
  PROVE  /\ \E m \in Machines : StepOf(m)
         /\ \A m \in Machines : Suspended(m)' /\ m \in runnable => m \in runnable'
<1>0. RoutinesOK /\ LoopOK /\ JavaOK /\ NativeOK
  BY DEF AllOK, TypesOK
<1>1. CASE Single
  <2>1. runnable' = runnable
    BY <1>1 DEF Single, native
  <2>2. \E m \in Machines : StepOf(m)
    BY <1>0, <1>1, DriveSteps, PythonSteps DEF Single, Polling, StepOf
  <2>3. QED
    BY <2>1, <2>2
<1>2. CASE Parallel
  BY <1>0, <1>2, JavaSteps DEF Parallel, native, StepOf
<1>3. CASE Native
  BY <1>0, <1>3, NativeSteps DEF Native
<1>4. CASE UNCHANGED vars
  BY <1>4, MachinesFinite DEF vars, native, CallOf, StepOf
<1>5. QED
  BY <1>1, <1>2, <1>3, <1>4 DEF Next

\* An answer changes no more than the mail of one machine.
LEMMA AnswerKeeps ==
  ASSUME RoutinesOK, NEW p \in Machines, NEW id, NEW n, Delivers(p, id, n)
  PROVE  /\ UNCHANGED <<life, code, at, asked, out, woken>>
         /\ \A m \in Machines : DOMAIN mail'[m] = DOMAIN mail[m]
         /\ \A m \in Machines : m # p => mail'[m] = mail[m]
<1>1. mail' = [mail EXCEPT ![p][id] = n] /\ UNCHANGED <<life, code, at, asked, out, woken>>
  BY DEF Delivers
<1>2. QED
  BY <1>1 DEF RoutinesOK, MailOK

LEMMA StepAsks ==
  ASSUME RoutinesOK, Asking, NEW p \in Machines, StepOf(p)
  PROVE  Asking'
<1>1. CASE AnswerOf(p)
  <2>1. PICK id, n : Delivers(p, id, n)
    BY <1>1 DEF AnswerOf
  <2>2. \A m \in Machines : AskOK(m)'
    BY <2>1, AnswerKeeps, AskRests DEF Asking
  <2>3. QED
    BY <2>2 DEF Asking
<1>2. CASE Finished
  <2>1. /\ UNCHANGED <<code, at, asked, mail>>
        /\ \A m \in Machines : life'[m] = life[m] \/ life'[m] = "dropped"
    BY <1>2 DEF Finished
  <2>2. \A m \in Machines : AskOK(m)'
    BY <2>1, AskRests DEF Asking
  <2>3. QED
    BY <2>2 DEF Asking
<1>3. CASE CallOf(p)
  BY <1>3, CallAsks DEF CallOf
<1>4. QED
  BY <1>1, <1>2, <1>3, PollAsks DEF StepOf

LEMMA StepYields ==
  ASSUME RoutinesOK, Asking, Yielded, NEW p \in Machines, StepOf(p)
  PROVE  Yielded'
<1>1. CASE AnswerOf(p)
  BY <1>1, AnswerKeeps DEF AnswerOf, Yielded
<1>2. CASE Finished
  BY <1>2 DEF Finished, Yielded
<1>3. CASE PollStep(p)
  <2>1. PollsAlone(p) /\ PollsOn(p)
    BY <1>3, PollProgress DEF Progress
  <2>2. ASSUME NEW m \in Machines, life'[m] \notin Mid PROVE out'[m] = Nothing
    <3>1. m # p /\ out'[m] = out[m]
      BY <2>1, <2>2 DEF PollsAlone, PollsOn
    <3>2. life[m] \notin Mid
      BY <2>1, <2>2, <3>1 DEF PollsOn, Mid
    <3>3. QED
      BY <3>1, <3>2 DEF Yielded
  <2>3. QED
    BY <2>2 DEF Yielded
<1>4. CASE Resumes(p) \/ (\E id, n : Replies(p, id, n)) \/ Reads(p)
  <2>1. /\ out' = [out EXCEPT ![p] = Nothing]
        /\ \A m \in Machines : m # p => life'[m] = life[m]
    BY <1>4 DEF Resumes, Replies, Reads, RoutinesOK, LifeOK
  <2>2. QED
    BY <2>1 DEF Yielded, RoutinesOK, OutOK
<1>5. CASE Kills(p) /\ life[p] \notin Mid
  <2>1. out' = out /\ \A m \in Machines : m # p => life'[m] = life[m]
    BY <1>5 DEF Kills, RoutinesOK, LifeOK
  <2>2. QED
    BY <1>5, <2>1 DEF Yielded
<1>6. CASE UNCHANGED routines
  BY <1>6 DEF routines, Yielded
<1>7. QED
  BY <1>1, <1>2, <1>3, <1>4, <1>5, <1>6 DEF StepOf, CallOf

LEMMA StepListens ==
  ASSUME RoutinesOK, Asking, Listening, NEW p \in Machines, StepOf(p)
  PROVE  Listening'
<1>1. CASE Finished
  <2>1. UNCHANGED <<code, at, ends, msgs, ears, woken>>
    BY <1>1 DEF Finished
  <2>2. \A m \in Machines : /\ Suspended(m)' => Suspended(m)
                            /\ life'[m] = "none" => life[m] = "none"
    BY <1>1 DEF Finished, Suspended
  <2>3. QED
    BY <2>1, <2>2, LivesListen
<1>2. CASE CallOf(p)
  BY <1>2, CallListens DEF CallOf
<1>3. CASE AnswerOf(p)
  BY <1>3, DeliverListens DEF AnswerOf
<1>4. QED
  BY <1>1, <1>2, <1>3, PollListens DEF StepOf

\* A suspended machine whose answer has come is one a runtime has scheduled.
Heeding ==
  \A m \in Machines : Suspended(m) => Unanswered(m) \/ (host \in Natives /\ m \in runnable)

LEMMA StepHeeds ==
  ASSUME RoutinesOK, Asking, Heeding, NEW p \in Machines, StepOf(p), host' = host,
         \A m \in Machines : Suspended(m)' /\ m \in runnable => m \in runnable'
  PROVE  Heeding'
<1>1. SUFFICES ASSUME NEW m \in Machines, Suspended(m)'
               PROVE  Unanswered(m)' \/ (host \in Natives /\ m \in runnable')
  BY DEF Heeding
<1>2. CASE m \in runnable /\ host \in Natives
  BY <1>1, <1>2
<1>3. CASE ~(m \in runnable /\ host \in Natives)
  <2>1. Suspended(m) => Unanswered(m)
    BY <1>3 DEF Heeding
  <2>2. CASE PollStep(p)
    BY <1>1, <2>1, <2>2, PollHeeds
  <2>3. CASE CallOf(p)
    BY <1>1, <2>1, <2>3, CallHeeds DEF CallOf
  <2>4. CASE AnswerOf(p)
    <3>1. PICK id, n : Delivers(p, id, n)
      BY <2>4 DEF AnswerOf
    <3>2. Suspended(m) /\ asked'[m] = asked[m] /\ (m # p => mail'[m] = mail[m])
      BY <1>1, <3>1, AnswerKeeps DEF Suspended
    <3>3. m = p => host \in Natives /\ m \in runnable'
      BY <2>4, <3>2 DEF AnswerOf, Suspended
    <3>4. QED
      BY <2>1, <3>2, <3>3 DEF Unanswered, Answered
  <2>5. CASE Finished
    BY <1>1, <2>5 DEF Finished, Suspended, Mid
  <2>6. QED
    BY <2>2, <2>3, <2>4, <2>5 DEF StepOf
<1>4. QED
  BY <1>2, <1>3

-----------------------------------------------------------------------------
(* Runtimes schedule whom a step makes or wakes                              *)

\* A task made and not begun, or woken, is scheduled.
NativeDue == \A m \in Machines : life[m] = "new" \/ Roused(m) => m \in runnable

\* A select makes nobody.
LEMMA SelectMakesNone ==
  ASSUME RoutinesOK, NEW p \in Machines, PollStep(p), Is(p, "select")
  PROVE  \A m \in Machines : life'[m] = "new" => life[m] = "new"
<1>1. ~SpawnChild(p)
  BY DEF SpawnChild, Is
<1>2. life' = life \/ life' = [life EXCEPT ![p] = "yielded"]
                   \/ life' = [life EXCEPT ![p] = "returned"]
  BY <1>1 DEF PollStep, WriteLine, SendMessage, Receive, Record, Collect, JoinBoth,
     SelectFirst, DropEnds, Continue, Suspend, Return
<1>3. QED
  BY <1>2 DEF RoutinesOK, LifeOK

LEMMA SchedulesDue ==
  ASSUME RoutinesOK, Asking, NativeDue, NEW p \in Machines, PollStep(p), Schedules(p)
  PROVE  NativeDue'
<1>1. PICK t, s : Tells(p, t, s)
  BY PollTells
<1>2. /\ t \in Seq(GoodEffect) /\ s \in Seq(Machines)
      /\ out[p].effects \in Seq(GoodEffect) /\ out[p].woke \in Seq(Machines)
  BY <1>1 DEF Tells, RoutinesOK, OutOK, Outs
<1>3. Appended(out[p].effects, out'[p].effects) = t /\ Appended(out[p].woke, out'[p].woke) = s
  BY <1>1, <1>2, AppendedOne DEF Tells
<1>4. runnable \subseteq runnable' /\ Range(s) \subseteq runnable'
  BY <1>3 DEF Schedules
<1>5. ASSUME NEW m \in Machines, life'[m] = "new" PROVE m \in runnable'
  <2>1. CASE Is(p, "select")
    BY <1>4, <1>5, <2>1, SelectMakesNone DEF NativeDue
  <2>2. CASE ~Is(p, "select")
    <3>1. Starts(p) = t
      BY <1>3, <2>2 DEF Starts
    <3>2. ChildrenIn(t, {"spawned", "spawned_pinned"}) \subseteq runnable'
      BY <3>1 DEF Schedules
    <3>3. Bears(t, m) => m \in ChildrenIn(t, {"spawned", "spawned_pinned"})
      <4>1. SUFFICES ASSUME NEW i \in 1 .. Len(t), t[i].kind \in Begets, t[i].id = m
                     PROVE  m \in ChildrenIn(t, {"spawned", "spawned_pinned"})
        BY DEF Bears
      <4>2. i \in {j \in DOMAIN t : t[j].kind \in {"spawned", "spawned_pinned"}}
        BY <1>2, <4>1 DEF Begets
      <4>3. QED
        BY <4>1, <4>2 DEF ChildrenIn
    <3>4. QED
      BY <1>1, <1>4, <1>5, <3>2, <3>3 DEF Tells, NativeDue
  <2>3. QED
    BY <2>1, <2>2
<1>6. ASSUME NEW m \in Machines, Roused(m)' PROVE m \in runnable'
  <2>1. CASE m \in Range(s)
    BY <1>4, <2>1
  <2>2. CASE m \notin Range(s)
    <3>1. woken[m]
      BY <1>1, <1>6, <2>2 DEF Tells, Roused
    <3>2. PollsOn(p)
      BY PollProgress DEF Progress
    <3>3. life[m] \in {"polling", "yielded", "waiting"}
      BY <1>6, <3>2 DEF PollsOn, Roused
    <3>4. QED
      BY <1>4, <3>1, <3>3 DEF Roused, NativeDue
  <2>3. QED
    BY <2>1, <2>2
<1>7. QED
  BY <1>5, <1>6 DEF NativeDue

LEMMA NativeKeepsDue ==
  ASSUME RoutinesOK, Asking, NativeDue, NativeNext, verdict' = "running"
  PROVE  NativeDue'
<1>1. CASE \E m \in Machines : BeginPoll(m)
  <2>1. PICK p \in Machines : BeginPoll(p)
    BY <1>1
  <2>2. /\ runnable' = runnable \ {p} /\ life' = [life EXCEPT ![p] = "polling"]
        /\ woken' = [woken EXCEPT ![p] = FALSE]
    BY <2>1 DEF BeginPoll, Resumes
  <2>3. /\ life'[p] = "polling" /\ ~woken'[p]
        /\ \A m \in Machines : m # p => life'[m] = life[m] /\ woken'[m] = woken[m]
    BY <2>2 DEF RoutinesOK, LifeOK, OutOK
  <2>4. QED
    BY <2>2, <2>3 DEF NativeDue, Roused
<1>2. CASE \E m \in Machines : TokioStep(m) \/ JsStep(m)
  BY <1>2, SchedulesDue DEF TokioStep, JsStep
<1>3. CASE \E m \in Machines : EndPoll(m)
  <2>1. PICK p \in Machines : EndPoll(p)
    BY <1>3
  <2>2. /\ runnable' = runnable /\ woken' = woken /\ life[p] \in {"yielded", "returned"}
        /\ life' = [life EXCEPT ![p] = IF @ = "returned" THEN "done" ELSE "waiting"]
    BY <2>1 DEF EndPoll, Reads, native
  <2>3. QED
    BY <2>2 DEF NativeDue, Roused, RoutinesOK, LifeOK
<1>4. CASE \/ \E m \in Machines : AnswerNow(m)
           \/ \E r \in DOMAIN waits : WaitEnds(r) \/ PromiseSettles(r)
           \/ DispatchRequests
  <2>1. /\ runnable \subseteq runnable'
        /\ life' = life /\ woken' = woken
    BY <1>4 DEF AnswerNow, WaitEnds, PromiseSettles, DispatchRequests, Delivers, native, routines
  <2>2. QED
    BY <2>1 DEF NativeDue, Roused
<1>5. CASE TokioEnds \/ JsEnds
  BY <1>5 DEF TokioEnds, JsEnds
<1>6. QED
  BY <1>1, <1>2, <1>3, <1>4, <1>5 DEF NativeNext

-----------------------------------------------------------------------------
(* Nobody is forgotten                                                       *)

Queueing == {"fifo", "choices", "plain", "seeded"}

\* While the run lasts, each host owes no machine a poll it has lost.
Called ==
  verdict = "running" =>
    /\ host \in Queueing => AllDue
    /\ host \in Natives => NativeDue

Awake == Scheduled /\ Asking /\ Yielded /\ Listening /\ Heeding /\ Called

LEMMA SingleIs ==
  ASSUME AllOK, Single
  PROVE  host \in Queueing /\ (verdict' = "running" => verdict = "running")
<1>1. host \in {"fifo", "choices", "plain", "seeded", "java", "tokio", "js"}
  BY DEF AllOK, TypesOK, LoopOK, HeadsOK, HostNames
<1>2. CASE Polling
  BY <1>1, <1>2 DEF Polling, loop, Queueing
<1>3. CASE DriveNext
  BY <1>3 DEF DriveNext, Kill, Stutter, Yields, Handle, Call, Fire, Judge, Driving, AtLoop,
     Queueing
<1>4. CASE PythonNext
  BY <1>4 DEF PythonNext, Ran, SeededStutter, Skip, Note, Perform, Resume, Answer,
     FireTimer, Conclude, Serving, AtLoop, Queueing
<1>5. QED
  BY <1>2, <1>3, <1>4 DEF Single

LEMMA CalledStep ==
  ASSUME AllOK, Asking, Yielded, Called, [Next]_vars
  PROVE  Called'
<1>0. RoutinesOK /\ LoopOK /\ host' = host
  BY HostStays DEF AllOK, TypesOK
<1>1. CASE UNCHANGED vars
  <2>1. UNCHANGED <<verdict, host, life, woken, queue, heard, out, runnable>>
    BY <1>1 DEF vars, routines, loop, native
  <2>2. QED
    BY <2>1 DEF Called, AllDue, Due, NativeDue, Roused, BirthDue, WakeDue, Begins, ToResume, Bears
<1>2. CASE Single
  <2>1. host \in Queueing
    BY <1>2, SingleIs
  <2>2. SUFFICES ASSUME verdict' = "running" PROVE AllDue'
    BY <1>0, <2>1 DEF Called, Queueing, Natives
  <2>3. verdict = "running"
    BY <1>2, <2>2, SingleIs
  <2>4. AllDue
    BY <2>1, <2>3 DEF Called
  <2>5. CASE Polling
    BY <1>0, <2>4, <2>5, PollDue DEF Polling, loop
  <2>6. QED
    BY <1>0, <1>2, <2>2, <2>4, <2>5, DriveDue, PythonDue DEF Single
<1>3. CASE Parallel
  <2>1. host = "java"
    BY <1>3 DEF Parallel, JavaNext, Works, Tasks, Quiet, Elsewhere
  <2>2. QED
    BY <1>0, <2>1 DEF Called, Queueing, Natives
<1>4. CASE Native
  <2>1. host \in Natives /\ verdict = "running"
    BY <1>4 DEF Native, NativeNext, BeginPoll, TokioStep, AnswerNow, JsStep, EndPoll, WaitEnds,
       PromiseSettles, DispatchRequests, TokioEnds, JsEnds, On, Natives
  <2>2. QED
    BY <1>0, <1>4, <2>1, NativeKeepsDue DEF Native, Called, Queueing, Natives
<1>5. QED
  BY <1>1, <1>2, <1>3, <1>4 DEF Next

LEMMA CalledStart ==
  ASSUME Init
  PROVE  Called /\ Asking /\ Yielded /\ Listening /\ Heeding
<1>1. RoutinesInit /\ (host \in Queueing => queue = <<ResumeOf(Root)>>)
                   /\ (host \in Natives => runnable = {Root})
  BY DEF Init, DriveInit, PythonInit, JavaInit, NativeInit, LoopInit, Queueing, Natives
<1>2. \A m \in Machines : /\ life[m] = IF m = Root THEN "new" ELSE "none"
                          /\ ~woken[m] /\ out[m] = Nothing
                          /\ (m # Root => ends[m] = {})
  BY <1>1 DEF RoutinesInit
<1>3. Asking /\ Yielded
  BY <1>1, <1>2, AskStart DEF Yielded
<1>4. Listening /\ Heeding
  BY <1>2 DEF Listening, Listens, Heeding, Suspended
<1>5. host \in Queueing => AllDue
  <2>1. SUFFICES ASSUME host \in Queueing PROVE Begins(queue, Root)
    BY <1>2 DEF AllDue, Due, BirthDue, Roused
  <2>2. Len(queue) = 1 /\ queue[1] = ResumeOf(Root)
    BY <1>1, <2>1
  <2>3. QED
    BY <2>2 DEF Begins, Beginning
<1>6. host \in Natives => NativeDue
  BY <1>1, <1>2 DEF NativeDue, Roused
<1>7. QED
  BY <1>3, <1>4, <1>5, <1>6 DEF Called

LEMMA AwakeStart ==
  ASSUME Init
  PROVE  Awake
BY ScheduledStart, CalledStart DEF Awake

LEMMA AwakeStep ==
  ASSUME Awake, [Next]_vars
  PROVE  Awake'
<1>1. AllOK /\ RoutinesOK /\ host' = host
  BY HostStays DEF Awake, Scheduled, AllOK, TypesOK
<1>2. PICK p \in Machines : StepOf(p)
  BY <1>1, StepsAre
<1>3. \A m \in Machines : Suspended(m)' /\ m \in runnable => m \in runnable'
  BY <1>1, StepsAre
<1>4. Asking' /\ Yielded' /\ Listening'
  BY <1>1, <1>2, StepAsks, StepYields, StepListens DEF Awake
<1>5. Heeding'
  BY <1>1, <1>2, <1>3, StepHeeds DEF Awake
<1>6. Called'
  BY <1>1, CalledStep DEF Awake
<1>7. QED
  BY <1>4, <1>5, <1>6, ScheduledStep DEF Awake

\* What could go on is new, was woken, or has its answer and a poll scheduled.
LEMMA GoersAre ==
  ASSUME Listening, Heeding, NEW m \in Machines, CanGo(m)
  PROVE  life[m] = "new" \/ Roused(m) \/ (host \in Natives /\ m \in runnable)
<1>1. SUFFICES ASSUME life[m] = "waiting"
               PROVE  Roused(m) \/ (host \in Natives /\ m \in runnable)
  BY DEF CanGo
<1>2. Suspended(m) /\ Listens(m)
  BY <1>1 DEF Suspended, Listening
<1>3. CASE Here(m).op \in {"recv", "select"} /\ (Ready(Here(m).ch) \/ Closed(Here(m).ch))
  <2>1. Attends(m, Here(m).ch) /\ ~Silent(Here(m).ch)
    BY <1>2, <1>3 DEF Listens, Hearkens, Silent
  <2>2. QED
    BY <1>1, <2>1 DEF Attends, Roused
<1>4. CASE \E id \in Range(asked[m]) : Answered(m, id)
  BY <1>2, <1>4 DEF Heeding, Unanswered
<1>5. QED
  BY <1>1, <1>3, <1>4 DEF CanGo, Here

LEMMA AwakeIs ==
  ASSUME Awake
  PROVE  NoMachineForgotten
<1>1. SUFFICES ASSUME NEW m \in Machines, CanGo(m), verdict = "running", host # "java"
               PROVE  \/ m \in runnable
                      \/ \E i \in DOMAIN queue :
                           \/ queue[i].m = m /\ queue[i].kind = "resume"
                           \/ queue[i].effect.id = m /\ queue[i].effect.kind \in Begets
                      \/ m \in Range(heard)
                      \/ \E x \in Machines :
                           \/ m \in Range(out[x].woke)
                           \/ \E i \in DOMAIN out[x].effects :
                                /\ out[x].effects[i].id = m
                                /\ out[x].effects[i].kind \in Begets
  BY DEF NoMachineForgotten, Begets
<1>2. LoopOK /\ RoutinesOK
  BY DEF Awake, Scheduled, AllOK, TypesOK
<1>3. host \in Queueing \/ host \in Natives
  BY <1>1, <1>2 DEF LoopOK, HeadsOK, HostNames, Queueing, Natives
<1>4. life[m] = "new" \/ Roused(m) \/ (host \in Natives /\ m \in runnable)
  BY <1>1, GoersAre DEF Awake
<1>5. CASE host \in Natives
  BY <1>1, <1>4, <1>5 DEF Awake, Called, NativeDue
<1>6. CASE host \in Queueing
  <2>0. DOMAIN queue = 1 .. Len(queue)
        /\ \A x \in Machines : DOMAIN out[x].effects = 1 .. Len(out[x].effects)
    BY <1>2 DEF LoopOK, QueueOK, RoutinesOK, OutOK, Outs
  <2>1. Due(m) /\ (life[m] = "new" \/ Roused(m))
    BY <1>1, <1>4, <1>6 DEF Awake, Called, AllDue, Queueing, Natives
  <2>2. CASE Begins(queue, m)
    <3>1. PICK i \in 1 .. Len(queue) : Beginning(queue[i], m)
      BY <2>2 DEF Begins
    <3>2. (queue[i].m = m /\ queue[i].kind = "resume")
            \/ (queue[i].effect.id = m /\ queue[i].effect.kind \in Begets)
      BY <3>1 DEF Beginning, ResumeOf
    <3>3. QED
      BY <2>0, <3>2
  <2>3. CASE \E x \in Machines : Bears(out[x].effects, m)
    BY <2>0, <2>3 DEF Bears
  <2>4. CASE ToResume(queue, m)
    BY <2>0, <2>4 DEF ToResume, Resuming
  <2>5. CASE m \in Range(heard) \/ \E x \in Machines : m \in Range(out[x].woke)
    BY <2>5
  <2>6. QED
    BY <2>1, <2>2, <2>3, <2>4, <2>5 DEF Due, BirthDue, WakeDue
<1>7. QED
  BY <1>3, <1>5, <1>6

\* While the run lasts, no host but Java's loses a wake, an answer or a child:
\* a machine that could go on is scheduled, queued or heard of.
THEOREM NobodyIsForgotten == Spec => []NoMachineForgotten
<1>1. Init => Awake
  BY AwakeStart
<1>2. Awake /\ [Next]_vars => Awake'
  BY AwakeStep
<1>3. Awake => NoMachineForgotten
  BY AwakeIs
<1>4. QED
  BY <1>1, <1>2, <1>3, PTL DEF Spec

-----------------------------------------------------------------------------
(* Timers.  What a native host has under way is what a routine still awaits: *)
(* a request open, or, in JavaScript, one whose abandonment is on its way.   *)

AsksFor(q, r) == q.m = r[1] /\ q.effect.id = r[2] /\ q.effect.kind \in Asks
GivesUp(q, r) == q.m = r[1] /\ q.effect.id = r[2] /\ q.effect.kind = "abandon"
GivenUp(s, i, r) == \E j \in 1 .. Len(s) : i <= j /\ GivesUp(s[j], r)
IsMinted(r) == r[2] <= minted[r[1]]
IsOpen(r) == Open(r[1], r[2])

\* Of a deadline's channels: no number in them is that of a passed deadline.
NumbersTold == demo = "deadline" => msgs \in [Channels -> Seq(Nat)]

\* A routine at a select has its sleep's answer or a place for it.
RaceAt(m) ==
  asked[m] # << >> /\ Here(m).op = "select" => Head(asked[m]) \in DOMAIN mail[m]
Racing == \A m \in Machines : RaceAt(m)

\* r is not a request tokio answers in the poll that asks.
Unhurried(r) ==
  \A i \in 1 .. Len(asked[r[1]]) :
    asked[r[1]][i] = r[2] => Here(r[1]).kinds[i] \notin Immediate

TokioTimers == \A r \in DOMAIN waits : IsOpen(r) /\ Unhurried(r)
JsTimers ==
  /\ \A r \in DOMAIN waits :
       /\ IsMinted(r) /\ (IsOpen(r) \/ GivenUp(requests, 1, r))
       /\ \A i \in 1 .. Len(requests) : ~AsksFor(requests[i], r)
  /\ \A r \in Requests : \A i \in 1 .. Len(requests) : AsksFor(requests[i], r) =>
       IsMinted(r) /\ (IsOpen(r) \/ GivenUp(requests, i, r))

Timed ==
  /\ NumbersTold /\ Racing
  /\ host = "tokio" => TokioTimers
  /\ host = "js" => JsTimers
  /\ host \notin Natives => waits = << >>

LEMMA RequestIs ==
  ASSUME NEW r \in Requests
  PROVE  r[1] \in Machines /\ r[2] \in Nat /\ r = <<r[1], r[2]>>
BY DEF Requests

\* What a poll's step does to the requests a machine awaits: it is done with
\* them, leaves them, or makes them.
AsksOn(m, x) ==
  \/ asked'[x] = << >>
  \/ /\ asked'[x] = asked[x] /\ at'[x] = at[x] /\ code'[x] = code[x]
     /\ mail'[x] = mail[x] \/ Here(x).op = "join"
  \/ x = m /\ Record(m)

LEMMA PollAsksOn ==
  ASSUME RoutinesOK, Asking, NEW m \in Machines, PollStep(m), NEW x \in Machines
  PROVE  AsksOn(m, x)
<1>0. /\ at \in [Machines -> Nat \ {0}] /\ asked \in [Machines -> Seq(Nat)]
      /\ mail \in [Machines -> Mails] /\ code \in [Machines -> Kin(demo) \cup {NoName}]
  BY DEF RoutinesOK, PlaceOK, MailOK, LifeOK
<1>1. CASE WriteLine(m) \/ SendMessage(m) \/ Receive(m) \/ DropEnds(m) \/ Continue(m)
  <2>1. asked[m] = << >>
    <3>1. \E op : Is(m, op) /\ op \notin Awaits
      BY <1>1 DEF WriteLine, SendMessage, Receive, DropEnds, Continue, Awaits
    <3>2. QED
      BY <3>1, AsksNothing DEF Asking
  <2>2. /\ asked' = asked /\ mail' = mail /\ code' = code
        /\ Next1(m) \/ Jump(m)
    BY <1>1 DEF WriteLine, SendMessage, Receive, DropEnds, Continue
  <2>3. x # m => at'[x] = at[x]
    BY <2>2, NextMoves DEF RoutinesOK
  <2>4. QED
    BY <2>1, <2>2, <2>3 DEF AsksOn
<1>2. CASE SpawnChild(m)
  <2>1. PICK c \in Machines : /\ life[c] = "none"
                              /\ code' = [code EXCEPT ![c] = Here(m).child]
    BY <1>2 DEF SpawnChild
  <2>2. asked[m] = << >>
    <3>1. \E op : Is(m, op) /\ op \notin Awaits
      <4>1. Is(m, "spawned") \/ Is(m, "spawned_pinned")
        BY <1>2 DEF SpawnChild
      <4>2. "spawned" \notin Awaits /\ "spawned_pinned" \notin Awaits
        BY DEF Awaits
      <4>3. QED
        BY <4>1, <4>2
    <3>2. QED
      BY <3>1, AsksNothing DEF Asking
  <2>3. asked[c] = << >>
    BY <2>1, AsksNothing DEF Asking
  <2>4. asked' = asked /\ mail' = mail /\ Next1(m)
    BY <1>2 DEF SpawnChild
  <2>5. /\ x # m => at'[x] = at[x]
        /\ x # c => code'[x] = code[x]
    BY <1>0, <2>1, <2>4, NextMoves DEF RoutinesOK
  <2>6. QED
    BY <2>2, <2>3, <2>4, <2>5 DEF AsksOn
<1>3. CASE Record(m)
  <2>1. x # m => asked'[x] = asked[x] /\ mail'[x] = mail[x]
    BY <1>0, <1>3 DEF Record
  <2>2. at' = at /\ code' = code
    BY <1>3 DEF Record
  <2>3. QED
    BY <1>3, <2>1, <2>2 DEF AsksOn
<1>4. CASE Collect(m) \/ SelectFirst(m)
  <2>1. /\ asked' = [asked EXCEPT ![m] = << >>] /\ code' = code
        /\ Next1(m) \/ Jump(m)
        /\ \E s : mail' = [mail EXCEPT ![m] = s]
    BY <1>4 DEF Collect, SelectFirst
  <2>2. x = m => asked'[x] = << >>
    BY <1>0, <2>1
  <2>3. x # m => asked'[x] = asked[x] /\ mail'[x] = mail[x] /\ at'[x] = at[x]
    BY <1>0, <2>1, NextMoves DEF RoutinesOK
  <2>4. QED
    BY <2>1, <2>2, <2>3 DEF AsksOn
<1>5. CASE JoinBoth(m)
  <2>1. /\ \/ asked' = [asked EXCEPT ![m] = << >>] /\ Next1(m)
           \/ UNCHANGED <<asked, at>>
        /\ code' = code /\ Here(m).op = "join"
        /\ \E s : mail' = [mail EXCEPT ![m] = s]
    BY <1>5 DEF JoinBoth, Is
  <2>2. x = m => asked'[x] = << >> \/ (asked'[x] = asked[x] /\ at'[x] = at[x])
    BY <1>0, <2>1
  <2>3. x # m => asked'[x] = asked[x] /\ mail'[x] = mail[x] /\ at'[x] = at[x]
    BY <1>0, <2>1, NextMoves DEF RoutinesOK
  <2>4. QED
    BY <2>1, <2>2, <2>3 DEF AsksOn
<1>6. CASE Suspend(m) \/ Return(m)
  BY <1>6 DEF Suspend, Return, AsksOn
<1>7. QED
  BY <1>1, <1>2, <1>3, <1>4, <1>5, <1>6 DEF PollStep

\* The requests a join, an ask or a select makes.
LEMMA RecordIs ==
  ASSUME RoutinesOK, NEW m \in Machines, Record(m)
  PROVE  /\ Here(m).kinds \in Seq(Asks) /\ Len(Here(m).kinds) \in 1 .. 2
         /\ asked'[m] = [i \in 1 .. Len(Here(m).kinds) |-> minted[m] + i]
         /\ minted[m] \in Nat /\ minted'[m] = minted[m] + Len(Here(m).kinds)
         /\ \A x \in Machines : x # m => minted'[x] = minted[x]
         /\ at' = at /\ code' = code
         /\ \A i \in 1 .. Len(Here(m).kinds) : minted[m] + i \in DOMAIN mail'[m]
                                               /\ mail'[m][minted[m] + i] = Pending
<1> DEFINE kinds == Here(m).kinds
           n == Len(kinds)
           ids == [i \in 1 .. n |-> minted[m] + i]
<1>1. kinds \in Seq(Asks) /\ n \in 1 .. 2
  <2>1. Here(m) \in Instrs(demo) /\ Here(m) \in Records(demo) /\ Here(m).op \in {"ask", "join", "select"}
    BY IsHere DEF Record
  <2>2. QED
    BY <2>1 DEF Instrs, Records
<1>2. /\ asked' = [asked EXCEPT ![m] = ids] /\ minted' = [minted EXCEPT ![m] = @ + n]
      /\ mail' = [mail EXCEPT ![m] =
                    [id \in DOMAIN @ \cup Range(ids) |->
                       IF id \in DOMAIN @ THEN @[id] ELSE Pending]]
      /\ at' = at /\ code' = code
  BY DEF Record
<1> HIDE DEF kinds, n
<1>3. /\ minted \in [Machines -> Nat] /\ asked \in [Machines -> Seq(Nat)]
      /\ mail \in [Machines -> Mails] /\ DOMAIN mail[m] \subseteq 1 .. minted[m]
  BY DEF RoutinesOK, MailOK
<1>4. asked'[m] = ids /\ minted'[m] = minted[m] + n
      /\ \A x \in Machines : x # m => minted'[x] = minted[x]
  BY <1>2, <1>3
<1>5. mail'[m] = [id \in DOMAIN mail[m] \cup Range(ids) |->
                    IF id \in DOMAIN mail[m] THEN mail[m][id] ELSE Pending]
  BY <1>2, <1>3
<1>6. ASSUME NEW i \in 1 .. n
      PROVE  minted[m] + i \in Range(ids) /\ minted[m] + i \notin DOMAIN mail[m]
  <2>1. ids[i] \in Range(ids) /\ ids[i] = minted[m] + i
    BY DEF Range
  <2>2. minted[m] + i \notin 1 .. minted[m]
    BY <1>1, <1>3
  <2>3. QED
    BY <1>3, <2>1, <2>2
<1> HIDE DEF ids
<1>7. \A i \in 1 .. n : minted[m] + i \in DOMAIN mail'[m] /\ mail'[m][minted[m] + i] = Pending
  BY <1>5, <1>6
<1>8. QED
  BY <1>1, <1>2, <1>3, <1>4, <1>7 DEF kinds, n, ids

LEMMA PollRaces ==
  ASSUME RoutinesOK, Asking, Racing, NEW m \in Machines, PollStep(m)
  PROVE  Racing'
<1>1. SUFFICES ASSUME NEW x \in Machines, asked'[x] # << >>, (Here(x).op = "select")'
               PROVE  Head(asked'[x]) \in DOMAIN mail'[x]
  BY DEF Racing, RaceAt
<1>2. CASE x = m /\ Record(m)
  <2> DEFINE n == Len(Here(m).kinds)
  <2>1. n \in 1 .. 2 /\ asked'[m] = [i \in 1 .. n |-> minted[m] + i] /\ minted[m] \in Nat
        /\ \A i \in 1 .. n : minted[m] + i \in DOMAIN mail'[m]
    BY <1>2, RecordIs
  <2> HIDE DEF n
  <2>2. Head(asked'[m]) = minted[m] + 1 /\ 1 \in 1 .. n
    BY <2>1
  <2>3. QED
    BY <1>2, <2>1, <2>2
<1>3. CASE /\ asked'[x] = asked[x] /\ at'[x] = at[x] /\ code'[x] = code[x]
           /\ mail'[x] = mail[x] \/ Here(x).op = "join"
  <2>1. (Here(x).op)' = Here(x).op
    BY <1>3 DEF Here
  <2>2. asked[x] # << >> /\ Here(x).op = "select"
    BY <1>1, <1>3, <2>1
  <2>3. mail'[x] = mail[x]
    BY <1>3, <2>2
  <2>4. QED
    BY <1>3, <2>2, <2>3 DEF Racing, RaceAt
<1>4. QED
  BY <1>1, <1>2, <1>3, PollAsksOn DEF AsksOn

\* What is not a poll's step leaves awaited requests alone, or drops them all.
LEMMA StepRaces ==
  ASSUME RoutinesOK, Asking, Racing, NEW p \in Machines, StepOf(p)
  PROVE  Racing'
<1>0. \A x \in Machines :
        (\/ asked'[x] = << >>
         \/ asked'[x] = asked[x] /\ at'[x] = at[x] /\ code'[x] = code[x]
            /\ DOMAIN mail'[x] = DOMAIN mail[x]) => RaceAt(x)'
  BY DEF Racing, RaceAt, Here
<1>1. CASE AnswerOf(p)
  <2>1. PICK id, n : Delivers(p, id, n)
    BY <1>1 DEF AnswerOf
  <2>2. \A x \in Machines : RaceAt(x)'
    BY <1>0, <2>1, AnswerKeeps
  <2>3. QED
    BY <2>2 DEF Racing
<1>2. CASE Finished \/ Resumes(p) \/ Reads(p) \/ UNCHANGED routines
  <2>1. asked' = asked /\ at' = at /\ code' = code /\ mail' = mail
    BY <1>2 DEF Finished, Resumes, Reads, routines
  <2>2. QED
    BY <1>0, <2>1 DEF Racing
<1>3. CASE \E id, n : Replies(p, id, n)
  <2>1. PICK id, n : mail' = [mail EXCEPT ![p][id] = n] /\ asked' = asked /\ at' = at /\ code' = code
    BY <1>3 DEF Replies
  <2>2. \A x \in Machines : DOMAIN mail'[x] = DOMAIN mail[x]
    BY <2>1 DEF RoutinesOK, MailOK
  <2>3. QED
    BY <1>0, <2>1, <2>2 DEF Racing
<1>4. CASE Kills(p)
  <2>1. /\ asked' = [asked EXCEPT ![p] = << >>] /\ mail' = [mail EXCEPT ![p] = << >>]
        /\ at' = at /\ code' = code
    BY <1>4 DEF Kills
  <2>2. asked'[p] = << >> /\ \A x \in Machines : x # p => asked'[x] = asked[x] /\ mail'[x] = mail[x]
    BY <2>1 DEF RoutinesOK, MailOK
  <2>3. QED
    BY <1>0, <2>1, <2>2 DEF Racing
<1>5. QED
  BY <1>1, <1>2, <1>3, <1>4, PollRaces DEF StepOf, CallOf

LEMMA StepTells ==
  ASSUME RoutinesOK, NumbersTold, NEW p \in Machines, StepOf(p)
  PROVE  NumbersTold'
<1>1. CASE msgs' = msgs /\ demo' = demo
  BY <1>1 DEF NumbersTold
<1>2. CASE SendMessage(p)
  <2>1. SUFFICES ASSUME demo = "deadline" PROVE msgs' \in [Channels -> Seq(Nat)]
    BY <1>2 DEF SendMessage, NumbersTold
  <2>2. msgs \in [Channels -> Seq(Nat)]
    BY <2>1 DEF NumbersTold
  <2>3. Is(p, "send") \/ Is(p, "forward")
    BY <1>2 DEF SendMessage
  <2>4. Here(p) \in Instrs(demo) /\ (Here(p).op = "send" \/ Here(p).op = "forward")
    BY <2>3, IsHere
  <2>5. Here(p).op = "send" /\ Here(p).n \in Nat
    BY <2>1, <2>4 DEF Instrs
  <2>6. \/ msgs' = [msgs EXCEPT ![Here(p).ch] = Append(@, Here(p).n)]
        \/ msgs' = msgs
    BY <1>2, <2>5 DEF SendMessage
  <2>7. \A c \in Channels : Append(msgs[c], Here(p).n) \in Seq(Nat)
    BY <2>2, <2>5
  <2>8. QED
    BY <2>2, <2>6, <2>7
<1>3. CASE Receive(p) \/ SelectFirst(p)
  <2>1. SUFFICES ASSUME demo = "deadline" PROVE msgs' \in [Channels -> Seq(Nat)]
    BY <1>3 DEF Receive, SelectFirst, NumbersTold
  <2>2. msgs \in [Channels -> Seq(Nat)]
    BY <2>1 DEF NumbersTold
  <2>3. \/ /\ Ready(Here(p).ch)
           /\ msgs' = [msgs EXCEPT ![Here(p).ch] = Tail(@)]
        \/ msgs' = msgs
    BY <1>3 DEF Receive, SelectFirst
  <2>4. ASSUME NEW c \in Channels, msgs[c] # << >> PROVE Tail(msgs[c]) \in Seq(Nat)
    BY <2>2, <2>4, HeadTailProperties
  <2>5. QED
    BY <2>2, <2>3, <2>4 DEF Ready
<1>4. PollStep(p) /\ ~SendMessage(p) /\ ~Receive(p) /\ ~SelectFirst(p) => msgs' = msgs /\ demo' = demo
  BY DEF PollStep, WriteLine, SpawnChild, Record, Collect, JoinBoth, DropEnds, Continue, Suspend, Return
<1>5. CallOf(p) \/ AnswerOf(p) \/ Finished => msgs' = msgs /\ demo' = demo
  BY DEF CallOf, AnswerOf, Finished, Resumes, Replies, Reads, Kills, Delivers, routines
<1>6. QED
  BY <1>1, <1>2, <1>3, <1>4, <1>5 DEF StepOf

\* A poll's step leaves open what is open, but the sleep of a select it ends.
LEMMA PollOpens ==
  ASSUME RoutinesOK, NEW m \in Machines, PollStep(m), NEW x \in Machines, NEW id, Open(x, id)
  PROVE  /\ Open(x, id)' \/ (x = m /\ SelectFirst(m) /\ id = RaceOf(m))
         /\ id \in DOMAIN mail'[x] => Open(x, id)'
<1>1. CASE mail'[x] = mail[x]
  BY <1>1 DEF Open
<1>2. CASE Record(m) /\ x = m
  <2>1. /\ DOMAIN mail[m] \subseteq DOMAIN mail'[m]
        /\ \A i \in DOMAIN mail[m] : mail'[m][i] = mail[m][i]
    BY <1>2 DEF Record, RoutinesOK, MailOK
  <2>2. QED
    BY <1>2, <2>1 DEF Open
<1>3. CASE (Collect(m) \/ JoinBoth(m)) /\ x = m
  <2>1. PICK S : /\ mail' = [mail EXCEPT ![m] = Without(m, S)]
                 /\ \A i \in S : Answered(m, i)
    <3>1. CASE Collect(m)
      <4> DEFINE i == Head(asked[m])
                 S == {i}
      <4>1. mail' = [mail EXCEPT ![m] = Without(m, S)] /\ Answered(m, i)
        BY <3>1 DEF Collect
      <4>2. \A y \in S : Answered(m, y)
        BY <4>1
      <4> HIDE DEF S
      <4>3. QED
        BY <4>1, <4>2
    <3>2. CASE JoinBoth(m)
      BY <3>2 DEF JoinBoth
    <3>3. QED
      BY <1>3, <3>1, <3>2
  <2>2. id \notin S
    BY <1>3, <2>1 DEF Open, Answered
  <2>3. mail'[m] = Without(m, S)
    BY <2>1 DEF RoutinesOK, MailOK
  <2>4. QED
    BY <1>3, <2>2, <2>3 DEF Open, Without
<1>4. CASE SelectFirst(m) /\ x = m
  <2>1. mail' = [mail EXCEPT ![m] = Without(m, {Head(asked[m])})]
    BY <1>4 DEF SelectFirst
  <2>2. mail'[m] = Without(m, {RaceOf(m)})
    BY <2>1 DEF RoutinesOK, MailOK, RaceOf
  <2>3. QED
    BY <1>4, <2>2 DEF Open, Without
<1>5. x # m => mail'[x] = mail[x]
  <2>1. mail' = mail \/ \E s : mail' = [mail EXCEPT ![m] = s]
    BY DEF PollStep, WriteLine, SpawnChild, SendMessage, Receive, Record, Collect, JoinBoth,
       SelectFirst, DropEnds, Continue, Suspend, Return
  <2>2. QED
    BY <2>1 DEF RoutinesOK, MailOK
<1>6. mail' = mail \/ Record(m) \/ Collect(m) \/ JoinBoth(m) \/ SelectFirst(m)
  BY DEF PollStep, WriteLine, SpawnChild, SendMessage, Receive, DropEnds, Continue, Suspend, Return
<1>7. QED
  BY <1>1, <1>2, <1>3, <1>4, <1>5, <1>6

\* What a poll's step starts, if not at a select: the requests it records.
LEMMA NewlyAsked ==
  ASSUME RoutinesOK, NEW m \in Machines, PollStep(m), ~Is(m, "select"),
         NEW e \in Range(Starts(m)), e.kind \in Asks
  PROVE  /\ Record(m)
         /\ \E i \in 1 .. Len(Here(m).kinds) :
              e.kind = Here(m).kinds[i] /\ e.id = minted[m] + i
<1> DEFINE s == out[m].effects
<1>1. s \in Seq(GoodEffect) /\ Starts(m) = Appended(s, out'[m].effects)
  BY DEF Starts, RoutinesOK, OutOK, Outs
<1>2. Record(m)
  <2>1. PICK t : Added(m, t)
    BY PollAdds
  <2>2. t \in Seq(GoodEffect) /\ out'[m].effects = s \o t
        /\ (Minted(t, minted[m], minted'[m]) \/ Plain(t))
    BY <2>1 DEF Added
  <2> HIDE DEF s
  <2>3. Starts(m) = t
    BY <1>1, <2>2, AppendedOne
  <2>4. PICK i \in 1 .. Len(t) : t[i] = e
    BY <2>2, <2>3, RangeIs
  <2>5. minted[m] < e.id /\ e.id <= minted'[m]
    BY <2>2, <2>4 DEF Minted, Plain
  <2>6. e.id \in Nat /\ minted[m] \in Nat
    <3>1. e \in GoodEffect
      BY <2>2, <2>4
    <3>2. QED
      BY <3>1 DEF GoodEffect, Effect, RoutinesOK, MailOK
  <2>7. minted' # minted
    BY <2>5, <2>6
  <2>8. QED
    BY <2>7 DEF PollStep, WriteLine, SpawnChild, SendMessage, Receive, Collect, JoinBoth,
       SelectFirst, DropEnds, Continue, Suspend, Return
<1> DEFINE kinds == Here(m).kinds
           n == Len(kinds)
           ids == [i \in 1 .. n |-> minted[m] + i]
           recorded == [i \in 1 .. n |->
                          [kind |-> kinds[i], id |-> ids[i], text |-> "",
                           n |-> IF kinds[i] = "write_file" THEN got[m] + 1 ELSE 0]]
<1>3. Emits(m, recorded)
  BY <1>2 DEF Record
<1>4. n \in Nat
  BY <1>2, RecordIs
<1> HIDE DEF kinds, n
<1>5. \A i \in 1 .. n : recorded[i].kind = kinds[i] /\ recorded[i].id = minted[m] + i
  OBVIOUS
<1>6. Len(recorded) = n /\ recorded = [i \in 1 .. n |-> recorded[i]]
  BY <1>4
<1> HIDE DEF recorded
<1>7. out'[m].effects = s \o recorded
  BY <1>3, EmitsIs DEF RoutinesOK
<1>8. PICK T : T = GoodEffect \cup Range(recorded)
  OBVIOUS
<1>9. s \in Seq(T) /\ recorded \in Seq(T)
  <2>1. \A i \in 1 .. n : recorded[i] \in T
    BY <1>6, <1>8 DEF Range
  <2>2. recorded \in [1 .. n -> T]
    BY <1>6, <2>1
  <2>3. recorded \in Seq(T)
    BY <1>4, <2>2
  <2> HIDE DEF s
  <2>4. s \in Seq(T)
    BY <1>1, <1>8
  <2>5. QED
    BY <2>3, <2>4
<1> HIDE DEF s
<1>10. Starts(m) = recorded
  BY <1>1, <1>7, <1>9, AppendedOne
<1>11. PICK i \in 1 .. n : recorded[i] = e
  BY <1>6, <1>9, <1>10, RangeIs
<1>12. QED
  BY <1>2, <1>5, <1>11 DEF kinds, n

\* A poll at a select yields because nothing it races for is there.
LEMMA SuspendsAt ==
  ASSUME RoutinesOK, NEW m \in Machines, PollStep(m), Is(m, "select"), life'[m] = "yielded"
  PROVE  /\ asked[m] # << >> /\ ~Answered(m, RaceOf(m))
         /\ mail' = mail /\ asked' = asked /\ at' = at /\ code' = code
<1>1. life[m] = "polling" /\ Here(m).op = "select" /\ m \in DOMAIN life
  BY DEF Is, RoutinesOK, LifeOK
<1>2. CASE Suspend(m)
  BY <1>1, <1>2 DEF Suspend, Is, RaceOf
<1>3. CASE life' = life
  BY <1>1, <1>3
<1>4. CASE SpawnChild(m)
  BY <1>1, <1>4 DEF SpawnChild, Is
<1>5. CASE Return(m)
  BY <1>1, <1>5 DEF Return
<1>6. QED
  BY <1>2, <1>3, <1>4, <1>5 DEF PollStep, WriteLine, SendMessage, Receive, Record, Collect,
     JoinBoth, SelectFirst, DropEnds, Continue

LEMMA SelectStarts ==
  ASSUME RoutinesOK, NEW m \in Machines, PollStep(m), Is(m, "select"),
         NEW e \in Range(Starts(m))
  PROVE  /\ life'[m] = "yielded" /\ ~Begun(m, RaceOf(m))
         /\ e.id = RaceOf(m) /\ e.kind = Here(m).kinds[1] /\ e \in GoodEffect
<1>1. CASE ~(life'[m] = "yielded" /\ ~Begun(m, RaceOf(m)))
  <2>1. Starts(m) = << >>
    BY <1>1 DEF Starts
  <2>2. QED
    BY <2>1, RangeOfNone
<1>2. CASE life'[m] = "yielded" /\ ~Begun(m, RaceOf(m))
  <2> DEFINE f == SleepOf(m)
  <2>1. f \in GoodEffect
    BY <1>2, SuspendsAt, SleepIs
  <2>2. f.id = RaceOf(m) /\ f.kind = Here(m).kinds[1]
    BY DEF SleepOf, NoEffect
  <2>3. Starts(m) = <<f>>
    BY <1>2 DEF Starts
  <2> HIDE DEF f
  <2>4. Range(<<f>>) = {f}
    BY DEF Range
  <2>5. QED
    BY <1>2, <2>1, <2>2, <2>3, <2>4
<1>3. QED
  BY <1>1, <1>2

\* A request begun is minted, open, new to the host, and of its kind.
LEMMA Started ==
  ASSUME RoutinesOK, Asking, Racing, NEW m \in Machines, PollStep(m),
         NEW e \in Range(Starts(m)), e.kind \in Asks
  PROVE  /\ e.id \in Nat /\ e.id <= minted'[m]
         /\ Open(m, e.id)'
         /\ minted[m] < e.id \/ ~Begun(m, e.id)
         /\ e.kind \notin Immediate => Unhurried(<<m, e.id>>)'
<1>1. CASE ~Is(m, "select")
  <2>1. PICK i \in 1 .. Len(Here(m).kinds) :
          e.kind = Here(m).kinds[i] /\ e.id = minted[m] + i /\ Record(m)
    BY <1>1, NewlyAsked
  <2> DEFINE n == Len(Here(m).kinds)
  <2>2. /\ n \in 1 .. 2 /\ asked'[m] = [j \in 1 .. n |-> minted[m] + j]
        /\ minted[m] \in Nat /\ minted'[m] = minted[m] + n /\ at' = at /\ code' = code
        /\ \A j \in 1 .. n : minted[m] + j \in DOMAIN mail'[m]
                             /\ mail'[m][minted[m] + j] = Pending
    BY <2>1, RecordIs
  <2>3. i \in 1 .. n
    BY <2>1
  <2> HIDE DEF n
  <2>4. Here(m)' = Here(m)
    BY <2>2 DEF Here
  <2>5. ASSUME NEW j \in 1 .. Len(asked'[m]), asked'[m][j] = e.id, e.kind \notin Immediate
        PROVE  Here(m)'.kinds[j] \notin Immediate
    <3>1. Len(asked'[m]) = n
      BY <2>2
    <3>2. j \in 1 .. n
      BY <3>1
    <3>3. j = i
      BY <2>1, <2>2, <2>3, <2>5, <3>2
    <3>4. QED
      BY <2>1, <2>4, <2>5, <3>3
  <2>6. e.kind \notin Immediate => Unhurried(<<m, e.id>>)'
    BY <2>5 DEF Unhurried
  <2>7. QED
    BY <2>1, <2>2, <2>3, <2>6 DEF Open
<1>2. CASE Is(m, "select")
  <2>1. /\ life'[m] = "yielded" /\ ~Begun(m, RaceOf(m))
        /\ e.id = RaceOf(m) /\ e.kind = Here(m).kinds[1]
    BY <1>2, SelectStarts
  <2>2. /\ asked[m] # << >> /\ ~Answered(m, RaceOf(m))
        /\ mail' = mail /\ asked' = asked /\ at' = at /\ code' = code
    BY <1>2, <2>1, SuspendsAt
  <2>3. e.id \in DOMAIN mail[m]
    BY <1>2, <2>1, <2>2 DEF Racing, RaceAt, Is, RaceOf
  <2>4. Open(m, e.id)'
    BY <2>1, <2>2, <2>3 DEF Open, Answered
  <2>5. e.id \in 1 .. minted'[m] /\ minted'[m] \in Nat
    <3>1. MailOK'
      BY PollStepOK DEF RoutinesOK
    <3>2. QED
      BY <2>2, <2>3, <3>1 DEF MailOK
  <2>6. Len(asked[m]) = 1
    <3>1. Here(m) \in Instrs(demo) /\ Here(m).op = "select"
      BY <1>2, IsHere
    <3>2. QED
      BY <2>2, <3>1 DEF Asking, AskOK, Instrs
  <2>7. Here(m)' = Here(m)
    BY <2>2 DEF Here
  <2>8. e.kind \notin Immediate => Unhurried(<<m, e.id>>)'
    BY <2>1, <2>2, <2>6, <2>7 DEF Unhurried
  <2>9. QED
    BY <2>1, <2>4, <2>5, <2>8
<1>3. QED
  BY <1>1, <1>2

\* Asked requests go on being what they are.
LEMMA Unhurries ==
  ASSUME RoutinesOK, Asking, NEW m \in Machines, PollStep(m), NEW r \in Requests,
         IsMinted(r), Unhurried(r)
  PROVE  Unhurried(r)'
<1> DEFINE x == r[1]
<1>0. x \in Machines /\ r[2] \in Nat
  BY RequestIs
<1>1. CASE asked'[x] = << >>
  BY <1>1 DEF Unhurried
<1>2. CASE asked'[x] = asked[x] /\ at'[x] = at[x] /\ code'[x] = code[x]
  BY <1>2 DEF Unhurried, Here
<1>3. CASE x = m /\ Record(m)
  <2>1. /\ asked'[m] = [i \in 1 .. Len(Here(m).kinds) |-> minted[m] + i] /\ minted[m] \in Nat
        /\ Len(Here(m).kinds) \in 1 .. 2
    BY <1>3, RecordIs
  <2>2. \A i \in 1 .. Len(asked'[m]) : asked'[m][i] # r[2]
    BY <1>0, <1>3, <2>1 DEF IsMinted
  <2>3. QED
    BY <1>3, <2>2 DEF Unhurried
<1>4. QED
  BY <1>0, <1>1, <1>2, <1>3, PollAsksOn DEF AsksOn

-----------------------------------------------------------------------------
(* The timers of tokio                                                       *)

LEMMA OpenIsMinted ==
  ASSUME RoutinesOK, NEW r \in Requests, IsOpen(r)
  PROVE  IsMinted(r)
BY RequestIs DEF IsOpen, Open, IsMinted, RoutinesOK, MailOK

\* Calls leave requests as they are.
LEMMA CallsKeepTimers ==
  ASSUME mail' = mail, asked' = asked, at' = at, code' = code, NEW r
  PROVE  /\ IsOpen(r) => IsOpen(r)'
         /\ Unhurried(r) => Unhurried(r)'
BY DEF IsOpen, Open, Unhurried, Here

\* An answer leaves the others open.
LEMMA AnswersOne ==
  ASSUME RoutinesOK, NEW m \in Machines, NEW id, NEW n, Delivers(m, id, n),
         NEW r \in Requests, r # <<m, id>>
  PROVE  /\ IsOpen(r) => IsOpen(r)'
         /\ Unhurried(r) => Unhurried(r)'
<1>1. r[1] # m \/ r[2] # id
  BY RequestIs
<1>2. mail' = [mail EXCEPT ![m][id] = n] /\ asked' = asked /\ at' = at /\ code' = code
  BY DEF Delivers
<1>3. IsOpen(r) => IsOpen(r)'
  <2>1. r[1] # m => mail'[r[1]] = mail[r[1]]
    BY <1>2 DEF RoutinesOK, MailOK
  <2>2. DOMAIN mail'[m] = DOMAIN mail[m] /\ (r[2] # id => mail'[m][r[2]] = mail[m][r[2]])
    <3>1. mail'[m] = [mail[m] EXCEPT ![id] = n]
      BY <1>2 DEF RoutinesOK, MailOK
    <3>2. QED
      BY <3>1
  <2>3. QED
    BY <1>1, <2>1, <2>2 DEF IsOpen, Open
<1>4. QED
  BY <1>2, <1>3 DEF Unhurried, Here

LEMMA SmallestIs ==
  ASSUME NEW S \in SUBSET Nat, S # {}
  PROVE  Min(S) \in S
<1>1. PICK x \in S : \A y \in S : ~(y < x)
  BY LeastExists
<1>2. \A y \in S : x <= y
  BY <1>1
<1>3. QED
  BY <1>2 DEF Min

LEMMA TokioStepTimes ==
  ASSUME RoutinesOK, Asking, Racing, WaitsOK, TokioTimers, NEW m \in Machines, TokioStep(m)
  PROVE  TokioTimers'
<1> DEFINE s == Starts(m)
           K == Asks \ Immediate
           begun == {<<m, id>> : id \in ChildrenIn(s, K)}
           kept == {r \in DOMAIN waits \cup begun : r[2] \in DOMAIN mail'[r[1]]}
<1>1. PollStep(m) /\ waits' = WaitsOf(kept, m, s)
  BY DEF TokioStep
<1>2. DOMAIN waits' = kept
  BY <1>1 DEF WaitsOf
<1>3. SUFFICES ASSUME NEW r \in kept PROVE IsOpen(r)' /\ Unhurried(r)'
  BY <1>2 DEF TokioTimers
<1>4. CASE r \in DOMAIN waits
  <2>1. r \in Requests /\ IsOpen(r) /\ Unhurried(r)
    BY <1>4 DEF WaitsOK, TokioTimers
  <2>2. IsMinted(r) /\ r[1] \in Machines
    BY <2>1, OpenIsMinted, RequestIs
  <2>3. r[2] \in DOMAIN mail'[r[1]]
    BY <1>3
  <2>4. IsOpen(r)'
    BY <1>1, <2>1, <2>2, <2>3, PollOpens DEF IsOpen
  <2>5. QED
    BY <1>1, <2>1, <2>2, <2>4, Unhurries
<1>5. CASE r \in begun
  <2>1. PICK id \in ChildrenIn(s, K) : r = <<m, id>>
    BY <1>5
  <2>2. PICK j \in DOMAIN s : s[j].kind \in K /\ id = s[j].id
    BY <2>1 DEF ChildrenIn
  <2>3. s[j] \in Range(s)
    BY <1>1, <2>2, StartsAre, RangeIs
  <2>4. Open(m, id)' /\ Unhurried(<<m, id>>)'
    BY <1>1, <2>2, <2>3, Started
  <2>5. QED
    BY <2>1, <2>4 DEF IsOpen
<1>6. QED
  BY <1>3, <1>4, <1>5

LEMMA AnswerNowTimes ==
  ASSUME RoutinesOK, WaitsOK, TokioTimers, NEW m \in Machines, AnswerNow(m)
  PROVE  TokioTimers'
<1> DEFINE k == Min(OpenNow(m))
<1>1. /\ OpenNow(m) # {} /\ waits' = waits
      /\ \E n : Delivers(m, asked[m][k], n)
  BY DEF AnswerNow, native
<1>2. k \in OpenNow(m) /\ DOMAIN asked[m] = 1 .. Len(asked[m])
  <2>1. asked[m] \in Seq(Nat)
    BY DEF RoutinesOK, MailOK
  <2>2. DOMAIN asked[m] = 1 .. Len(asked[m]) /\ OpenNow(m) \in SUBSET Nat
    BY <2>1 DEF OpenNow
  <2>3. QED
    BY <1>1, <2>2, SmallestIs
<1> HIDE DEF k
<1>3. k \in 1 .. Len(asked[m]) /\ Here(m).kinds[k] \in Immediate
  BY <1>2 DEF OpenNow
<1>4. ASSUME NEW r \in DOMAIN waits PROVE IsOpen(r)' /\ Unhurried(r)'
  <2>1. r \in Requests /\ IsOpen(r) /\ Unhurried(r)
    BY <1>4 DEF WaitsOK, TokioTimers
  <2>2. r # <<m, asked[m][k]>>
    BY <1>3, <2>1 DEF Unhurried
  <2>3. QED
    BY <1>1, <2>1, <2>2, AnswersOne
<1>5. QED
  BY <1>1, <1>4 DEF TokioTimers

LEMMA WaitEndsTimes ==
  ASSUME RoutinesOK, WaitsOK, TokioTimers, NEW r \in DOMAIN waits, WaitEnds(r)
  PROVE  TokioTimers'
<1>1. waits' = WithoutWait(waits, r) /\ \E n : Delivers(r[1], r[2], n)
  BY DEF WaitEnds
<1>2. DOMAIN waits' = DOMAIN waits \ {r}
  BY <1>1, WaitEnded
<1>3. r \in Requests
  BY DEF WaitsOK
<1>4. r[1] \in Machines /\ r = <<r[1], r[2]>>
  BY <1>3, RequestIs
<1>5. ASSUME NEW q \in DOMAIN waits' PROVE IsOpen(q)' /\ Unhurried(q)'
  <2>1. q \in Requests /\ IsOpen(q) /\ Unhurried(q) /\ q # r
    BY <1>2, <1>5 DEF WaitsOK, TokioTimers
  <2>2. QED
    BY <1>1, <1>4, <2>1, AnswersOne
<1>6. QED
  BY <1>5 DEF TokioTimers

LEMMA TokioTimes ==
  ASSUME RoutinesOK, Asking, Racing, WaitsOK, TokioTimers, host = "tokio", NativeNext
  PROVE  TokioTimers'
<1>1. CASE \E m \in Machines : BeginPoll(m) \/ EndPoll(m)
  <2>1. waits' = waits /\ mail' = mail /\ asked' = asked /\ at' = at /\ code' = code
    BY <1>1 DEF BeginPoll, EndPoll, Resumes, Reads, native
  <2>2. QED
    BY <2>1, CallsKeepTimers DEF TokioTimers
<1>2. CASE TokioEnds
  BY <1>2 DEF TokioEnds, TokioTimers
<1>3. ~JsEnds /\ ~DispatchRequests /\ (\A m \in Machines : ~JsStep(m))
      /\ \A r \in DOMAIN waits : ~PromiseSettles(r)
  BY DEF JsEnds, DispatchRequests, JsStep, PromiseSettles, On
<1>4. QED
  BY <1>1, <1>2, <1>3, TokioStepTimes, AnswerNowTimes, WaitEndsTimes DEF NativeNext

-----------------------------------------------------------------------------
(* The timers of JavaScript                                                  *)

\* More requests queued behind give up what those before do.
LEMMA GivenUpOn ==
  ASSUME NEW T, NEW s \in Seq(T), NEW t \in Seq(T), NEW i, NEW r, GivenUp(s, i, r)
  PROVE  GivenUp(s \o t, i, r)
<1>1. PICK j \in 1 .. Len(s) : i <= j /\ GivesUp(s[j], r)
  BY DEF GivenUp
<1>2. j \in 1 .. Len(s \o t) /\ (s \o t)[j] = s[j]
  BY <1>1
<1>3. QED
  BY <1>1, <1>2 DEF GivenUp

LEMMA GivenUpLast ==
  ASSUME NEW T, NEW s \in Seq(T), NEW q \in T, NEW r, GivesUp(q, r),
         NEW i \in Nat, i <= Len(s) + 1
  PROVE  GivenUp(s \o <<q>>, i, r)
<1>1. Len(s) + 1 \in 1 .. Len(s \o <<q>>) /\ (s \o <<q>>)[Len(s) + 1] = q
  OBVIOUS
<1>2. QED
  BY <1>1 DEF GivenUp

\* What is queued behind is what was queued, or of what is added.
LEMMA PlacesOf ==
  ASSUME NEW T, NEW s \in Seq(T), NEW t \in Seq(T), NEW i \in 1 .. Len(s \o t)
  PROVE  \/ i \in 1 .. Len(s) /\ (s \o t)[i] = s[i]
         \/ i > Len(s) /\ (s \o t)[i] \in Range(t)
<1>1. CASE i <= Len(s)
  BY <1>1
<1>2. CASE ~(i <= Len(s))
  <2>1. i - Len(s) \in 1 .. Len(t) /\ (s \o t)[i] = t[i - Len(s)] /\ i > Len(s)
    BY <1>2
  <2>2. t[i - Len(s)] \in Range(t)
    BY <2>1, RangeIs
  <2>3. QED
    BY <2>1, <2>2
<1>3. QED
  BY <1>1, <1>2

\* A request JavaScript knows of was begun.
LEMMA BegunIs ==
  ASSUME NEW r \in Requests, requests \in Seq(Requested)
  PROVE  Begun(r[1], r[2]) <=> \/ r \in DOMAIN waits
                               \/ \E i \in 1 .. Len(requests) : AsksFor(requests[i], r)
<1>1. r = <<r[1], r[2]>> /\ DOMAIN requests = 1 .. Len(requests)
  BY RequestIs
<1>2. QED
  BY <1>1 DEF Begun, AsksFor

\* What JavaScript knows of and a step leaves open no more is a sleep it lost.
LEMMA LosesIs ==
  ASSUME RoutinesOK, NumbersTold, NEW m \in Machines, PollStep(m), NEW r \in Requests,
         IsOpen(r), Begun(r[1], r[2])
  PROVE  IsOpen(r)' \/ (r[1] = m /\ r[2] = RaceOf(m) /\ LosesSleep(m))
<1>1. SUFFICES ASSUME ~IsOpen(r)'
               PROVE  r[1] = m /\ r[2] = RaceOf(m) /\ LosesSleep(m)
  OBVIOUS
<1>2. r[1] = m /\ SelectFirst(m) /\ r[2] = RaceOf(m)
  BY <1>1, RequestIs, PollOpens DEF IsOpen
<1> DEFINE c == Here(m).ch
<1>3. Is(m, "select") /\ asked[m] # << >> /\ asked'[m] = << >>
  BY <1>2 DEF SelectFirst, RoutinesOK, MailOK
<1>4. ~Answered(m, RaceOf(m))
  BY <1>2 DEF IsOpen, Open, Answered
<1>5. \/ Ready(c) /\ got' = [got EXCEPT ![m] = Head(msgs[c])]
      \/ Closed(c) /\ got' = [got EXCEPT ![m] = Gone]
  BY <1>2, <1>4 DEF SelectFirst, RaceOf
<1>6. Here(m) \in Instrs(demo) /\ Here(m).op = "select"
  BY <1>3, IsHere
<1>7. demo = "deadline" /\ c \in Made[demo] /\ demo \in Demos
  BY <1>6 DEF Instrs, RoutinesOK, LifeOK
<1>8. msgs[c] \in Seq(Nat)
  BY <1>7, ChannelsAre DEF NumbersTold
<1>9. Ready(c) => Head(msgs[c]) \in Nat
  BY <1>8 DEF Ready
<1>10. got'[m] # Late
  BY <1>5, <1>9 DEF RoutinesOK, PlaceOK, Late, Gone
<1>11. QED
  BY <1>2, <1>3, <1>10 DEF LosesSleep

LEMMA JsStepTimes ==
  ASSUME RoutinesOK, NativeOK, Asking, Racing, NumbersTold, JsTimers, NEW m \in Machines, JsStep(m)
  PROVE  JsTimers'
<1> DEFINE s == Starts(m)
           W == {e \in Effect : e.kind \in Asks \cup {"write"}}
           sent == Only(s, W)
           a == [i \in DOMAIN sent |-> [m |-> m, effect |-> sent[i]]]
           abandon == [NoEffect EXCEPT !.kind = "abandon", !.id = RaceOf(m)]
           q == [m |-> m, effect |-> abandon]
           b == IF LosesSleep(m) THEN <<q>> ELSE << >>
           t == requests \o a
<1>1. PollStep(m) /\ requests' = t \o b /\ waits' = waits
  BY DEF JsStep
<1>2. s \in Seq(Range(s)) /\ s \in Seq(GoodEffect)
  BY <1>1, StartsAre, RangeIs
<1>3. a \in Seq(Requested)
  BY <1>2, SentAre
<1>4. \A y \in Range(a) : \E e \in Range(s) : y = [m |-> m, effect |-> e]
  <2> HIDE DEF s
  <2>1. sent \in Seq(Range(s) \cap W)
    BY <1>2, OnlyIs
  <2> HIDE DEF sent, W
  <2>2. \A i \in DOMAIN sent : sent[i] \in Range(s)
    BY <2>1, RangeIs
  <2>3. \A y \in Range(a) : \E i \in DOMAIN sent : y = [m |-> m, effect |-> sent[i]]
    BY DEF Range
  <2>4. QED
    BY <2>2, <2>3
<1> HIDE DEF a, s, sent, W
<1>5. requests \in Seq(Requested) /\ t \in Seq(Requested) /\ WaitsOK
  BY <1>3, ConcatProperties DEF NativeOK
<1> DEFINE T == Requested \cup {q}
<1>6. /\ q.m = m /\ q.effect.id = RaceOf(m) /\ q.effect.kind = "abandon" /\ q \in T
  BY DEF NoEffect
<1> HIDE DEF q
<1>7. t \in Seq(T) /\ b \in Seq(T) /\ requests \in Seq(T) /\ a \in Seq(T)
  <2>1. <<q>> \in Seq(T) /\ << >> \in Seq(T)
    BY <1>6
  <2>2. b = <<q>> \/ b = << >>
    OBVIOUS
  <2>3. \A u \in Seq(Requested) : u \in Seq(T)
    OBVIOUS
  <2> HIDE DEF b, t, T
  <2>4. QED
    BY <1>3, <1>5, <2>1, <2>2, <2>3
<1> HIDE DEF T
<1>8. Range(b) \subseteq {q}
  <2>1. Range(<<q>>) = {q} /\ Range(<< >>) = {}
    BY RangeOfNone DEF Range
  <2>2. QED
    BY <2>1
\* Each place is of what was queued, of what the step sends, or the last.
<1>9. ASSUME NEW i \in 1 .. Len(t \o b)
      PROVE  \/ i \in 1 .. Len(requests) /\ (t \o b)[i] = requests[i]
             \/ \E e \in Range(s) : (t \o b)[i] = [m |-> m, effect |-> e]
             \/ (t \o b)[i] = q
  <2>1. \/ i \in 1 .. Len(t) /\ (t \o b)[i] = t[i]
        \/ (t \o b)[i] \in Range(b)
    <3> HIDE DEF t, b
    <3>1. QED
      BY <1>7, PlacesOf
  <2>2. ASSUME i \in 1 .. Len(t)
        PROVE  \/ i \in 1 .. Len(requests) /\ t[i] = requests[i]
               \/ t[i] \in Range(a)
    BY <1>7, <2>2, PlacesOf
  <2> HIDE DEF t, b
  <2>3. QED
    BY <1>4, <1>8, <2>1, <2>2
\* What was open, or given up, is so still.
<1>10. ASSUME NEW r \in Requests, Begun(r[1], r[2]), NEW i \in Nat, i <= Len(requests),
              IsOpen(r) \/ GivenUp(requests, i, r)
       PROVE  IsOpen(r)' \/ GivenUp(t \o b, i, r)
  <2>1. CASE GivenUp(requests, i, r)
    <3>1. GivenUp(t, i, r)
      BY <1>7, <2>1, GivenUpOn
    <3> HIDE DEF t, b
    <3>2. QED
      BY <1>7, <3>1, GivenUpOn
  <2>2. CASE IsOpen(r) /\ ~IsOpen(r)'
    <3>1. r[1] = m /\ r[2] = RaceOf(m) /\ LosesSleep(m)
      BY <1>1, <1>10, <2>2, LosesIs
    <3>2. GivesUp(q, r) /\ b = <<q>>
      BY <1>6, <3>1 DEF GivesUp
    <3>3. Len(t) >= Len(requests) /\ Len(t) \in Nat /\ Len(requests) \in Nat
      BY <1>5, <1>3
    <3>4. i <= Len(t) + 1
      BY <1>10, <3>3
    <3> HIDE DEF t, b
    <3>5. QED
      BY <1>6, <1>7, <3>2, <3>4, GivenUpLast
  <2>3. QED
    BY <1>10, <2>1, <2>2
<1>11. ASSUME NEW r \in Requests, IsMinted(r) PROVE IsMinted(r)'
  <2>1. PICK u : Added(m, u)
    BY <1>1, PollAdds
  <2>2. /\ \A x \in Machines : x # m => minted'[x] = minted[x]
        /\ minted[m] <= minted'[m] /\ minted'[m] \in Nat /\ minted[m] \in Nat
    BY <2>1 DEF Added, RoutinesOK, MailOK
  <2>3. QED
    BY <1>11, <2>2, RequestIs DEF IsMinted
\* What the step begins.
<1>12. ASSUME NEW r \in Requests, NEW e \in Range(s), AsksFor([m |-> m, effect |-> e], r)
       PROVE  IsMinted(r)' /\ IsOpen(r)' /\ r \notin DOMAIN waits
  <2>1. r[1] = m /\ r[2] = e.id /\ e.kind \in Asks
    BY <1>12 DEF AsksFor
  <2>2. /\ e.id \in Nat /\ e.id <= minted'[m] /\ Open(m, e.id)'
        /\ minted[m] < e.id \/ ~Begun(m, e.id)
    BY <1>1, <2>1, Started DEF s
  <2>3. r \notin DOMAIN waits
    <3>1. ASSUME r \in DOMAIN waits PROVE FALSE
      <4>1. Begun(m, e.id)
        BY <1>5, <2>1, <3>1, BegunIs
      <4>2. IsMinted(r) /\ minted[m] \in Nat
        BY <3>1 DEF JsTimers, RoutinesOK, MailOK
      <4>3. QED
        BY <2>1, <2>2, <4>1, <4>2 DEF IsMinted
    <3>2. QED
      BY <3>1
  <2>4. QED
    BY <2>1, <2>2, <2>3 DEF IsMinted, IsOpen
<1>13. \A r : ~AsksFor(q, r)
  BY <1>6 DEF AsksFor, Asks
<1>14. Len(requests) \in Nat
  BY <1>5
<1> HIDE DEF t, b
<1>15. ASSUME NEW r \in DOMAIN waits
       PROVE  /\ IsMinted(r)' /\ (IsOpen(r)' \/ GivenUp(t \o b, 1, r))
              /\ \A i \in 1 .. Len(t \o b) : ~AsksFor((t \o b)[i], r)
  <2>1. r \in Requests /\ IsMinted(r) /\ (IsOpen(r) \/ GivenUp(requests, 1, r))
        /\ \A i \in 1 .. Len(requests) : ~AsksFor(requests[i], r)
    BY <1>5 DEF JsTimers, WaitsOK
  <2>2. Begun(r[1], r[2])
    BY <1>5, <2>1, BegunIs
  <2>3. IsOpen(r)' \/ GivenUp(t \o b, 1, r)
    <3>1. CASE Len(requests) >= 1
      BY <1>10, <1>14, <2>1, <2>2, <3>1
    <3>2. CASE Len(requests) = 0
      <4>1. ~GivenUp(requests, 1, r)
        BY <3>2 DEF GivenUp
      <4>2. IsOpen(r) \/ GivenUp(requests, 0, r)
        BY <2>1, <4>1
      <4>3. IsOpen(r)' \/ GivenUp(t \o b, 0, r)
        BY <1>10, <1>14, <2>1, <2>2, <4>2
      <4>4. GivenUp(t \o b, 0, r) => GivenUp(t \o b, 1, r)
        <5>1. Len(t \o b) \in Nat
          BY <1>7
        <5>2. QED
          BY <5>1 DEF GivenUp
      <4>5. QED
        BY <4>3, <4>4
    <3>3. QED
      BY <1>14, <3>1, <3>2
  <2>4. QED
    BY <1>9, <1>11, <1>12, <1>13, <2>1, <2>3
<1>16. ASSUME NEW r \in Requests, NEW i \in 1 .. Len(t \o b), AsksFor((t \o b)[i], r)
       PROVE  IsMinted(r)' /\ (IsOpen(r)' \/ GivenUp(t \o b, i, r))
  <2>1. CASE i \in 1 .. Len(requests) /\ (t \o b)[i] = requests[i]
    <3>1. IsMinted(r) /\ (IsOpen(r) \/ GivenUp(requests, i, r)) /\ Begun(r[1], r[2])
      BY <1>5, <1>16, <2>1, BegunIs DEF JsTimers
    <3>2. i \in Nat /\ i <= Len(requests)
      BY <1>14, <2>1
    <3>3. QED
      BY <1>10, <1>11, <3>1, <3>2
  <2>2. CASE \E e \in Range(s) : (t \o b)[i] = [m |-> m, effect |-> e]
    BY <1>12, <1>16, <2>2
  <2>3. QED
    BY <1>9, <1>13, <1>16, <2>1, <2>2
<1>17. QED
  BY <1>1, <1>15, <1>16 DEF JsTimers

LEMMA SettleTimes ==
  ASSUME RoutinesOK, NativeOK, JsTimers, NEW r \in DOMAIN waits, PromiseSettles(r)
  PROVE  JsTimers'
<1>1. /\ waits' = WithoutWait(waits, r) /\ requests' = requests
      /\ \/ \E n : Delivers(r[1], r[2], n)
         \/ UNCHANGED routines /\ ~IsOpen(r)
  BY DEF PromiseSettles, IsOpen
<1>2. DOMAIN waits' = DOMAIN waits \ {r}
  BY <1>1, WaitEnded DEF NativeOK
<1>3. r \in Requests
  BY DEF NativeOK, WaitsOK
<1>4. r[1] \in Machines /\ r = <<r[1], r[2]>>
  BY <1>3, RequestIs
<1>5. minted' = minted
  BY <1>1 DEF Delivers, routines
<1>6. ASSUME NEW q \in Requests, q # r, IsOpen(q) PROVE IsOpen(q)'
  <2>1. CASE \E n : Delivers(r[1], r[2], n)
    BY <1>4, <1>6, <2>1, AnswersOne
  <2>2. CASE UNCHANGED routines
    BY <1>6, <2>2 DEF routines, IsOpen, Open
  <2>3. QED
    BY <1>1, <2>1, <2>2
<1>7. \A i \in 1 .. Len(requests) : ~AsksFor(requests[i], r)
  BY DEF JsTimers
<1>8. ASSUME NEW q \in DOMAIN waits'
      PROVE  /\ IsMinted(q)' /\ (IsOpen(q)' \/ GivenUp(requests, 1, q))
             /\ \A i \in 1 .. Len(requests) : ~AsksFor(requests[i], q)
  <2>1. q \in DOMAIN waits /\ q # r /\ q \in Requests
    BY <1>2, <1>8 DEF NativeOK, WaitsOK
  <2>2. QED
    BY <1>5, <1>6, <2>1 DEF JsTimers, IsMinted
<1>9. ASSUME NEW q \in Requests, NEW i \in 1 .. Len(requests), AsksFor(requests[i], q)
      PROVE  IsMinted(q)' /\ (IsOpen(q)' \/ GivenUp(requests, i, q))
  <2>1. q # r
    BY <1>7, <1>9
  <2>2. QED
    BY <1>5, <1>6, <1>9, <2>1 DEF JsTimers, IsMinted
<1>10. QED
  BY <1>1, <1>8, <1>9 DEF JsTimers

\* After k requests, what is under way was so and none of them gave it up, or
\* one of them asked for it and none after gave it up.
Afoot(k, r) ==
  \/ r \in DOMAIN waits /\ \A j \in 1 .. k : ~GivesUp(requests[j], r)
  \/ \E i \in 1 .. k : /\ AsksFor(requests[i], r)
                       /\ \A j \in 1 .. k : i <= j => ~GivesUp(requests[j], r)

LEMMA AfootOn ==
  ASSUME NEW k \in Nat, k # 0, NEW r, Afoot(k - 1, r), ~GivesUp(requests[k], r)
  PROVE  Afoot(k, r)
<1>1. \A j \in 1 .. k : j = k \/ j \in 1 .. k - 1
  OBVIOUS
<1>2. \A i \in 1 .. k - 1 : i \in 1 .. k
  OBVIOUS
<1>3. QED
  BY <1>1, <1>2 DEF Afoot

LEMMA ServeKeeps ==
  ASSUME NEW s \in Served, NEW q \in Requested, NEW r \in Requests,
         r \in DOMAIN Serve(s, q).waits
  PROVE  \/ AsksFor(q, r) /\ ~GivesUp(q, r)
         \/ r \in DOMAIN s.waits /\ ~GivesUp(q, r)
<1> DEFINE e == q.effect
           wait == <<q.m, e.id>>
           v == [kind |-> e.kind, n |-> AnswerTo(s.world, e)]
<1>1. Serve(s, q).waits = IF e.kind = "abandon" THEN WithoutWait(s.waits, wait)
                          ELSE IF e.kind \in Asks THEN WithWait(s.waits, wait, v)
                          ELSE s.waits
  BY DEF Serve
<1> HIDE DEF v
<1>2. r = <<r[1], r[2]>>
  BY RequestIs
<1>3. CASE e.kind = "abandon"
  <2>1. r \in DOMAIN s.waits /\ r # wait
    BY <1>1, <1>3 DEF WithoutWait
  <2>2. QED
    BY <1>2, <2>1 DEF GivesUp
<1>4. CASE e.kind \in Asks
  <2>1. e.kind # "abandon"
    BY <1>4 DEF Asks
  <2>2. r \in DOMAIN s.waits \/ r = wait
    BY <1>1, <1>4, <2>1 DEF WithWait
  <2>3. r = wait => r[1] = q.m /\ r[2] = e.id
    OBVIOUS
  <2>4. QED
    BY <1>4, <2>1, <2>2, <2>3 DEF AsksFor, GivesUp
<1>5. CASE e.kind # "abandon" /\ e.kind \notin Asks
  BY <1>1, <1>5 DEF GivesUp
<1>6. QED
  BY <1>3, <1>4, <1>5

LEMMA DispatchTimes ==
  ASSUME RoutinesOK, WorldOK, NativeOK, JsTimers, DispatchRequests
  PROVE  JsTimers'
<1> DEFINE n == Len(requests)
<1>1. WaitsOK /\ requests \in Seq(Requested)
  BY DEF NativeOK
<1>2. PICK F : Serves(F) /\ waits' = F[n].waits
  BY <1>1, ServedInTurn
<1>3. n \in Nat /\ \A i \in 1 .. n : requests[i] \in Requested
  BY <1>1, RangeIs
<1> HIDE DEF n
<1> DEFINE W == {k \in 0 .. n : \A r \in DOMAIN F[k].waits : r \in Requests /\ Afoot(k, r)}
<1>4. 0 \in W
  <2>1. F[0].waits = waits
    BY <1>2 DEF Serves
  <2>2. \A r \in DOMAIN waits : r \in Requests /\ Afoot(0, r)
    BY <1>1 DEF WaitsOK, Afoot
  <2>3. QED
    BY <1>3, <2>1, <2>2
<1>5. ASSUME NEW k \in 1 .. n, k - 1 \in W
      PROVE  k \in W
  <2>1. /\ F[k] = Serve(F[k - 1], requests[k]) /\ F[k] \in Served /\ F[k - 1] \in Served
        /\ k \in 0 .. n /\ k \in Nat /\ k # 0 /\ requests[k] \in Requested
    BY <1>2, <1>3 DEF Serves, n
  <2>2. ASSUME NEW r \in DOMAIN F[k].waits PROVE r \in Requests /\ Afoot(k, r)
    <3>1. r \in Requests
      BY <2>1, ServedFields, WaitMapsAre
    <3>2. CASE AsksFor(requests[k], r) /\ ~GivesUp(requests[k], r)
      <4>1. k \in 1 .. k /\ \A j \in 1 .. k : k <= j => j = k
        BY <2>1
      <4>2. QED
        BY <3>1, <3>2, <4>1 DEF Afoot
    <3>3. CASE r \in DOMAIN F[k - 1].waits /\ ~GivesUp(requests[k], r)
      <4>1. Afoot(k - 1, r)
        BY <1>5, <3>3
      <4>2. QED
        BY <2>1, <3>1, <3>3, <4>1, AfootOn
    <3>4. QED
      BY <2>1, <2>2, <3>1, <3>2, <3>3, ServeKeeps
  <2>3. QED
    BY <2>1, <2>2
<1> HIDE DEF W
<1>6. n \in W
  <2>1. \A i \in 0 .. n : i \in W
    BY <1>3, <1>4, <1>5, Upwards
  <2>2. QED
    BY <1>3, <2>1
<1>7. requests' = << >> /\ UNCHANGED routines
  BY DEF DispatchRequests
<1>8. ASSUME NEW r \in DOMAIN waits' PROVE IsMinted(r)' /\ IsOpen(r)'
  <2>1. r \in Requests /\ Afoot(n, r)
    BY <1>2, <1>6, <1>8 DEF W
  <2>2. IsMinted(r) /\ IsOpen(r)
    <3>1. CASE r \in DOMAIN waits /\ \A j \in 1 .. n : ~GivesUp(requests[j], r)
      BY <3>1 DEF JsTimers, GivenUp, n
    <3>2. CASE \E i \in 1 .. n : /\ AsksFor(requests[i], r)
                                 /\ \A j \in 1 .. n : i <= j => ~GivesUp(requests[j], r)
      BY <2>1, <3>2 DEF JsTimers, GivenUp, n
    <3>3. QED
      BY <2>1, <3>1, <3>2 DEF Afoot
  <2>3. QED
    BY <1>7, <2>2 DEF routines, IsMinted, IsOpen, Open
<1>9. Len(requests') = 0
  BY <1>7
<1>10. QED
  BY <1>8, <1>9 DEF JsTimers

LEMMA JsTimes ==
  ASSUME RoutinesOK, WorldOK, NativeOK, Asking, Racing, NumbersTold, JsTimers, host = "js", NativeNext
  PROVE  JsTimers'
<1>1. CASE JsEnds \/ \E m \in Machines : BeginPoll(m) \/ EndPoll(m)
  <2>1. /\ waits' = waits /\ requests' = requests
        /\ minted' = minted /\ mail' = mail
    BY <1>1 DEF JsEnds, BeginPoll, EndPoll, Resumes, Reads, native, routines
  <2>2. QED
    BY <2>1 DEF JsTimers, IsMinted, IsOpen, Open
<1>2. ~TokioEnds /\ (\A m \in Machines : ~TokioStep(m) /\ ~AnswerNow(m))
      /\ \A r \in DOMAIN waits : ~WaitEnds(r)
  BY DEF TokioEnds, TokioStep, AnswerNow, WaitEnds, On
<1>3. QED
  BY <1>1, <1>2, JsStepTimes, SettleTimes, DispatchTimes DEF NativeNext

-----------------------------------------------------------------------------
(* No timer outlasts its race                                                *)

LEMMA TimedStart ==
  ASSUME Init
  PROVE  Timed
<1>1. RoutinesInit /\ waits = << >> /\ requests = << >>
  BY DEF Init, DriveInit, PythonInit, JavaInit, NativeInit, LoopInit, NoNative
<1>2. NumbersTold
  <2>1. << >> \in Seq(Nat)
    OBVIOUS
  <2>2. QED
    BY <1>1, <2>1 DEF RoutinesInit, NumbersTold
<1>3. Racing
  BY <1>1 DEF RoutinesInit, Racing, RaceAt
<1>4. DOMAIN waits = {} /\ Len(requests) = 0
  BY <1>1
<1>5. TokioTimers /\ JsTimers
  BY <1>4 DEF TokioTimers, JsTimers
<1>6. QED
  BY <1>1, <1>2, <1>3, <1>5 DEF Timed

LEMMA TimedStep ==
  ASSUME AllOK, Asking, Timed, [Next]_vars
  PROVE  Timed'
<1>1. RoutinesOK /\ LoopOK /\ NativeOK /\ host' = host /\ WorldOK
  BY HostStays DEF AllOK, TypesOK, LoopOK
<1>2. PICK p \in Machines : StepOf(p)
  BY StepsAre
<1>3. NumbersTold' /\ Racing'
  BY <1>1, <1>2, StepTells, StepRaces DEF Timed
<1>4. CASE Native
  <2>1. host \in Natives
    BY <1>4 DEF Native, NativeNext, BeginPoll, TokioStep, AnswerNow, JsStep, EndPoll, WaitEnds,
       PromiseSettles, DispatchRequests, TokioEnds, JsEnds, On, Natives
  <2>2. NativeNext
    BY <1>4 DEF Native
  <2>3. /\ host = "tokio" => TokioTimers'
        /\ host = "js" => JsTimers'
    BY <1>1, <2>2, TokioTimes, JsTimes DEF Timed, NativeOK
  <2>4. QED
    BY <1>1, <1>3, <2>1, <2>3 DEF Timed
<1>5. CASE UNCHANGED vars
  <2>1. /\ waits' = waits /\ requests' = requests /\ minted' = minted /\ mail' = mail
        /\ asked' = asked /\ at' = at /\ code' = code
    BY <1>5 DEF vars, native, routines
  <2>2. /\ TokioTimers => TokioTimers'
        /\ JsTimers => JsTimers'
    BY <2>1 DEF TokioTimers, JsTimers, IsMinted, IsOpen, Open, Unhurried, Here
  <2>3. QED
    BY <1>1, <1>3, <2>1, <2>2 DEF Timed
<1>6. CASE Single \/ Parallel
  <2>1. waits' = waits
    BY <1>6 DEF Single, Parallel, native
  <2>2. host \notin Natives
    <3>1. CASE Single
      BY <3>1, SingleIs DEF Queueing, Natives
    <3>2. CASE Parallel
      BY <3>2 DEF Parallel, JavaNext, Works, Tasks, Quiet, Natives
    <3>3. QED
      BY <1>6, <3>1, <3>2
  <2>3. QED
    BY <1>1, <1>3, <2>1, <2>2 DEF Timed, Natives
<1>7. QED
  BY <1>4, <1>5, <1>6 DEF Next

LEMMA TimedIs ==
  ASSUME AllOK, Timed
  PROVE  TimersAreWanted
<1>1. SUFFICES ASSUME host = "tokio" \/ requests = << >>, NEW r \in DOMAIN waits
               PROVE  Open(r[1], r[2])
  BY DEF TimersAreWanted
<1>2. host \in Natives
  BY <1>1 DEF Timed
<1>3. CASE host = "tokio"
  BY <1>3 DEF Timed, TokioTimers, IsOpen
<1>4. CASE host = "js" /\ requests = << >>
  <2>1. Len(requests) = 0
    BY <1>4
  <2>2. QED
    BY <1>4, <2>1 DEF Timed, JsTimers, IsOpen, GivenUp
<1>5. QED
  BY <1>1, <1>2, <1>3, <1>4 DEF Natives

\* On tokio at once, and in JavaScript once its dispatcher has caught up, what
\* is under way is what a routine still waits for: no timer outlasts its race.
THEOREM TimersWanted == Spec => []TimersAreWanted
<1>1. Init => Awake /\ Timed
  BY AwakeStart, TimedStart
<1>2. Awake /\ Timed /\ [Next]_vars => Awake' /\ Timed'
  BY AwakeStep, TimedStep DEF Awake, Scheduled
<1>3. Awake /\ Timed => TimersAreWanted
  BY TimedIs DEF Awake, Scheduled
<1>4. QED
  BY <1>1, <1>2, <1>3, PTL DEF Spec

-----------------------------------------------------------------------------
(* The verdict                                                              *)

\* Nothing is being polled and nothing that waits could go on.
Calm == \A m \in Machines : ~CanGo(m) /\ life[m] \notin Mid

LEMMA VerdictIs == VerdictIsTrue <=> (verdict # "running" => Calm)
BY DEF VerdictIsTrue, Calm, Mid

LEMMA CalmStays ==
  ASSUME Calm, UNCHANGED routines
  PROVE  Calm'
<1>1. SUFFICES ASSUME NEW m \in Machines PROVE ~CanGo(m)' /\ life'[m] \notin Mid
  BY DEF Calm
<1>2. UNCHANGED <<life, code, at, msgs, ends, asked, mail>>
  BY DEF routines
<1>3. ~CanGo(m) /\ life[m] \notin Mid
  BY DEF Calm
<1>4. QED
  BY <1>2, <1>3 DEF CanGo, Ready, Closed, Held, Answered

\* What the hosts with a queue look at before they give their verdict.
LEMMA QueueingCalm ==
  ASSUME LoopOK, Yielded, Listening, Heeding, AllDue, host \in Queueing, AtLoop,
         (queue = << >> /\ heard = << >>) \/ Taken = << >>
  PROVE  Calm
<1>1. SUFFICES ASSUME NEW m \in Machines, CanGo(m) PROVE FALSE
  BY DEF Calm, AtLoop, Mid
<1>2. host \notin Natives
  BY DEF Queueing, Natives
<1>3. (life[m] = "new" \/ Roused(m)) /\ Due(m)
  BY <1>1, <1>2, GoersAre DEF AllDue
<1>4. \A x \in Machines : out[x].effects = << >> /\ out[x].woke = << >>
  BY DEF AtLoop, Yielded, Mid, Nothing
<1>5. ~Begins(queue, m) /\ ~ToResume(queue, m) /\ ~(m \in Range(heard))
  <2>1. CASE queue = << >> /\ heard = << >>
    BY <2>1 DEF Begins, ToResume, Range
  <2>2. CASE Taken = << >>
    BY <2>2, TakenHas DEF Begins, ToResume
  <2>3. QED
    BY <2>1, <2>2
<1>6. \A x \in Machines : ~Bears(out[x].effects, m) /\ ~(m \in Range(out[x].woke))
  BY <1>4 DEF Bears, Range
<1>7. QED
  BY <1>3, <1>5, <1>6 DEF Due, BirthDue, WakeDue

\* The Python host has no ear of its own.
Unheard == host \in {"plain", "seeded"} => heard = << >>

LEMMA UnheardStep ==
  ASSUME AllOK, Unheard, [Next]_vars
  PROVE  Unheard'
<1>1. host' = host
  BY HostStays
<1>2. SUFFICES ASSUME host \in {"plain", "seeded"}, heard = << >>
               PROVE  heard' = heard
  BY <1>1 DEF Unheard
<1>3. CASE Single
  <2>1. CASE Polling
    BY <2>1 DEF Polling, loop
  <2>2. CASE DriveNext
    BY <1>2, <2>2 DEF DriveNext, Kill, Stutter, Yields, Handle, Call, Fire, Judge, Driving
  <2>3. CASE PythonNext
    BY <2>3 DEF PythonNext, Ran, SeededStutter, Skip, Note, Perform, Resume, Answer,
       FireTimer, Conclude
  <2>4. QED
    BY <1>3, <2>1, <2>2, <2>3 DEF Single
<1>4. CASE Parallel \/ Native
  <2>1. host \in {"java", "tokio", "js"}
    BY <1>4 DEF Parallel, JavaNext, Works, Tasks, Quiet, Elsewhere, Native, NativeNext, BeginPoll,
       TokioStep, AnswerNow, JsStep, EndPoll, WaitEnds, PromiseSettles, DispatchRequests,
       TokioEnds, JsEnds, On
  <2>2. QED
    BY <1>2, <2>1
<1>5. CASE UNCHANGED vars
  BY <1>5 DEF vars, loop
<1>6. QED
  BY <1>3, <1>4, <1>5 DEF Next

\* The hosts whose verdict ends every step: all but Java's, whose workers go on
\* settling.
Still == verdict # "running" /\ host # "java" => Calm

\* Once the verdict is there, no step is left to those hosts.
LEMMA StillRests ==
  ASSUME AllOK, Calm, verdict # "running", host # "java", [Next]_vars
  PROVE  UNCHANGED vars
<1>1. \A m \in Machines : life[m] \notin Mid
  BY DEF Calm
<1>2. ~Polling
  <2>1. \A m \in Machines : PollStep(m) => life[m] = "polling"
    BY DEF PollStep, WriteLine, SpawnChild, SendMessage, Receive, Record, Collect, JoinBoth,
       SelectFirst, DropEnds, Continue, Suspend, Return, Is
  <2>2. QED
    BY <1>1, <2>1 DEF Polling, Mid
<1>3. ~DriveNext
  BY <1>1 DEF DriveNext, Kill, Stutter, Yields, Handle, Call, Fire, Judge, Driving, AtLoop, Reads, Mid
<1>4. ~PythonNext
  BY <1>1 DEF PythonNext, Ran, SeededStutter, Skip, Note, Perform, Resume, Answer,
       FireTimer, Conclude, Serving, AtLoop, Reads, Mid
<1>5. ~Parallel
  BY DEF Parallel, JavaNext, Works, Tasks, Quiet, Elsewhere
<1>6. ~Native
  BY DEF Native, NativeNext, BeginPoll, TokioStep, AnswerNow, JsStep, EndPoll, WaitEnds,
       PromiseSettles, DispatchRequests, TokioEnds, JsEnds, On
<1>7. QED
  BY <1>2, <1>3, <1>4, <1>5, <1>6 DEF Next, Single

-----------------------------------------------------------------------------
(* The demos whose children JavaScript does not count: it completes only    *)
(* when they have gone as far as they can.                                  *)

First1 == <<"worker", 1>>
Second2 == <<"worker", 2>>
RaceRoot == <<"deadline", 0>>
LockRoot == <<"deadlock", 0>>
Locked == <<"first", 0>>

\* The routines of the two demos, instruction by instruction.
LEMMA RaceCode ==
  ASSUME demo = "deadline", LifeOK
  PROVE  /\ Code[RaceRoot] = Deadline /\ Code[First1] = Worker(1) /\ Code[Second2] = Worker(2)
         /\ Kin(demo) = {RaceRoot, First1, Second2}
<1>1. Kin(demo) = {RaceRoot, First1, Second2}
  BY DEF Kin, RaceRoot, First1, Second2
<1>2. RaceRoot \in Routine /\ First1 \in Routine /\ Second2 \in Routine
  BY <1>1, CodeIs DEF LifeOK
<1>3. Code[RaceRoot] = Deadline
  BY <1>2 DEF Code, RaceRoot
<1>4. Code[First1] = Worker(1)
  BY <1>2 DEF Code, First1
<1>5. Code[Second2] = Worker(2)
  BY <1>2 DEF Code, Second2
<1>6. QED
  BY <1>1, <1>3, <1>4, <1>5

LEMMA LockCode ==
  ASSUME demo = "deadlock", LifeOK
  PROVE  /\ Code[LockRoot] = Deadlock /\ Code[Locked] = Waiter
         /\ Kin(demo) = {LockRoot, Locked}
<1>1. Kin(demo) = {LockRoot, Locked}
  BY DEF Kin, LockRoot, Locked
<1>2. LockRoot \in Routine /\ Locked \in Routine
  BY <1>1, CodeIs DEF LifeOK
<1>3. Code[LockRoot] = Deadlock
  BY <1>2 DEF Code, LockRoot
<1>4. Code[Locked] = Waiter
  BY <1>2 DEF Code, Locked
<1>5. QED
  BY <1>1, <1>3, <1>4

\* What each instruction does.
RaceAt1(i, a) ==
  /\ a \in {1, 4} => i.op = "spawned"
  /\ a \in {2, 5} => i.op = "select"
  /\ a \in {3, 6, 9} => i.op = "show"
  /\ a = 1 => i.child = First1 /\ Tx(Quick) \in i.give
  /\ a = 4 => i.child = Second2 /\ Tx(Slow) \in i.give /\ Tx(Quick) \notin i.give
  /\ a = 2 => i.ch = Quick /\ i.kinds[1] = "patience"
  /\ a = 5 => i.ch = Slow
  /\ a = 7 => i.op = "send" /\ i.ch = Gate /\ i.orElse = 8
  /\ a = 8 => i.op = "recv" /\ i.ch = Slow /\ i.orElse = 9
LEMMA RaceInstrs ==
  /\ Len(Deadline) = 9 /\ \A a \in 1 .. 9 : RaceAt1(Deadline[a], a)
  /\ Len(Worker(1)) = 1 /\ Worker(1)[1].op = "send" /\ Worker(1)[1].ch = Quick
  /\ Worker(1)[1].orElse = 2
  /\ Len(Worker(2)) = 2 /\ Worker(2)[1].op = "recv" /\ Worker(2)[1].ch = Gate
  /\ Worker(2)[1].orElse = 3
  /\ Worker(2)[2].op = "send" /\ Worker(2)[2].ch = Slow /\ Worker(2)[2].orElse = 3
<1>1. Len(Deadline) = 9
  BY DEF Deadline
<1>2. /\ Deadline[1] = Spawn(First1, {Tx(Quick)}, {}) /\ Deadline[2] = Select(Quick, "patience")
      /\ Deadline[3] = Show("quick worker")
      /\ Deadline[4] = Spawn(Second2, {Rx(Gate), Tx(Slow)}, {})
      /\ Deadline[5] = Select(Slow, "pause") /\ Deadline[6] = Show("slow worker")
      /\ Deadline[7] = Send(Gate, 0, 8) /\ Deadline[8] = Recv(Slow, 0, 9)
      /\ Deadline[9] = Show("slow worker")
  BY DEF Deadline, First1, Second2
<1>3. Quick # Slow /\ Tx(Quick) # Rx(Gate) /\ Tx(Quick) # Tx(Slow)
  BY DEF Quick, Slow, Gate, Tx, Rx
<1>5. /\ Deadline[1].op = "spawned" /\ Deadline[1].child = First1
      /\ Deadline[1].give = {Tx(Quick)}
  BY <1>2 DEF Spawn, Instr
<1>6. /\ Deadline[4].op = "spawned" /\ Deadline[4].child = Second2
      /\ Deadline[4].give = {Rx(Gate), Tx(Slow)}
  BY <1>2 DEF Spawn, Instr
<1>7. /\ Deadline[2].op = "select" /\ Deadline[2].ch = Quick /\ Deadline[2].kinds = <<"patience">>
      /\ Deadline[5].op = "select" /\ Deadline[5].ch = Slow
  BY <1>2 DEF Select, Instr
<1>8. Deadline[3].op = "show" /\ Deadline[6].op = "show" /\ Deadline[9].op = "show"
  BY <1>2 DEF Show, Instr
<1>9. /\ Deadline[7].op = "send" /\ Deadline[7].ch = Gate /\ Deadline[7].orElse = 8
      /\ Deadline[8].op = "recv" /\ Deadline[8].ch = Slow /\ Deadline[8].orElse = 9
  BY <1>2 DEF Send, Recv, Instr
<1>10. \A a \in 1 .. 9 : RaceAt1(Deadline[a], a)
  BY <1>3, <1>5, <1>6, <1>7, <1>8, <1>9 DEF RaceAt1
<1>11. Len(Worker(1)) = 1 /\ Worker(1)[1] = Send(Quick, 1, 2)
  BY DEF Worker
<1>12. Len(Worker(2)) = 2 /\ Worker(2)[1] = Recv(Gate, 0, 3) /\ Worker(2)[2] = Send(Slow, 2, 3)
  BY DEF Worker
<1>13. QED
  BY <1>1, <1>10, <1>11, <1>12 DEF Send, Recv, Instr

LEMMA LockInstrs ==
  /\ Len(Deadlock) = 5 /\ Len(Waiter) = 2
  /\ Deadlock[1].op = "spawned" /\ Deadlock[1].child = Locked
  /\ Deadlock[1].give = {Rx(ToChild), Tx(ToParent)}
  /\ Deadlock[2].op = "write"
  /\ Deadlock[3].op = "recv" /\ Deadlock[3].ch = ToParent
  /\ Waiter[1].op = "recv" /\ Waiter[1].ch = ToChild
<1>1. /\ Len(Deadlock) = 5 /\ Deadlock[1] = Spawn(Locked, {Rx(ToChild), Tx(ToParent)}, {})
      /\ Deadlock[2] = Write("each waits") /\ Deadlock[3] = Recv(ToParent, 0, 4)
  BY DEF Deadlock, Locked
<1>2. Len(Waiter) = 2 /\ Waiter[1] = Recv(ToChild, 0, 3)
  BY DEF Waiter
<1>3. QED
  BY <1>1, <1>2 DEF Spawn, Write, Recv, Instr

\* The first worker has not sent, or the second.
Mute1(m) == life[m] # "none" /\ code[m] = First1 /\ (life[m] = "new" \/ at[m] = 1)
Mute2(m) == life[m] # "none" /\ code[m] = Second2 /\ (life[m] = "new" \/ at[m] <= 2)

\* Who is there in a deadline, and how far: the root hears of each worker only
\* when that has sent, and no patience ends before.
RaceCast ==
  /\ life[Root] # "none" /\ code[Root] = RaceRoot
  /\ \A m \in Machines : m # Root /\ life[m] # "none" =>
       /\ at[Root] # 1 /\ code[m] \in {First1, Second2}
       /\ code[m] = Second2 => at[Root] > 4
  /\ \A m, x \in Machines : m # x /\ life[m] # "none" /\ life[x] # "none" => code[m] # code[x]
  /\ \A m \in Machines : Mute1(m) =>
       at[Root] <= 2 /\ msgs[Quick] = << >> /\ Tx(Quick) \in ends[m]
  /\ \A m \in Machines : Mute2(m) =>
       at[Root] <= 8 /\ msgs[Slow] = << >> /\ Tx(Slow) \in ends[m]
  /\ at[Root] = 1 => msgs[Quick] = << >> /\ DOMAIN mail[Root] = {}
  /\ at[Root] <= 4 => msgs[Slow] = << >>
  /\ at[Root] <= 2 => \A id \in DOMAIN mail[Root] : mail[Root][id] = Pending \/ Ready(Quick)

\* The instruction p is at.
RaceHere(p) ==
  \/ p = Root /\ at[p] \in 1 .. 9 /\ RaceAt1(Here(p), at[p])
  \/ /\ p # Root /\ code[p] = First1 /\ at[p] = 1
     /\ Here(p).op = "send" /\ Here(p).ch = Quick /\ Here(p).orElse = 2
  \/ /\ p # Root /\ code[p] = Second2 /\ at[p] = 1
     /\ Here(p).op = "recv" /\ Here(p).ch = Gate /\ Here(p).orElse = 3
  \/ /\ p # Root /\ code[p] = Second2 /\ at[p] = 2
     /\ Here(p).op = "send" /\ Here(p).ch = Slow /\ Here(p).orElse = 3

LEMMA RaceIsHere ==
  ASSUME RoutinesOK, demo = "deadline", RaceCast, NEW p \in Machines, NEW op, Is(p, op)
  PROVE  RaceHere(p) /\ Here(p).op = op /\ life[p] = "polling"
<1>1. LifeOK /\ at[p] \in Nat \ {0}
  BY DEF RoutinesOK, PlaceOK
<1>2. life[p] = "polling" /\ at[p] <= Len(Code[code[p]]) /\ Here(p).op = op
  BY DEF Is
<1>3. CASE p = Root
  <2>1. Code[code[p]] = Deadline
    BY <1>1, <1>3, RaceCode DEF RaceCast
  <2>2. at[p] \in 1 .. 9
    BY <1>1, <1>2, <2>1, RaceInstrs
  <2>3. QED
    BY <1>2, <1>3, <2>1, <2>2, RaceInstrs DEF RaceHere, Here
<1>4. CASE p # Root /\ code[p] = First1
  <2>1. Code[code[p]] = Worker(1)
    BY <1>1, <1>4, RaceCode
  <2>2. at[p] = 1
    <3>1. Len(Code[code[p]]) = 1
      BY <2>1, RaceInstrs
    <3>2. QED
      BY <1>1, <1>2, <3>1
  <2>3. QED
    BY <1>2, <1>4, <2>1, <2>2, RaceInstrs DEF RaceHere, Here
<1>5. CASE p # Root /\ code[p] = Second2
  <2>1. Code[code[p]] = Worker(2)
    BY <1>1, <1>5, RaceCode
  <2>2. at[p] = 1 \/ at[p] = 2
    <3>1. Len(Code[code[p]]) = 2
      BY <2>1, RaceInstrs
    <3>2. QED
      BY <1>1, <1>2, <3>1
  <2>3. QED
    BY <1>2, <1>5, <2>1, <2>2, RaceInstrs DEF RaceHere, Here
<1>6. QED
  BY <1>2, <1>3, <1>4, <1>5 DEF RaceCast

\* A step that moves p on, and sends and takes nothing that was waited for.
LEMMA RaceKeeps ==
  ASSUME RoutinesOK, RoutinesOK', RaceCast, NEW p \in Machines,
         \A m \in Machines : life[m] = "none" <=> life'[m] = "none",
         \A m \in Machines : life'[m] = "new" => life[m] = "new",
         \A m \in Machines : life[m] # "none" => code'[m] = code[m],
         \A m \in Machines : m # p => at'[m] = at[m] /\ ends'[m] = ends[m],
         at[p] <= at'[p],
         Mute1(p)' => Tx(Quick) \in ends'[p] \/ Tx(Quick) \notin ends[p],
         Mute2(p)' => Tx(Slow) \in ends'[p] \/ Tx(Slow) \notin ends[p],
         \A m \in Machines : Mute1(m)' => at'[Root] <= 2 /\ msgs'[Quick] = msgs[Quick],
         \A m \in Machines : Mute2(m)' => at'[Root] <= 8 /\ msgs'[Slow] = msgs[Slow],
         at'[Root] = 1 => msgs'[Quick] = msgs[Quick] /\ DOMAIN mail'[Root] = {},
         at'[Root] <= 4 => msgs'[Slow] = msgs[Slow],
         at'[Root] <= 2 => \A id \in DOMAIN mail'[Root] :
                             mail'[Root][id] = Pending \/ Ready(Quick)'
  PROVE  RaceCast'
<1>1. \A m \in Machines : at[m] \in Nat \ {0} /\ at'[m] \in Nat \ {0}
  BY DEF RoutinesOK, PlaceOK
<1>2. Root \in Machines
  BY MachinesFinite
<1>3. ASSUME NEW m \in Machines, Mute1(m)' PROVE Mute1(m) /\ Tx(Quick) \in ends'[m]
  <2>1. life[m] # "none" /\ code[m] = First1
    BY <1>3 DEF Mute1
  <2>2. CASE m # p
    BY <1>3, <2>1, <2>2 DEF Mute1, RaceCast
  <2>3. QED
    BY <1>1, <1>3, <2>1, <2>2 DEF Mute1, RaceCast
<1>4. ASSUME NEW m \in Machines, Mute2(m)' PROVE Mute2(m) /\ Tx(Slow) \in ends'[m]
  <2>1. life[m] # "none" /\ code[m] = Second2
    BY <1>4 DEF Mute2
  <2>2. CASE m # p
    BY <1>4, <2>1, <2>2 DEF Mute2, RaceCast
  <2>3. QED
    BY <1>1, <1>4, <2>1, <2>2 DEF Mute2, RaceCast
<1>5. /\ code'[Root] = code[Root] /\ life'[Root] # "none" /\ at[Root] <= at'[Root]
      /\ code[Root] = RaceRoot
  BY <1>1, <1>2 DEF RaceCast
<1>6. \A m \in Machines : m # Root /\ life'[m] # "none" =>
        /\ at'[Root] # 1 /\ code'[m] \in {First1, Second2}
        /\ code'[m] = Second2 => at'[Root] > 4
  BY <1>1, <1>2, <1>5 DEF RaceCast
<1>7. \A m, x \in Machines : m # x /\ life'[m] # "none" /\ life'[x] # "none" => code'[m] # code'[x]
  BY DEF RaceCast
<1>8. \A m \in Machines : Mute1(m)' =>
        at'[Root] <= 2 /\ msgs'[Quick] = << >> /\ Tx(Quick) \in ends'[m]
  BY <1>3 DEF RaceCast
<1>9. \A m \in Machines : Mute2(m)' =>
        at'[Root] <= 8 /\ msgs'[Slow] = << >> /\ Tx(Slow) \in ends'[m]
  BY <1>4 DEF RaceCast
<1>10. (at'[Root] = 1 => msgs'[Quick] = << >>) /\ (at'[Root] <= 4 => msgs'[Slow] = << >>)
  BY <1>1, <1>2, <1>5 DEF RaceCast
<1>11. QED
  BY <1>5, <1>6, <1>7, <1>8, <1>9, <1>10 DEF RaceCast

LEMMA RaceSpawns ==
  ASSUME RoutinesOK, RoutinesOK', demo = "deadline", RaceCast, NEW p \in Machines, SpawnChild(p)
  PROVE  RaceCast'
<1>1. RaceHere(p) /\ Here(p).op \in Begets /\ life[p] = "polling"
  BY RaceIsHere DEF SpawnChild, Begets
<1>2. p = Root /\ at[p] \in 1 .. 9 /\ RaceAt1(Here(p), at[p])
  BY <1>1 DEF RaceHere, Begets
<1>3. at[p] = 1 \/ at[p] = 4
  BY <1>1, <1>2 DEF RaceAt1, Begets
<1>4. PICK c \in Machines :
        /\ c # p /\ life[c] = "none"
        /\ life' = [life EXCEPT ![c] = "new"]
        /\ code' = [code EXCEPT ![c] = Here(p).child]
        /\ ends' = [ends EXCEPT ![p] = @ \ Here(p).give,
                                ![c] = Here(p).give \cup Here(p).keep]
  BY <1>1 DEF SpawnChild
<1>5. /\ life'[c] = "new" /\ code'[c] = Here(p).child /\ Here(p).give \subseteq ends'[c]
      /\ \A m \in Machines : m # c => life'[m] = life[m] /\ code'[m] = code[m]
      /\ \A m \in Machines : m # c /\ m # p => ends'[m] = ends[m]
  BY <1>4 DEF RoutinesOK, LifeOK, EndsOK
<1>6. /\ \A m \in Machines : m # p => at'[m] = at[m]
      /\ at'[p] = at[p] + 1 /\ msgs' = msgs /\ mail' = mail
  BY DEF SpawnChild, Next1, RoutinesOK, PlaceOK
<1>7. First1 # Second2 /\ RaceRoot \notin {First1, Second2}
  BY DEF First1, Second2, RaceRoot
<1>8. code[p] = RaceRoot /\ life[p] # "none" /\ p # c
  BY <1>2, <1>4 DEF RaceCast
<1>9. CASE at[p] = 1
  <2>1. code'[c] = First1 /\ Tx(Quick) \in ends'[c] /\ at'[p] = 2
    BY <1>2, <1>5, <1>6, <1>9 DEF RaceAt1
  <2>2. \A m \in Machines : life'[m] # "none" => m = p \/ m = c
    BY <1>2, <1>5, <1>9 DEF RaceCast
  <2>3. \A m \in Machines : ~Mute2(m)' /\ (Mute1(m)' => m = c)
    BY <1>5, <1>7, <1>8, <2>1, <2>2 DEF Mute1, Mute2
  <2>4. msgs[Quick] = << >> /\ DOMAIN mail[Root] = {} /\ msgs[Slow] = << >>
    BY <1>2, <1>9 DEF RaceCast
  <2>5. QED
    BY <1>2, <1>5, <1>6, <1>7, <1>8, <2>1, <2>2, <2>3, <2>4 DEF RaceCast
<1>10. CASE at[p] = 4
  <2>1. code'[c] = Second2 /\ Tx(Slow) \in ends'[c] /\ at'[p] = 5
    BY <1>2, <1>5, <1>6, <1>10 DEF RaceAt1
  <2>2. \A m \in Machines : m # p /\ life[m] # "none" => code[m] = First1
    BY <1>2, <1>10 DEF RaceCast
  <2>3. \A m \in Machines : ~Mute1(m)
    BY <1>2, <1>10 DEF RaceCast
  <2>4. \A m \in Machines : ~Mute1(m)' /\ (Mute2(m)' => m = c)
    <3>1. SUFFICES ASSUME NEW m \in Machines, m # c PROVE ~Mute1(m)' /\ ~Mute2(m)'
      BY <1>7, <2>1 DEF Mute1
    <3>2. CASE m = p
      BY <1>5, <1>7, <1>8, <3>2 DEF Mute1, Mute2
    <3>3. CASE m # p
      BY <1>5, <1>6, <1>7, <2>2, <2>3, <3>1, <3>3 DEF Mute1, Mute2
    <3>4. QED
      BY <3>2, <3>3
  <2>5. msgs[Slow] = << >>
    BY <1>2, <1>10 DEF RaceCast
  <2>6. \A m, x \in Machines : m # x /\ life'[m] # "none" /\ life'[x] # "none" => code'[m] # code'[x]
    <3>1. \A m \in Machines : m # c /\ life'[m] # "none" => code'[m] # Second2
      BY <1>5, <1>7, <1>8, <2>2
    <3>2. QED
      BY <1>5, <2>1, <3>1 DEF RaceCast
  <2>7. \A m \in Machines : m # p /\ life'[m] # "none" => code'[m] \in {First1, Second2}
    BY <1>5, <2>1, <2>2
  <2>8. QED
    BY <1>2, <1>5, <1>6, <1>7, <1>8, <2>1, <2>4, <2>5, <2>6, <2>7 DEF RaceCast
<1>11. QED
  BY <1>3, <1>9, <1>10

\* A worker or the root sends.
LEMMA RaceSends ==
  ASSUME RoutinesOK, RoutinesOK', demo = "deadline", RaceCast, NEW p \in Machines, SendMessage(p)
  PROVE  RaceCast'
<1>1. RaceHere(p) /\ Here(p).op \in {"send", "forward"} /\ life[p] = "polling"
  BY RaceIsHere DEF SendMessage
<1>2. \/ p = Root /\ at[p] = 7 /\ Here(p).ch = Gate /\ Here(p).orElse = 8
      \/ p # Root /\ code[p] = First1 /\ at[p] = 1 /\ Here(p).ch = Quick /\ Here(p).orElse = 2
      \/ p # Root /\ code[p] = Second2 /\ at[p] = 2 /\ Here(p).ch = Slow /\ Here(p).orElse = 3
  <2>1. ~(p = Root /\ at[p] \in 1 .. 9 /\ RaceAt1(Here(p), at[p])) \/ at[p] = 7
    BY <1>1 DEF RaceAt1
  <2>2. QED
    BY <1>1, <2>1 DEF RaceHere, RaceAt1
<1>3. at'[p] = at[p] + 1 /\ \A m \in Machines : m # p => at'[m] = at[m]
  BY <1>2 DEF SendMessage, Next1, Jump, RoutinesOK, PlaceOK
<1>4. UNCHANGED <<life, code, mail, ends>>
  BY DEF SendMessage
<1>5. \A c \in Channels : c # Here(p).ch => msgs'[c] = msgs[c]
  BY DEF SendMessage, RoutinesOK, ChannelsOK
<1>6. "deadline" \in Demos
  BY DEF RoutinesOK, LifeOK
<1>7. {Quick, Slow, Gate} \subseteq Channels
  <2>1. Made["deadline"] = {Quick, Slow, Gate}
    BY <1>6 DEF Made
  <2>2. QED
    BY <1>6, <2>1 DEF Channels
<1>8. Quick # Slow /\ Quick # Gate /\ Slow # Gate /\ First1 # Second2 /\ RaceRoot \notin {First1, Second2}
  BY DEF Quick, Slow, Gate, First1, Second2, RaceRoot
<1>9. \A m \in Machines : (Mute1(m)' => Mute1(m)) /\ (Mute2(m)' => Mute2(m))
  BY <1>2, <1>3, <1>4, <1>8 DEF Mute1, Mute2, RoutinesOK, PlaceOK
<1>10. Ready(Quick) => Ready(Quick)'
  <2>1. CASE Here(p).ch = Quick
    <3>1. msgs[Quick] \in Seq(Int)
      BY <1>7 DEF RoutinesOK, ChannelsOK
    <3>2. msgs'[Quick] = msgs[Quick] \/ \E n : msgs'[Quick] = Append(msgs[Quick], n)
      BY <1>7, <2>1 DEF SendMessage, RoutinesOK, ChannelsOK
    <3>3. QED
      BY <3>1, <3>2 DEF Ready
  <2>2. QED
    BY <1>5, <1>7, <2>1 DEF Ready
<1>11. CASE p = Root
  <2>1. msgs'[Quick] = msgs[Quick] /\ msgs'[Slow] = msgs[Slow] /\ at[p] = 7 /\ at'[p] = 8
    BY <1>2, <1>3, <1>5, <1>7, <1>8, <1>11
  <2>2. \A m \in Machines : ~Mute1(m)
    BY <1>11, <2>1 DEF RaceCast
  <2>3. QED
    BY <1>3, <1>4, <1>9, <1>11, <2>1, <2>2, RaceKeeps
<1>12. CASE p # Root /\ code[p] = First1 /\ at[p] = 1 /\ Here(p).ch = Quick
  <2>1. msgs'[Slow] = msgs[Slow] /\ at'[Root] = at[Root]
    BY <1>3, <1>5, <1>7, <1>8, <1>12, MachinesFinite
  <2>2. \A m \in Machines : ~Mute1(m)'
    BY <1>1, <1>3, <1>4, <1>9, <1>12 DEF Mute1, RaceCast
  <2>3. at[Root] # 1 /\ life[Root] # "none"
    BY <1>1, <1>12 DEF RaceCast
  <2>4. at'[Root] <= 2 => \A id \in DOMAIN mail'[Root] : mail'[Root][id] = Pending \/ Ready(Quick)'
    BY <1>4, <1>10, <2>1 DEF RaceCast
  <2>5. \A m \in Machines : Mute2(m)' => at'[Root] <= 8
    BY <1>9, <2>1 DEF RaceCast
  <2>6. at[p] <= at'[p] /\ at'[p] # 1
    BY <1>3, <1>12
  <2>7. QED
    BY <1>3, <1>4, <1>8, <1>12, <2>1, <2>2, <2>3, <2>4, <2>5, <2>6, RaceKeeps
<1>13. CASE p # Root /\ code[p] = Second2 /\ at[p] = 2 /\ Here(p).ch = Slow
  <2>1. msgs'[Quick] = msgs[Quick] /\ at'[Root] = at[Root]
    BY <1>3, <1>5, <1>7, <1>8, <1>13, MachinesFinite
  <2>2. \A m \in Machines : ~Mute2(m)'
    BY <1>1, <1>3, <1>4, <1>9, <1>13 DEF Mute2, RaceCast
  <2>3. at[Root] > 4 /\ life[Root] # "none" /\ at[Root] \in Nat
    BY <1>1, <1>13, MachinesFinite DEF RaceCast, RoutinesOK, PlaceOK
  <2>4. at'[Root] > 4 /\ ~(at'[Root] <= 4) /\ ~(at'[Root] <= 2) /\ at'[Root] # 1
    BY <2>1, <2>3
  <2>5. \A m \in Machines : Mute1(m)' => at'[Root] <= 2
    BY <1>9, <2>1 DEF RaceCast
  <2>6. at[p] <= at'[p] /\ ~(at'[p] <= 2)
    BY <1>3, <1>13
  <2>7. QED
    BY <1>3, <1>4, <1>8, <1>13, <2>1, <2>2, <2>4, <2>5, <2>6, RaceKeeps
<1>14. QED
  BY <1>2, <1>11, <1>12, <1>13

\* Distinct names, and the channels of the race.
LEMMA RaceNames ==
  ASSUME RoutinesOK, demo = "deadline"
  PROVE  /\ {Quick, Slow, Gate} \subseteq Channels
         /\ Quick # Slow /\ Quick # Gate /\ Slow # Gate /\ First1 # Second2
         /\ RaceRoot \notin {First1, Second2}
         /\ \A m \in Machines : at[m] \in Nat /\ at[m] # 0
<1>1. "deadline" \in Demos
  BY DEF RoutinesOK, LifeOK
<1>2. Made["deadline"] = {Quick, Slow, Gate}
  BY <1>1 DEF Made
<1>3. {Quick, Slow, Gate} \subseteq Channels
  BY <1>1, <1>2 DEF Channels
<1>4. Quick # Slow /\ Quick # Gate /\ Slow # Gate /\ First1 # Second2 /\ RaceRoot \notin {First1, Second2}
  BY DEF Quick, Slow, Gate, First1, Second2, RaceRoot
<1>5. QED
  BY <1>3, <1>4 DEF RoutinesOK, PlaceOK

\* The second worker's receive, and the root's last.
LEMMA RaceTakes ==
  ASSUME RoutinesOK, RoutinesOK', demo = "deadline", RaceCast, NEW p \in Machines, Receive(p)
  PROVE  RaceCast'
<1>1. RaceHere(p) /\ Here(p).op = "recv" /\ life[p] = "polling"
  BY RaceIsHere DEF Receive
<1>2. \/ p = Root /\ at[p] = 8 /\ Here(p).ch = Slow /\ Here(p).orElse = 9
      \/ p # Root /\ code[p] = Second2 /\ at[p] = 1 /\ Here(p).ch = Gate /\ Here(p).orElse = 3
  <2>1. ~(p = Root /\ at[p] \in 1 .. 9 /\ RaceAt1(Here(p), at[p])) \/ at[p] = 8
    BY <1>1 DEF RaceAt1
  <2>2. QED
    BY <1>1, <2>1 DEF RaceHere, RaceAt1
<1>3. /\ at'[p] = at[p] + 1 \/ at'[p] = Here(p).orElse
      /\ \A m \in Machines : m # p => at'[m] = at[m]
  BY DEF Receive, Next1, Jump, RoutinesOK, PlaceOK
<1>4. UNCHANGED <<life, code, mail, ends>>
  BY DEF Receive
<1>5. \A c \in Channels : c # Here(p).ch => msgs'[c] = msgs[c]
  BY DEF Receive, RoutinesOK, ChannelsOK
<1>6. \A m \in Machines : (Mute1(m)' => Mute1(m)) /\ (Mute2(m)' => Mute2(m))
  BY <1>2, <1>3, <1>4, RaceNames DEF Mute1, Mute2
<1>7. CASE p = Root
  <2>1. msgs'[Quick] = msgs[Quick] /\ at[p] = 8 /\ at'[p] = 9 /\ Here(p).ch = Slow
    BY <1>2, <1>3, <1>5, <1>7, RaceNames
  <2>2. \A m \in Machines : ~Mute1(m)
    BY <1>7, <2>1 DEF RaceCast
  <2>3. \A m \in Machines : ~Mute2(m)
    BY <2>1 DEF Receive, Ready, Closed, Held, RaceCast
  <2>4. QED
    BY <1>3, <1>4, <1>6, <1>7, <2>1, <2>2, <2>3, RaceKeeps
<1>8. CASE p # Root /\ code[p] = Second2 /\ at[p] = 1 /\ Here(p).ch = Gate
  <2>1. msgs'[Quick] = msgs[Quick] /\ msgs'[Slow] = msgs[Slow] /\ at'[Root] = at[Root]
    BY <1>3, <1>5, <1>8, RaceNames, MachinesFinite
  <2>2. at[Root] > 4 /\ at[Root] \in Nat
    BY <1>1, <1>8, RaceNames, MachinesFinite DEF RaceCast
  <2>3. at'[Root] > 4 /\ ~(at'[Root] <= 2) /\ at'[Root] # 1
    BY <2>1, <2>2
  <2>4. \A m \in Machines : (Mute1(m)' => at'[Root] <= 2) /\ (Mute2(m)' => at'[Root] <= 8)
    BY <1>6, <2>1 DEF RaceCast
  <2>5. at[p] <= at'[p]
    BY <1>2, <1>3, <1>8
  <2>6. QED
    BY <1>3, <1>4, <1>8, <2>1, <2>3, <2>4, <2>5, RaceKeeps, RaceNames
<1>9. QED
  BY <1>2, <1>7, <1>8

\* A step that touches no channel of the race and no mail.
LEMMA RaceRests ==
  ASSUME RoutinesOK, RoutinesOK', demo = "deadline", RaceCast, NEW p \in Machines,
         \A m \in Machines : life[m] = "none" <=> life'[m] = "none",
         \A m \in Machines : life'[m] = "new" => life[m] = "new",
         code' = code, msgs' = msgs, mail' = mail,
         \A m \in Machines : m # p => at'[m] = at[m] /\ ends'[m] = ends[m],
         ends'[p] = ends[p] \/ (~Mute1(p)' /\ ~Mute2(p)'),
         at'[p] = at[p] \/ (p = Root /\ at[p] \in {3, 6, 9} /\ at'[p] = at[p] + 1)
  PROVE  RaceCast'
<1>1. Root \in Machines /\ at[p] <= at'[p] /\ (at'[Root] <= 2 <=> at[Root] <= 2)
      /\ (at'[Root] = 1 => at[Root] = 1)
  <2>1. at[p] \in Nat /\ Root \in Machines /\ at[Root] \in Nat
    BY RaceNames, MachinesFinite
  <2>2. QED
    BY <2>1
<1>2. ASSUME NEW m \in Machines PROVE (Mute1(m)' => Mute1(m)) /\ (Mute2(m)' => Mute2(m))
  <2>1. code[Root] \notin {First1, Second2}
    BY RaceNames DEF RaceCast
  <2>2. QED
    BY <2>1 DEF Mute1, Mute2
<1>3. \A m \in Machines : Mute1(m)' => at'[Root] <= 2
  BY <1>1, <1>2 DEF RaceCast
<1>4. ASSUME NEW m \in Machines, Mute2(m)' PROVE at'[Root] <= 8
  <2>1. at[Root] <= 8 /\ at[Root] \in Nat
    BY <1>1, <1>2, <1>4, RaceNames DEF RaceCast
  <2>2. at'[Root] = at[Root] \/ (at[Root] \in {3, 6, 9} /\ at'[Root] = at[Root] + 1)
    BY <1>1
  <2>3. QED
    BY <2>1, <2>2
<1>5. at'[Root] = 1 => DOMAIN mail'[Root] = {}
  BY <1>1 DEF RaceCast
<1>6. at'[Root] <= 2 => \A id \in DOMAIN mail'[Root] : mail'[Root][id] = Pending \/ Ready(Quick)'
  BY <1>1 DEF RaceCast, Ready
<1>7. QED
  BY <1>1, <1>2, <1>3, <1>4, <1>5, <1>6, RaceKeeps

\* The root's race is over: the message came, the worker gone, or the answer,
\* which waited for the message.
LEMMA RaceSelects ==
  ASSUME RoutinesOK, RoutinesOK', demo = "deadline", RaceCast, NEW p \in Machines, SelectFirst(p)
  PROVE  RaceCast'
<1>1. RaceHere(p) /\ Here(p).op = "select" /\ life[p] = "polling"
  BY RaceIsHere DEF SelectFirst
<1>2. p = Root /\ ((at[p] = 2 /\ Here(p).ch = Quick) \/ (at[p] = 5 /\ Here(p).ch = Slow))
  <2>1. p = Root /\ at[p] \in 1 .. 9 /\ RaceAt1(Here(p), at[p])
    BY <1>1 DEF RaceHere
  <2>2. at[p] \in {2, 5}
    BY <1>1, <2>1 DEF RaceAt1
  <2>3. QED
    BY <2>1, <2>2 DEF RaceAt1
<1>3. at'[p] = at[p] + 1 /\ \A m \in Machines : m # p => at'[m] = at[m]
  BY DEF SelectFirst, Next1, RoutinesOK, PlaceOK
<1>4. UNCHANGED <<life, code, ends>>
  BY DEF SelectFirst
<1>5. \A c \in Channels : c # Here(p).ch => msgs'[c] = msgs[c]
  BY DEF SelectFirst, RoutinesOK, ChannelsOK
<1>6. \A m \in Machines : (Mute1(m)' => Mute1(m)) /\ (Mute2(m)' => Mute2(m))
  <2>1. code[p] \notin {First1, Second2}
    BY <1>2, RaceNames DEF RaceCast
  <2>2. QED
    BY <1>3, <1>4, <2>1 DEF Mute1, Mute2
<1>7. CASE at[p] = 2 /\ Here(p).ch = Quick
  <2>1. msgs'[Slow] = msgs[Slow] /\ at'[p] = 3
    BY <1>3, <1>5, <1>7, RaceNames
  <2>2. \A m \in Machines : ~Mute1(m)
    <3>1. SUFFICES ASSUME NEW m \in Machines, Mute1(m) PROVE FALSE
      OBVIOUS
    <3>2. msgs[Quick] = << >> /\ Tx(Quick) \in ends[m]
      BY <3>1 DEF RaceCast
    <3>3. ~Ready(Quick) /\ ~Closed(Quick)
      BY <3>2 DEF Ready, Closed, Held
    <3>4. Answered(p, Head(asked[p]))
      BY <1>7, <3>3 DEF SelectFirst
    <3>5. QED
      BY <1>2, <1>7, <3>3, <3>4 DEF Answered, RaceCast
  <2>3. QED
    BY <1>2, <1>3, <1>4, <1>6, <1>7, <2>1, <2>2, RaceKeeps DEF RaceCast
<1>8. CASE at[p] = 5 /\ Here(p).ch = Slow
  <2>1. msgs'[Quick] = msgs[Quick] /\ at'[p] = 6
    BY <1>3, <1>5, <1>8, RaceNames
  <2>2. \A m \in Machines : ~Mute1(m)
    BY <1>2, <1>8 DEF RaceCast
  <2>3. ASSUME NEW m \in Machines, Mute2(m)' PROVE msgs'[Slow] = msgs[Slow]
    <3>1. msgs[Slow] = << >>
      BY <1>6, <2>3 DEF RaceCast
    <3>2. QED
      BY <1>8, <3>1 DEF SelectFirst, Ready
  <2>4. QED
    BY <1>2, <1>3, <1>4, <1>6, <2>1, <2>2, <2>3, RaceKeeps
<1>9. QED
  BY <1>2, <1>7, <1>8

LEMMA RaceRecords ==
  ASSUME RoutinesOK, RoutinesOK', demo = "deadline", RaceCast, NEW p \in Machines, Record(p)
  PROVE  RaceCast'
<1>1. RaceHere(p) /\ Here(p).op \in Awaits /\ life[p] = "polling"
  BY RaceIsHere DEF Record, Awaits
<1>2. p = Root /\ at[p] # 1
  BY <1>1 DEF RaceHere, RaceAt1, Awaits
<1>3. UNCHANGED <<life, code, at, ends, msgs>>
  BY DEF Record
<1>4. \A id \in DOMAIN mail'[p] :
        mail'[p][id] = Pending \/ (id \in DOMAIN mail[p] /\ mail'[p][id] = mail[p][id])
  BY DEF Record, RoutinesOK, MailOK
<1>5. \A m \in Machines : (Mute1(m)' <=> Mute1(m)) /\ (Mute2(m)' <=> Mute2(m))
  BY <1>3 DEF Mute1, Mute2
<1>6. at[Root] <= 2 => \A id \in DOMAIN mail'[Root] : mail'[Root][id] = Pending \/ Ready(Quick)'
  BY <1>2, <1>3, <1>4 DEF RaceCast, Ready
<1>7. QED
  BY <1>2, <1>3, <1>5, <1>6, RaceNames, RaceKeeps DEF RaceCast

LEMMA RacePolls ==
  ASSUME RoutinesOK, RoutinesOK', demo = "deadline", RaceCast, NEW p \in Machines, PollStep(p)
  PROVE  RaceCast'
<1>1. CASE WriteLine(p)
  <2>1. RaceHere(p) /\ Here(p).op \in {"write", "show"} /\ life[p] = "polling"
    BY <1>1, RaceIsHere DEF WriteLine
  <2>2. p = Root /\ at[p] \in {3, 6, 9}
    <3>1. p = Root /\ at[p] \in 1 .. 9 /\ RaceAt1(Here(p), at[p])
      BY <2>1 DEF RaceHere
    <3>2. QED
      BY <2>1, <3>1 DEF RaceAt1
  <2>3. at'[p] = at[p] + 1 /\ (\A m \in Machines : m # p => at'[m] = at[m])
        /\ UNCHANGED <<life, code, msgs, mail, ends>>
    BY <1>1 DEF WriteLine, Next1, RoutinesOK, PlaceOK
  <2>4. QED
    BY <2>2, <2>3, RaceRests
<1>2. CASE SpawnChild(p)
  BY <1>2, RaceSpawns
<1>3. CASE SendMessage(p)
  BY <1>3, RaceSends
<1>4. CASE Receive(p)
  BY <1>4, RaceTakes
<1>5. CASE Record(p)
  BY <1>5, RaceRecords
<1>6. CASE SelectFirst(p)
  BY <1>6, RaceSelects
<1>7. ASSUME Collect(p) \/ JoinBoth(p) \/ DropEnds(p) \/ Continue(p) PROVE FALSE
  <2>1. RaceHere(p) /\ Here(p).op \in {"ask", "join", "drop", "goto"}
    BY <1>7, RaceIsHere DEF Collect, JoinBoth, DropEnds, Continue
  <2>2. QED
    BY <2>1 DEF RaceHere, RaceAt1
<1>8. CASE Suspend(p)
  <2>1. life[p] = "polling" /\ life'[p] = "yielded" /\ \A m \in Machines : m # p => life'[m] = life[m]
    BY <1>8 DEF Suspend, Is, RoutinesOK, LifeOK
  <2>2. UNCHANGED <<code, at, msgs, mail, ends>>
    BY <1>8 DEF Suspend
  <2>3. QED
    BY <2>1, <2>2, RaceRests
<1>9. CASE Return(p)
  <2>1. /\ life[p] = "polling" /\ life'[p] = "returned" /\ \A m \in Machines : m # p => life'[m] = life[m]
        /\ \A m \in Machines : m # p => ends'[m] = ends[m]
        /\ UNCHANGED <<code, at, msgs, mail>>
        /\ at[p] > Len(Code[code[p]])
    BY <1>9 DEF Return, RoutinesOK, LifeOK, EndsOK
  <2>2. code[p] = First1 => at[p] > 1
    BY <2>1, RaceCode, RaceInstrs DEF RoutinesOK
  <2>3. code[p] = Second2 => at[p] > 2
    <3>1. code[p] = Second2 => Len(Code[code[p]]) = 2
      BY RaceCode, RaceInstrs DEF RoutinesOK
    <3>2. QED
      BY <2>1, <3>1, RaceNames
  <2>4. ~Mute1(p)' /\ ~Mute2(p)'
    BY <2>1, <2>2, <2>3, RaceNames DEF Mute1, Mute2
  <2>5. QED
    BY <2>1, <2>4, RaceRests
<1>10. QED
  BY <1>1, <1>2, <1>3, <1>4, <1>5, <1>6, <1>7, <1>8, <1>9 DEF PollStep

\* While the root waits for the first worker, only patience is asked for.
Patience(k) == k \in Asks => k = "patience"
PatienceOnly ==
  at[Root] <= 2 =>
    /\ \A r \in DOMAIN waits : Patience(waits[r].kind)
    /\ \A i \in 1 .. Len(requests) : Patience(requests[i].effect.kind)

LEMMA RaceStarts ==
  ASSUME RoutinesOK, demo = "deadline", RaceCast, NEW p \in Machines, PollStep(p),
         NEW e \in Range(Starts(p)), at'[Root] <= 2
  PROVE  Patience(e.kind)
<1>1. SUFFICES ASSUME e.kind \in Asks PROVE e.kind = "patience"
  BY DEF Patience
<1>2. CASE Is(p, "select")
  <2>1. RaceHere(p) /\ Here(p).op = "select"
    BY <1>2, RaceIsHere
  <2>2. e.kind = Here(p).kinds[1] /\ life'[p] = "yielded" /\ life[p] = "polling"
    BY <1>2, SelectStarts DEF Is
  <2>3. at' = at
    BY <1>2, <2>2, SuspendsAt
  <2>4. p = Root /\ at[p] \in 1 .. 9 /\ RaceAt1(Here(p), at[p])
    BY <2>1 DEF RaceHere
  <2>5. at[p] = 2
    BY <2>1, <2>3, <2>4 DEF RaceAt1
  <2>6. QED
    BY <2>2, <2>4, <2>5 DEF RaceAt1
<1>3. CASE ~Is(p, "select")
  <2>1. Record(p)
    BY <1>1, <1>3, NewlyAsked
  <2>2. RaceHere(p) /\ Here(p).op \in {"ask", "join"}
    BY <1>3, <2>1, RaceIsHere DEF Record
  <2>3. QED
    BY <2>2 DEF RaceHere, RaceAt1
<1>4. QED
  BY <1>2, <1>3

\* The root of a deadline never goes back.
LEMMA RaceMoves ==
  ASSUME RoutinesOK, Asking, demo = "deadline", RaceCast, NEW p \in Machines, PollStep(p)
  PROVE  at[Root] <= at'[Root]
<1>1. Root \in Machines /\ at[Root] \in Nat
  BY MachinesFinite, RaceNames
<1>2. CASE p # Root
  BY <1>1, <1>2, PollRests DEF RestsAll
<1>3. ASSUME p = Root, Jump(p), \E op : Is(p, op)
      PROVE  at[Root] <= at'[Root] \/ Here(p).op \notin {"send", "recv"}
  <2>1. RaceHere(p)
    BY <1>3, RaceIsHere
  <2>2. at[p] \in 1 .. 9 /\ RaceAt1(Here(p), at[p])
    BY <1>3, <2>1 DEF RaceHere
  <2>3. at'[p] = Here(p).orElse
    BY <1>3 DEF Jump, RoutinesOK, PlaceOK
  <2>4. Here(p).op \in {"send", "recv"} => at[p] \in {7, 8} /\ Here(p).orElse = at[p] + 1
    BY <2>2 DEF RaceAt1
  <2>5. QED
    BY <1>1, <1>3, <2>3, <2>4
<1>4. CASE p = Root
  <2>1. Next1(p) \/ at' = at => at[Root] <= at'[Root]
    BY <1>1, <1>4 DEF Next1, RoutinesOK, PlaceOK
  <2>2. ASSUME Collect(p) \/ JoinBoth(p) \/ DropEnds(p) \/ Continue(p) PROVE FALSE
    <3>1. RaceHere(p) /\ Here(p).op \in {"ask", "join", "drop", "goto"}
      BY <2>2, RaceIsHere DEF Collect, JoinBoth, DropEnds, Continue
    <3>2. QED
      BY <3>1 DEF RaceHere, RaceAt1
  <2>3. CASE WriteLine(p) \/ SpawnChild(p) \/ Record(p) \/ SelectFirst(p) \/ Suspend(p) \/ Return(p)
    BY <2>1, <2>3 DEF WriteLine, SpawnChild, Record, SelectFirst, Suspend, Return
  <2>4. CASE SendMessage(p) \/ Receive(p)
    <3>1. RaceHere(p) /\ Here(p).op \in {"send", "forward", "recv"} /\ \E op : Is(p, op)
      BY <2>4, RaceIsHere DEF SendMessage, Receive
    <3>2. Here(p).op \in {"send", "recv"}
      BY <3>1 DEF RaceHere, RaceAt1
    <3>3. Next1(p) \/ Jump(p)
      BY <2>4 DEF SendMessage, Receive
    <3>4. QED
      BY <1>3, <1>4, <2>1, <3>1, <3>2, <3>3
  <2>5. QED
    BY <2>2, <2>3, <2>4 DEF PollStep
<1>5. QED
  BY <1>2, <1>4

LEMMA PatienceSteps ==
  ASSUME RoutinesOK, NativeOK, Asking, demo = "deadline", RaceCast, PatienceOnly,
         NEW p \in Machines, JsStep(p)
  PROVE  PatienceOnly'
<1> DEFINE s == Starts(p)
           W == {e \in Effect : e.kind \in Asks \cup {"write"}}
           sent == Only(s, W)
           a == [i \in DOMAIN sent |-> [m |-> p, effect |-> sent[i]]]
           abandon == [NoEffect EXCEPT !.kind = "abandon", !.id = RaceOf(p)]
           b == IF LosesSleep(p) THEN <<[m |-> p, effect |-> abandon]>> ELSE << >>
           t == requests \o a
           T == {q \in Requested \cup {[m |-> p, effect |-> abandon]} : Patience(q.effect.kind)}
<1> SUFFICES ASSUME at'[Root] <= 2 PROVE PatienceOnly'
  BY DEF PatienceOnly
<1>1. PollStep(p) /\ requests' = t \o b /\ waits' = waits
  BY DEF JsStep
<1>2. at[Root] <= 2
  <2>1. at[Root] \in Nat /\ at'[Root] \in Nat
    BY <1>1, RaceNames, PollStepOK, MachinesFinite DEF RoutinesOK, PlaceOK
  <2>2. at[Root] <= at'[Root]
    BY <1>1, RaceMoves
  <2>3. QED
    BY <2>1, <2>2
<1>3. s \in Seq(Range(s)) /\ s \in Seq(GoodEffect)
  BY <1>1, StartsAre, RangeIs
<1>4. a \in Seq(Requested)
  BY <1>3, SentAre
<1>5. \A i \in 1 .. Len(a) : a[i] \in T
  <2>1. \A e \in Range(s) : Patience(e.kind)
    BY <1>1, RaceStarts
  <2> HIDE DEF s
  <2>2. sent \in Seq(Range(s) \cap W)
    BY <1>3, OnlyIs
  <2> HIDE DEF sent, W
  <2>3. \A i \in 1 .. Len(a) : a[i] \in Requested /\ i \in DOMAIN sent
    BY <1>4
  <2>4. \A i \in DOMAIN sent : sent[i] \in Range(s) /\ a[i].effect = sent[i]
    BY <2>2, RangeIs
  <2>5. QED
    BY <2>1, <2>3, <2>4
<1> HIDE DEF a, s, sent, W
<1>6. requests \in Seq(T)
  <2>1. requests \in Seq(Requested) /\ \A i \in 1 .. Len(requests) : Patience(requests[i].effect.kind)
    BY <1>2 DEF NativeOK, PatienceOnly
  <2>2. \A i \in 1 .. Len(requests) : requests[i] \in T
    BY <2>1
  <2> HIDE DEF T
  <2>3. QED
    BY <2>1, <2>2
<1>7. a \in Seq(T)
  <2> HIDE DEF T
  <2>1. QED
    BY <1>4, <1>5
<1>8. b \in Seq(T)
  <2>1. abandon.kind = "abandon" /\ Patience(abandon.kind)
    BY DEF NoEffect, Patience, Asks
  <2> HIDE DEF abandon
  <2>2. [m |-> p, effect |-> abandon] \in T
    BY <2>1
  <2> HIDE DEF T
  <2>3. QED
    BY <2>2
<1>9. t \o b \in Seq(T)
  <2> HIDE DEF T, b
  <2>1. QED
    BY <1>6, <1>7, <1>8, ConcatProperties
<1>10. \A i \in 1 .. Len(requests') : requests'[i] \in T
  <2> HIDE DEF T, t, b
  <2>1. QED
    BY <1>1, <1>9
<1>11. \A i \in 1 .. Len(requests') : Patience(requests'[i].effect.kind)
  BY <1>10
<1>12. QED
  BY <1>1, <1>2, <1>11 DEF PatienceOnly

LEMMA PatienceServed ==
  ASSUME RoutinesOK, WorldOK, NativeOK, PatienceOnly, DispatchRequests
  PROVE  PatienceOnly'
<1> DEFINE n == Len(requests)
<1>1. WaitsOK /\ requests \in Seq(Requested) /\ at' = at /\ requests' = << >>
  BY DEF NativeOK, DispatchRequests, routines
<1> SUFFICES ASSUME at[Root] <= 2 PROVE PatienceOnly'
  BY <1>1 DEF PatienceOnly
<1>2. PICK F : Serves(F) /\ waits' = F[n].waits
  BY <1>1, ServedInTurn
<1>3. n \in Nat /\ \A i \in 1 .. n : requests[i] \in Requested /\ Patience(requests[i].effect.kind)
  BY <1>1, RangeIs DEF PatienceOnly
<1> HIDE DEF n
<1> DEFINE W == {k \in 0 .. n : \A r \in DOMAIN F[k].waits : Patience(F[k].waits[r].kind)}
<1>4. 0 \in W
  BY <1>2, <1>3 DEF Serves, PatienceOnly
<1>5. ASSUME NEW k \in 1 .. n, k - 1 \in W
      PROVE  k \in W
  <2>1. F[k] = Serve(F[k - 1], requests[k]) /\ k \in 0 .. n
    BY <1>2, <1>3 DEF Serves, n
  <2>2. \A r \in DOMAIN F[k - 1].waits : Patience(F[k - 1].waits[r].kind)
    BY <1>5
  <2>3. Patience(requests[k].effect.kind)
    BY <1>3
  <2> HIDE DEF W
  <2>4. \A r \in DOMAIN F[k].waits : Patience(F[k].waits[r].kind)
    <3> DEFINE f == F[k - 1].waits
               q == requests[k]
               w == <<q.m, q.effect.id>>
    <3>1. CASE F[k].waits = WithoutWait(f, w)
      BY <2>2, <3>1 DEF WithoutWait
    <3>2. CASE F[k].waits = WithWait(f, w, [kind |-> q.effect.kind, n |-> AnswerTo(F[k - 1].world, q.effect)])
      BY <2>2, <2>3, <3>2 DEF WithWait
    <3>3. CASE F[k].waits = f
      BY <2>2, <3>3
    <3>4. \/ F[k].waits = WithoutWait(f, w) \/ F[k].waits = f
          \/ F[k].waits = WithWait(f, w, [kind |-> q.effect.kind, n |-> AnswerTo(F[k - 1].world, q.effect)])
      BY <2>1 DEF Serve
    <3> HIDE DEF f, q, w
    <3>5. QED
      BY <3>1, <3>2, <3>3, <3>4
  <2>5. QED
    BY <2>1, <2>4 DEF W
<1> HIDE DEF W
<1>6. n \in W
  <2>1. \A i \in 0 .. n : i \in W
    BY <1>3, <1>4, <1>5, Upwards
  <2>2. QED
    BY <1>3, <2>1
<1>7. QED
  BY <1>1, <1>2, <1>6 DEF PatienceOnly, W

\* A promise settles.
LEMMA RaceSettles ==
  ASSUME RoutinesOK, RoutinesOK', NativeOK, demo = "deadline", RaceCast, PatienceOnly,
         NEW r \in DOMAIN waits, PromiseSettles(r)
  PROVE  RaceCast' /\ PatienceOnly'
<1>1. waits' = WithoutWait(waits, r) /\ requests' = requests
  BY DEF PromiseSettles
<1>2. UNCHANGED <<life, code, at, ends, msgs>>
  BY DEF PromiseSettles, Delivers, routines
<1>3. PatienceOnly'
  BY <1>1, <1>2 DEF PatienceOnly, WithoutWait
<1>4. \A m \in Machines : (Mute1(m)' <=> Mute1(m)) /\ (Mute2(m)' <=> Mute2(m))
  BY <1>2 DEF Mute1, Mute2
<1>5. /\ DOMAIN mail'[Root] = DOMAIN mail[Root]
      /\ at[Root] <= 2 => \A id \in DOMAIN mail'[Root] : mail'[Root][id] = Pending \/ Ready(Quick)'
  <2>1. CASE UNCHANGED routines
    BY <2>1 DEF routines, RaceCast, Ready
  <2>2. CASE Delivers(r[1], r[2], waits[r].n)
    <3>0. r[1] \in Machines
      BY WaitIs DEF NativeOK
    <3>1. CASE r[1] # Root
      <4>1. mail'[Root] = mail[Root]
        BY <2>2, <3>0, <3>1, MachinesFinite DEF Delivers, RoutinesOK, MailOK
      <4>2. QED
        BY <1>2, <4>1 DEF RaceCast, Ready
    <3>2. CASE r[1] = Root
      <4>1. DOMAIN mail'[Root] = DOMAIN mail[Root]
        BY <2>2, <3>2, AnswerKeeps, MachinesFinite
      <4>2. ASSUME at[Root] <= 2 PROVE Ready(Quick)
        <5>1. Open(Root, r[2])
          BY <2>2, <3>2 DEF Delivers
        <5>2. at[Root] = 2
          <6>1. at[Root] # 1
            BY <5>1 DEF Open, RaceCast
          <6>2. at[Root] \in Nat \ {0}
            BY MachinesFinite DEF RoutinesOK, PlaceOK
          <6>3. QED
            BY <4>2, <6>1, <6>2
        <5>3. Here(Root).ch = Quick
          <6>1. Here(Root) = Deadline[2]
            BY <5>2, RaceCode DEF Here, RaceCast, RoutinesOK
          <6>2. RaceAt1(Deadline[2], 2)
            BY RaceInstrs
          <6>3. QED
            BY <6>1, <6>2 DEF RaceAt1
        <5>4. waits[r].kind = "patience"
          BY <4>2, WaitIs DEF PatienceOnly, Patience, NativeOK
        <5>5. QED
          BY <3>2, <5>1, <5>3, <5>4 DEF PromiseSettles, Patient
      <4>3. QED
        BY <1>2, <4>1, <4>2 DEF Ready
    <3>3. QED
      BY <3>1, <3>2
  <2>3. QED
    BY <2>1, <2>2 DEF PromiseSettles
<1>6. QED
  BY <1>2, <1>3, <1>4, <1>5, MachinesFinite, RaceNames, RaceKeeps DEF RaceCast

\* Who is there in a deadlock, and how far: the root waits for its child, and
\* the child for the root.
LockCast ==
  /\ life[Root] \notin {"none", "returned", "done"} /\ code[Root] = LockRoot
  /\ at[Root] <= 3 /\ Tx(ToChild) \in ends[Root]
  /\ msgs[ToChild] = << >> /\ msgs[ToParent] = << >>
  /\ \A m \in Machines : m # Root =>
       /\ at[m] = 1
       /\ life[m] # "none" => /\ code[m] = Locked /\ Tx(ToParent) \in ends[m]
                              /\ life[m] \notin {"returned", "done"}
  /\ at[Root] # 1 => \E m \in Machines : m # Root /\ life[m] # "none"

LockHere(p) ==
  \/ p = Root /\ at[p] = 1 /\ Here(p).op = "spawned" /\ Here(p).child = Locked
     /\ Here(p).give = {Rx(ToChild), Tx(ToParent)}
  \/ p = Root /\ at[p] = 2 /\ Here(p).op = "write"
  \/ p = Root /\ at[p] = 3 /\ Here(p).op = "recv" /\ Here(p).ch = ToParent
  \/ p # Root /\ Here(p).op = "recv" /\ Here(p).ch = ToChild

LEMMA LockIsHere ==
  ASSUME RoutinesOK, demo = "deadlock", LockCast, NEW p \in Machines, life[p] # "none"
  PROVE  LockHere(p) /\ at[p] <= Len(Code[code[p]])
<1>1. at[p] \in Nat /\ at[p] # 0 /\ LifeOK
  BY DEF RoutinesOK, PlaceOK
<1>2. CASE p = Root
  <2>1. Code[code[p]] = Deadlock
    BY <1>1, <1>2, LockCode DEF LockCast
  <2>2. at[p] = 1 \/ at[p] = 2 \/ at[p] = 3
    BY <1>1, <1>2 DEF LockCast
  <2>3. QED
    BY <1>2, <2>1, <2>2, LockInstrs DEF LockHere, Here
<1>3. CASE p # Root
  <2>1. Code[code[p]] = Waiter /\ at[p] = 1
    BY <1>1, <1>3, LockCode DEF LockCast
  <2>2. QED
    BY <1>3, <2>1, LockInstrs DEF LockHere, Here
<1>4. QED
  BY <1>2, <1>3

LEMMA LockPolls ==
  ASSUME RoutinesOK, demo = "deadlock", LockCast, NEW p \in Machines, PollStep(p)
  PROVE  LockCast'
<1>1. life[p] = "polling" /\ Root \in Machines
  BY MachinesFinite DEF PollStep, WriteLine, SpawnChild, SendMessage, Receive, Record, Collect,
     JoinBoth, SelectFirst, DropEnds, Continue, Suspend, Return, Is
<1>2. LockHere(p) /\ at[p] <= Len(Code[code[p]]) /\ at[p] \in Nat
  BY <1>1, LockIsHere DEF RoutinesOK, PlaceOK
<1>3. \A op : Is(p, op) => Here(p).op = op
  BY DEF Is
<1>4. Here(p).op \in {"spawned", "write", "recv"}
  BY <1>2 DEF LockHere
<1>5. ~Return(p)
  BY <1>2 DEF Return, RoutinesOK, LifeOK, PlaceOK
<1>6. ~Receive(p)
  <2>1. SUFFICES ASSUME Receive(p) PROVE FALSE
    OBVIOUS
  <2>2. Here(p).op = "recv"
    BY <1>3, <2>1 DEF Receive
  <2>3. CASE p # Root /\ Here(p).ch = ToChild
    BY <1>1, <2>1, <2>3 DEF Receive, Ready, Closed, Held, LockCast
  <2>4. CASE p = Root /\ at[p] = 3 /\ Here(p).ch = ToParent
    <3>1. PICK m \in Machines : m # Root /\ life[m] # "none"
      BY <2>4 DEF LockCast
    <3>2. Tx(ToParent) \in ends[m]
      BY <3>1 DEF LockCast
    <3>3. QED
      BY <2>1, <2>4, <3>2 DEF Receive, Ready, Closed, Held, LockCast
  <2>5. QED
    BY <1>2, <2>2, <2>3, <2>4 DEF LockHere
<1>7. SpawnChild(p) \/ WriteLine(p) \/ Suspend(p)
  BY <1>3, <1>4, <1>5, <1>6 DEF PollStep, SendMessage, Record, Collect, JoinBoth, SelectFirst,
     DropEnds, Continue
<1>8. CASE Suspend(p)
  <2>1. /\ UNCHANGED <<code, at, ends, msgs>> /\ life'[p] = "yielded"
        /\ \A m \in Machines : m # p => life'[m] = life[m]
    BY <1>8 DEF Suspend, RoutinesOK, LifeOK
  <2>2. QED
    BY <1>1, <2>1 DEF LockCast
<1>9. CASE WriteLine(p)
  <2>1. p = Root /\ at[p] = 2
    BY <1>2, <1>3, <1>9 DEF WriteLine, LockHere
  <2>2. /\ UNCHANGED <<life, code, ends, msgs>> /\ at'[p] = 3
        /\ \A m \in Machines : m # p => at'[m] = at[m]
    BY <1>9, <2>1 DEF WriteLine, Next1, RoutinesOK, PlaceOK
  <2>3. QED
    BY <1>1, <2>1, <2>2 DEF LockCast
<1>10. CASE SpawnChild(p)
  <2>1. p = Root /\ at[p] = 1 /\ Here(p).child = Locked
        /\ Here(p).give = {Rx(ToChild), Tx(ToParent)}
    BY <1>2, <1>3, <1>10 DEF SpawnChild, LockHere
  <2>2. PICK c \in Machines :
          /\ c # p /\ life[c] = "none"
          /\ life' = [life EXCEPT ![c] = "new"]
          /\ code' = [code EXCEPT ![c] = Here(p).child]
          /\ ends' = [ends EXCEPT ![p] = @ \ Here(p).give,
                                  ![c] = Here(p).give \cup Here(p).keep]
    BY <1>1, <1>10 DEF SpawnChild
  <2>3. /\ life'[c] = "new" /\ code'[c] = Locked /\ Tx(ToParent) \in ends'[c]
        /\ \A m \in Machines : m # c => life'[m] = life[m] /\ code'[m] = code[m]
        /\ \A m \in Machines : m # c /\ m # p => ends'[m] = ends[m]
    BY <2>1, <2>2 DEF RoutinesOK, LifeOK, EndsOK
  <2>4. Tx(ToChild) \in ends'[p]
    <3>1. Tx(ToChild) \notin {Rx(ToChild), Tx(ToParent)}
      BY DEF Tx, Rx, ToChild, ToParent
    <3>2. QED
      BY <2>1, <2>2, <3>1 DEF LockCast, RoutinesOK, EndsOK
  <2>5. msgs' = msgs /\ Next1(p)
    BY <1>10 DEF SpawnChild
  <2>6. at'[p] = 2 /\ \A m \in Machines : m # p => at'[m] = at[m]
    BY <2>1, <2>5 DEF Next1, RoutinesOK, PlaceOK
  <2>7. \A m \in Machines : m # Root =>
          /\ at'[m] = 1
          /\ life'[m] # "none" => /\ code'[m] = Locked /\ Tx(ToParent) \in ends'[m]
                                  /\ life'[m] \notin {"returned", "done"}
    BY <2>1, <2>3, <2>6 DEF LockCast
  <2>8. life'[p] = life[p] /\ code'[p] = code[p] /\ c # Root /\ life'[c] # "none"
    BY <2>1, <2>2, <2>3
  <2>9. QED
    BY <2>1, <2>4, <2>5, <2>6, <2>7, <2>8 DEF LockCast
<1>11. QED
  BY <1>7, <1>8, <1>9, <1>10

\* What JavaScript's completion rests on.
Counts ==
  host = "js" /\ verdict = "running" =>
    /\ demo = "deadline" => RaceCast /\ PatienceOnly
    /\ demo = "deadlock" => LockCast

LEMMA CountsStart ==
  ASSUME Init
  PROVE  Counts
<1>1. SUFFICES ASSUME NativeInit
               PROVE  (demo = "deadline" => RaceCast /\ PatienceOnly) /\ (demo = "deadlock" => LockCast)
  BY DEF Counts, Init, DriveInit, PythonInit, JavaInit
<1>2. RoutinesInit /\ requests = << >> /\ waits = << >> /\ Root \in Machines
  BY <1>1, MachinesFinite DEF NativeInit, LoopInit
<1>3. /\ \A m \in Machines : life[m] = (IF m = Root THEN "new" ELSE "none") /\ at[m] = 1
      /\ code[Root] = <<demo, 0>> /\ DOMAIN mail[Root] = {}
      /\ \A c \in Channels : msgs[c] = << >>
      /\ \A c \in Made[demo] : Tx(c) \in ends[Root]
      /\ demo \in Demos
  <2>1. /\ life = [m \in Machines |-> IF m = Root THEN "new" ELSE "none"]
        /\ at = [m \in Machines |-> 1] /\ mail = [m \in Machines |-> << >>]
        /\ code = [m \in Machines |-> <<IF m = Root THEN demo ELSE "", 0>>]
        /\ msgs = [c \in Channels |-> << >>] /\ demo \in Demos
    BY <1>2 DEF RoutinesInit
  <2>2. ends[Root] = {Tx(c) : c \in Made[demo]} \cup {Rx(c) : c \in Made[demo]}
    BY <1>2 DEF RoutinesInit
  <2>3. DOMAIN mail[Root] = {} /\ code[Root] = <<demo, 0>>
    <3>1. mail[Root] = << >> /\ code[Root] = <<IF Root = Root THEN demo ELSE "", 0>>
      BY <1>2, <2>1
    <3>2. DOMAIN mail[Root] = {}
      BY <3>1
    <3>3. code[Root] = <<demo, 0>>
      BY <3>1
    <3>4. QED
      BY <3>2, <3>3
  <2>4. QED
    BY <2>1, <2>2, <2>3
<1>4. Made[demo] \subseteq Channels
  BY <1>3 DEF Channels
<1>5. ASSUME demo = "deadline" PROVE RaceCast /\ PatienceOnly
  <2>1. Made[demo] = {Quick, Slow, Gate}
    BY <1>3, <1>5 DEF Made
  <2>2. msgs[Quick] = << >> /\ msgs[Slow] = << >> /\ code[Root] = RaceRoot
    BY <1>3, <1>4, <1>5, <2>1 DEF RaceRoot
  <2>3. RaceRoot # First1 /\ RaceRoot # Second2
    BY DEF RaceRoot, First1, Second2
  <2>4. \A m \in Machines : ~Mute1(m) /\ ~Mute2(m)
    BY <1>3, <2>2, <2>3 DEF Mute1, Mute2
  <2>5. PatienceOnly
    BY <1>2 DEF PatienceOnly
  <2>6. QED
    BY <1>2, <1>3, <2>2, <2>4, <2>5 DEF RaceCast
<1>6. ASSUME demo = "deadlock" PROVE LockCast
  <2>1. Made[demo] = {ToChild, ToParent}
    BY <1>3, <1>6 DEF Made
  <2>2. /\ msgs[ToChild] = << >> /\ msgs[ToParent] = << >> /\ Tx(ToChild) \in ends[Root]
        /\ code[Root] = LockRoot
    BY <1>3, <1>4, <1>6, <2>1 DEF LockRoot
  <2>3. life[Root] = "new" /\ at[Root] = 1
        /\ \A m \in Machines : m # Root => at[m] = 1 /\ life[m] = "none"
    BY <1>2, <1>3
  <2>4. QED
    BY <2>2, <2>3 DEF LockCast
<1>7. QED
  BY <1>5, <1>6

\* A machine called, or read, is neither made nor done with its lock.
LEMMA CountsCall ==
  ASSUME RoutinesOK, RoutinesOK', NEW p \in Machines, Resumes(p) \/ Reads(p)
  PROVE  /\ demo = "deadline" /\ RaceCast => RaceCast'
         /\ demo = "deadlock" /\ LockCast => LockCast'
<1>1. UNCHANGED <<code, at, mail, ends, msgs>>
  BY DEF Resumes, Reads
<1>2. /\ \A m \in Machines : m # p => life'[m] = life[m]
      /\ \/ life[p] \in {"new", "waiting"} /\ life'[p] = "polling"
         \/ life[p] = "yielded" /\ life'[p] = "waiting"
         \/ life[p] = "returned" /\ life'[p] = "done"
  BY DEF Resumes, Reads, Pollable, RoutinesOK, LifeOK
<1>3. ASSUME demo = "deadline", RaceCast PROVE RaceCast'
  BY <1>1, <1>2, <1>3, RaceRests
<1>4. ASSUME LockCast PROVE LockCast'
  <2>1. \A m \in Machines :
          /\ life'[m] = "none" <=> life[m] = "none"
          /\ life'[m] \in {"returned", "done"} => life[m] \in {"returned", "done"}
    BY <1>2
  <2>2. Root \in Machines
    BY MachinesFinite
  <2>3. life[Root] \notin {"none", "returned", "done"}
    BY <1>4 DEF LockCast
  <2>4. life'[Root] \notin {"none", "returned", "done"}
    BY <2>1, <2>2, <2>3
  <2>5. QED
    BY <1>1, <1>4, <2>1, <2>4 DEF LockCast
<1>5. QED
  BY <1>3, <1>4

LEMMA CountsStep ==
  ASSUME AllOK, Asking, Counts, [Next]_vars
  PROVE  Counts'
<1>0. RoutinesOK /\ RoutinesOK' /\ NativeOK /\ WorldOK /\ host' = host
  BY HostStays, AllSteps DEF AllOK, TypesOK, LoopOK
<1>1. CASE UNCHANGED vars
  <2>1. UNCHANGED <<host, verdict, demo, life, code, at, mail, ends, msgs, waits, requests>>
    BY <1>1 DEF vars, routines, loop, native
  <2>2. QED
    BY <2>1 DEF Counts, RaceCast, PatienceOnly, LockCast, Mute1, Mute2, Ready
<1>2. CASE Single
  BY <1>0, <1>2, SingleIs DEF Counts, Queueing
<1>3. CASE Parallel
  BY <1>0, <1>3 DEF Parallel, JavaNext, Works, Tasks, Quiet, Elsewhere, Counts
<1>4. CASE Native
  <2>1. SUFFICES ASSUME host = "js", verdict' = "running"
                 PROVE  (demo = "deadline" => RaceCast' /\ PatienceOnly')
                        /\ (demo = "deadlock" => LockCast') /\ demo' = demo
    BY <1>0 DEF Counts
  <2>2. verdict = "running"
    BY <1>4 DEF Native, NativeNext, BeginPoll, TokioStep, AnswerNow, JsStep, EndPoll, WaitEnds,
       PromiseSettles, DispatchRequests, TokioEnds, JsEnds, On
  <2>3. (demo = "deadline" => RaceCast /\ PatienceOnly) /\ (demo = "deadlock" => LockCast)
    BY <2>1, <2>2 DEF Counts
  <2>4. ASSUME NEW p \in Machines, BeginPoll(p) \/ EndPoll(p)
        PROVE  (demo = "deadline" => RaceCast' /\ PatienceOnly')
               /\ (demo = "deadlock" => LockCast') /\ demo' = demo
    <3>1. (Resumes(p) \/ Reads(p)) /\ UNCHANGED <<requests, waits, at, demo>>
      BY <2>4 DEF BeginPoll, EndPoll, native, Resumes, Reads
    <3>2. QED
      BY <1>0, <2>3, <3>1, CountsCall DEF PatienceOnly
  <2>5. ASSUME NEW p \in Machines, JsStep(p)
        PROVE  (demo = "deadline" => RaceCast' /\ PatienceOnly')
               /\ (demo = "deadlock" => LockCast') /\ demo' = demo
    <3>1. PollStep(p)
      BY <2>5 DEF JsStep
    <3>2. demo' = demo
      BY <3>1 DEF PollStep, WriteLine, SpawnChild, SendMessage, Receive, Record, Collect, JoinBoth,
         SelectFirst, DropEnds, Continue, Suspend, Return
    <3>3. QED
      BY <1>0, <2>3, <2>5, <3>1, <3>2, RacePolls, PatienceSteps, LockPolls
  <2>6. ASSUME NEW r \in DOMAIN waits, PromiseSettles(r)
        PROVE  (demo = "deadline" => RaceCast' /\ PatienceOnly')
               /\ (demo = "deadlock" => LockCast') /\ demo' = demo
    <3>1. UNCHANGED <<demo, life, code, at, ends, msgs>>
      BY <2>6 DEF PromiseSettles, Delivers, routines
    <3>2. QED
      BY <1>0, <2>3, <2>6, <3>1, RaceSettles DEF LockCast
  <2>7. CASE DispatchRequests
    <3>1. UNCHANGED <<demo, life, code, at, mail, ends, msgs>>
      BY <2>7 DEF DispatchRequests, routines
    <3>2. RaceCast => RaceCast'
      BY <3>1 DEF RaceCast, Mute1, Mute2, Ready
    <3>3. QED
      BY <1>0, <2>3, <2>7, <3>1, <3>2, PatienceServed DEF LockCast
  <2>8. CASE JsEnds
    BY <2>1, <2>8 DEF JsEnds
  <2>9. ~TokioEnds /\ (\A m \in Machines : ~TokioStep(m) /\ ~AnswerNow(m))
        /\ \A r \in DOMAIN waits : ~WaitEnds(r)
    BY <2>1 DEF TokioEnds, TokioStep, AnswerNow, WaitEnds, On
  <2>10. QED
    BY <1>4, <2>4, <2>5, <2>6, <2>7, <2>8, <2>9 DEF Native, NativeNext
<1>5. QED
  BY <1>1, <1>2, <1>3, <1>4 DEF Next

\* What returned is past its last instruction.
Past == \A m \in Machines : life[m] \in {"returned", "done"} => at[m] > Len(Code[code[m]])

LEMMA PastPoll ==
  ASSUME RoutinesOK, NEW p \in Machines, PollStep(p), life'[p] \in {"returned", "done"}
  PROVE  at'[p] = at[p] /\ at[p] > Len(Code[code[p]])
<1>1. life[p] = "polling"
  BY DEF PollStep, WriteLine, SpawnChild, SendMessage, Receive, Record, Collect, JoinBoth,
     SelectFirst, DropEnds, Continue, Suspend, Return, Is
<1>2. ~(life' = life) /\ ~SpawnChild(p) /\ ~Suspend(p)
  BY <1>1, SpawnIs DEF Suspend, RoutinesOK, LifeOK
<1>3. Return(p)
  BY <1>2 DEF PollStep, WriteLine, SendMessage, Receive, Record, Collect, JoinBoth,
     SelectFirst, DropEnds, Continue
<1>4. QED
  BY <1>3 DEF Return

LEMMA StepPast ==
  ASSUME RoutinesOK, Asking, Past, NEW p \in Machines, StepOf(p)
  PROVE  Past'
<1>1. CASE PollStep(p)
  <2>1. SUFFICES ASSUME NEW m \in Machines, life'[m] \in {"returned", "done"}
                 PROVE  at'[m] > Len(Code[code'[m]])
    BY DEF Past
  <2>2. CASE m = p
    BY <1>1, <2>1, <2>2, PastPoll, PollRests
  <2>3. CASE m # p
    <3>1. at'[m] = at[m] /\ life'[m] = life[m] /\ code'[m] = code[m]
      BY <1>1, <2>1, <2>3, PollRests DEF RestsAll
    <3>2. QED
      BY <2>1, <3>1 DEF Past
  <2>4. QED
    BY <2>2, <2>3
<1>2. CASE CallOf(p)
  <2>1. UNCHANGED <<code, at>>
    BY <1>2 DEF CallOf, Resumes, Replies, Reads, Kills, routines
  <2>2. \A m \in Machines : life'[m] \in {"returned", "done"} => life[m] \in {"returned", "done"}
    BY <1>2 DEF CallOf, Resumes, Replies, Reads, Kills, routines, RoutinesOK, LifeOK
  <2>3. QED
    BY <2>1, <2>2 DEF Past
<1>3. CASE AnswerOf(p)
  BY <1>3 DEF AnswerOf, Delivers, Past
<1>4. CASE Finished
  BY <1>4 DEF Finished, Past
<1>5. QED
  BY <1>1, <1>2, <1>3, <1>4 DEF StepOf

\* JavaScript's children without a context are those of two demos.
LEMMA KinNames ==
  ASSUME LifeOK, NEW m \in Machines, life[m] # "none", m \in Contextless
  PROVE  demo \in {"deadline", "deadlock"}
<1>1. code[m] \in Kin(demo) /\ demo \in Roots /\ code[m][1] \in {"worker", "first"}
  BY RoutinesAssumption DEF LifeOK, Contextless
<1>2. CASE demo \in {"greeter", "fanout", "ticker", "journal"}
  BY <1>1, <1>2 DEF Kin
<1>3. CASE demo = "ping_pong"
  BY <1>1, <1>3 DEF Kin
<1>4. CASE demo = "ring"
  BY <1>1, <1>4 DEF Kin
<1>5. CASE demo = "front_desk"
  BY <1>1, <1>5 DEF Kin
<1>6. QED
  BY <1>1, <1>2, <1>3, <1>4, <1>5 DEF Roots

LEMMA RaceIsOver ==
  ASSUME RoutinesOK, Listening, Past, demo = "deadline", RaceCast, life[Root] = "done",
         NEW m \in Machines, m # Root, life[m] # "none"
  PROVE  ~CanGo(m)
<1>1. LifeOK /\ at[m] \in Nat /\ at[Root] \in Nat /\ Root \in Machines
  BY MachinesFinite DEF RoutinesOK, PlaceOK
<1>2. Code[code[Root]] = Deadline
  BY <1>1, RaceCode DEF RaceCast
<1>3. at[Root] > 9
  BY <1>1, <1>2, RaceInstrs DEF Past
<1>4. ~Mute1(m) /\ ~Mute2(m) /\ code[m] \in {First1, Second2}
  BY <1>1, <1>3 DEF RaceCast
<1>5. Code[First1] = Worker(1) /\ Code[Second2] = Worker(2)
      /\ Len(Worker(1)) = 1 /\ Len(Worker(2)) = 2
  BY <1>1, RaceCode, RaceInstrs
<1>6. life[m] # "new" /\ at[m] > Len(Code[code[m]])
  <2>1. CASE code[m] = First1
    <3>1. life[m] # "new" /\ at[m] # 1
      BY <1>4, <2>1 DEF Mute1
    <3>2. at[m] > 1
      BY <3>1 DEF RoutinesOK, PlaceOK
    <3>3. QED
      BY <1>5, <2>1, <3>1, <3>2
  <2>2. CASE code[m] = Second2
    <3>1. life[m] # "new" /\ ~(at[m] <= 2)
      BY <1>4, <2>2 DEF Mute2
    <3>2. at[m] > 2
      BY <1>1, <3>1
    <3>3. QED
      BY <1>5, <2>2, <3>1, <3>2
  <2>3. QED
    BY <1>4, <2>1, <2>2
<1>7. life[m] # "waiting"
  <2>1. Len(Code[code[m]]) \in Nat
    BY <1>4, <1>5
  <2>2. life[m] = "waiting" => at[m] <= Len(Code[code[m]])
    BY DEF Listening, Listens, Suspended
  <2>3. QED
    BY <1>1, <1>6, <2>1, <2>2
<1>8. QED
  BY <1>6, <1>7 DEF CanGo

LEMMA JsCalm ==
  ASSUME RoutinesOK, Listening, Heeding, NativeDue, Counts, Past, JsEnds
  PROVE  Calm
<1>1. host = "js" /\ verdict = "running" /\ \A m \in Machines : life[m] \notin Mid
  BY DEF JsEnds, On, Busy, Mid
<1>2. SUFFICES ASSUME NEW m \in Machines, CanGo(m) PROVE FALSE
  BY <1>1 DEF Calm
<1>3. life[m] \in {"new", "waiting"}
  BY <1>2 DEF CanGo
<1>4. CASE verdict' = "stalled"
  <2>1. m \notin runnable
    BY <1>3, <1>4 DEF JsEnds, Pollable
  <2>2. QED
    BY <1>2, <2>1, GoersAre DEF NativeDue
<1>5. CASE life[Root] = "done" /\ Drained
  <2>1. m \in Contextless /\ m # Root
    BY <1>3, <1>5 DEF Drained
  <2>2. demo \in {"deadline", "deadlock"}
    BY <1>3, <2>1, KinNames DEF RoutinesOK
  <2>3. CASE demo = "deadlock"
    BY <1>1, <1>5, <2>3 DEF Counts, LockCast
  <2>4. CASE demo = "deadline"
    BY <1>1, <1>2, <1>3, <1>5, <2>1, <2>4, RaceIsOver DEF Counts
  <2>5. QED
    BY <2>2, <2>3, <2>4
<1>6. QED
  BY <1>4, <1>5 DEF JsEnds

LEMMA TokioCalm ==
  ASSUME TokioEnds
  PROVE  Calm'
BY DEF TokioEnds, Calm, CanGo, Busy, Mid

\* A verdict is given only when everything rests.
LEMMA StillStep ==
  ASSUME Awake, Unheard, Counts, Past, Still, [Next]_vars
  PROVE  Still'
<1>0. /\ AllOK /\ RoutinesOK /\ LoopOK /\ Yielded /\ Listening /\ Heeding /\ Called
      /\ host' = host
  BY HostStays DEF Awake, Scheduled, AllOK, TypesOK
<1>1. SUFFICES ASSUME verdict' # "running", host # "java" PROVE Calm'
  BY <1>0 DEF Still
<1>2. CASE verdict # "running"
  <2>1. UNCHANGED vars
    BY <1>0, <1>1, <1>2, StillRests DEF Still
  <2>2. UNCHANGED routines
    BY <2>1 DEF vars
  <2>3. QED
    BY <1>1, <1>2, <2>2, CalmStays DEF Still
<1>3. CASE verdict = "running"
  <2>1. CASE Single
    <3>1. host \in Queueing /\ AllDue
      BY <1>0, <1>3, <2>1, SingleIs DEF Called
    <3>2. CASE Judge
      BY <1>0, <3>1, <3>2, QueueingCalm, CalmStays DEF Judge, Driving
    <3>3. CASE Conclude
      BY <1>0, <3>1, <3>3, QueueingCalm, CalmStays DEF Conclude, Serving, Unheard
    <3>4. Judge \/ Conclude
      BY <1>1, <1>3, <2>1 DEF Single, Polling, loop, DriveNext, Kill, Stutter, Yields, Handle,
         Call, Fire, PythonNext, Ran, SeededStutter, Skip, Note, Perform, Resume, Answer, FireTimer
    <3>5. QED
      BY <3>2, <3>3, <3>4
  <2>2. CASE Parallel
    BY <1>1, <2>2 DEF Parallel, JavaNext, Works, Tasks, Quiet, Elsewhere
  <2>3. CASE Native
    <3>1. host \in Natives /\ NativeDue
      BY <1>0, <1>3, <2>3 DEF Native, NativeNext, BeginPoll, TokioStep, AnswerNow, JsStep, EndPoll,
         WaitEnds, PromiseSettles, DispatchRequests, TokioEnds, JsEnds, On, Natives, Called
    <3>2. CASE TokioEnds
      BY <3>2, TokioCalm
    <3>3. CASE JsEnds
      <4>1. UNCHANGED routines
        BY <3>3 DEF JsEnds
      <4>2. QED
        BY <1>0, <3>1, <3>3, <4>1, JsCalm, CalmStays
    <3>4. TokioEnds \/ JsEnds
      BY <1>1, <1>3, <2>3 DEF Native, NativeNext, BeginPoll, TokioStep, AnswerNow, JsStep, EndPoll,
         WaitEnds, PromiseSettles, DispatchRequests
    <3>5. QED
      BY <3>2, <3>3, <3>4
  <2>4. CASE UNCHANGED vars
    BY <1>1, <1>3, <2>4 DEF vars, loop
  <2>5. QED
    BY <2>1, <2>2, <2>3, <2>4 DEF Next
<1>4. QED
  BY <1>2, <1>3

LEMMA StillStart ==
  ASSUME Init
  PROVE  Unheard /\ Counts /\ Past /\ Still
<1>1. RoutinesInit /\ heard = << >> /\ verdict = "running"
  BY DEF Init, DriveInit, PythonInit, JavaInit, NativeInit, LoopInit
<1>2. Past
  BY <1>1 DEF RoutinesInit, Past
<1>3. QED
  BY <1>1, <1>2, CountsStart DEF Unheard, Still
-----------------------------------------------------------------------------
(* The Java host forgets nobody either                                      *)

\* A resume of m is counted, queued or being handled, or s has a frame for one.
Summoned(m) ==
  /\ m \in machines
  /\ \/ \E w \in WorkerIds : job[w].pc \in Entered /\ Head(batch[w]).id = m
     \/ \E i \in 1 .. Len(inbox[m]) : inbox[m][i] = ResumeEvent
     \/ \E w \in WorkerIds : /\ job[w].pc = "handle" /\ job[w].m = m
                             /\ job[w].event = ResumeEvent
Wakens(s, m) == \E i \in 1 .. Len(s) : s[i].kind = "woke" /\ s[i].id = m

\* Its birth, or its wake, is in an output, or in a batch and not read yet.
Borne(m) ==
  \/ \E x \in Machines : Bears(out[x].effects, m)
  \/ \E w \in WorkerIds : Bears(Left(w), m)
Waking(m) ==
  \/ \E x \in Machines : m \in Range(out[x].woke)
  \/ \E w \in WorkerIds : Wakens(Left(w), m)

JavaDue(m) ==
  /\ life[m] = "new" => Summoned(m) \/ Borne(m)
  /\ Roused(m) => Summoned(m) \/ Waking(m)
JavaDues == \A m \in Machines : JavaDue(m)

LEMMA JavaDueOn ==
  ASSUME JavaDues,
         \A m \in Machines :
           /\ life'[m] = "new" =>
                /\ life[m] = "new"
                /\ Summoned(m) \/ Borne(m) => Summoned(m)' \/ Borne(m)'
           /\ Roused(m)' =>
                /\ Roused(m)
                /\ Summoned(m) \/ Waking(m) => Summoned(m)' \/ Waking(m)'
  PROVE  JavaDues'
BY DEF JavaDues, JavaDue

\* A sequence of frames that lost its first one has the others.
LEMMA LessHas ==
  ASSUME NEW s \in Seq(Framed), s # << >>, NEW m
  PROVE  /\ Bears(s, m) => Bears(Tail(s), m) \/ (Head(s).kind \in Begets /\ Head(s).id = m)
         /\ Wakens(s, m) => Wakens(Tail(s), m) \/ (Head(s).kind = "woke" /\ Head(s).id = m)
<1> DEFINE t == Tail(s)
           h == Head(s)
<1>1. /\ s[1] = h
      /\ \A i \in 1 .. Len(s) : i = 1 \/ (i - 1 \in 1 .. Len(t) /\ t[i - 1] = s[i])
  BY TailIs
<1> HIDE DEF t, h
<1>2. Bears(s, m) => Bears(t, m) \/ (h.kind \in Begets /\ h.id = m)
  BY <1>1 DEF Bears
<1>3. Wakens(s, m) => Wakens(t, m) \/ (h.kind = "woke" /\ h.id = m)
  BY <1>1 DEF Wakens
<1>4. QED
  BY <1>2, <1>3 DEF t, h

\* A batch bears and wakes whom the output it is made from does.
LEMMA FramesTell ==
  ASSUME NEW o \in Outs, NEW m
  PROVE  /\ Bears(o.effects, m) => Bears(Frames(o), m)
         /\ m \in Range(o.woke) => Wakens(Frames(o), m)
<1> DEFINE e == o.effects
           c == [i \in DOMAIN o.closed |-> Frame("closed", o.closed[i])]
           w == [i \in DOMAIN o.woke |-> Frame("woke", o.woke[i])]
           u == e \o c
           v == u \o w
<1>1. /\ DOMAIN o.closed = 1 .. Len(o.closed) /\ Len(o.closed) \in Nat
      /\ DOMAIN o.woke = 1 .. Len(o.woke) /\ Len(o.woke) \in Nat
      /\ \A i \in 1 .. Len(o.closed) : o.closed[i] \in Nat
      /\ \A i \in 1 .. Len(o.woke) : o.woke[i] \in Machines /\ o.woke[i] \in Nat
      /\ o.effects \in Seq(GoodEffect)
      /\ \A k \in Range(o.woke) : \E i \in 1 .. Len(o.woke) : o.woke[i] = k
  BY RangeIs, LanesAre DEF Outs
<1>2. "closed" \in Kinds /\ "woke" \in Kinds /\ "closed" \notin Wakes1
  BY DEF Kinds, Wakes1
<1>3. c \in Seq(Framed)
  <2>1. \A i \in 1 .. Len(o.closed) : Frame("closed", o.closed[i]) \in Framed
    BY <1>1, <1>2, FrameIs
  <2>2. QED
    BY <1>1, <2>1, MappedIs
<1>4. /\ w \in Seq(Framed) /\ Len(w) = Len(o.woke)
      /\ \A i \in 1 .. Len(w) : w[i].kind = "woke" /\ w[i].id = o.woke[i]
  <2>1. \A i \in 1 .. Len(o.woke) :
          /\ Frame("woke", o.woke[i]) \in Framed /\ Frame("woke", o.woke[i]).kind = "woke"
          /\ Frame("woke", o.woke[i]).id = o.woke[i]
    BY <1>1, <1>2, FrameIs
  <2>2. w \in Seq(Framed) /\ Len(w) = Len(o.woke)
    BY <1>1, <2>1, MappedIs
  <2>3. QED
    BY <1>1, <2>1, <2>2
<1>5. Frames(o) = v
  BY DEF Frames
<1>6. e \in Seq(Framed)
  BY <1>1, EffectsFramed
<1> HIDE DEF e, c, w
<1>7. u \in Seq(Framed) /\ Joined(u, e, c)
  BY <1>3, <1>6, JoinIs
<1> HIDE DEF u
<1>8. Joined(v, u, w)
  BY <1>4, <1>7, JoinIs
<1> HIDE DEF v
<1>9. ASSUME Bears(e, m) PROVE Bears(v, m)
  <2>1. PICK i \in 1 .. Len(e) : e[i].kind \in Begets /\ e[i].id = m
    BY <1>9 DEF Bears
  <2>2. i \in 1 .. Len(u) /\ u[i] = e[i]
    BY <1>7 DEF Joined
  <2>3. i \in 1 .. Len(v) /\ v[i] = e[i]
    BY <1>8, <2>2 DEF Joined
  <2>4. QED
    BY <2>1, <2>3 DEF Bears
<1>10. ASSUME m \in Range(o.woke) PROVE Wakens(v, m)
  <2>1. PICK i \in 1 .. Len(w) : w[i].kind = "woke" /\ w[i].id = m
    BY <1>1, <1>4, <1>10
  <2>2. Len(u) + i \in 1 .. Len(v) /\ v[Len(u) + i] = w[i]
    BY <1>8 DEF Joined
  <2>3. QED
    BY <2>1, <2>2 DEF Wakens
<1>11. QED
  BY <1>5, <1>9, <1>10 DEF e

LEMMA SummonedStays ==
  ASSUME NEW w \in WorkerIds, Others(w), inbox' = inbox, job[w].pc \notin Entered \cup {"handle"},
         NEW m, Summoned(m), m \in machines'
  PROVE  Summoned(m)'
BY DEF Summoned, Others

\* A step that leaves the routines alone, and every summons and every frame
\* that is owed to someone, or makes a summons of it.
LEMMA RestDue ==
  ASSUME JavaDues, UNCHANGED routines,
         \A m \in Machines : Summoned(m) => Summoned(m)',
         \A w \in WorkerIds, m \in Machines :
           /\ life[m] = "new" /\ Bears(Left(w), m) => Bears(Left(w)', m) \/ Summoned(m)'
           /\ Roused(m) /\ Wakens(Left(w), m) => Wakens(Left(w)', m) \/ Summoned(m)'
  PROVE  JavaDues'
<1>1. life' = life /\ woken' = woken /\ out' = out
  BY DEF routines
<1>2. ASSUME NEW m \in Machines, life[m] = "new", Summoned(m) \/ Borne(m)
      PROVE  Summoned(m)' \/ Borne(m)'
  BY <1>1, <1>2 DEF Borne
<1>3. ASSUME NEW m \in Machines, Roused(m), Summoned(m) \/ Waking(m)
      PROVE  Summoned(m)' \/ Waking(m)'
  BY <1>1, <1>3 DEF Waking
<1>4. QED
  BY <1>1, <1>2, <1>3 DEF JavaDues, JavaDue, Roused

LEMMA SameLeftDue ==
  ASSUME JavaDues, UNCHANGED routines,
         \A m \in Machines : Summoned(m) => Summoned(m)',
         \A w \in WorkerIds : Left(w)' = Left(w)
  PROVE  JavaDues'
BY RestDue

\* A worker reads a frame that neither bears nor wakes.
LEMMA ReadDue1 ==
  ASSUME JavaOK, JavaDues, NEW w \in WorkerIds, UNCHANGED routines, UNCHANGED <<machines, job, inbox>>,
         job[w].pc = "dispatch", batch[w] # << >>, Dispatched(w),
         Head(batch[w]).kind \notin Begets \cup {"woke"}
  PROVE  JavaDues'
<1>1. /\ batch[w] \in Seq(Framed) /\ batch'[w] = Tail(batch[w])
      /\ \A x \in WorkerIds : x # w => batch'[x] = batch[x]
  BY DispatchedIs
<1>2. Others(w) /\ Left(w) = batch[w] /\ Left(w)' = Tail(batch[w])
      /\ \A x \in WorkerIds : x # w => Left(x)' = Left(x)
  BY <1>1 DEF Others, Left, Entered
<1>3. \A m \in Machines : Summoned(m) => Summoned(m)'
  BY <1>2, SummonedStays DEF Entered, Summoned
<1>4. \A m : /\ Bears(Left(w), m) => Bears(Left(w)', m)
             /\ Wakens(Left(w), m) => Wakens(Left(w)', m)
  BY <1>1, <1>2, LessHas
<1>5. \A x \in WorkerIds, m \in Machines :
        /\ Bears(Left(x), m) => Bears(Left(x)', m)
        /\ Wakens(Left(x), m) => Wakens(Left(x)', m)
  BY <1>2, <1>4
<1>6. QED
  BY <1>3, <1>5, RestDue

LEMMA ReadsDue ==
  ASSUME JavaOK, JavaDues, NEW w \in WorkerIds, WriteOut(w) \/ AskTask(w) \/ Cancel(w)
  PROVE  JavaDues'
<1>1. /\ UNCHANGED routines /\ UNCHANGED <<machines, job, inbox>> /\ Dispatched(w)
      /\ job[w].pc = "dispatch" /\ batch[w] # << >>
      /\ Head(batch[w]).kind \in {"write", "closed"} \cup Asks
  BY DEF WriteOut, AskTask, Cancel, At1, At, known, places
<1>2. Head(batch[w]).kind \notin Begets \cup {"woke"}
  BY <1>1 DEF Begets, Asks
<1>3. QED
  BY <1>1, <1>2, ReadDue1

LEMMA TakeDue ==
  ASSUME JavaOK, JavaDues, Lived, NEW w \in WorkerIds, Take(w)
  PROVE  JavaDues'
<1>1. /\ job[w].pc = "idle" /\ job' = [job EXCEPT ![w] = [pc |-> "drain", m |-> Head(line[w]),
                                                          event |-> ResumeEvent]]
      /\ batch' = batch /\ UNCHANGED routines /\ UNCHANGED <<machines, inbox>>
  BY DEF Take, At, known
<1>2. job'[w].pc = "drain" /\ \A x \in WorkerIds : x # w => job'[x] = job[x]
  BY <1>1 DEF JavaOK, JobsOK
<1>3. Others(w) /\ \A x \in WorkerIds : Left(x)' = Left(x)
  BY <1>1, <1>2 DEF Others, Left, Entered
<1>4. \A m \in Machines : Summoned(m) => Summoned(m)'
  BY <1>1, <1>3, SummonedStays DEF Entered, Summoned
<1>5. QED
  BY <1>1, <1>3, <1>4, SameLeftDue

LEMMA DrainDue ==
  ASSUME JavaOK, JavaDues, NEW w \in WorkerIds, Drain(w)
  PROVE  JavaDues'
<1>1. /\ job[w].pc = "drain" /\ batch' = batch /\ UNCHANGED routines /\ machines' = machines
      /\ InHand(w) /\ job[w].m \in Machines
  BY DEF Drain, At, known, JavaOK, JobsOK, InHand
<1>2. PICK m \in Machines : m = job[w].m
  BY <1>1
<1>3. CASE inbox[m] = << >>
  <2>1. inbox' = inbox /\ job' = [job EXCEPT ![w] = Idle]
    BY <1>2, <1>3 DEF Drain
  <2>2. job'[w].pc = "idle" /\ \A x \in WorkerIds : x # w => job'[x] = job[x]
    BY <2>1 DEF JavaOK, JobsOK, Idle
  <2>3. Others(w) /\ \A x \in WorkerIds : Left(x)' = Left(x)
    BY <1>1, <2>2 DEF Others, Left, Entered
  <2>4. \A x \in Machines : Summoned(x) => Summoned(x)'
    BY <1>1, <2>1, <2>3, SummonedStays DEF Entered, Summoned
  <2>5. QED
    BY <1>1, <2>3, <2>4, SameLeftDue
<1>4. CASE inbox[m] # << >>
  <2>1. /\ job' = [job EXCEPT ![w].pc = "handle", ![w].event = Head(inbox[m])]
        /\ inbox' = [inbox EXCEPT ![m] = Tail(@)]
    BY <1>2, <1>4 DEF Drain
  <2>2. /\ job'[w].pc = "handle" /\ job'[w].m = m /\ job'[w].event = Head(inbox[m])
        /\ \A x \in WorkerIds : x # w => job'[x] = job[x]
    BY <1>2, <2>1 DEF JavaOK, JobsOK, Jobs
  <2>3. /\ inbox'[m] = Tail(inbox[m]) /\ inbox[m] \in Seq(Events)
        /\ \A x \in Machines : x # m => inbox'[x] = inbox[x]
    BY <2>1 DEF JavaOK, PlacesOK
  <2>4. Others(w) /\ \A x \in WorkerIds : Left(x)' = Left(x)
    BY <1>1, <2>2 DEF Others, Left, Entered
  <2>5. ASSUME NEW i \in 1 .. Len(inbox[m]), inbox[m][i] = ResumeEvent, m \in machines
        PROVE  Summoned(m)'
    <3>1. CASE i = 1
      <4>1. job'[w].event = ResumeEvent
        BY <2>2, <2>3, <2>5, <3>1
      <4>2. QED
        BY <1>1, <2>2, <2>5, <4>1 DEF Summoned
    <3>2. CASE i # 1
      <4>1. i - 1 \in 1 .. Len(inbox'[m]) /\ inbox'[m][i - 1] = ResumeEvent
        BY <1>4, <2>3, <2>5, <3>2
      <4>2. QED
        BY <1>1, <2>5, <4>1 DEF Summoned
    <3>3. QED
      BY <3>1, <3>2
  <2>6. ASSUME NEW x \in Machines, Summoned(x) PROVE Summoned(x)'
    <3>1. CASE \E y \in WorkerIds : job[y].pc \in Entered /\ Head(batch[y]).id = x
      BY <1>1, <2>4, <2>6, <3>1 DEF Summoned, Others, Entered
    <3>2. CASE \E y \in WorkerIds : /\ job[y].pc = "handle" /\ job[y].m = x
                                    /\ job[y].event = ResumeEvent
      BY <1>1, <2>4, <2>6, <3>2 DEF Summoned, Others
    <3>3. CASE \E i \in 1 .. Len(inbox[x]) : inbox[x][i] = ResumeEvent
      BY <1>1, <2>3, <2>5, <2>6, <3>3 DEF Summoned
    <3>4. QED
      BY <2>6, <3>1, <3>2, <3>3 DEF Summoned
  <2>7. QED
    BY <1>1, <2>4, <2>6, SameLeftDue
<1>5. QED
  BY <1>3, <1>4

\* An event is queued, and a resume that was counted is there.
LEMMA QueueSummons ==
  ASSUME PlacesOK, NEW k \in Machines, NEW event \in Events, NEW here, Queue(k, event, here),
         machines' = machines, NEW m \in Machines, Summoned(m),
         \A w \in WorkerIds : job[w].pc = "handle" => job'[w] = job[w],
         \A w \in WorkerIds : job[w].pc \in Entered /\ Head(batch[w]).id = m =>
           \/ job'[w].pc \in Entered /\ batch'[w] = batch[w]
           \/ k = m /\ event = ResumeEvent
  PROVE  Summoned(m)'
<1>1. /\ inbox'[k] = Append(inbox[k], event) /\ inbox[k] \in Seq(Events)
      /\ \A x \in Machines : x # k => inbox'[x] = inbox[x]
  BY DEF Queue, PlacesOK
<1>2. /\ Len(inbox'[k]) = Len(inbox[k]) + 1 /\ Len(inbox[k]) \in Nat
      /\ inbox'[k][Len(inbox[k]) + 1] = event
      /\ \A i \in 1 .. Len(inbox[k]) : inbox'[k][i] = inbox[k][i]
  BY <1>1
<1>3. CASE \E i \in 1 .. Len(inbox[m]) : inbox[m][i] = ResumeEvent
  <2>1. \E i \in 1 .. Len(inbox'[m]) : inbox'[m][i] = ResumeEvent
    BY <1>1, <1>2, <1>3
  <2>2. QED
    BY <2>1 DEF Summoned
<1>4. CASE \E w \in WorkerIds : /\ job[w].pc = "handle" /\ job[w].m = m
                                /\ job[w].event = ResumeEvent
  BY <1>4 DEF Summoned
<1>5. CASE \E w \in WorkerIds : job[w].pc \in Entered /\ Head(batch[w]).id = m
  <2>1. CASE k = m /\ event = ResumeEvent
    <3>1. Len(inbox[k]) + 1 \in 1 .. Len(inbox'[m]) /\ inbox'[m][Len(inbox[k]) + 1] = ResumeEvent
      BY <1>2, <2>1
    <3>2. QED
      BY <3>1 DEF Summoned
  <2>2. CASE ~(k = m /\ event = ResumeEvent)
    BY <1>5, <2>2 DEF Summoned
  <2>3. QED
    BY <2>1, <2>2
<1>6. QED
  BY <1>3, <1>4, <1>5 DEF Summoned

LEMMA ResumeIs == ResumeEvent \in Events
BY DEF ResumeEvent, Events

LEMMA QueuesDue ==
  ASSUME JavaOK, JavaDues, Lived, NEW w \in WorkerIds, QueueResume(w) \/ QueueSpurious(w)
  PROVE  JavaDues'
<1>1. /\ UNCHANGED routines /\ machines' = machines /\ job[w].pc \in Entered
      /\ Queue(Head(batch[w]).id, ResumeEvent, w)
      /\ \/ Dispatched(w) /\ Goes(w, "dispatch") /\ job[w].pc = "counted"
         \/ batch' = [batch EXCEPT ![w] = << >>] /\ Goes(w, "end") /\ job[w].pc = "spurious"
  BY DEF QueueResume, QueueSpurious, known, Entered, At
<1>2. /\ batch[w] # << >> /\ batch[w] \in Seq(Framed) /\ Head(batch[w]).kind \in Wakes1
  BY <1>1 DEF JavaOK, BatchOK, Entered
<1>3. Head(batch[w]) \in Framed
  BY <1>2
<1>4. PICK k \in Machines : k = Head(batch[w]).id
  BY <1>2, <1>3 DEF Framed
<1>5. job[w].pc = "spurious" => Tail(batch[w]) = << >>
  BY DEF Lived, LivedAt
<1>6. batch'[w] = Tail(batch[w]) /\ \A x \in WorkerIds : x # w => batch'[x] = batch[x]
  BY <1>1, <1>5 DEF Dispatched, JavaOK, BatchOK
<1>7. job'[w].pc \in {"dispatch", "end"} /\ \A x \in WorkerIds : x # w => job'[x] = job[x]
  BY <1>1 DEF Goes, JavaOK, JobsOK, Jobs
<1>8. Others(w) /\ \A x \in WorkerIds : Left(x)' = Left(x)
  BY <1>1, <1>6, <1>7 DEF Others, Left, Entered
<1>9. ASSUME NEW m \in Machines, Summoned(m) PROVE Summoned(m)'
  <2>1. \A x \in WorkerIds : job[x].pc = "handle" => job'[x] = job[x]
    BY <1>1, <1>7 DEF Entered
  <2>2. \A x \in WorkerIds : job[x].pc \in Entered /\ Head(batch[x]).id = m =>
           \/ job'[x].pc \in Entered /\ batch'[x] = batch[x]
           \/ k = m /\ ResumeEvent = ResumeEvent
    BY <1>4, <1>8 DEF Others
  <2>3. QED
    BY <1>1, <1>4, <1>9, <2>1, <2>2, QueueSummons, ResumeIs DEF JavaOK
<1>10. QED
  BY <1>1, <1>8, <1>9, SameLeftDue

LEMMA CountDue ==
  ASSUME JavaOK, JavaDues, Lived, NEW w \in WorkerIds, CountResume(w)
  PROVE  JavaDues'
<1>1. /\ UNCHANGED routines /\ inbox' = inbox /\ job[w].pc = "dispatch" /\ batch[w] # << >>
      /\ Head(batch[w]).kind \in {"woke", "spawned", "spawned_pinned"}
  BY DEF CountResume, At1, At, places
<1>2. batch[w] \in Seq(Framed) /\ Left(w) = batch[w]
  BY <1>1 DEF JavaOK, BatchOK, Left, Entered
<1>3. PICK f \in Framed : f = Head(batch[w])
  BY <1>1, <1>2
<1>4. \A m : /\ Bears(batch[w], m) => Bears(Tail(batch[w]), m) \/ (f.kind \in Begets /\ f.id = m)
             /\ Wakens(batch[w], m) => Wakens(Tail(batch[w]), m) \/ (f.kind = "woke" /\ f.id = m)
  BY <1>1, <1>2, <1>3, LessHas
<1>5. CASE f.kind = "woke" /\ f.id \notin machines
  <2>1. Dispatched(w) /\ UNCHANGED <<machines, job>>
    BY <1>3, <1>5 DEF CountResume
  <2>2. batch'[w] = Tail(batch[w]) /\ \A x \in WorkerIds : x # w => batch'[x] = batch[x]
    BY <1>1, <2>1, DispatchedIs
  <2>3. Others(w) /\ Left(w)' = Tail(batch[w])
        /\ \A x \in WorkerIds : x # w => Left(x)' = Left(x)
    BY <1>1, <2>1, <2>2 DEF Others, Left, Entered
  <2>4. \A m \in Machines : Summoned(m) => Summoned(m)'
    BY <1>1, <2>1, <2>3, SummonedStays DEF Entered, Summoned
  <2>5. ASSUME NEW x \in WorkerIds, NEW m \in Machines
        PROVE  /\ Bears(Left(x), m) => Bears(Left(x)', m)
               /\ Roused(m) /\ Wakens(Left(x), m) => Wakens(Left(x)', m)
    <3>1. f.kind \notin Begets
      BY <1>5 DEF Begets
    <3>2. Roused(m) => m \in machines
      BY DEF Lived, Roused
    <3>3. CASE x = w
      BY <1>2, <1>4, <1>5, <2>3, <3>1, <3>2, <3>3
    <3>4. QED
      BY <2>3, <3>3
  <2>6. QED
    BY <1>1, <2>4, <2>5, RestDue
<1>6. CASE ~(f.kind = "woke" /\ f.id \notin machines)
  <2>1. machines' = machines \cup {f.id} /\ Goes(w, "counted") /\ batch' = batch
    BY <1>3, <1>6 DEF CountResume
  <2>2. job'[w].pc = "counted" /\ \A x \in WorkerIds : x # w => job'[x] = job[x]
    BY <2>1 DEF Goes, JavaOK, JobsOK, Jobs
  <2>3. Others(w) /\ Left(w)' = Tail(batch[w])
        /\ \A x \in WorkerIds : x # w => Left(x)' = Left(x)
    BY <2>1, <2>2 DEF Others, Left, Entered
  <2>4. \A m \in Machines : Summoned(m) => Summoned(m)'
    <3>1. \A m : Summoned(m) => m \in machines'
      BY <2>1 DEF Summoned
    <3>2. QED
      BY <1>1, <2>3, <3>1, SummonedStays DEF Entered
  <2>5. Summoned(f.id)'
    BY <1>3, <2>1, <2>2 DEF Summoned, Entered
  <2>6. ASSUME NEW x \in WorkerIds, NEW m \in Machines
        PROVE  /\ Bears(Left(x), m) => Bears(Left(x)', m) \/ Summoned(m)'
               /\ Wakens(Left(x), m) => Wakens(Left(x)', m) \/ Summoned(m)'
    BY <1>2, <1>4, <2>3, <2>5
  <2>7. QED
    BY <1>1, <2>4, <2>6, RestDue
<1>7. QED
  BY <1>5, <1>6

LEMMA DispatchDue ==
  ASSUME JavaOK, JavaDues, Lived, NEW w \in WorkerIds, Dispatch(w) \/ Settle(w)
  PROVE  JavaDues'
<1>1. /\ UNCHANGED routines /\ UNCHANGED <<machines, inbox>> /\ batch[w] = << >>
      /\ job[w].pc \in {"dispatch", "settle"}
      /\ \E pc \in {"end", "spurious", "drain"} :
           /\ Goes(w, pc)
           /\ \/ pc \in {"end", "drain"} /\ batch' = batch
              \/ pc = "spurious" /\ \E m \in machines : batch' = [batch EXCEPT ![w] = <<Frame("", m)>>]
  BY NoFrames DEF Dispatch, Settle, At, known, places
<1>2. PICK pc \in {"end", "spurious", "drain"} :
        /\ Goes(w, pc)
        /\ \/ pc \in {"end", "drain"} /\ batch' = batch
           \/ pc = "spurious" /\ \E m \in machines : batch' = [batch EXCEPT ![w] = <<Frame("", m)>>]
  BY <1>1
<1>3. job'[w].pc = pc /\ \A x \in WorkerIds : x # w => job'[x] = job[x]
  BY <1>2 DEF Goes, JavaOK, JobsOK, Jobs
<1>4. \A x \in WorkerIds : x # w => batch'[x] = batch[x]
  BY <1>2 DEF JavaOK, BatchOK
<1>5. Others(w) /\ Left(w) = << >>
  BY <1>1, <1>3, <1>4 DEF Others, Left, Entered
<1>6. Left(w)' = << >>
  <2>1. CASE pc = "spurious"
    <3>1. PICK m \in machines : batch' = [batch EXCEPT ![w] = <<Frame("", m)>>]
      BY <1>2, <2>1
    <3>2. batch'[w] = <<Frame("", m)>>
      BY <3>1 DEF JavaOK, BatchOK
    <3>3. Tail(batch'[w]) = << >>
      <4>1. PICK f : f = Frame("", m)
        OBVIOUS
      <4>2. Tail(<<f>>) = << >>
        OBVIOUS
      <4>3. QED
        BY <3>2, <4>1, <4>2
    <3>4. QED
      BY <1>3, <2>1, <3>3 DEF Left, Entered
  <2>2. CASE pc # "spurious"
    BY <1>1, <1>2, <1>3, <2>2 DEF Left, Entered
  <2>3. QED
    BY <2>1, <2>2
<1>7. \A m \in Machines : Summoned(m) => Summoned(m)'
  BY <1>1, <1>5, SummonedStays DEF Entered, Summoned
<1>8. \A x \in WorkerIds : Left(x)' = Left(x)
  BY <1>5, <1>6 DEF Others, Left
<1>9. QED
  BY <1>1, <1>7, <1>8, SameLeftDue

LEMMA TaskDue ==
  ASSUME JavaOK, JavaDues, NEW r \in DOMAIN tasks, Task(r)
  PROVE  JavaDues'
<1>1. UNCHANGED routines /\ UNCHANGED <<machines, job, batch>>
  BY DEF Task, PerformTask, CountReply, QueueReply, known
<1>2. \A x \in WorkerIds : Left(x)' = Left(x)
  BY <1>1 DEF Left
<1>3. ASSUME NEW m \in Machines, Summoned(m) PROVE Summoned(m)'
  <2>1. CASE inbox' = inbox
    BY <1>1, <1>3, <2>1 DEF Summoned
  <2>2. CASE QueueReply(r)
    <3>1. r[1] \in Machines /\ r[2] \in Nat /\ tasks[r].n \in Int
      BY DEF JavaOK, TasksOK, Requests, TaskOf
    <3>2. [id |-> r[2], n |-> tasks[r].n] \in Events
      BY <3>1 DEF Events
    <3>3. PICK e \in Events : Queue(r[1], e, 0)
      BY <2>2, <3>2 DEF QueueReply
    <3>4. QED
      BY <1>1, <1>3, <3>1, <3>3, QueueSummons DEF JavaOK
  <2>3. QED
    BY <2>1, <2>2 DEF Task, PerformTask, CountReply, places
<1>4. QED
  BY <1>1, <1>2, <1>3, SameLeftDue

LEMMA JavaHandleDue ==
  ASSUME RoutinesOK, JavaOK, Placed, Javan, JavaDues, NEW w \in WorkerIds, HandleEvent(w)
  PROVE  JavaDues'
<1>1. /\ job[w].pc = "handle" /\ UNCHANGED <<machines, inbox, batch>>
      /\ \E pc \in {"call", "settle"} : Goes(w, pc)
  BY DEF HandleEvent, Calls, At, known, places
<1>2. job'[w].pc \in {"call", "settle"} /\ \A x \in WorkerIds : x # w => job'[x] = job[x]
  BY <1>1 DEF Goes, JavaOK, JobsOK, Jobs
<1>3. Others(w) /\ \A x \in WorkerIds : Left(x)' = Left(x)
  BY <1>1, <1>2 DEF Others, Left, Entered
<1>4. InHand(w) /\ job[w].m \in Machines
  BY <1>1 DEF JavaOK, JobsOK, InHand
<1>5. PICK k \in Machines : k = job[w].m
  BY <1>4
<1>6. PICK e : e = job[w].event
  OBVIOUS
<1>7. ASSUME NEW m, Summoned(m), m # k \/ e # ResumeEvent PROVE Summoned(m)'
  BY <1>1, <1>3, <1>5, <1>6, <1>7 DEF Summoned, Others, Entered
<1>8. CASE k \in machines /\ (e = ResumeEvent \/ <<k, e.id>> \in inFlight)
  <2>1. Accepts(w, k, e)
    BY <1>1, <1>5, <1>6, <1>8, HandleAccepted
  <2>2. Calls(w, k, e)
    BY <1>5, <1>6, <1>8 DEF HandleEvent
  <2>3. Resumes(k) \/ \E id, n : Replies(k, id, n)
    BY <2>1, <2>2 DEF Calls
  <2>4. /\ life'[k] = "polling" /\ ~woken'[k]
        /\ \A m \in Machines : m # k => life'[m] = life[m] /\ woken'[m] = woken[m]
    BY <2>3 DEF Resumes, Replies, RoutinesOK, LifeOK, OutOK
  <2>5. out' = out
    BY <2>3, CallQuiet DEF Quietly, Javan, Polls
  <2>6. ASSUME NEW m \in Machines, m # k
        PROVE  /\ Summoned(m) \/ Borne(m) => Summoned(m)' \/ Borne(m)'
               /\ Summoned(m) \/ Waking(m) => Summoned(m)' \/ Waking(m)'
    BY <1>3, <1>7, <2>5, <2>6 DEF Borne, Waking
  <2>7. \A m \in Machines :
           /\ life'[m] = "new" =>
                /\ life[m] = "new"
                /\ Summoned(m) \/ Borne(m) => Summoned(m)' \/ Borne(m)'
           /\ Roused(m)' =>
                /\ Roused(m)
                /\ Summoned(m) \/ Waking(m) => Summoned(m)' \/ Waking(m)'
    BY <2>4, <2>6 DEF Roused
  <2>8. QED
    BY <2>7, JavaDueOn
<1>9. CASE ~(k \in machines /\ (e = ResumeEvent \/ <<k, e.id>> \in inFlight))
  <2>1. UNCHANGED routines
    BY <1>5, <1>6, <1>9 DEF HandleEvent
  <2>2. \A m \in Machines : Summoned(m) => Summoned(m)'
    BY <1>7, <1>9 DEF Summoned
  <2>3. QED
    BY <1>3, <2>1, <2>2, SameLeftDue
<1>10. QED
  BY <1>8, <1>9

\* What an output tells stays until it is read.
LEMMA TellsMore ==
  ASSUME RoutinesOK, NEW p \in Machines, NEW t, NEW s, Tells(p, t, s), NEW m
  PROVE  /\ (\E x \in Machines : Bears(out[x].effects, m)) \/ Bears(t, m)
              => \E x \in Machines : Bears(out'[x].effects, m)
         /\ (\E x \in Machines : m \in Range(out[x].woke)) \/ m \in Range(s)
              => \E x \in Machines : m \in Range(out'[x].woke)
<1>1. /\ t \in Seq(GoodEffect) /\ s \in Seq(Machines)
      /\ out[p].effects \in Seq(GoodEffect) /\ out[p].woke \in Seq(Machines)
  BY DEF Tells, RoutinesOK, OutOK, Outs
<1>2. /\ out'[p].effects = out[p].effects \o t
      /\ out'[p].woke = out[p].woke \o s
      /\ \A x \in Machines : x # p => out'[x] = out[x]
  BY DEF Tells
<1>3. Bears(out[p].effects, m) \/ Bears(t, m) => Bears(out'[p].effects, m)
  BY <1>1, <1>2, BearsMore
<1>4. m \in Range(out[p].woke) \/ m \in Range(s) => m \in Range(out'[p].woke)
  <2>1. \A y : y \in Range(out[p].woke) \/ y \in Range(s) => y \in Range(out[p].woke \o s)
    BY <1>1, WokeJoined, Zenon
  <2>2. QED
    BY <1>2, <2>1
<1>5. QED
  BY <1>2, <1>3, <1>4

LEMMA JavaPollDue ==
  ASSUME RoutinesOK, Asking, JavaDues, NEW p \in Machines, PollStep(p),
         UNCHANGED <<machines, job, batch, inbox>>
  PROVE  JavaDues'
<1>1. PICK t, s : Tells(p, t, s)
  BY PollTells
<1>2. \A m : Summoned(m)' <=> Summoned(m)
  BY DEF Summoned
<1>3. \A w \in WorkerIds : Left(w)' = Left(w)
  BY DEF Left
<1>4. ASSUME NEW m \in Machines PROVE
        /\ Borne(m) \/ Bears(t, m) => Borne(m)'
        /\ Waking(m) \/ m \in Range(s) => Waking(m)'
  BY <1>1, <1>3, TellsMore DEF Borne, Waking
<1>5. ASSUME NEW m \in Machines PROVE JavaDue(m)'
  <2>1. ASSUME life'[m] = "new" PROVE Summoned(m)' \/ Borne(m)'
    <3>1. life[m] = "new" \/ Bears(t, m)
      BY <1>1, <2>1 DEF Tells
    <3>2. QED
      BY <1>2, <1>4, <3>1 DEF JavaDues, JavaDue
  <2>2. ASSUME Roused(m)' PROVE Summoned(m)' \/ Waking(m)'
    <3>1. life[m] \in {"polling", "yielded", "waiting"}
      <4>1. CASE m = p
        BY <4>1, PollProgress DEF Progress, PollsOn
      <4>2. CASE m # p
        BY <2>2, <4>2, PollRests DEF RestsAll, Roused
      <4>3. QED
        BY <4>1, <4>2
    <3>2. woken[m] \/ m \in Range(s)
      BY <1>1, <2>2 DEF Tells, Roused
    <3>3. QED
      BY <1>2, <1>4, <3>1, <3>2 DEF JavaDues, JavaDue, Roused
  <2>3. QED
    BY <2>1, <2>2 DEF JavaDue
<1>6. QED
  BY <1>5 DEF JavaDues

\* What an output tells is in the batch once it is read.
LEMMA TakesBatchDue ==
  ASSUME RoutinesOK, JavaOK, Lived, JavaDues, NEW w \in WorkerIds, TakesBatch(w)
  PROVE  JavaDues'
<1>1. /\ job[w].pc = "call" /\ Reads(job[w].m) /\ Goes(w, "dispatch")
      /\ batch' = [batch EXCEPT ![w] = Frames(out[job[w].m])]
      /\ UNCHANGED <<machines, inbox>> /\ InHand(w) /\ job[w].m \in Machines
  BY DEF TakesBatch, At, known, places, JavaOK, JobsOK, InHand
<1>2. PICK k \in Machines : k = job[w].m
  BY <1>1
<1>3. /\ job'[w].pc = "dispatch" /\ \A x \in WorkerIds : x # w => job'[x] = job[x]
      /\ batch'[w] = Frames(out[k]) /\ \A x \in WorkerIds : x # w => batch'[x] = batch[x]
  BY <1>1, <1>2 DEF Goes, JavaOK, JobsOK, Jobs, BatchOK
<1>4. /\ Others(w) /\ Left(w) = << >> /\ Left(w)' = Frames(out[k])
      /\ \A x \in WorkerIds : x # w => Left(x)' = Left(x)
  BY <1>1, <1>3, NoFrames DEF Others, Left, Entered
<1>5. /\ life' = [life EXCEPT ![k] = IF @ = "returned" THEN "done" ELSE "waiting"]
      /\ life[k] \in {"yielded", "returned"} /\ woken' = woken
      /\ out' = [out EXCEPT ![k] = Nothing]
  BY <1>1, <1>2 DEF Reads
<1>6. /\ life[k] = "returned" => life'[k] = "done"
      /\ life[k] # "returned" => life'[k] = "waiting"
      /\ \A m \in Machines : m # k => life'[m] = life[m] /\ out'[m] = out[m]
      /\ out[k] \in Outs
  BY <1>5 DEF RoutinesOK, LifeOK, OutOK
<1>7. \A m \in Machines : Summoned(m) => Summoned(m)'
  BY <1>1, <1>4, SummonedStays DEF Entered, Summoned
<1>8. ASSUME NEW m \in Machines, Borne(m) PROVE Borne(m)'
  <2>1. CASE \E x \in Machines : Bears(out[x].effects, m)
    <3>1. CASE Bears(out[k].effects, m)
      BY <1>4, <1>6, <3>1, FramesTell DEF Borne
    <3>2. CASE ~Bears(out[k].effects, m)
      BY <1>6, <2>1, <3>2 DEF Borne
    <3>3. QED
      BY <3>1, <3>2
  <2>2. CASE \E x \in WorkerIds : Bears(Left(x), m)
    <3>1. ~Bears(<< >>, m)
      BY DEF Bears
    <3>2. QED
      BY <1>4, <2>2, <3>1 DEF Borne
  <2>3. QED
    BY <1>8, <2>1, <2>2 DEF Borne
<1>9. ASSUME NEW m \in Machines, Waking(m) PROVE Waking(m)'
  <2>1. CASE \E x \in Machines : m \in Range(out[x].woke)
    <3>1. CASE m \in Range(out[k].woke)
      BY <1>4, <1>6, <3>1, FramesTell DEF Waking
    <3>2. CASE ~(m \in Range(out[k].woke))
      BY <1>6, <2>1, <3>2 DEF Waking
    <3>3. QED
      BY <3>1, <3>2
  <2>2. CASE \E x \in WorkerIds : Wakens(Left(x), m)
    <3>1. ~Wakens(<< >>, m)
      BY DEF Wakens
    <3>2. QED
      BY <1>4, <2>2, <3>1 DEF Waking
  <2>3. QED
    BY <1>9, <2>1, <2>2 DEF Waking
<1>10. \A m \in Machines :
           /\ life'[m] = "new" =>
                /\ life[m] = "new"
                /\ Summoned(m) \/ Borne(m) => Summoned(m)' \/ Borne(m)'
           /\ Roused(m)' =>
                /\ Roused(m)
                /\ Summoned(m) \/ Waking(m) => Summoned(m)' \/ Waking(m)'
  BY <1>5, <1>6, <1>7, <1>8, <1>9 DEF Roused
<1>11. QED
  BY <1>10, JavaDueOn

\* A machine that returned has let go of all it held.
Emptied == \A m \in Machines : life[m] \in {"returned", "done"} => ends[m] = {}

LEMMA StepEmptied ==
  ASSUME RoutinesOK, Asking, Emptied, NEW p \in Machines, StepOf(p)
  PROVE  Emptied'
<1>1. CASE PollStep(p)
  <2>1. SUFFICES ASSUME NEW m \in Machines, life'[m] \in {"returned", "done"}
                 PROVE  ends'[m] = {}
    BY DEF Emptied
  <2>2. CASE m = p
    <3>1. life[p] = "polling"
      BY <1>1 DEF PollStep, WriteLine, SpawnChild, SendMessage, Receive, Record, Collect, JoinBoth,
         SelectFirst, DropEnds, Continue, Suspend, Return, Is
    <3>2. ~(life' = life) /\ ~SpawnChild(p) /\ ~Suspend(p)
      BY <2>1, <2>2, <3>1, SpawnIs DEF Suspend, RoutinesOK, LifeOK
    <3>3. Return(p)
      BY <1>1, <3>2 DEF PollStep, WriteLine, SendMessage, Receive, Record, Collect, JoinBoth,
         SelectFirst, DropEnds, Continue
    <3>4. QED
      BY <2>2, <3>3 DEF Return, RoutinesOK, EndsOK
  <2>3. CASE m # p
    <3>1. life'[m] = life[m]
      BY <1>1, <2>1, <2>3, PollRests DEF RestsAll
    <3>2. ends[m] = {} /\ life[m] # "none"
      BY <2>1, <3>1 DEF Emptied
    <3>3. ends'[m] \subseteq ends[m] \/ (life[m] = "none")
      <4>1. CASE SpawnChild(p)
        <5>1. PICK c \in Machines : /\ life[c] = "none"
                                   /\ \A x \in Machines : x # p /\ x # c => ends'[x] = ends[x]
          BY <4>1, SpawnIs
        <5>2. QED
          BY <2>3, <3>2, <5>1
      <4>2. CASE ~SpawnChild(p)
        BY <1>1, <2>3, <4>2 DEF PollStep, WriteLine, SendMessage, Receive, Record, Collect,
           JoinBoth, SelectFirst, DropEnds, Continue, Suspend, Return, RoutinesOK, EndsOK
      <4>3. QED
        BY <4>1, <4>2
    <3>4. QED
      BY <3>2, <3>3
  <2>4. QED
    BY <2>2, <2>3
<1>2. CASE CallOf(p)
  <2>1. \A m \in Machines : ends'[m] = ends[m] \/ ends'[m] = {}
    BY <1>2 DEF CallOf, Resumes, Replies, Reads, Kills, routines, RoutinesOK, EndsOK
  <2>2. \A m \in Machines : life'[m] \in {"returned", "done"} => life[m] \in {"returned", "done"}
    BY <1>2 DEF CallOf, Resumes, Replies, Reads, Kills, routines, RoutinesOK, LifeOK
  <2>3. QED
    BY <2>1, <2>2 DEF Emptied
<1>3. CASE AnswerOf(p)
  BY <1>3 DEF AnswerOf, Delivers, Emptied
<1>4. CASE Finished
  BY <1>4 DEF Finished, Emptied
<1>5. QED
  BY <1>1, <1>2, <1>3, <1>4 DEF StepOf

\* A machine that ends is freed, and nobody hears of it.
LEMMA EndDue ==
  ASSUME RoutinesOK, JavaOK, Placed, Lived, Emptied, JavaDues, NEW w \in WorkerIds, End(w)
  PROVE  JavaDues'
<1>1. /\ job[w].pc = "end" /\ Goes(w, "settle") /\ UNCHANGED <<batch, inbox>>
      /\ InHand(w) /\ job[w].m \in Machines
  BY DEF End, At, places, JavaOK, JobsOK, InHand
<1>2. PICK k \in Machines : k = job[w].m
  BY <1>1
<1>3. /\ job'[w].pc = "settle" /\ \A x \in WorkerIds : x # w => job'[x] = job[x]
  BY <1>1 DEF Goes, JavaOK, JobsOK, Jobs
<1>4. Others(w) /\ \A x \in WorkerIds : Left(x)' = Left(x)
  BY <1>1, <1>3 DEF Others, Left, Entered
<1>5. CASE life[k] = "done"
  <2>1. machines' = machines \ {k} /\ Kills(k)
    BY <1>2, <1>5 DEF End
  <2>2. ends[k] = {}
    BY <1>5 DEF Emptied
  <2>3. Hears(k, ends[k]) = {}
    BY <2>2 DEF Hears, Closes
  <2>4. /\ out' = out /\ life'[k] = "dropped"
        /\ \A m \in Machines : m # k => life'[m] = life[m]
        /\ \A m \in Machines : woken'[m] <=> woken[m]
    BY <2>1, <2>3 DEF Kills, RoutinesOK, LifeOK, OutOK
  <2>5. \A m \in Machines : m # k /\ Summoned(m) => Summoned(m)'
    BY <1>1, <1>4, <2>1, SummonedStays DEF Entered, Summoned
  <2>6. \A m \in Machines :
           /\ life'[m] = "new" =>
                /\ life[m] = "new"
                /\ Summoned(m) \/ Borne(m) => Summoned(m)' \/ Borne(m)'
           /\ Roused(m)' =>
                /\ Roused(m)
                /\ Summoned(m) \/ Waking(m) => Summoned(m)' \/ Waking(m)'
    BY <1>4, <2>4, <2>5 DEF Roused, Borne, Waking
  <2>7. QED
    BY <2>6, JavaDueOn
<1>6. CASE life[k] # "done"
  <2>1. UNCHANGED routines /\ machines' = machines
    BY <1>2, <1>6 DEF End
  <2>2. \A m \in Machines : Summoned(m) => Summoned(m)'
    BY <1>1, <1>4, <2>1, SummonedStays DEF Entered, Summoned
  <2>3. QED
    BY <1>4, <2>1, <2>2, SameLeftDue
<1>7. QED
  BY <1>5, <1>6

\* Whatever the Java host does, whom it owes a resume is in its hands.
LEMMA JavaStepDue ==
  ASSUME AllOK, Placed, Javan, Emptied, JavaDues, Parallel
  PROVE  JavaDues'
<1>0. RoutinesOK /\ JavaOK /\ Lived /\ Asking
  BY DEF AllOK, TypesOK, Javan, Polls
<1>1. CASE \E w \in WorkerIds : Works(w)
  <2>1. PICK w \in WorkerIds : Work(w)
    BY <1>1 DEF Works
  <2>2. CASE Poll(w)
    <3>1. PollStep(job[w].m) /\ UNCHANGED <<machines, job, batch, inbox>> /\ job[w].m \in Machines
      BY <1>0, <2>2 DEF Poll, At, java, known, places, JavaOK, JobsOK, InHand
    <3>2. QED
      BY <1>0, <3>1, JavaPollDue
  <2>3. QED
    BY <1>0, <2>1, <2>2, TakeDue, DrainDue, JavaHandleDue, TakesBatchDue, ReadsDue, CountDue,
       QueuesDue, DispatchDue, EndDue DEF Work
<1>2. CASE Tasks
  BY <1>0, <1>2, TaskDue DEF Tasks
<1>3. CASE Quiet
  <2>1. UNCHANGED routines /\ UNCHANGED <<machines, job, batch, inbox>>
    BY <1>3 DEF Quiet, Decide, known, places
  <2>2. /\ \A m \in Machines : Summoned(m) => Summoned(m)'
        /\ \A w \in WorkerIds : Left(w)' = Left(w)
    BY <2>1 DEF Summoned, Left
  <2>3. QED
    BY <2>1, <2>2, SameLeftDue
<1>4. QED
  BY <1>1, <1>2, <1>3 DEF Parallel, JavaNext

-----------------------------------------------------------------------------
(* The Java host's verdict                                                  *)

\* Requests have numbers of their own: none is taken for a resume.
Numbers(s) == \A i \in 1 .. Len(s) : s[i].kind \in Asks => s[i].id # 0
AllNumbered ==
  /\ \A r \in DOMAIN tasks : r[2] # 0
  /\ \A m \in Machines : Numbers(out[m].effects)
  /\ \A w \in WorkerIds : Numbers(batch[w])

LEMMA NumbersLess ==
  ASSUME NEW s \in Seq(Framed), s # << >>, Numbers(s)
  PROVE  Numbers(Tail(s)) /\ (Head(s).kind \in Asks => Head(s).id # 0)
<1> DEFINE t == Tail(s)
           h == Head(s)
<1>1. /\ s[1] = h /\ Len(s) \in Nat /\ Len(s) >= 1
      /\ Len(t) = Len(s) - 1 /\ \A i \in 1 .. Len(t) : t[i] = s[i + 1]
  BY TailIs
<1> HIDE DEF t, h
<1>2. \A i \in 1 .. Len(t) : i + 1 \in 1 .. Len(s)
  BY <1>1
<1>3. Numbers(t)
  BY <1>1, <1>2 DEF Numbers
<1>4. h.kind \in Asks => h.id # 0
  BY <1>1 DEF Numbers
<1>5. QED
  BY <1>3, <1>4 DEF t, h

\* A step that asks the host nothing new.
LEMMA NumbersRest ==
  ASSUME JavaOK, AllNumbered, DOMAIN tasks' \subseteq DOMAIN tasks,
         \A m \in Machines : out'[m].effects = out[m].effects \/ out'[m].effects = << >>,
         \A w \in WorkerIds :
           \/ batch'[w] = batch[w] \/ Numbers(batch'[w])
           \/ batch[w] # << >> /\ batch'[w] = Tail(batch[w])
  PROVE  AllNumbered'
<1>1. \A w \in WorkerIds : batch[w] \in Seq(Framed)
  BY DEF JavaOK, BatchOK
<1>2. Numbers(<< >>)
  BY DEF Numbers
<1>3. \A m \in Machines : Numbers(out'[m].effects)
  BY <1>2 DEF AllNumbered
<1>4. \A w \in WorkerIds : Numbers(batch'[w])
  BY <1>1, NumbersLess DEF AllNumbered
<1>5. QED
  BY <1>3, <1>4 DEF AllNumbered, Numbers

LEMMA PollNumbers ==
  ASSUME RoutinesOK, AllNumbered, NEW p \in Machines, PollStep(p), UNCHANGED <<tasks, batch>>
  PROVE  AllNumbered'
<1>1. PICK t : Added(p, t)
  BY PollAdds
<1>2. /\ t \in Seq(GoodEffect) /\ out[p].effects \in Seq(GoodEffect)
      /\ out'[p].effects = out[p].effects \o t
      /\ \A x \in Machines : x # p => out'[x] = out[x]
      /\ minted[p] \in Nat
  BY <1>1 DEF Added, RoutinesOK, OutOK, Outs, MailOK
<1>3. t \in Seq(Framed) /\ out[p].effects \in Seq(Framed)
  BY <1>2, EffectsFramed
<1>4. Numbers(t)
  <2>1. \A i \in 1 .. Len(t) : t[i].id \in Nat
    <3>1. \A i \in 1 .. Len(t) : t[i] \in Framed
      BY <1>3
    <3>2. QED
      BY <3>1 DEF Framed
  <2>2. QED
    BY <1>1, <1>2, <2>1 DEF Added, Minted, Plain, Numbers
<1>5. Numbers(out'[p].effects)
  <2>1. PICK e : e = out[p].effects
    OBVIOUS
  <2>2. PICK u : u = e \o t
    OBVIOUS
  <2>3. Joined(u, e, t)
    BY <1>3, <2>1, <2>2, JoinIs
  <2>4. Numbers(e)
    BY <2>1 DEF AllNumbered
  <2>5. Numbers(u)
    BY <1>4, <2>3, <2>4 DEF Joined, Numbers
  <2>6. QED
    BY <1>2, <2>1, <2>2, <2>5
<1>6. \A m \in Machines : Numbers(out'[m].effects)
  BY <1>2, <1>5 DEF AllNumbered
<1>7. QED
  BY <1>6 DEF AllNumbered, Numbers

LEMMA FramesNumbers ==
  ASSUME NEW o \in Outs, Numbers(o.effects)
  PROVE  Numbers(Frames(o))
<1>1. "closed" \notin Asks /\ "woke" \notin Asks
  BY DEF Asks
<1>2. \A i \in 1 .. Len(Frames(o)) :
        \/ i \in 1 .. Len(o.effects) /\ Frames(o)[i] = o.effects[i]
        \/ Frames(o)[i].kind \in {"closed", "woke"}
  BY FramesHave
<1>3. PICK f : f = Frames(o)
  OBVIOUS
<1>4. QED
  BY <1>1, <1>2, <1>3 DEF Numbers

LEMMA WorkNumbers ==
  ASSUME RoutinesOK, JavaOK, Placed, Javan, AllNumbered, NEW w \in WorkerIds, Work(w)
  PROVE  AllNumbered'
<1>1. CASE Take(w) \/ Drain(w) \/ Settle(w)
  <2>1. tasks' = tasks /\ out' = out /\ batch' = batch
    BY <1>1 DEF Take, Drain, Settle, routines, asking
  <2>2. QED
    BY <2>1, NumbersRest
<1>2. CASE HandleEvent(w)
  <2>1. /\ tasks' = tasks /\ batch' = batch
        /\ out' = out \/ out' = [out EXCEPT ![job[w].m] = Nothing]
    BY <1>2 DEF HandleEvent, Calls, Resumes, Replies, routines
  <2>2. \A m \in Machines : out'[m].effects = out[m].effects \/ out'[m].effects = << >>
    BY <2>1 DEF RoutinesOK, OutOK, Nothing
  <2>3. QED
    BY <2>1, <2>2, NumbersRest
<1>3. CASE Poll(w)
  <2>1. PollStep(job[w].m) /\ UNCHANGED <<tasks, batch>> /\ job[w].m \in Machines
    BY <1>3 DEF Poll, At, java, asking, JavaOK, JobsOK, InHand
  <2>2. QED
    BY <2>1, PollNumbers
<1>4. CASE TakesBatch(w)
  <2>1. /\ job[w].m \in Machines /\ tasks' = tasks /\ out' = [out EXCEPT ![job[w].m] = Nothing]
        /\ batch' = [batch EXCEPT ![w] = Frames(out[job[w].m])]
    BY <1>4 DEF TakesBatch, Reads, At, asking, JavaOK, JobsOK, InHand
  <2>2. PICK o \in Outs : o = out[job[w].m]
    BY <2>1 DEF RoutinesOK, OutOK
  <2>3. batch'[w] = Frames(o) /\ \A x \in WorkerIds : x # w => batch'[x] = batch[x]
    BY <2>1, <2>2 DEF JavaOK, BatchOK
  <2>4. Numbers(Frames(o))
    BY <2>1, <2>2, FramesNumbers DEF AllNumbered
  <2>5. \A m \in Machines : out'[m].effects = out[m].effects \/ out'[m].effects = << >>
    BY <2>1 DEF RoutinesOK, OutOK, Nothing
  <2>6. \A x \in WorkerIds : batch'[x] = batch[x] \/ Numbers(batch'[x])
    BY <2>3, <2>4
  <2>7. QED
    BY <2>1, <2>5, <2>6, NumbersRest
<1>5. CASE WriteOut(w) \/ Cancel(w)
  <2>1. /\ out' = out /\ Dispatched(w) /\ batch[w] # << >> /\ DOMAIN tasks' \subseteq DOMAIN tasks
    BY <1>5 DEF WriteOut, Cancel, At1, routines, asking
  <2>2. \A x \in WorkerIds : batch'[x] = batch[x] \/ (batch[x] # << >> /\ batch'[x] = Tail(batch[x]))
    BY <2>1, DispatchedIs
  <2>3. QED
    BY <2>1, <2>2, NumbersRest
<1>6. CASE CountResume(w) \/ QueueResume(w)
  <2>1. out' = out /\ tasks' = tasks /\ (batch' = batch \/ (Dispatched(w) /\ batch[w] # << >>))
    BY <1>6 DEF CountResume, QueueResume, At1, At, routines, asking, JavaOK, BatchOK
  <2>2. \A x \in WorkerIds : batch'[x] = batch[x] \/ (batch[x] # << >> /\ batch'[x] = Tail(batch[x]))
    BY <2>1, DispatchedIs
  <2>3. QED
    BY <2>1, <2>2, NumbersRest
<1>7. CASE AskTask(w)
  <2>1. PICK f : f = Head(batch[w])
    OBVIOUS
  <2>2. /\ out' = out /\ f.kind \in Asks /\ batch[w] # << >> /\ batch[w] \in Seq(Framed)
        /\ DOMAIN tasks' = DOMAIN tasks \cup {<<job[w].m, f.id>>}
        /\ batch'[w] = Tail(batch[w]) /\ \A x \in WorkerIds : x # w => batch'[x] = batch[x]
    BY <1>7, <2>1, AskTaskIs DEF AskTask, routines
  <2>3. f.id # 0 /\ Numbers(Tail(batch[w]))
    BY <2>1, <2>2, NumbersLess DEF AllNumbered
  <2>4. \A x \in WorkerIds : Numbers(batch'[x])
    BY <2>2, <2>3 DEF AllNumbered
  <2>5. <<job[w].m, f.id>>[2] = f.id
    OBVIOUS
  <2>6. \A r \in DOMAIN tasks' : r[2] # 0
    BY <2>2, <2>3, <2>5 DEF AllNumbered
  <2>7. QED
    BY <2>2, <2>4, <2>6 DEF AllNumbered, Numbers
<1>8. CASE Dispatch(w) \/ QueueSpurious(w) \/ End(w)
  <2>1. /\ out' = out /\ tasks' = tasks
        /\ \/ batch' = batch \/ batch' = [batch EXCEPT ![w] = << >>]
           \/ \E m \in machines : batch' = [batch EXCEPT ![w] = <<Frame("", m)>>]
    BY <1>8 DEF Dispatch, QueueSpurious, End, Kills, routines, asking
  <2>2. ASSUME NEW x \in WorkerIds PROVE batch'[x] = batch[x] \/ Numbers(batch'[x])
    <3>1. Numbers(<< >>)
      BY DEF Numbers
    <3>2. \A m \in machines : Numbers(<<Frame("", m)>>)
      <4>1. SUFFICES ASSUME NEW m \in machines PROVE Numbers(<<Frame("", m)>>)
        OBVIOUS
      <4>2. PICK f : f = Frame("", m)
        OBVIOUS
      <4>3. f.kind \notin Asks
        BY <4>2 DEF Frame, Asks
      <4>4. Numbers(<<f>>)
        BY <4>3 DEF Numbers
      <4>5. QED
        BY <4>2, <4>4
    <3>3. QED
      BY <2>1, <3>1, <3>2 DEF JavaOK, BatchOK
  <2>3. QED
    BY <2>1, <2>2, NumbersRest
<1>9. QED
  BY <1>1, <1>2, <1>3, <1>4, <1>5, <1>6, <1>7, <1>8 DEF Work

LEMMA JavaNumbers ==
  ASSUME AllOK, Placed, Javan, AllNumbered, Parallel
  PROVE  AllNumbered'
<1>0. RoutinesOK /\ JavaOK
  BY DEF AllOK, TypesOK
<1>1. CASE \E w \in WorkerIds : Works(w)
  BY <1>0, <1>1, WorkNumbers DEF Works
<1>2. CASE Tasks \/ Quiet
  <2>1. out' = out /\ batch' = batch /\ DOMAIN tasks' \subseteq DOMAIN tasks
    BY <1>2 DEF Tasks, Task, PerformTask, CountReply, QueueReply, Quiet, Decide, routines, asking
  <2>2. QED
    BY <1>0, <2>1, NumbersRest
<1>3. QED
  BY <1>1, <1>2 DEF Parallel, JavaNext

\* A request whose count was given back is not wanted any more.
Parted == settled \cap inFlight = {}

LEMMA JavaParts ==
  ASSUME AllOK, Placed, Fresh, Parted, Parallel
  PROVE  Parted'
<1>0. RoutinesOK /\ JavaOK
  BY DEF AllOK, TypesOK
<1>1. CASE \E w \in WorkerIds : Works(w)
  <2>1. PICK w \in WorkerIds : Work(w)
    BY <1>1 DEF Works
  <2>2. CASE Cancel(w)
    BY <2>2 DEF Cancel, Parted
  <2>3. CASE AskTask(w)
    <3>1. PICK r : r = <<job[w].m, Head(batch[w]).id>>
      OBVIOUS
    <3>2. r \notin DOMAIN tasks /\ inFlight' = inFlight \cup {r} /\ settled' = settled
      BY <1>0, <2>3, <3>1, FreshAsks DEF AskTask
    <3>3. QED
      BY <1>0, <3>2 DEF Parted, JavaOK, TasksOK
  <2>4. CASE ~Cancel(w) /\ ~AskTask(w)
    <3>1. settled' = settled /\ inFlight' \subseteq inFlight
      BY <2>1, <2>4 DEF Work, Take, Drain, HandleEvent, Poll, TakesBatch, WriteOut, CountResume,
         QueueResume, Dispatch, QueueSpurious, End, Settle, asking, java
    <3>2. QED
      BY <3>1 DEF Parted
  <2>5. QED
    BY <2>2, <2>3, <2>4
<1>2. CASE Tasks \/ Quiet
  <2>1. settled' \subseteq settled /\ inFlight' = inFlight
    BY <1>2 DEF Tasks, Task, PerformTask, CountReply, QueueReply, Quiet, Decide, asking
  <2>2. QED
    BY <2>1 DEF Parted
<1>3. QED
  BY <1>1, <1>2 DEF Parallel, JavaNext

\* After the verdict only cancelled tasks go on, and replies nobody wants.
Resting == {"idle", "drain", "handle", "settle"}
Idled(m, e) == e # ResumeEvent /\ <<m, e.id>> \notin inFlight
Quieted ==
  /\ Calm
  /\ \A w \in WorkerIds : job[w].pc \in Resting
  /\ \A w \in WorkerIds : job[w].pc = "handle" => Idled(job[w].m, job[w].event)
  /\ \A m \in Machines : \A i \in 1 .. Len(inbox[m]) : Idled(m, inbox[m][i])
  /\ DOMAIN tasks \cap inFlight = {}

\* The count is zero: nothing is queued, handled, added or answered, and no
\* task is wanted.
LEMMA NothingCounts ==
  ASSUME Counted, JavaOK, pending = 0
  PROVE  /\ \A m \in Machines : inbox[m] = << >>
         /\ \A w \in WorkerIds : job[w].pc \in {"idle", "drain"}
         /\ DOMAIN tasks \subseteq settled
<1> DEFINE Q == QueuedIn(inbox)
           H == HandlingIn(job)
           A == AddingIn(job)
           R == ReplyingIn(tasks)
           U == DOMAIN tasks \ settled
<1>1. CountIs(pending, Q, H, A, R, U)
  BY DEF Counted
<1>2. inbox \in [Machines -> Seq(Events)]
  BY DEF JavaOK, PlacesOK
<1> HIDE DEF Q, H, A, R, U
<1>3. /\ Cardinality(Q) \in Nat /\ Cardinality(H) \in Nat /\ Cardinality(A) \in Nat
      /\ Cardinality(R) \in Nat /\ Cardinality(U) \in Nat
  BY <1>1, FS_CardinalityType DEF CountIs
<1>4. Cardinality(Q) = 0 /\ Cardinality(H) = 0 /\ Cardinality(U) = 0
  BY <1>1, <1>3 DEF CountIs
<1>5. Q = {} /\ H = {} /\ U = {}
  BY <1>1, <1>4, FS_EmptySet DEF CountIs
<1>6. ASSUME NEW m \in Machines PROVE inbox[m] = << >>
  <2>1. inbox[m] \in Seq(Events) /\ Len(inbox[m]) \in Nat
    BY <1>2
  <2>2. CASE Len(inbox[m]) # 0
    <3>1. 1 \in 1 .. Len(inbox[m])
      BY <2>1, <2>2
    <3>2. <<m, 1>> \in Q
      BY <1>2, <3>1, QueuedHas DEF Q
    <3>3. QED
      BY <1>5, <3>2
  <2>3. QED
    BY <2>1, <2>2
<1>7. \A w \in WorkerIds : job[w].pc \in {"idle", "drain"}
  BY <1>5 DEF H, HandlingIn
<1>8. DOMAIN tasks \subseteq settled
  BY <1>5 DEF U
<1>9. QED
  BY <1>6, <1>7, <1>8

LEMMA DecideQuiets ==
  ASSUME AllOK, Counted, Javan, Listening, Heeding, Parted, JavaDues, host = "java", Decide
  PROVE  Quieted'
<1>0. RoutinesOK /\ JavaOK /\ Lived /\ Yielded
  BY DEF AllOK, TypesOK, Javan, Polls
<1>1. /\ \A m \in Machines : inbox[m] = << >>
      /\ \A w \in WorkerIds : job[w].pc \in {"idle", "drain"}
      /\ DOMAIN tasks \subseteq settled
  BY <1>0, NothingCounts DEF Decide
<1>2. \A m \in Machines : life[m] \notin Mid
  <2>1. SUFFICES ASSUME NEW m \in Machines, life[m] \in Mid PROVE FALSE
    OBVIOUS
  <2>2. m \in machines /\ ~Pollable(m)
    BY <1>0, <2>1 DEF Lived, Mid, Pollable
  <2>3. QED
    BY <1>0, <1>1, <2>2 DEF Lived, Holds, Holding
<1>3. \A w \in WorkerIds : Left(w) = << >>
  BY <1>0, <1>1, NoFrames
<1>4. \A m : ~Summoned(m)
  BY <1>0, <1>1 DEF Summoned, Entered, JavaOK, KnownOK
<1>5. \A m : ~Borne(m) /\ ~Waking(m)
  <2>1. \A x \in Machines : out[x].effects = << >> /\ out[x].woke = << >>
    BY <1>0, <1>2 DEF Yielded, Nothing
  <2>2. QED
    BY <1>3, <2>1 DEF Borne, Waking, Bears, Wakens, Range
<1>6. Calm
  <2>1. SUFFICES ASSUME NEW m \in Machines, CanGo(m) PROVE FALSE
    BY <1>2 DEF Calm
  <2>2. life[m] = "new" \/ Roused(m)
    BY <2>1, GoersAre DEF Natives
  <2>3. QED
    BY <1>4, <1>5, <2>2 DEF JavaDues, JavaDue
<1>7. UNCHANGED <<routines, inbox, job, tasks, inFlight>>
  BY DEF Decide, places, asking
<1>8. Calm'
  BY <1>6, <1>7, CalmStays
<1>9. DOMAIN tasks \cap inFlight = {}
  BY <1>1 DEF Parted
<1>10. QED
  BY <1>1, <1>7, <1>8, <1>9 DEF Quieted, Resting

\* A reply that is not wanted is queued.
LEMMA ReplyRests ==
  ASSUME JavaOK, AllNumbered, Quieted, NEW r \in DOMAIN tasks, Task(r)
  PROVE  Quieted'
<1>1. UNCHANGED <<routines, job, inFlight>> /\ DOMAIN tasks' \subseteq DOMAIN tasks
  BY DEF Task, PerformTask, CountReply, QueueReply, known
<1>2. Calm'
  BY <1>1, CalmStays DEF Quieted
<1>3. \A m \in Machines : \A i \in 1 .. Len(inbox'[m]) : Idled(m, inbox'[m][i])
  <2>1. CASE inbox' = inbox
    BY <2>1 DEF Quieted
  <2>2. CASE QueueReply(r)
    <3>1. r \in Requests /\ tasks[r].n \in Int
      BY DEF JavaOK, TasksOK, TaskOf
    <3>2. PICK k \in Machines, id \in Nat : r = <<k, id>>
      BY <3>1 DEF Requests
    <3>3. PICK e : e = [id |-> id, n |-> tasks[r].n]
      OBVIOUS
    <3>4. e \in Events /\ e.id = id /\ id # 0
      BY <3>1, <3>2, <3>3 DEF Events, AllNumbered
    <3>5. Idled(k, e)
      <4>1. e # ResumeEvent
        BY <3>4 DEF ResumeEvent
      <4>2. <<k, id>> \notin inFlight
        BY <3>2 DEF Quieted
      <4>3. QED
        BY <3>4, <4>1, <4>2 DEF Idled
    <3>6. inbox' = [inbox EXCEPT ![k] = Append(@, e)]
      BY <2>2, <3>2, <3>3 DEF QueueReply, Queue
    <3>7. /\ inbox'[k] = Append(inbox[k], e) /\ inbox[k] \in Seq(Events)
          /\ \A x \in Machines : x # k => inbox'[x] = inbox[x]
      BY <3>6 DEF JavaOK, PlacesOK
    <3>8. /\ Len(inbox'[k]) = Len(inbox[k]) + 1 /\ Len(inbox[k]) \in Nat
          /\ inbox'[k][Len(inbox[k]) + 1] = e
          /\ \A i \in 1 .. Len(inbox[k]) : inbox'[k][i] = inbox[k][i]
      BY <3>4, <3>7
    <3>9. \A i \in 1 .. Len(inbox'[k]) : Idled(k, inbox'[k][i])
      <4> TAKE i \in 1 .. Len(inbox'[k])
      <4>1. i \in 1 .. Len(inbox[k]) \/ i = Len(inbox[k]) + 1
        BY <3>8
      <4>2. QED
        BY <3>5, <3>8, <4>1 DEF Quieted
    <3>10. QED
      BY <3>7, <3>9 DEF Quieted
  <2>3. QED
    BY <2>1, <2>2 DEF Task, PerformTask, CountReply, places
<1>4. QED
  BY <1>1, <1>2, <1>3 DEF Quieted, Idled

LEMMA WorkSettles ==
  ASSUME JavaOK, Quieted, NEW w \in WorkerIds, Work(w)
  PROVE  Quieted'
<1>1. job[w].pc \in Resting
  BY DEF Quieted
<1>2. Take(w) \/ Drain(w) \/ HandleEvent(w) \/ Settle(w)
  BY <1>1 DEF Work, Resting, Poll, TakesBatch, WriteOut, CountResume, QueueResume, Cancel, AskTask,
     Dispatch, QueueSpurious, End, At1, At
<1>3. CASE Take(w) \/ Settle(w)
  <2>1. /\ UNCHANGED <<routines, inbox, tasks, inFlight>>
        /\ job'[w].pc \in {"idle", "drain"} /\ \A x \in WorkerIds : x # w => job'[x] = job[x]
    BY <1>3 DEF Take, Settle, Goes, places, asking, JavaOK, JobsOK, Jobs
  <2>2. Calm'
    BY <2>1, CalmStays DEF Quieted
  <2>3. QED
    BY <2>1, <2>2 DEF Quieted, Resting, Idled
<1>4. CASE Drain(w)
  <2>1. /\ UNCHANGED <<routines, tasks, inFlight>> /\ job[w].m \in Machines
    BY <1>4 DEF Drain, At, asking, JavaOK, JobsOK, InHand
  <2>2. Calm'
    BY <2>1, CalmStays DEF Quieted
  <2>3. PICK k \in Machines : k = job[w].m
    BY <2>1
  <2>4. CASE inbox[k] = << >>
    <3>1. inbox' = inbox /\ job' = [job EXCEPT ![w] = Idle]
      BY <1>4, <2>3, <2>4 DEF Drain
    <3>2. job'[w].pc = "idle" /\ \A x \in WorkerIds : x # w => job'[x] = job[x]
      BY <3>1 DEF JavaOK, JobsOK, Idle
    <3>3. \A x \in WorkerIds : job'[x].pc \in Resting
      BY <3>2 DEF Quieted, Resting
    <3>4. \A x \in WorkerIds : job'[x].pc = "handle" => Idled(job'[x].m, job'[x].event)
      BY <3>2 DEF Quieted
    <3>5. QED
      BY <2>1, <2>2, <3>1, <3>3, <3>4 DEF Quieted, Idled
  <2>5. CASE inbox[k] # << >>
    <3>1. /\ job' = [job EXCEPT ![w].pc = "handle", ![w].event = Head(inbox[k])]
          /\ inbox' = [inbox EXCEPT ![k] = Tail(@)]
      BY <1>4, <2>3, <2>5 DEF Drain
    <3>2. /\ job'[w].pc = "handle" /\ job'[w].m = k /\ job'[w].event = Head(inbox[k])
          /\ \A x \in WorkerIds : x # w => job'[x] = job[x]
      BY <2>3, <3>1 DEF JavaOK, JobsOK, Jobs
    <3>3. PICK q \in Seq(Events) : q = inbox[k] /\ q # << >>
      BY <2>5 DEF JavaOK, PlacesOK
    <3>4. /\ inbox'[k] = Tail(q) /\ \A x \in Machines : x # k => inbox'[x] = inbox[x]
      BY <3>1, <3>3 DEF JavaOK, PlacesOK
    <3>5. /\ q[1] = Head(q) /\ Len(q) \in Nat /\ Len(q) >= 1
          /\ Len(Tail(q)) = Len(q) - 1 /\ \A i \in 1 .. Len(Tail(q)) : Tail(q)[i] = q[i + 1]
      BY <3>3, TailIs
    <3>6. \A i \in 1 .. Len(q) : Idled(k, q[i])
      BY <3>3 DEF Quieted
    <3>7. Idled(k, Head(q)) /\ \A i \in 1 .. Len(Tail(q)) : Idled(k, Tail(q)[i])
      <4>1. 1 \in 1 .. Len(q) /\ \A i \in 1 .. Len(Tail(q)) : i + 1 \in 1 .. Len(q)
        BY <3>5
      <4>2. QED
        BY <3>5, <3>6, <4>1
    <3>8. \A m \in Machines : \A i \in 1 .. Len(inbox'[m]) : Idled(m, inbox'[m][i])
      BY <3>4, <3>7 DEF Quieted
    <3>9. \A x \in WorkerIds : job'[x].pc = "handle" => Idled(job'[x].m, job'[x].event)
      BY <3>2, <3>3, <3>7 DEF Quieted
    <3>10. QED
      BY <2>1, <2>2, <3>2, <3>8, <3>9 DEF Quieted, Resting, Idled
  <2>6. QED
    BY <2>4, <2>5
<1>5. CASE HandleEvent(w)
  <2>1. job[w].pc = "handle" /\ Idled(job[w].m, job[w].event)
    BY <1>5 DEF HandleEvent, At, Quieted
  <2>2. Goes(w, "settle") /\ UNCHANGED <<routines, inbox, tasks, inFlight>>
    BY <1>5, <2>1 DEF HandleEvent, Idled, places
  <2>3. job'[w].pc = "settle" /\ \A x \in WorkerIds : x # w => job'[x] = job[x]
    BY <2>2 DEF Goes, JavaOK, JobsOK, Jobs
  <2>4. Calm'
    BY <2>2, CalmStays DEF Quieted
  <2>5. QED
    BY <2>2, <2>3, <2>4 DEF Quieted, Resting, Idled
<1>6. QED
  BY <1>2, <1>3, <1>4, <1>5

\* What makes the Java host's verdict true, and keeps it so.
Concludes ==
  host = "java" =>
    JavaDues /\ AllNumbered /\ Parted /\ (verdict # "running" => Quieted)

LEMMA ConcludesStep ==
  ASSUME Awake, Unrefused, Emptied, Concludes, [Next]_vars
  PROVE  Concludes'
<1>0. /\ AllOK /\ RoutinesOK /\ JavaOK /\ Listening /\ Heeding /\ Placed /\ Counted
      /\ host' = host /\ (host = "java" => Parallel \/ UNCHANGED vars)
  BY HostStays DEF Awake, Scheduled, AllOK, TypesOK
<1>1. SUFFICES ASSUME host = "java"
               PROVE  (JavaDues /\ AllNumbered /\ Parted /\ (verdict # "running" => Quieted))'
  BY <1>0 DEF Concludes
<1>2. /\ JavaDues /\ AllNumbered /\ Parted /\ (verdict # "running" => Quieted)
      /\ Javan /\ Fresh
  BY <1>1 DEF Concludes, Unrefused, Awake, Scheduled
<1>3. CASE UNCHANGED vars
  <2>1. UNCHANGED <<routines, machines, job, batch, inbox, tasks, inFlight, settled, verdict>>
    BY <1>3 DEF vars, java, known, places, asking, loop
  <2>2. \A m : Summoned(m)' <=> Summoned(m)
    BY <2>1 DEF Summoned
  <2>3. \A w \in WorkerIds : Left(w)' = Left(w)
    BY <2>1 DEF Left
  <2>4. JavaDues'
    BY <1>2, <2>1, <2>2, <2>3, SameLeftDue
  <2>5. out' = out
    BY <2>1 DEF routines
  <2>6. AllNumbered' /\ Parted'
    BY <1>2, <2>1, <2>5 DEF AllNumbered, Numbers, Parted
  <2>7. Quieted => Quieted'
    <3>1. SUFFICES ASSUME Quieted PROVE Quieted'
      OBVIOUS
    <3>2. Calm'
      BY <2>1, <3>1, CalmStays DEF Quieted
    <3>3. QED
      BY <2>1, <3>1, <3>2 DEF Quieted, Idled
  <2>8. QED
    BY <1>2, <2>1, <2>4, <2>6, <2>7
<1>4. CASE Parallel
  <2>1. JavaDues' /\ AllNumbered' /\ Parted'
    BY <1>0, <1>2, <1>4, JavaStepDue, JavaNumbers, JavaParts
  <2>2. ASSUME verdict' # "running" PROVE Quieted'
    <3>1. CASE Quiet
      BY <1>0, <1>1, <1>2, <3>1, DecideQuiets DEF Quiet
    <3>2. CASE \E w \in WorkerIds : Works(w)
      <4>1. PICK w \in WorkerIds : Work(w)
        BY <3>2 DEF Works
      <4>2. verdict' = verdict
        BY <4>1 DEF Work, Take, Drain, HandleEvent, Poll, TakesBatch, WriteOut, CountResume,
           QueueResume, Cancel, AskTask, Dispatch, QueueSpurious, End, Settle, outcome
      <4>3. QED
        BY <1>0, <1>2, <2>2, <4>1, <4>2, WorkSettles
    <3>3. CASE Tasks
      <4>1. PICK r \in DOMAIN tasks : Task(r)
        BY <3>3 DEF Tasks
      <4>2. verdict' = verdict
        BY <4>1 DEF Task, PerformTask, CountReply, QueueReply, outcome
      <4>3. QED
        BY <1>0, <1>2, <2>2, <4>1, <4>2, ReplyRests
    <3>4. QED
      BY <1>4, <3>1, <3>2, <3>3 DEF Parallel, JavaNext
  <2>3. QED
    BY <2>1, <2>2
<1>5. QED
  BY <1>0, <1>1, <1>3, <1>4

LEMMA ConcludesStart ==
  ASSUME Init
  PROVE  Emptied /\ Concludes
<1>1. RoutinesInit /\ verdict = "running" /\ (host = "java" => JavaInit)
  BY DEF Init, DriveInit, PythonInit, JavaInit, NativeInit, LoopInit
<1>2. Emptied
  BY <1>1 DEF RoutinesInit, Emptied
<1>3. ASSUME host = "java" PROVE JavaDues /\ AllNumbered /\ Parted
  <2>1. /\ machines = {Root} /\ inbox[Root] = <<ResumeEvent>> /\ Root \in Machines
        /\ tasks = << >> /\ settled = {} /\ batch = [w \in WorkerIds |-> << >>]
    BY <1>1, <1>3, MachinesFinite DEF JavaInit, JavaRest
  <2>2. Summoned(Root)
    <3>1. Len(inbox[Root]) = 1 /\ inbox[Root][1] = ResumeEvent
      BY <2>1
    <3>2. QED
      BY <2>1, <3>1 DEF Summoned
  <2>3. JavaDues
    BY <1>1, <2>2 DEF RoutinesInit, JavaDues, JavaDue, Roused
  <2>4. AllNumbered
    <3>1. Numbers(<< >>)
      BY DEF Numbers
    <3>2. \A m \in Machines : out[m].effects = << >>
      BY <1>1 DEF RoutinesInit, Nothing
    <3>3. DOMAIN tasks = {} /\ \A w \in WorkerIds : batch[w] = << >>
      BY <2>1
    <3>4. QED
      BY <3>1, <3>2, <3>3 DEF AllNumbered
  <2>5. QED
    BY <2>1, <2>3, <2>4 DEF Parted
<1>4. QED
  BY <1>1, <1>2, <1>3 DEF Concludes

\* Every host's verdict is true: when it is given, no machine is in a call or
\* could go on, so no wake, answer or child was lost on the way to its loop or
\* to one of its threads, and what the Java host's workers still do after it
\* starts nothing.
THEOREM VerdictsAreTrue == Spec => []VerdictIsTrue
<1>1. /\ Init => Awake /\ Unheard /\ Counts /\ Past /\ Still
      /\ Init => Unrefused /\ Emptied /\ Concludes
  BY AwakeStart, StillStart, UnrefusedStart, ConcludesStart
<1>2. ASSUME Awake, Unheard, Counts, Past, Still, Unrefused, Emptied, Concludes, [Next]_vars
      PROVE  /\ (Awake /\ Unheard /\ Counts /\ Past /\ Still)'
             /\ (Unrefused /\ Emptied /\ Concludes)'
  <2>1. AllOK /\ Asking /\ RoutinesOK
    BY <1>2 DEF Awake, Scheduled, AllOK, TypesOK
  <2>2. PICK p \in Machines : StepOf(p)
    BY <1>2, <2>1, StepsAre
  <2>3. Past' /\ Emptied'
    BY <1>2, <2>1, <2>2, StepPast, StepEmptied
  <2>4. QED
    BY <1>2, <2>1, <2>3, AwakeStep, UnheardStep, CountsStep, StillStep, UnrefusedStep,
       ConcludesStep
<1>3. Still /\ Concludes => VerdictIsTrue
  BY VerdictIs DEF Still, Concludes, Quieted
<1>4. QED
  BY <1>1, <1>2, <1>3, PTL DEF Spec

=============================================================================
