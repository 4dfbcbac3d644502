------------------------------ MODULE TestHost ------------------------------
(***************************************************************************)
(* The core's test runner, drive_with (sans-effort-core/src/testing.rs),   *)
(* under Fifo and under Choices, crashing or not (testing/schedule.rs),    *)
(* with the handler demo/driven/boundary/src/lib.rs gives it.              *)
(*                                                                         *)
(* A turn of its loop takes the machines that woke; then it kills one, or  *)
(* resumes one spuriously, or takes one ready action.                      *)
(* Choices decides by a stream of bytes: any choice, until the bounds.     *)
(***************************************************************************)
EXTENDS HostLoop

DriveInit ==
  /\ LoopInit
  /\ host \in {"fifo", "choices"}
  /\ queue = <<ResumeOf(Root)>>

Driving == host \in {"fifo", "choices"} /\ AtLoop

\* World::machines: adopted, and not killed since.
Adopted == {m \in Machines :
              /\ life[m] \notin {"none", "dropped"}
              /\ \/ m = Root
                 \/ life[m] # "new"
                 \/ \E i \in DOMAIN queue : queue[i] = ResumeOf(m)}

\* The queue with a resume for each machine that woke and has none there.
Taken ==
  LET taken[i \in 0 .. Len(heard)] ==
        IF i = 0 THEN queue
        ELSE LET before == taken[i - 1]
             IN IF ResumeOf(heard[i]) \in Range(before) THEN before
                ELSE Append(before, ResumeOf(heard[i]))
  IN taken[Len(heard)]

\* Faulty: the machine's wakers are not heard when it is dropped.
KillSilently ==
  /\ Driving /\ host = "choices"
  /\ Cardinality(killed) < MaxKills
  /\ \E m \in Adopted :
       /\ Kills(m)
       /\ killed' = IF life[m] = "done" THEN killed ELSE killed \cup {m}
       /\ timers' = Only(timers, {t \in Timer : t.m # m})
       /\ heard' = << >>
       /\ queue' = Taken
  /\ UNCHANGED <<host, phase, now, closed, world, written, stutters, refused,
                 verdict>>

\* Faulty: a killed machine's timers are kept and its effects forgotten.
KillWithEffects ==
  /\ Driving /\ host = "choices"
  /\ Cardinality(killed) < MaxKills
  /\ \E m \in Adopted :
       /\ Kills(m)
       /\ killed' = IF life[m] = "done" THEN killed ELSE killed \cup {m}
       /\ heard' = Hooked(Hears(m, ends[m]))
       /\ queue' = Only(Taken, {a \in Item : a.m # m})
  /\ UNCHANGED <<host, phase, timers, now, closed, world, written, stutters,
                 refused, verdict>>

\* A machine is dropped with its timers; what it had recorded goes on.
Kill ==
  /\ Driving /\ host = "choices"
  /\ Cardinality(killed) < MaxKills
  /\ \E m \in Adopted :
       /\ Kills(m)
       /\ killed' = IF life[m] = "done" THEN killed ELSE killed \cup {m}
       /\ timers' = Only(timers, {t \in Timer : t.m # m})
       /\ heard' = Hooked(Hears(m, ends[m]))
       /\ queue' = Taken
  /\ UNCHANGED <<host, phase, now, closed, world, written, stutters, refused,
                 verdict>>

\* A spurious resume.
Stutter ==
  /\ Driving /\ host = "choices"
  /\ stutters < MaxStutters
  /\ \E m \in Adopted : Resumes(m)
  /\ stutters' = stutters + 1
  /\ queue' = Taken
  /\ heard' = << >>
  /\ UNCHANGED <<host, phase, timers, now, closed, world, written, killed, refused,
                 verdict>>

\* The poll's effects join the queue.
Yields ==
  /\ host \in {"fifo", "choices"}
  /\ \E m \in Machines :
       /\ Reads(m)
       /\ queue' = queue \o [i \in DOMAIN out[m].effects |->
                               EffectOf(m, out[m].effects[i])]
       /\ heard' = heard \o out[m].woke
  /\ UNCHANGED <<host, phase, timers, now, closed, world, written, killed,
                 stutters, refused, verdict>>

\* Faulty: effects of one machine may be handled in any order.
AnyEffect(q) == DOMAIN q

\* The ready actions, by index: not an effect behind an older one of the
\* same machine.
Eligible(q) ==
  {i \in DOMAIN q :
     q[i].kind = "effect" =>
       \A j \in 1 .. i - 1 : ~(q[j].kind = "effect" /\ q[j].m = q[i].m)}

\* This turn's choice.
Choosable == IF host = "fifo" THEN {1} ELSE Eligible(Taken)

Turned == phase' = "top" /\ heard' = << >>

\* This handler counts nobody.
HandlerAnswer(e) == IF e.kind = "count" THEN 0 ELSE AnswerTo(world, e)

\* The handler: answers queued, sleeps on a timer, children begun, lines
\* written.
Handle ==
  /\ Driving
  /\ Taken # << >>
  /\ \E i \in Choosable :
       LET a == Taken[i]
           e == a.effect
           rest == RemoveAt(Taken, i)
       IN /\ a.kind = "effect"
          /\ world' = WorldAfter(world, e)
          /\ written' = IF e.kind = "write"
                          THEN Append(written, Line(e.text, e.n)) ELSE written
          /\ timers' = IF e.kind \in Sleeps
                         THEN Append(timers, [due |-> now + Delay(e.kind),
                                              m |-> a.m, effect |-> e])
                         ELSE timers
          /\ queue' =
               CASE e.kind \in Asks \ Sleeps ->
                      Append(rest, ReplyTo(a.m, e, HandlerAnswer(e)))
                 [] e.kind \in {"spawned", "spawned_pinned"} ->
                      Append(rest, ResumeOf(e.id))
                 [] OTHER -> rest
  /\ Turned
  /\ UNCHANGED <<routines, host, now, closed, killed, stutters, refused,
                 verdict>>

\* A reply or a resume: nothing for a machine killed or complete, or a
\* request nobody awaits any more.
Deliver(a) ==
  LET m == a.m
      id == a.effect.id
  IN IF Pollable(m) /\ (a.kind = "reply" => Open(m, id))
       THEN IF a.kind = "reply" THEN Replies(m, id, a.n) ELSE Resumes(m)
       ELSE UNCHANGED routines

Call ==
  /\ Driving
  /\ Taken # << >>
  /\ \E i \in Choosable :
       /\ Taken[i].kind # "effect"
       /\ Deliver(Taken[i])
       /\ queue' = RemoveAt(Taken, i)
  /\ Turned
  /\ UNCHANGED <<host, timers, now, closed, world, written, killed, stutters,
                 refused, verdict>>

\* Nothing is ready: the clock jumps to the timer due first.
Fire ==
  /\ Driving
  /\ Taken = << >>
  /\ timers # << >>
  /\ LET t == timers[NextTimer]
     IN /\ Deliver(ReplyTo(t.m, t.effect, 0))
        /\ now' = IF t.due > now THEN t.due ELSE now
        /\ timers' = RemoveAt(timers, NextTimer)
  /\ Turned
  /\ UNCHANGED <<host, queue, closed, world, written, killed, stutters,
                 refused, verdict>>

\* No timer either: the end, or a stall.
Judge ==
  /\ Driving
  /\ Taken = << >> /\ timers = << >>
  /\ verdict' = IF Stuck = {} THEN "completed" ELSE "stalled"
  /\ Turned
  /\ UNCHANGED <<routines, host, queue, timers, now, closed, world, written,
                 killed, stutters, refused>>

DriveNext == Kill \/ Stutter \/ Yields \/ Handle \/ Call \/ Fire \/ Judge

=============================================================================
