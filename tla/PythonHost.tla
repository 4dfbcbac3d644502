----------------------------- MODULE PythonHost -----------------------------
(***************************************************************************)
(* The host of demo/driven/python/main.py: one thread, the C ABI, every    *)
(* machine by handle.  Effects and woke frames wait in one queue; a closed *)
(* frame is noted at once.  With --seed the next action comes from a lane  *)
(* chosen at random, after perhaps a spurious resume, and replies wait for *)
(* a later turn; without, it is the oldest and an ask is answered on the   *)
(* spot.                                                                   *)
(*                                                                         *)
(* A call the table would refuse raises, which ends the run: `refused`.    *)
(* No wake happens outside a call here, since nothing is freed: `wakes`    *)
(* has nothing to report, and is left out.                                 *)
(***************************************************************************)
EXTENDS HostLoop

PythonInit ==
  /\ LoopInit
  /\ host \in {"plain", "seeded"}
  /\ queue = <<ResumeOf(Root)>>

Serving == host \in {"plain", "seeded"} /\ AtLoop /\ ~refused

\* `machines`: the handles called at least once.
Known == {m \in Machines : life[m] \in {"waiting", "done"}}

\* `ran`: effects and then woke frames queue up, closed ids are noted.
Ran ==
  /\ host \in {"plain", "seeded"}
  /\ \E m \in Machines :
       /\ Reads(m)
       /\ queue' = queue
                   \o [i \in DOMAIN out[m].effects |->
                         EffectOf(m, out[m].effects[i])]
                   \o [i \in DOMAIN out[m].woke |->
                         [ResumeOf(out[m].woke[i]) EXCEPT !.lane = m]]
       /\ closed' = closed \cup {<<m, id>> : id \in Range(out[m].closed)}
  /\ UNCHANGED <<host, phase, timers, now, heard, world, written, killed,
                 stutters, refused, verdict>>

\* A spurious resume before the turn of a seeded host.
SeededStutter ==
  /\ Serving /\ phase = "top" /\ host = "seeded"
  /\ queue # << >>
  /\ stutters < MaxStutters
  /\ \E m \in Known : life[m] # "done" /\ Resumes(m)
  /\ stutters' = stutters + 1
  /\ phase' = "pick"
  /\ UNCHANGED <<host, queue, timers, now, heard, closed, world, written,
                 killed, refused, verdict>>

\* `take`: the oldest, or the oldest of any lane; a deferred reply has a lane
\* of its own.
Turn ==
  IF host = "plain" THEN {1} \cap DOMAIN queue
  ELSE {i \in DOMAIN queue :
          queue[i].lane # 0 =>
            \A j \in 1 .. i - 1 : queue[j].lane # queue[i].lane}

\* The routine dropped the request while this waited its turn.
Abandoned(a) ==
  /\ a.kind = "reply" \/ (a.kind = "effect" /\ a.effect.kind \in Asks)
  /\ <<a.m, a.effect.id>> \in closed

Skip ==
  /\ Serving
  /\ \E i \in Turn : Abandoned(queue[i]) /\ queue' = RemoveAt(queue, i)
  /\ phase' = "top"
  /\ UNCHANGED <<routines, host, timers, now, heard, closed, world, written,
                 killed, stutters, refused, verdict>>

\* A line is printed; a sleep is put on the clock.
Note ==
  /\ Serving
  /\ \E i \in Turn :
       LET a == queue[i]
           e == a.effect
       IN /\ a.kind = "effect" /\ ~Abandoned(a)
          /\ \/ /\ e.kind = "write"
                /\ written' = Append(written, Line(e.text, e.n))
                /\ UNCHANGED timers
             \/ /\ e.kind \in Sleeps
                /\ timers' = Append(timers, [due |-> now + Delay(e.kind),
                                            m |-> a.m, effect |-> e])
                /\ UNCHANGED written
          /\ queue' = RemoveAt(queue, i)
  /\ phase' = "top"
  /\ UNCHANGED <<routines, host, now, heard, closed, world, killed, stutters,
                 refused, verdict>>

\* An ask is performed; a seeded host defers its reply to another turn.
Perform ==
  /\ Serving
  /\ \E i \in Turn :
       LET a == queue[i]
           e == a.effect
           answer == AnswerTo(world, e)
           rest == RemoveAt(queue, i)
       IN /\ a.kind = "effect" /\ e.kind \in Asks \ Sleeps /\ ~Abandoned(a)
          /\ world' = WorldAfter(world, e)
          /\ IF host = "seeded"
               THEN /\ queue' = Append(rest, ReplyTo(a.m, e, answer))
                    /\ UNCHANGED <<routines, refused>>
               ELSE /\ queue' = rest
                    /\ IF Pollable(a.m) /\ Open(a.m, e.id)
                         THEN Replies(a.m, e.id, answer) /\ UNCHANGED refused
                         ELSE UNCHANGED routines /\ refused' = TRUE
  /\ phase' = "top"
  /\ UNCHANGED <<host, timers, now, heard, closed, written, killed, stutters,
                 verdict>>

\* A spawned child is begun, a woken machine resumed unless it is complete.
Resume ==
  /\ Serving
  /\ \E i \in Turn :
       LET a == queue[i]
           spawn == a.kind = "effect"
           m == IF spawn THEN a.effect.id ELSE a.m
       IN /\ \/ a.kind = "resume"
             \/ spawn /\ a.effect.kind \in {"spawned", "spawned_pinned"}
          /\ queue' = RemoveAt(queue, i)
          /\ IF life[m] = "done" \/ (~spawn /\ a.lane # 0 /\ m \notin Known)
               THEN UNCHANGED <<routines, refused>>
               ELSE IF Pollable(m) THEN Resumes(m) /\ UNCHANGED refused
                                   ELSE UNCHANGED routines /\ refused' = TRUE
  /\ phase' = "top"
  /\ UNCHANGED <<host, timers, now, heard, closed, world, written, killed,
                 stutters, verdict>>

\* A deferred reply's turn.
Answer ==
  /\ Serving
  /\ \E i \in Turn :
       LET a == queue[i]
       IN /\ a.kind = "reply" /\ ~Abandoned(a)
          /\ queue' = RemoveAt(queue, i)
          /\ IF Pollable(a.m) /\ Open(a.m, a.effect.id)
               THEN Replies(a.m, a.effect.id, a.n) /\ UNCHANGED refused
               ELSE UNCHANGED routines /\ refused' = TRUE
  /\ phase' = "top"
  /\ UNCHANGED <<host, timers, now, heard, closed, world, written, killed,
                 stutters, verdict>>

\* Nothing is queued: the timer due first fires, unless it was abandoned.
FireTimer ==
  /\ Serving
  /\ queue = << >> /\ timers # << >>
  /\ LET t == timers[NextTimer]
     IN /\ timers' = RemoveAt(timers, NextTimer)
        /\ IF <<t.m, t.effect.id>> \in closed
             THEN UNCHANGED <<routines, now, refused>>
             ELSE /\ now' = t.due
                  /\ IF Pollable(t.m) /\ Open(t.m, t.effect.id)
                       THEN Replies(t.m, t.effect.id, 0) /\ UNCHANGED refused
                       ELSE UNCHANGED routines /\ refused' = TRUE
  /\ phase' = "top"
  /\ UNCHANGED <<host, queue, heard, closed, world, written, killed, stutters,
                 verdict>>

\* No timer either: the end, or a stall.
Conclude ==
  /\ Serving
  /\ queue = << >> /\ timers = << >>
  /\ verdict' = IF Stuck = {} THEN "completed" ELSE "stalled"
  /\ UNCHANGED <<routines, host, phase, queue, timers, now, heard, closed,
                 world, written, killed, stutters, refused>>

PythonNext ==
  \/ Ran \/ SeededStutter \/ Skip \/ Note \/ Perform \/ Resume \/ Answer
  \/ FireTimer \/ Conclude

=============================================================================
