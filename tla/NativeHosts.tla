----------------------------- MODULE NativeHosts -----------------------------
(***************************************************************************)
(* The two hosts that poll the routines themselves, with no driver: tokio  *)
(* (sans-effort-tokio, demo/native/tokio) and the JavaScript event loop    *)
(* (demo/native/wasm, demo/native/js).  A routine is a task; an effect     *)
(* starts when its future is first polled, so a select's sleep starts only *)
(* if the receive before it is not ready.                                  *)
(*                                                                         *)
(* On tokio a task performs its effects itself, and tasks run in parallel. *)
(* On JavaScript's one thread it sends requests to a dispatcher, which     *)
(* calls the host in order and has each promise awaited by a task of its   *)
(* own; a sleep dropped unfinished sends one request more, to abort its    *)
(* timer.  A runtime runs its tasks in any order.                          *)
(***************************************************************************)
EXTENDS HostLoop

VARIABLES
  workers,    \* tokio: the runtime's worker threads
  local,      \* tokio: the tasks on the pool's one thread
  requests,   \* js: the dispatcher's channel
  waits       \* what is under way: sleeps and reads, js: every promise

native == <<runnable, workers, local, requests, waits>>

NativeDemos == {"greeter", "fanout", "ping_pong", "ring", "front_desk",
                "journal", "deadline", "deadlock"}

NativeTypeOK ==
  /\ runnable \subseteq Machines /\ local \subseteq Machines
  /\ workers \in 1 .. Workers
  /\ \A i \in DOMAIN requests :
       requests[i].m \in Machines /\ requests[i].effect.id \in Nat
  /\ \A r \in DOMAIN waits :
       r \in Machines \X Nat /\ waits[r] \in [kind : Asks, n : Int]

NoNative ==
  runnable = {} /\ workers = 1 /\ local = {} /\ requests = << >> /\ waits = << >>

\* The root is spawned.  Nobody would see a deadlock end on tokio.
NativeInit ==
  /\ LoopInit
  /\ queue = << >>
  /\ demo \in NativeDemos
  /\ \/ host = "tokio" /\ demo # "deadlock" /\ workers \in 1 .. Workers
     \/ host = "js" /\ workers = 1
  /\ runnable = {Root}
  /\ local = {} /\ requests = << >> /\ waits = << >>

On(h) == host = h /\ verdict = "running"

\* The tasks being polled.
Busy == {m \in Machines : life[m] \in {"polling", "yielded", "returned"}}

\* What the loops on queues and timers keep.
Loops == <<host, phase, queue, timers, now, heard, closed, killed, stutters,
           refused>>

-----------------------------------------------------------------------------
\* A poll of a task.

HasThread(m) ==
  \/ host = "js" /\ Busy = {}
  \/ host = "tokio" /\ m \in local /\ Busy \cap local = {}
  \/ host = "tokio" /\ m \notin local /\ Cardinality(Busy \ local) < workers

BeginPoll(m) ==
  /\ On("tokio") \/ On("js")
  /\ m \in runnable /\ HasThread(m)
  /\ Resumes(m)
  /\ runnable' = runnable \ {m}
  /\ UNCHANGED <<Loops, world, written, verdict, workers, local, requests,
                 waits>>

Appended(old, new) == SubSeq(new, Len(old) + 1, Len(new))

\* A request whose future was polled, and which has no answer.
Begun(m, id) ==
  \/ <<m, id>> \in DOMAIN waits
  \/ \E i \in DOMAIN requests :
       /\ requests[i].m = m /\ requests[i].effect.id = id
       /\ requests[i].effect.kind \in Asks

RaceOf(m) == Head(asked[m])
SleepOf(m) == [NoEffect EXCEPT !.kind = Here(m).kinds[1], !.id = RaceOf(m)]

\* The effects m's step starts: its own, or the sleep of a select that has
\* found the receive before it not ready.
Starts(m) ==
  IF ~Is(m, "select") THEN Appended(out[m].effects, out'[m].effects)
  ELSE IF life'[m] = "yielded" /\ ~Begun(m, RaceOf(m)) THEN <<SleepOf(m)>>
  ELSE << >>

\* m's step ends a select whose receive came first, with its sleep started.
LosesSleep(m) ==
  /\ Is(m, "select") /\ asked[m] # << >> /\ asked'[m] = << >>
  /\ got'[m] # Late
  /\ Begun(m, RaceOf(m)) \/ Answered(m, RaceOf(m))

ChildrenIn(effects, kinds) ==
  {effects[i].id : i \in {j \in DOMAIN effects : effects[j].kind \in kinds}}

\* Children are scheduled at once, and the tasks the step wakes.
Schedules(m) ==
  LET effects == Starts(m)
  IN /\ runnable' = runnable
          \cup Range(Appended(out[m].woke, out'[m].woke))
          \cup ChildrenIn(effects, {"spawned", "spawned_pinned"})
     /\ local' = local \cup ChildrenIn(effects, {"spawned_pinned"})

\* The waits of the requests S: those under way, and those that begin.
WaitsOf(S, m, effects) ==
  [r \in S |-> IF r \in DOMAIN waits THEN waits[r] ELSE
     [kind |-> (CHOOSE e \in Range(effects) : e.id = r[2] /\ e.kind \in Asks).kind,
      n |-> 0]]

\* Requests tokio's context answers in the poll that asks.
Immediate == Asks \ (Sleeps \cup {"read_line"})

OpenNow(m) ==
  {i \in DOMAIN asked[m] :
     Open(m, asked[m][i]) /\ Here(m).kinds[i] \in Immediate}

LinesOf(effects) ==
  LET writes == Only(effects, {e \in Effect : e.kind = "write"})
  IN [i \in DOMAIN writes |-> Line(writes[i].text, writes[i].n)]

\* A step of a tokio task: it writes its lines itself, its sleeps and reads
\* start, and those whose future it drops are cancelled.
TokioStep(m) ==
  /\ On("tokio")
  /\ OpenNow(m) = {}
  /\ PollStep(m)
  /\ Schedules(m)
  /\ written' = written \o LinesOf(Starts(m))
  /\ LET begun == {<<m, id>> : id \in ChildrenIn(Starts(m), Asks \ Immediate)}
         kept == {r \in DOMAIN waits \cup begun : r[2] \in DOMAIN mail'[r[1]]}
     IN waits' = WaitsOf(kept, m, Starts(m))
  /\ UNCHANGED <<Loops, world, verdict, workers, requests>>

\* It answers what it can at once, in the order it polls them.
AnswerNow(m) ==
  /\ On("tokio")
  /\ life[m] = "polling" /\ OpenNow(m) # {}
  /\ LET id == asked[m][Min(OpenNow(m))]
     IN \E e \in Range(out[m].effects) :
          /\ e.id = id /\ e.kind \in Immediate
          /\ Delivers(m, id, AnswerTo(world, e))
          /\ world' = WorldAfter(world, e)
  /\ UNCHANGED <<Loops, native, written, verdict>>

\* Faulty: a dropped sleep's timer runs on.
JsStepForgets(m) ==
  /\ On("js")
  /\ PollStep(m)
  /\ Schedules(m)
  /\ LET sent == Only(Starts(m), {e \in Effect : e.kind \in Asks \cup {"write"}})
     IN requests' = requests \o [i \in DOMAIN sent |-> [m |-> m, effect |-> sent[i]]]
  /\ UNCHANGED <<Loops, world, written, verdict, workers, waits>>

\* A step of a JavaScript task: everything but its spawns is a request, and
\* so is a sleep it drops.
JsStep(m) ==
  /\ On("js")
  /\ PollStep(m)
  /\ Schedules(m)
  /\ LET sent == Only(Starts(m), {e \in Effect : e.kind \in Asks \cup {"write"}})
         abandon == [NoEffect EXCEPT !.kind = "abandon", !.id = RaceOf(m)]
     IN requests' = requests
          \o [i \in DOMAIN sent |-> [m |-> m, effect |-> sent[i]]]
          \o IF LosesSleep(m) THEN <<[m |-> m, effect |-> abandon]>> ELSE << >>
  /\ UNCHANGED <<Loops, world, written, verdict, workers, waits>>

EndPoll(m) ==
  /\ On("tokio") \/ On("js")
  /\ Reads(m)
  /\ UNCHANGED <<Loops, native, world, written, verdict>>

-----------------------------------------------------------------------------
\* What the runtimes do.

WithoutWait(f, r) == [q \in DOMAIN f \ {r} |-> f[q]]
WithWait(f, r, wait) ==
  [q \in DOMAIN f \cup {r} |-> IF q = r THEN wait ELSE f[q]]

\* A timer of tokio's fires, or a line arrives, also during a poll.
WaitEnds(r) ==
  /\ On("tokio")
  /\ Patient(r[1], r[2], waits[r].kind)
  /\ LET e == [NoEffect EXCEPT !.kind = waits[r].kind, !.id = r[2]]
     IN /\ Delivers(r[1], r[2], AnswerTo(world, e))
        /\ world' = WorldAfter(world, e)
  /\ runnable' = runnable \cup {r[1]}
  /\ waits' = WithoutWait(waits, r)
  /\ UNCHANGED <<Loops, written, verdict, workers, local, requests>>

\* The dispatcher serves a request: the host answers, or sets a timer, now.
Serve(s, r) ==
  LET e == r.effect
      wait == <<r.m, e.id>>
  IN [written |-> IF e.kind = "write" THEN Append(s.written, Line(e.text, e.n))
                                      ELSE s.written,
      world |-> WorldAfter(s.world, e),
      waits |-> IF e.kind = "abandon" THEN WithoutWait(s.waits, wait)
                ELSE IF e.kind \in Asks
                THEN WithWait(s.waits, wait, [kind |-> e.kind,
                                              n |-> AnswerTo(s.world, e)])
                ELSE s.waits]

\* The dispatcher runs until its channel is empty.
DispatchRequests ==
  /\ On("js") /\ Busy = {}
  /\ requests # << >>
  /\ LET serve[i \in 0 .. Len(requests)] ==
           IF i = 0
             THEN [written |-> written, world |-> world, waits |-> waits]
             ELSE Serve(serve[i - 1], requests[i])
         served == serve[Len(requests)]
     IN /\ written' = served.written /\ world' = served.world
        /\ waits' = served.waits
  /\ requests' = << >>
  /\ UNCHANGED <<routines, Loops, verdict, runnable, workers, local>>

\* A promise settles; its routine may have dropped the sleep it was for.
PromiseSettles(r) ==
  /\ On("js") /\ Busy = {}
  /\ Patient(r[1], r[2], waits[r].kind)
  /\ waits' = WithoutWait(waits, r)
  /\ IF Open(r[1], r[2])
       THEN /\ Delivers(r[1], r[2], waits[r].n)
            /\ runnable' = runnable \cup {r[1]}
       ELSE UNCHANGED <<routines, runnable>>
  /\ UNCHANGED <<Loops, world, written, verdict, workers, local, requests>>

\* The root has returned: the runtime is dropped, with every task left.
TokioEnds ==
  /\ On("tokio") /\ Busy = {}
  /\ life[Root] = "done"
  /\ verdict' = "completed"
  /\ life' = [m \in Machines |-> IF life[m] \in {"new", "waiting"} THEN "dropped"
                                                                 ELSE life[m]]
  /\ runnable' = {} /\ waits' = << >>
  /\ UNCHANGED <<demo, code, at, got, asked, mail, minted, ends, msgs, ears,
                 woken, out, Loops, world, written, workers, local, requests>>

\* The children that keep no context: `worker`s and the deadlock's `first`.
Contextless == {m \in Machines : code[m][1] \in {"worker", "first"}}

\* The dispatcher has stopped: every context is dropped, and nothing queued.
Drained ==
  /\ requests = << >>
  /\ \A m \in Machines \ Contextless : life[m] \in {"none", "done"}

\* `run`'s promise resolves; or the event loop runs dry, and Node exits 13.
JsEnds ==
  /\ On("js") /\ Busy = {}
  /\ \/ life[Root] = "done" /\ Drained /\ verdict' = "completed"
     \/ /\ ~Drained /\ requests = << >> /\ waits = << >>
        /\ \A m \in runnable : ~Pollable(m)
        /\ verdict' = "stalled"
  /\ UNCHANGED <<routines, Loops, native, world, written>>

NativeNext ==
  \/ \E m \in Machines : \/ BeginPoll(m) \/ TokioStep(m) \/ AnswerNow(m)
                         \/ JsStep(m) \/ EndPoll(m)
  \/ \E r \in DOMAIN waits : WaitEnds(r) \/ PromiseSettles(r)
  \/ DispatchRequests \/ TokioEnds \/ JsEnds

-----------------------------------------------------------------------------
\* Property

\* No timer outlasts its race: what is under way is what a routine still
\* waits for, at once on tokio ("a dropped tokio sleep is a cancelled
\* timer"), once the dispatcher has caught up in JavaScript; so none keeps
\* the event loop alive at the end ("a lost 30-second race").
TimersAreWanted ==
  host = "tokio" \/ requests = << >> =>
    \A r \in DOMAIN waits : Open(r[1], r[2])

=============================================================================
