------------------------------ MODULE JavaHost ------------------------------
(***************************************************************************)
(* The host of demo/driven/java/Main.java.  Worker threads call the        *)
(* library; a machine's calls come one at a time from its inbox; asks are  *)
(* performed by tasks of their own, whose replies become events; the main  *)
(* thread waits until a count of all that is queued, running or in flight  *)
(* is zero, and then decides how the run ended.                            *)
(*                                                                         *)
(* Threads interleave between any two steps that another can see: counting *)
(* an event and queueing it are two.  A step of post under a machine's     *)
(* lock and the hand-over to a worker that follows it are one: no other    *)
(* thread schedules that machine in between.  A task queues its reply and  *)
(* gives back its count in one: the reply counts already.                  *)
(***************************************************************************)
EXTENDS HostLoop

CONSTANTS
  MaxSpurious,  \* bound: spurious resumes
  Steady        \* bound: the demos run without spurious resumes

ASSUME JavaAssumption == MaxSpurious \in Nat

VARIABLES
  threads,    \* how many workers this run has
  machines,   \* the machines registered and not freed
  pinned,     \* those the library cannot move
  home,       \* a pinned machine's worker, 0 before its first resume
  inbox,      \* machine -> its events, oldest first
  running,    \* the machines with a worker draining them, or about to
  line,       \* worker -> the machines handed to it
  job,        \* worker -> what it is doing
  batch,      \* worker -> the frames it has still to dispatch
  tasks,      \* requests being performed
  inFlight,   \* requests whose reply is wanted
  settled,    \* tasks that no longer count
  pending,    \* the count
  next        \* nextWorker

known == <<threads, machines, pinned>>
places == <<home, inbox, running, line, next>>
asking == <<tasks, inFlight, settled, pending>>
java == <<known, places, asking, job, batch>>
outcome == <<world, written, stutters, refused, verdict>>

\* An event of an inbox: a resume, or the reply n to a request.
ResumeEvent == [id |-> 0, n |-> 0]
Events == [id : Nat, n : Int]

Idle == [pc |-> "idle", m |-> 0, event |-> ResumeEvent]
WorkerIds == 1 .. Workers

JavaTypeOK ==
  /\ threads \in WorkerIds
  /\ machines \subseteq Machines /\ pinned \subseteq machines
  /\ home \in [Machines -> 0 .. threads]
  /\ \A m \in Machines : inbox[m] \in Seq(Events)
  /\ running \subseteq Machines
  /\ \A w \in WorkerIds : line[w] \in Seq(Machines)
  /\ job \in [WorkerIds -> [pc : {"idle", "drain", "handle", "call",
                                  "dispatch", "counted", "spurious", "end",
                                  "settle"},
                            m : 0 .. MaxMachine, event : Events]]
  /\ \A r \in DOMAIN tasks :
       /\ r \in Machines \X Nat
       /\ tasks[r] \in [pc : {"running", "performed", "counted"},
                        effect : Effect, n : Int]
  /\ inFlight \subseteq Machines \X Nat
  /\ settled \subseteq DOMAIN tasks
  /\ pending \in Nat /\ next \in 0 .. threads - 1

\* The scheduler before it has a root.
NoJava ==
  /\ threads = 1 /\ machines = {} /\ running = {} /\ pending = 0 /\ next = 0
  /\ inbox = [m \in Machines |-> << >>]
  /\ line = [w \in WorkerIds |-> << >>]

JavaRest ==
  /\ pinned = {}
  /\ home = [m \in Machines |-> 0]
  /\ job = [w \in WorkerIds |-> Idle]
  /\ batch = [w \in WorkerIds |-> << >>]
  /\ tasks = << >> /\ inFlight = {} /\ settled = {}

\* `run` has registered the root and posted its first resume to worker 1.
JavaInit ==
  /\ LoopInit
  /\ host = "java" /\ queue = << >>
  /\ threads \in WorkerIds
  /\ machines = {Root}
  /\ inbox = [m \in Machines |-> IF m = Root THEN <<ResumeEvent>> ELSE << >>]
  /\ running = {Root}
  /\ line = [w \in WorkerIds |-> IF w = 1 THEN <<Root>> ELSE << >>]
  /\ pending = 1 /\ next = 1 % threads
  /\ JavaRest

-----------------------------------------------------------------------------
\* post: `here` is the worker that posts, 0 for a task.

\* Where m runs next: a pinned machine at home, another where it was woken if
\* that worker has nothing queued, or on the next in turn.
WorkerFor(m, here) ==
  IF m \in pinned /\ home[m] # 0 THEN home[m]
  ELSE IF m \notin pinned /\ here # 0 /\ line[here] = << >> THEN here
  ELSE next + 1

\* Its choice came from the turn counter.
InTurn(m, here) ==
  IF m \in pinned THEN home[m] = 0 ELSE here = 0 \/ line[here] # << >>

\* The second half of post: queued under the machine's lock, and scheduled
\* unless it already is.
Queue(m, event, here) ==
  /\ inbox' = [inbox EXCEPT ![m] = Append(@, event)]
  /\ running' = running \cup {m}
  /\ IF m \in running
       THEN UNCHANGED <<line, home, next>>
       ELSE LET w == WorkerFor(m, here)
            IN /\ line' = [line EXCEPT ![w] = Append(@, m)]
               /\ home' = IF m \in pinned THEN [home EXCEPT ![m] = w] ELSE home
               /\ next' = IF InTurn(m, here) THEN (next + 1) % threads ELSE next

-----------------------------------------------------------------------------
\* A worker.

At(w, pc) == w <= threads /\ job[w].pc = pc
Goes(w, pc) == job' = [job EXCEPT ![w].pc = pc]

\* The executor hands the worker its next machine.
Take(w) ==
  /\ At(w, "idle")
  /\ line[w] # << >>
  /\ line' = [line EXCEPT ![w] = Tail(@)]
  /\ job' = [job EXCEPT ![w] = [pc |-> "drain", m |-> Head(line[w]),
                                event |-> ResumeEvent]]
  /\ UNCHANGED <<routines, known, asking, outcome, home, inbox, running, batch,
                 next>>

\* drain: the machine's next event, or it stops running.
Drain(w) ==
  /\ At(w, "drain")
  /\ LET m == job[w].m
     IN IF inbox[m] = << >>
          THEN /\ running' = running \ {m}
               /\ job' = [job EXCEPT ![w] = Idle]
               /\ UNCHANGED inbox
          ELSE /\ job' = [job EXCEPT ![w].pc = "handle",
                                     ![w].event = Head(inbox[m])]
               /\ inbox' = [inbox EXCEPT ![m] = Tail(@)]
               /\ UNCHANGED running
  /\ UNCHANGED <<routines, known, asking, outcome, home, line, batch, next>>

\* The library would accept the call: not BUSY, FINISHED or BAD_HANDLE, not
\* WRONG_THREAD, not STALE.
Accepts(w, m, event) ==
  /\ Pollable(m)
  /\ m \in pinned => home[m] = w
  /\ event # ResumeEvent => Open(m, event.id)

Calls(w, m, event) ==
  IF Accepts(w, m, event)
    THEN /\ IF event = ResumeEvent THEN Resumes(m) ELSE Replies(m, event.id, event.n)
         /\ Goes(w, "call")
         /\ UNCHANGED refused
    ELSE /\ refused' = TRUE
         /\ Goes(w, "settle")
         /\ UNCHANGED routines

\* Faulty: a reply is delivered whether or not it is still wanted.
ForwardAnyReply(w) ==
  /\ At(w, "handle")
  /\ LET m == job[w].m
         event == job[w].event
     IN /\ inFlight' = inFlight \ {<<m, event.id>>}
        /\ IF m \in machines THEN Calls(w, m, event)
           ELSE Goes(w, "settle") /\ UNCHANGED <<routines, refused>>
  /\ UNCHANGED <<known, places, batch, tasks, settled, pending, world, written,
                 stutters, verdict>>

\* handle, up to the call: nothing for a machine freed meanwhile, or a reply
\* no longer wanted.
HandleEvent(w) ==
  /\ At(w, "handle")
  /\ LET m == job[w].m
         event == job[w].event
         wanted == event = ResumeEvent \/ <<m, event.id>> \in inFlight
     IN IF m \in machines /\ wanted
          THEN /\ Calls(w, m, event)
               /\ inFlight' = inFlight \ {<<m, event.id>>}
          ELSE Goes(w, "settle") /\ UNCHANGED <<routines, refused, inFlight>>
  /\ UNCHANGED <<known, places, batch, tasks, settled, pending, world, written,
                 stutters, verdict>>

\* Polls run in parallel, instruction by instruction.
Poll(w) ==
  /\ At(w, "call")
  /\ PollStep(job[w].m)
  /\ UNCHANGED <<outcome, java>>

\* A batch's frames: effects, then ids closed, then machines woken.
Frame(kind, id) == [kind |-> kind, id |-> id, text |-> "", n |-> 0]
Frames(o) ==
  o.effects \o [i \in DOMAIN o.closed |-> Frame("closed", o.closed[i])]
            \o [i \in DOMAIN o.woke |-> Frame("woke", o.woke[i])]

\* The call returns its batch.
TakesBatch(w) ==
  /\ At(w, "call")
  /\ Reads(job[w].m)
  /\ batch' = [batch EXCEPT ![w] = Frames(out[job[w].m])]
  /\ Goes(w, "dispatch")
  /\ UNCHANGED <<known, places, asking, outcome>>

At1(w, kinds) ==
  At(w, "dispatch") /\ batch[w] # << >> /\ Head(batch[w]).kind \in kinds
Dispatched(w) == batch' = [batch EXCEPT ![w] = Tail(@)]

WriteOut(w) ==
  /\ At1(w, {"write"})
  /\ written' = Append(written, Line(Head(batch[w]).text, Head(batch[w]).n))
  /\ Dispatched(w)
  /\ UNCHANGED <<routines, known, places, asking, job, world, stutters,
                 refused, verdict>>

\* A woken machine or a new child gets a resume: it is counted first.
CountResume(w) ==
  /\ At1(w, {"woke", "spawned", "spawned_pinned"})
  /\ LET f == Head(batch[w])
     IN IF f.kind = "woke" /\ f.id \notin machines
          THEN Dispatched(w) /\ UNCHANGED <<machines, pinned, pending, job>>
          ELSE /\ machines' = machines \cup {f.id}
               /\ pinned' = IF f.kind = "spawned_pinned" THEN pinned \cup {f.id}
                                                         ELSE pinned
               /\ pending' = pending + 1
               /\ Goes(w, "counted")
               /\ UNCHANGED batch
  /\ UNCHANGED <<routines, places, outcome, threads, tasks, inFlight, settled>>

QueueResume(w) ==
  /\ At(w, "counted")
  /\ Queue(Head(batch[w]).id, ResumeEvent, w)
  /\ Dispatched(w)
  /\ Goes(w, "dispatch")
  /\ UNCHANGED <<routines, known, asking, outcome>>

\* Faulty: the count is given back only by the task.
CancelUncounted(w) ==
  /\ At1(w, {"closed"})
  /\ LET r == <<job[w].m, Head(batch[w]).id>>
     IN /\ inFlight' = inFlight \ {r}
        /\ \/ UNCHANGED tasks
           \/ /\ r \in DOMAIN tasks \cap inFlight
              /\ tasks[r].pc = "running" /\ tasks[r].effect.kind \in Sleeps
              /\ tasks' = [q \in DOMAIN tasks \ {r} |-> tasks[q]]
  /\ Dispatched(w)
  /\ UNCHANGED <<routines, known, places, outcome, job, settled, pending>>

\* A closed request's task is cancelled: a sleep may be interrupted, or it is
\* too late.  Whoever settles it first gives back its count.
Cancel(w) ==
  /\ At1(w, {"closed"})
  /\ LET r == <<job[w].m, Head(batch[w]).id>>
         counts == r \in DOMAIN tasks \ settled
     IN IF r \in inFlight
          THEN /\ inFlight' = inFlight \ {r}
               /\ pending' = IF counts THEN pending - 1 ELSE pending
               /\ \/ /\ UNCHANGED tasks
                     /\ settled' = IF counts THEN settled \cup {r} ELSE settled
                  \/ /\ counts /\ tasks[r].pc = "running"
                     /\ tasks[r].effect.kind \in Sleeps
                     /\ tasks' = [q \in DOMAIN tasks \ {r} |-> tasks[q]]
                     /\ UNCHANGED settled
          ELSE UNCHANGED <<inFlight, pending, tasks, settled>>
  /\ Dispatched(w)
  /\ UNCHANGED <<routines, known, places, outcome, job>>

\* ask: counted and registered before its task can finish.
AskTask(w) ==
  /\ At1(w, Asks)
  /\ LET r == <<job[w].m, Head(batch[w]).id>>
     IN /\ pending' = pending + 1
        /\ inFlight' = inFlight \cup {r}
        /\ tasks' = [q \in DOMAIN tasks \cup {r} |->
                       IF q = r THEN [pc |-> "running",
                                      effect |-> Head(batch[w]), n |-> 0]
                                ELSE tasks[q]]
  /\ Dispatched(w)
  /\ UNCHANGED <<routines, known, places, outcome, job, settled>>

\* The batch is dispatched: on to the end, or first a spurious resume.
Dispatch(w) ==
  /\ At(w, "dispatch")
  /\ batch[w] = << >>
  /\ \/ Goes(w, "end") /\ UNCHANGED <<pending, batch, stutters>>
     \/ /\ stutters < MaxSpurious /\ demo \notin Steady
        /\ stutters' = stutters + 1
        /\ \E m \in machines : batch' = [batch EXCEPT ![w] = <<Frame("", m)>>]
        /\ pending' = pending + 1
        /\ Goes(w, "spurious")
  /\ UNCHANGED <<routines, known, places, tasks, inFlight, settled, world,
                 written, refused, verdict>>

QueueSpurious(w) ==
  /\ At(w, "spurious")
  /\ Queue(Head(batch[w]).id, ResumeEvent, w)
  /\ batch' = [batch EXCEPT ![w] = << >>]
  /\ Goes(w, "end")
  /\ UNCHANGED <<routines, known, asking, outcome>>

\* A completed machine is forgotten, and freed on this worker.
End(w) ==
  /\ At(w, "end")
  /\ LET m == job[w].m
     IN IF life[m] = "done"
          THEN /\ machines' = machines \ {m} /\ pinned' = pinned \ {m}
               /\ Kills(m)
          ELSE UNCHANGED <<routines, machines, pinned>>
  /\ Goes(w, "settle")
  /\ UNCHANGED <<places, asking, outcome, threads, batch>>

\* The event is over: whatever it led to is counted by now.
Settle(w) ==
  /\ At(w, "settle")
  /\ pending' = pending - 1
  /\ Goes(w, "drain")
  /\ UNCHANGED <<routines, known, places, outcome, batch, tasks, inFlight,
                 settled>>

Work(w) ==
  \/ Take(w) \/ Drain(w) \/ HandleEvent(w) \/ Poll(w) \/ TakesBatch(w) \/ WriteOut(w)
  \/ CountResume(w) \/ QueueResume(w) \/ Cancel(w) \/ AskTask(w) \/ Dispatch(w)
  \/ QueueSpurious(w) \/ End(w) \/ Settle(w)

-----------------------------------------------------------------------------
\* A task.

TaskAt(r, pc) == r \in DOMAIN tasks /\ tasks[r].pc = pc

PerformTask(r) ==
  /\ TaskAt(r, "running")
  /\ Patient(r[1], r[2], tasks[r].effect.kind)
  /\ tasks' = [tasks EXCEPT ![r].pc = "performed",
                            ![r].n = AnswerTo(world, tasks[r].effect)]
  /\ world' = WorldAfter(world, tasks[r].effect)
  /\ UNCHANGED <<routines, known, places, job, batch, inFlight, settled,
                 pending, written, stutters, refused, verdict>>

CountReply(r) ==
  /\ TaskAt(r, "performed")
  /\ tasks' = [tasks EXCEPT ![r].pc = "counted"]
  /\ pending' = pending + 1
  /\ UNCHANGED <<routines, known, places, outcome, job, batch, inFlight,
                 settled>>

\* Faulty: the task gives back its count though a cancel did.
QueueReplyUnsettled(r) ==
  /\ TaskAt(r, "counted")
  /\ Queue(r[1], [id |-> r[2], n |-> tasks[r].n], 0)
  /\ pending' = pending - 1
  /\ tasks' = [q \in DOMAIN tasks \ {r} |-> tasks[q]]
  /\ settled' = settled \ {r}
  /\ UNCHANGED <<routines, known, outcome, job, batch, inFlight>>

\* The reply is queued and the task over; its count is given back, unless a
\* cancel did.
QueueReply(r) ==
  /\ TaskAt(r, "counted")
  /\ Queue(r[1], [id |-> r[2], n |-> tasks[r].n], 0)
  /\ pending' = IF r \in settled THEN pending ELSE pending - 1
  /\ tasks' = [q \in DOMAIN tasks \ {r} |-> tasks[q]]
  /\ settled' = settled \ {r}
  /\ UNCHANGED <<routines, known, outcome, job, batch, inFlight>>

\* One step of a task.
Task(r) == PerformTask(r) \/ CountReply(r) \/ QueueReply(r)

\* awaitQuiet and the end of run.  Every wake here is inside a call, so
\* `wakes` has none.
Decide ==
  /\ verdict = "running"
  /\ pending = 0
  /\ verdict' = IF machines = {} THEN "completed" ELSE "stalled"
  /\ UNCHANGED <<routines, known, places, asking, job, batch, world, written,
                 stutters, refused>>

\* What the other hosts keep.
Elsewhere == <<host, phase, queue, timers, now, heard, closed, killed>>

Works(w) == host = "java" /\ Work(w) /\ UNCHANGED Elsewhere
Tasks == host = "java" /\ (\E r \in DOMAIN tasks : Task(r))
                       /\ UNCHANGED Elsewhere
Quiet == host = "java" /\ Decide /\ UNCHANGED Elsewhere

JavaNext == (\E w \in WorkerIds : Works(w)) \/ Tasks \/ Quiet

-----------------------------------------------------------------------------
\* Properties

InHand(w) == job[w].pc # "idle"

\* "`BUSY` cannot happen" (Main.java): a machine is in one place at most, in
\* a worker's line or in one worker's hands, and marked running for exactly as
\* long, so no two threads call one handle.
OneWorkerEach ==
  /\ \A w, x \in WorkerIds : \A i \in DOMAIN line[w], j \in DOMAIN line[x] :
       line[w][i] = line[x][j] => w = x /\ i = j
  /\ \A w, x \in WorkerIds :
       InHand(w) /\ InHand(x) /\ job[w].m = job[x].m => w = x
  /\ \A w, x \in WorkerIds : InHand(w) => job[w].m \notin Range(line[x])
  /\ running = (UNION {Range(line[w]) : w \in WorkerIds})
                \cup {job[w].m : w \in {x \in WorkerIds : InHand(x)}}

\* "Events queued or running, plus asks in flight: zero means quiet"
\* (Main.java): the count is exactly the events queued, handled or about to
\* be queued, and the tasks not settled.
PendingIsExact ==
  LET Queued == UNION {{m} \X DOMAIN inbox[m] : m \in Machines}
      Handling == {w \in WorkerIds : job[w].pc \notin {"idle", "drain"}}
      Adding == {w \in WorkerIds : job[w].pc \in {"counted", "spurious"}}
      Replying == {r \in DOMAIN tasks : tasks[r].pc = "counted"}
  IN pending = Cardinality(Queued) + Cardinality(Handling) + Cardinality(Adding)
               + Cardinality(Replying) + Cardinality(DOMAIN tasks \ settled)

\* The scheduler's two promises (Main.java): nobody calls a busy handle, and
\* the main thread decides neither too early nor never.
SchedulerIsExact == OneWorkerEach /\ PendingIsExact

=============================================================================
