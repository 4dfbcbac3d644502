------------------------------ MODULE HostLoop ------------------------------
(***************************************************************************)
(* What the hosts have in common: the test runner drive_with (TestHost),   *)
(* the loop of demo/driven/python/main.py (PythonHost) and the parallel    *)
(* host of demo/driven/java/Main.java (JavaHost).  Each runs every machine *)
(* a root makes, against the same world, and ends with a verdict.  The     *)
(* first two are single threads: each keeps a queue of what it may do next *)
(* and timers on a virtual clock that fire only when nothing else is       *)
(* ready.  The properties the hosts promise are stated here.               *)
(***************************************************************************)
EXTENDS Routines

CONSTANTS
  Workers,       \* the most threads a host runs machines on
  MaxStutters,   \* bound: spurious resumes
  MaxKills       \* bound: machines the schedule kills

ASSUME LoopAssumption ==
  Workers \in Nat \ {0} /\ MaxStutters \in Nat /\ MaxKills \in Nat

VARIABLES
  host,       \* "fifo", "choices" (TestHost), "plain", "seeded"
              \* (PythonHost), "java" (JavaHost), "tokio", "js" (NativeHosts)
  phase,      \* PythonHost: pick after a spurious resume, else top
  queue,      \* what is ready, oldest first
  timers,     \* replies waiting on the clock, in the order they were set
  now,        \* the virtual clock
  heard,      \* TestHost: World::woken.
  closed,     \* PythonHost: requests abandoned
  world,      \* what effects read and change outside the machines
  written,    \* the lines written
  killed,     \* machines killed before they completed
  stutters,   \* spurious resumes made
  refused,    \* the machines have refused a call
  verdict,    \* running, completed or stalled
  runnable    \* NativeHosts: the tasks its runtime has scheduled

loop == <<host, phase, queue, timers, now, heard, closed, world, written,
          killed, stutters, refused, verdict>>

\* `lane` is the machine whose output put it there, 0 if none did.
Item == [kind : {"effect", "reply", "resume"}, m : Machines,
         effect : Effect, n : Int, lane : 0 .. MaxMachine]
NoEffect == [kind |-> "write", id |-> 0, text |-> "", n |-> 0]

EffectOf(m, e) ==
  [kind |-> "effect", m |-> m, effect |-> e, n |-> 0, lane |-> m]
ReplyTo(m, e, n) ==
  [kind |-> "reply", m |-> m, effect |-> e, n |-> n, lane |-> 0]
ResumeOf(m) ==
  [kind |-> "resume", m |-> m, effect |-> NoEffect, n |-> 0, lane |-> 0]

Timer == [due : Nat, m : Machines, effect : Effect]

\* PATIENCE is longer than PAUSE.
Delay(kind) == IF kind = "patience" THEN 3 ELSE 1

LoopTypeOK ==
  /\ host \in {"fifo", "choices", "plain", "seeded", "java", "tokio",
             "js"}
  /\ phase \in {"top", "pick"}
  /\ queue \in Seq(Item)
  /\ timers \in Seq(Timer)
  /\ now \in Nat
  /\ heard \in Seq(Machines)
  /\ closed \subseteq Machines \X Nat
  /\ world \in World
  /\ written \in Seq([text : Text, n : Int])
  /\ killed \subseteq Machines
  /\ stutters \in Nat
  /\ refused \in BOOLEAN
  /\ verdict \in {"running", "completed", "stalled"}

LoopInit ==
  /\ RoutinesInit
  /\ phase = "top"
  /\ timers = << >> /\ now = 0 /\ heard = << >> /\ closed = {}
  /\ world = FirstWorld /\ written = << >>
  /\ killed = {} /\ stutters = 0 /\ refused = FALSE /\ verdict = "running"

\* No poll is in progress and the run is not over.
AtLoop ==
  /\ verdict = "running"
  /\ \A m \in Machines : life[m] \notin {"polling", "yielded", "returned"}

\* The polls of the single-threaded hosts.
Polling ==
  /\ host \notin {"java", "tokio", "js"}
  /\ \E m \in Machines : PollStep(m)
  /\ UNCHANGED loop

\* The timer due first, the earliest set among equals.
NextTimer ==
  CHOOSE i \in DOMAIN timers :
    \A j \in DOMAIN timers \ {i} :
      \/ timers[i].due < timers[j].due
      \/ timers[i].due = timers[j].due /\ i < j

\* A deadline outlasts the work it is set for: a patience is over only once
\* the channel it races with has its message.
Patient(m, id, kind) ==
  kind = "patience" /\ Open(m, id) => Ready(Here(m).ch)

\* The elements of s that are in S, in order.
Only(s, S) ==
  LET only[i \in 0 .. Len(s)] ==
        IF i = 0 THEN << >>
        ELSE IF s[i] \in S THEN Append(only[i - 1], s[i]) ELSE only[i - 1]
  IN only[Len(s)]

Stuck == {m \in Machines : life[m] \in {"new", "waiting"}}

-----------------------------------------------------------------------------
\* Properties

\* With nobody killed, the lines written are the same for every host, every
\* order the schedule picks and every spurious resume: boundary/src/lib.rs's
\* `every_schedule_writes_the_same_and_completes`, the hosts' "the transcript
\* must not change".
SameTranscript ==
  LET counts == [i \in 1 .. Lines |-> IF host \in {"fifo", "choices"} THEN 0 ELSE i]
      whole == Transcript(demo, counts)
  IN killed = {} =>
       /\ IsPrefix(written, whole)
       /\ verdict # "running" => written = whole

\* Every survivor completes whatever is killed, except that a deadlock nobody
\* was killed in is reported as one, with both machines
\* (`survivors_complete_whatever_is_killed`, faults/deadlock.rs).
SurvivorsComplete ==
  /\ verdict = "stalled" => demo = "deadlock" /\ killed = {}
                              /\ Stuck = {Root, 2}
  /\ verdict = "completed" /\ demo = "deadlock" => killed # {}

\* The verdict is true: no machine is mid-call and none that could go on is
\* left behind, so every wake, answer and child reached the loop, and no late
\* answer starts anything.
VerdictIsTrue ==
  verdict # "running" =>
    \A m \in Machines :
      ~CanGo(m) /\ life[m] \notin {"polling", "yielded", "returned"}

\* A host other than Java's leaves a machine with what it waits for already
\* there only if it still has that in hand: a task scheduled, a resume
\* queued, a wake heard or in another machine's output, a child on its way.
NoMachineForgotten ==
  \A m \in Machines : CanGo(m) /\ verdict = "running" /\ host # "java" =>
    \/ m \in runnable
    \/ \E i \in DOMAIN queue :
         \/ queue[i].m = m /\ queue[i].kind = "resume"
         \/ queue[i].effect.id = m
              /\ queue[i].effect.kind \in {"spawned", "spawned_pinned"}
    \/ m \in Range(heard)
    \/ \E x \in Machines :
         \/ m \in Range(out[x].woke)
         \/ \E i \in DOMAIN out[x].effects :
              /\ out[x].effects[i].id = m
              /\ out[x].effects[i].kind \in {"spawned", "spawned_pinned"}

\* No host that calls the table has a call refused: no reply to a request
\* the routine dropped or had answered, no call to a machine completed or
\* freed, or in the middle of another call, or pinned to another thread,
\* whatever the order of lanes or threads (main.py's `closed`; Main.java:
\* "`BUSY` cannot happen", "`WRONG_THREAD` cannot happen either", "a reply
\* would be STALE").
NeverRefused == ~refused

\* Every run ends with a verdict.
Ends == <>(verdict # "running")

=============================================================================
