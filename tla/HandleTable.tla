---------------------------- MODULE HandleTable -----------------------------
(***************************************************************************)
(* The process-wide table of machines behind the C ABI, called by any      *)
(* thread with bare handles (sans-effort-host/src/table.rs).               *)
(*                                                                         *)
(* Every section of code under a lock is one action: the table's RwLock,   *)
(* a migrating machine's Mutex (only ever tried), the WAKES mutex; what is *)
(* thread-local (LOCAL, CALL) changes with the step of its thread.  A      *)
(* routine's poll, a pinned routine's construction and a destructor are    *)
(* the time between two actions, in which the thread may spawn, wake any   *)
(* machine and call the table again.                                       *)
(*                                                                         *)
(* Recording is Recording.tla's: with no session open, handles are issued  *)
(* in order.  The hook of a driver, called once per wait (Stepper.tla),    *)
(* may here be called at any time.                                         *)
(***************************************************************************)
EXTENDS Naturals, Sequences, FiniteSets

CONSTANTS
  Threads,     \* the host's threads
  MaxHandle,   \* bound: machines created
  MaxCalls     \* bound: calls in progress, on all threads and nested

ASSUME BoundsAssumption == MaxHandle \in Nat /\ MaxCalls \in Nat

Nobody == "nobody"
ASSUME NobodyAssumption == Nobody \notin Threads

Handles == 1 .. MaxHandle

VARIABLES
  machines,   \* Table::machines: the migrating ones
  parked,     \* Table::parked: pinned children not started
  pinned,     \* Table::pinned: handle -> the thread that started it
  next,       \* Table::next
  local,      \* handle -> the thread whose LOCAL holds its machine
  hooked,     \* handles whose driver has the hook `woke`
  calls,      \* thread -> its calls of resume and reply, innermost last
  wakes,      \* WAKES: woken outside any call
  ended,      \* threads that have ended, their LOCAL destroyed
  owed,       \* history: woken, and no caller told since
  gone,       \* history: handles a caller knows freed or panicked
  panicked,   \* history: handles whose routine has panicked
  home        \* history: handle -> the thread that began to build it

table == <<machines, parked, pinned, next>>
history == <<owed, gone, panicked, home>>
vars == <<machines, parked, pinned, next, local, hooked, calls, wakes, ended,
          owed, gone, panicked, home>>

\* building: constructing a parked routine; this call has no CALL yet.
\* finding: CALL is this call's.  locking: holds a clone of the machine's
\* Entry.  running: holds its lock (or RefCell borrow).  unwound: the panic
\* was caught.  removed: out of the table, the lock still held.  returning:
\* the result is known; what the call kept alive is being dropped.
Stages == {"building", "finding", "locking", "running", "unwound", "removed",
           "returning"}
\* Refused: BUSY, WRONG_THREAD, BAD_INPUT, or the machine's own refusal.
Codes == {"none", "Ok", "Refused", "BadHandle", "Panicked"}

\* `late`: the call began when its caller could know the handle gone.
Frame == [handle : Handles, stage : Stages, code : Codes,
          woken : SUBSET Handles, late : BOOLEAN]

Init ==
  /\ machines = {}
  /\ parked = {}
  /\ pinned = [h \in Handles |-> Nobody]
  /\ next = 1
  /\ local = [h \in Handles |-> Nobody]
  /\ hooked = {}
  /\ calls = [t \in Threads |-> << >>]
  /\ wakes = {}
  /\ ended = {}
  /\ owed = {}
  /\ gone = {}
  /\ panicked = {}
  /\ home = [h \in Handles |-> Nobody]

Frames == UNION {{<<t, i>> : i \in DOMAIN calls[t]} : t \in Threads}
FrameOf(f) == calls[f[1]][f[2]]

Issued == 1 .. next - 1
Depth(t) == Len(calls[t])
Top(t) == calls[t][Depth(t)]
At(t, stage) == calls[t] # << >> /\ Top(t).stage = stage

\* The innermost call of t goes on to `stage`.
Goes(t, stage) == calls' = [calls EXCEPT ![t][Depth(t)].stage = stage]
Answers(t, code) ==
  calls' = [calls EXCEPT ![t][Depth(t)] = [@ EXCEPT !.stage = "returning", !.code = code]]

\* Code outside the table runs on t: the host's, a routine's, a destructor's.
Outside(t) ==
  /\ t \notin ended
  /\ calls[t] # << >> => Top(t).stage \in {"building", "running", "returning"}

\* Some call holds the machine's lock, or its RefCell's borrow.
Holds(frame, h) == frame.handle = h /\ frame.stage \in {"running", "unwound", "removed"}
InUse(h) == \E f \in Frames : Holds(FrameOf(f), h)

-----------------------------------------------------------------------------
(* Creating and freeing *)

\* table::new and new_boxed, by the host or by a routine that spawns.
New(t) ==
  /\ Outside(t)
  /\ next <= MaxHandle
  /\ next' = next + 1
  /\ machines' = machines \cup {next}
  /\ hooked' = hooked \cup {next}
  /\ UNCHANGED <<parked, pinned, local, calls, wakes, ended, history>>

\* table::new_pinned.
NewPinned(t) ==
  /\ Outside(t)
  /\ next <= MaxHandle
  /\ next' = next + 1
  /\ parked' = parked \cup {next}
  /\ UNCHANGED <<machines, pinned, local, hooked, calls, wakes, ended, history>>

\* table::free, Ok: out of the table.  The machine is dropped once the lock
\* is released and no call holds it; what that wakes is Wake.
Free(t, h) ==
  /\ Outside(t)
  /\ \/ h \in machines \cup parked /\ UNCHANGED <<pinned, local>>
     \/ /\ pinned[h] = t
        /\ pinned' = [pinned EXCEPT ![h] = Nobody]
        /\ local' = [local EXCEPT ![h] = Nobody]
  /\ machines' = machines \ {h}
  /\ parked' = parked \ {h}
  /\ gone' = gone \cup {h}
  /\ UNCHANGED <<next, hooked, calls, wakes, ended, owed, panicked, home>>

-----------------------------------------------------------------------------
(* Waking *)

\* The innermost of t's calls that has set CALL is its i-th.
Reporting(t, i) ==
  /\ calls[t][i].stage # "building"
  /\ \A j \in DOMAIN calls[t] : j > i => calls[t][j].stage = "building"

\* woke, the hook: noted for the current call, or for table::wakes.
Wake(t, h) ==
  /\ Outside(t)
  /\ h \in hooked
  /\ owed' = owed \cup {h}
  /\ \/ \E i \in DOMAIN calls[t] :
          /\ Reporting(t, i)
          /\ calls' = [calls EXCEPT ![t][i].woken = @ \cup {h}]
          /\ UNCHANGED wakes
     \/ /\ \A i \in DOMAIN calls[t] : calls[t][i].stage = "building"
        /\ wakes' = wakes \cup {h}
        /\ UNCHANGED calls
  /\ UNCHANGED <<table, local, hooked, ended, gone, panicked, home>>

\* table::wakes.
TakeWakes(t) ==
  /\ Outside(t)
  /\ owed' = owed \ wakes
  /\ wakes' = {}
  /\ UNCHANGED <<table, local, hooked, calls, ended, gone, panicked, home>>

\* A thread but the last ends between calls: its LOCAL is destroyed with the
\* machines in it, whose destructors may wake others; their entries in
\* `pinned` stay.
ThreadEnds(t) ==
  /\ t \notin ended /\ calls[t] = << >>
  /\ ended \cup {t} # Threads
  /\ ended' = ended \cup {t}
  /\ local' = [h \in Handles |-> IF local[h] = t THEN Nobody ELSE local[h]]
  /\ \E woken \in SUBSET hooked :
       /\ (\E h \in Handles : local[h] = t) \/ woken = {}
       /\ wakes' = wakes \cup woken
       /\ owed' = owed \cup woken
  /\ UNCHANGED <<table, hooked, calls, gone, panicked, home>>

-----------------------------------------------------------------------------
(* resume and reply *)

\* A call: CALL is set, or (resume of a parked one) the routine is taken out
\* to be built here, this thread its owner from now on.
Begin(t, h, stage) ==
  /\ Outside(t)
  /\ Cardinality(Frames) < MaxCalls
  /\ h \in Issued
  /\ calls' = [calls EXCEPT ![t] = Append(@,
       [handle |-> h, stage |-> stage, code |-> "none", woken |-> {},
        late |-> h \in gone])]
  /\ UNCHANGED <<machines, next, local, hooked, wakes, ended, owed, gone,
                 panicked>>

\* Faulty: the parked routine is looked at here and only removed once built.
ResumeParked(t, h) ==
  \/ /\ h \in parked
     /\ Begin(t, h, "building")
     /\ pinned' = [pinned EXCEPT ![h] = t]
     /\ home' = [home EXCEPT ![h] = t]
     /\ UNCHANGED parked
  \/ /\ h \notin parked
     /\ Begin(t, h, "finding")
     /\ UNCHANGED <<parked, pinned, home>>

Resume(t, h) ==
  \/ /\ h \in parked
     /\ Begin(t, h, "building")
     /\ parked' = parked \ {h}
     /\ pinned' = [pinned EXCEPT ![h] = t]
     /\ home' = [home EXCEPT ![h] = t]
  \/ /\ h \notin parked
     /\ Begin(t, h, "finding")
     /\ UNCHANGED <<parked, pinned, home>>

Reply(t, h) ==
  /\ Begin(t, h, "finding")
  /\ UNCHANGED <<parked, pinned, home>>

\* The routine is built: hooked, kept in LOCAL, and resumed.
Built(t) ==
  /\ At(t, "building")
  /\ hooked' = hooked \cup {Top(t).handle}
  /\ local' = [local EXCEPT ![Top(t).handle] = t]
  /\ Goes(t, "finding")
  /\ UNCHANGED <<table, wakes, ended, history>>

\* Its construction panicked: resume returns PANICKED at once.
BuildPanics(t) ==
  /\ At(t, "building")
  /\ pinned' = [pinned EXCEPT ![Top(t).handle] = Nobody]
  /\ calls' = [calls EXCEPT ![t] = SubSeq(@, 1, Depth(t) - 1)]
  /\ gone' = gone \cup {Top(t).handle}
  /\ panicked' = panicked \cup {Top(t).handle}
  /\ UNCHANGED <<machines, parked, next, local, hooked, wakes, ended, owed, home>>

\* find, under the table's read lock; a pinned machine found here is borrowed
\* at once, no other thread being able to.
Find(t) ==
  /\ At(t, "finding")
  /\ LET h == Top(t).handle IN
     \/ h \in machines /\ Goes(t, "locking")
     \/ h \in parked /\ Answers(t, "Refused")                 \* BAD_INPUT
     \/ pinned[h] = t /\ local[h] = t /\ ~InUse(h) /\ Goes(t, "running")
     \/ pinned[h] = t /\ local[h] = t /\ InUse(h) /\ Answers(t, "Refused")   \* BUSY
     \/ pinned[h] = t /\ local[h] # t /\ Answers(t, "BadHandle")
     \/ pinned[h] \in Threads \ {t} /\ Answers(t, "Refused")   \* WRONG_THREAD
     \/ h \notin machines \cup parked /\ pinned[h] = Nobody /\ Answers(t, "BadHandle")
  /\ UNCHANGED <<table, local, hooked, wakes, ended, history>>

\* Faulty: a second call is let in.
TryLockShared(t) ==
  /\ At(t, "locking")
  /\ Goes(t, "running")
  /\ UNCHANGED <<table, local, hooked, wakes, ended, history>>

\* Entry::try_lock.  The guard of a call that panicked is dropped after the
\* panic was caught, so the Mutex is never poisoned.
TryLock(t) ==
  /\ At(t, "locking")
  /\ \/ ~InUse(Top(t).handle) /\ Goes(t, "running")
     \/ InUse(Top(t).handle) /\ Answers(t, "Refused")         \* BUSY
  /\ UNCHANGED <<table, local, hooked, wakes, ended, history>>

\* The poll ends, or the machine refuses the call.
Stepped(t) ==
  /\ At(t, "running")
  /\ \E code \in {"Ok", "Refused"} : Answers(t, code)
  /\ UNCHANGED <<table, local, hooked, wakes, ended, history>>

\* The routine panics, and catch_unwind returns.
Panic(t) ==
  /\ At(t, "running")
  /\ Goes(t, "unwound")
  /\ panicked' = panicked \cup {Top(t).handle}
  /\ UNCHANGED <<table, local, hooked, wakes, ended, owed, gone, home>>

\* Faulty: only a pinned machine is removed.
RemovePinnedOnly(t) ==
  /\ At(t, "unwound")
  /\ LET h == Top(t).handle IN
     \/ home[h] = Nobody /\ Goes(t, "removed") /\ UNCHANGED <<pinned, local>>
     \/ /\ home[h] # Nobody
        /\ pinned' = [pinned EXCEPT ![h] = Nobody]
        /\ local' = [local EXCEPT ![h] = Nobody]
        /\ Answers(t, "Panicked")
  /\ UNCHANGED <<machines, parked, next, hooked, wakes, ended, history>>

\* A panicked machine is removed: a pinned one with its borrow given up, a
\* migrating one with its lock still held.
Remove(t) ==
  /\ At(t, "unwound")
  /\ LET h == Top(t).handle IN
     \/ /\ home[h] = Nobody
        /\ machines' = machines \ {h}
        /\ Goes(t, "removed")
        /\ UNCHANGED <<pinned, local>>
     \/ /\ home[h] # Nobody
        /\ pinned' = [pinned EXCEPT ![h] = Nobody]
        /\ local' = [local EXCEPT ![h] = Nobody]
        /\ Answers(t, "Panicked")
        /\ UNCHANGED machines
  /\ UNCHANGED <<parked, next, hooked, wakes, ended, history>>

Unlock(t) ==
  /\ At(t, "removed")
  /\ Answers(t, "Panicked")
  /\ UNCHANGED <<table, local, hooked, wakes, ended, history>>

\* Faulty: a call without output drops the wakes it collected.
ReturnDroppingWakes(t) ==
  /\ At(t, "returning")
  /\ calls' = [calls EXCEPT ![t] = SubSeq(@, 1, Depth(t) - 1)]
  /\ owed' = IF Top(t).code = "Ok" THEN owed \ Top(t).woken ELSE owed
  /\ gone' = IF Top(t).code = "Panicked" THEN gone \cup {Top(t).handle} ELSE gone
  /\ UNCHANGED <<table, local, hooked, wakes, ended, panicked, home>>

\* reporting_wakes ends: the wakes of its poll go out with its output, or, if
\* it has none, are left for table::wakes.  The outer call's CALL is back.
Return(t) ==
  /\ At(t, "returning")
  /\ calls' = [calls EXCEPT ![t] = SubSeq(@, 1, Depth(t) - 1)]
  /\ \/ /\ Top(t).code = "Ok"
        /\ owed' = owed \ Top(t).woken
        /\ UNCHANGED wakes
     \/ /\ Top(t).code # "Ok"
        /\ wakes' = wakes \cup Top(t).woken
        /\ UNCHANGED owed
  /\ gone' = IF Top(t).code = "Panicked" THEN gone \cup {Top(t).handle} ELSE gone
  /\ UNCHANGED <<table, local, hooked, ended, panicked, home>>

Next ==
  \E t \in Threads :
    \/ New(t) \/ NewPinned(t) \/ TakeWakes(t) \/ ThreadEnds(t)
    \/ \E h \in Handles : Free(t, h) \/ Wake(t, h) \/ Resume(t, h) \/ Reply(t, h)
    \/ Built(t) \/ BuildPanics(t) \/ Find(t) \/ TryLock(t)
    \/ Stepped(t) \/ Panic(t) \/ Remove(t) \/ Unlock(t) \/ Return(t)

Spec == Init /\ [][Next]_vars

-----------------------------------------------------------------------------
(* Properties *)

TypeOK ==
  /\ machines \subseteq Handles
  /\ parked \subseteq Handles
  /\ pinned \in [Handles -> Threads \cup {Nobody}]
  /\ next \in 1 .. MaxHandle + 1
  /\ local \in [Handles -> Threads \cup {Nobody}]
  /\ hooked \subseteq Handles
  /\ calls \in [Threads -> Seq(Frame)]
  /\ wakes \subseteq Handles
  /\ ended \subseteq Threads
  /\ owed \subseteq Handles
  /\ gone \subseteq Handles
  /\ panicked \subseteq Handles
  /\ home \in [Handles -> Threads \cup {Nobody}]

\* Calls on one machine never overlap, from whichever threads or from inside
\* its own poll they come (ABI.md, Threading).
OneCallAtATime ==
  \A f, g \in Frames : \A h \in Handles : Holds(FrameOf(f), h) /\ Holds(FrameOf(g), h) => f = g

\* A pinned routine is built, run and kept on the one thread that first
\* resumed it, whose table entry says so, until that thread ends: its future
\* is not Send.
PinnedStaysHome ==
  /\ \A f \in Frames :
       FrameOf(f).stage \in {"building", "running", "unwound"}
         => home[FrameOf(f).handle] \in {Nobody, f[1]}
  /\ \A h \in Handles :
       /\ local[h] # Nobody => local[h] = home[h]
       /\ pinned[h] # Nobody => /\ pinned[h] = home[h]
                                /\ \/ local[h] = home[h]
                                   \/ home[h] \in ended
                                   \/ \E f \in Frames : FrameOf(f).handle = h
                                        /\ FrameOf(f).stage = "building" /\ f[1] = home[h]

\* No wake is lost between a call's output, the calls around it, and
\* table::wakes, calls that fail, panic or nest included: the end-or-stall
\* verdict of a host rests on it (ABI.md, Writing a Host).
NoWakeLost ==
  owed \subseteq wakes \cup UNION {FrameOf(f).woken : f \in Frames}

\* Once free returned OK or a call PANICKED, every later call is BAD_HANDLE
\* (ABI.md, Panics); and BAD_HANDLE is only ever said of a routine out of the
\* table, or by a thread in the middle of building it.
BadHandleMeansGone ==
  \A f \in Frames :
    LET frame == FrameOf(f) IN
    /\ frame.late => frame.stage = "finding" \/ frame.code = "BadHandle"
    /\ frame.code = "BadHandle" =>
         \/ frame.handle \notin machines \cup parked /\ pinned[frame.handle] = Nobody
         \/ \E g \in Frames : /\ g[1] = f[1]
                              /\ FrameOf(g).stage = "building"
                              /\ FrameOf(g).handle = frame.handle

\* guarded's comment: the removal happens before the lock is released, "so no
\* other thread can observe the poisoned machine in between".
PanickedNeverRuns ==
  \A f \in Frames : FrameOf(f).stage = "running" => FrameOf(f).handle \notin panicked

=============================================================================
