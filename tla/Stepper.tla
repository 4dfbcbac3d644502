------------------------------ MODULE Stepper -------------------------------
(***************************************************************************)
(* One driver being stepped while other threads wake it                    *)
(* (sans-effort-core/src/driver/stepper.rs and wake.rs).                   *)
(*                                                                         *)
(* The host owns the driver: its calls (resume, reply) never overlap.  The *)
(* driver's waker is shared: whatever the routine waits on in the process  *)
(* calls it from any thread.  wake_up is two steps, the swap of `woken`    *)
(* and the hook it calls if the swap was the first since the last poll     *)
(* began, and everything else may happen between the two.                  *)
(*                                                                         *)
(* What the routine waits on is a channel, external to src/: a count of    *)
(* messages and the waker its receiver left, both under the channel's own  *)
(* lock.  The routine waits on the channel, on a request, or on both.      *)
(***************************************************************************)
EXTENDS Naturals, FiniteSets

CONSTANTS
  Wakers,     \* the threads that send on the channel
  MaxSends,   \* bound: messages sent
  MaxPolls    \* bound: resumes and replies the host makes untold

ASSUME BoundsAssumption == MaxSends \in Nat /\ MaxPolls \in Nat
ASSUME WakersAssumption == IsFiniteSet(Wakers)

VARIABLES
  phase,      \* of the driver: see Phases
  woken,      \* Wakeup::woken
  waking,     \* threads that took the routine's waker and have not called it
  telling,    \* threads past the swap with the hook still to call
  noticed,    \* the hook was called, and the host has not resumed since
  inbox,      \* messages in the channel
  armed,      \* the channel holds the routine's waker
  listening,  \* when it last suspended, the routine was waiting on the channel
  request,    \* the request the routine waits on: see Requests
  sent,       \* messages sent so far
  spared,     \* how many of those are left
  polls,      \* history: polls begun
  told        \* history: calls of the hook

hostVars == <<phase, noticed, spared, polls, told>>
channel == <<inbox, armed, sent>>
vars == <<phase, woken, waking, telling, noticed, inbox, armed, listening,
          request, sent, spared, polls, told>>

\* idle: suspended, no call in progress.  held: a reply was delivered, the
\* poll that covers it not begun.  polling: inside the future's poll.
\* done: the routine returned; the future is None.
Phases == {"idle", "held", "polling", "done"}

\* none: no request outstanding.  open: one waits for its reply, in the hands
\* of the routine itself.  watched: the same, polled with a waker of a
\* combinator's own, which its slot keeps.  lost: dropped by somebody the
\* routine gave it to, so the reply will find no slot.
Requests == {"none", "open", "watched", "lost"}

\* The wakeup and the driver are built; the host's first resume begins it.
Init ==
  /\ phase = "idle"
  /\ woken = FALSE
  /\ waking = {}
  /\ telling = {}
  /\ noticed = FALSE
  /\ inbox = 0
  /\ armed = FALSE
  /\ listening = FALSE
  /\ request = "none"
  /\ sent = 0
  /\ spared = MaxPolls
  /\ polls = 0
  /\ told = 0

-----------------------------------------------------------------------------
(* Other threads *)

\* A send: the message, and the receiver's waker if it left one.  A channel
\* may keep the waker for later senders to call again.
Send(w) ==
  /\ sent < MaxSends
  /\ w \notin waking \cup telling
  /\ sent' = sent + 1
  /\ inbox' = inbox + 1
  /\ armed' \in {FALSE, armed}
  /\ waking' = IF armed THEN waking \cup {w} ELSE waking
  /\ UNCHANGED <<phase, woken, telling, noticed, listening, request, spared,
                 polls, told>>

\* Faulty: every wake tells the hook, not the first of a wait alone.
SwapAlwaysTelling(w) ==
  /\ w \in waking
  /\ waking' = waking \ {w}
  /\ woken' = TRUE
  /\ telling' = telling \cup {w}
  /\ UNCHANGED <<hostVars, channel, listening, request>>

\* wake_up's swap: only the first since the last poll began tells the hook.
Swap(w) ==
  /\ w \in waking
  /\ waking' = waking \ {w}
  /\ woken' = TRUE
  /\ telling' = IF woken THEN telling ELSE telling \cup {w}
  /\ UNCHANGED <<hostVars, channel, listening, request>>

\* wake_up's hook: the host will see this machine among the woken.
CallHook(w) ==
  /\ w \in telling
  /\ telling' = telling \ {w}
  /\ noticed' = TRUE
  /\ told' = told + 1
  /\ UNCHANGED <<phase, woken, waking, channel, listening, request, spared, polls>>

\* A request the routine handed elsewhere is dropped there.
LoseRequest ==
  /\ request \in {"open", "watched"}
  /\ phase = "polling" \/ listening
  /\ request' = "lost"
  /\ UNCHANGED <<hostVars, woken, waking, telling, channel, listening>>

-----------------------------------------------------------------------------
(* The host's calls *)

\* Faulty: the flag is never cleared.
BeginPollUncleared ==
  /\ phase' = "polling"
  /\ polls' = polls + 1
  /\ UNCHANGED woken

\* Stepper::poll up to the future's poll: cleared first, so whatever wakes the
\* routine from now on is news.
BeginPoll ==
  /\ woken' = FALSE
  /\ phase' = "polling"
  /\ polls' = polls + 1

\* Driver::resume of a machine a notice names.
ResumeNoticed ==
  /\ phase = "idle"
  /\ noticed
  /\ noticed' = FALSE
  /\ BeginPoll
  /\ UNCHANGED <<waking, telling, channel, listening, request, spared,
                 told>>

\* Driver::resume for no reason: the first one, or a host that resumes to see.
ResumeAnyway ==
  /\ phase = "idle"
  /\ spared > 0
  /\ spared' = spared - 1
  /\ BeginPoll
  /\ UNCHANGED <<noticed, waking, telling, channel, listening, request,
                 told>>

\* Faulty: the reply's waker is woken without `hold`, and tells the hook.
ReplyWithoutHold ==
  /\ phase = "idle"
  /\ spared > 0
  /\ spared' = spared - 1
  /\ request \in {"open", "watched"}
  /\ woken' = IF request = "watched" THEN TRUE ELSE woken
  /\ told' = IF request = "watched" /\ ~woken THEN told + 1 ELSE told
  /\ noticed' = (noticed \/ (request = "watched" /\ ~woken))
  /\ request' = "none"
  /\ phase' = "held"
  /\ UNCHANGED <<waking, telling, channel, listening, polls>>

\* Stepper::try_reply, Delivered: a kept waker is woken under `hold`, so its
\* swap finds `woken` set and the hook is not called.  The poll comes next.
ReplyDelivered ==
  /\ phase = "idle"
  /\ spared > 0
  /\ spared' = spared - 1
  /\ request \in {"open", "watched"}
  /\ woken' = IF request = "watched" THEN TRUE ELSE woken
  /\ request' = "none"
  /\ phase' = "held"
  /\ UNCHANGED <<noticed, waking, telling, channel, listening, polls, told>>

PollAfterReply ==
  /\ phase = "held"
  /\ BeginPoll
  /\ UNCHANGED <<noticed, waking, telling, channel, listening, request, spared,
                 told>>

\* Faulty: `hold` before the delivery is known to need a poll.
ReplyGoneHeld ==
  /\ phase = "idle"
  /\ request = "lost"
  /\ request' = "none"
  /\ woken' = TRUE
  /\ UNCHANGED <<hostVars, waking, telling, channel, listening>>

\* Stepper::try_reply, Gone: an empty yield, and no poll.
ReplyGone ==
  /\ phase = "idle"
  /\ request = "lost"
  /\ request' = "none"
  /\ UNCHANGED <<hostVars, woken, waking, telling, channel, listening>>

-----------------------------------------------------------------------------
(* Inside the poll *)

\* A receive that finds a message.
Receive ==
  /\ phase = "polling"
  /\ inbox > 0
  /\ inbox' = inbox - 1
  /\ UNCHANGED <<hostVars, woken, waking, telling, armed, listening, request, sent>>

\* The future returns Pending.  If it waits on the channel, its receive found
\* the channel empty and left the waker, under the channel's lock; it may wait
\* on a request instead, or besides.
Suspend ==
  /\ phase = "polling"
  /\ phase' = "idle"
  /\ request' \in IF request = "none" THEN {"none", "open", "watched"} ELSE {request}
  /\ \/ inbox = 0 /\ armed' = TRUE /\ listening' = TRUE
     \/ request' \in {"open", "watched"} /\ listening' = FALSE /\ UNCHANGED armed
  /\ UNCHANGED <<woken, waking, telling, noticed, inbox, sent, spared,
                 polls, told>>

\* The future returns Ready and is dropped, its requests and its receiver too.
Finish ==
  /\ phase = "polling"
  /\ phase' = "done"
  /\ request' = "none"
  /\ armed' = FALSE
  /\ listening' = FALSE
  /\ UNCHANGED <<woken, waking, telling, noticed, inbox, sent, spared,
                 polls, told>>

Next ==
  \/ \E w \in Wakers : Send(w) \/ Swap(w) \/ CallHook(w)
  \/ LoseRequest
  \/ ResumeNoticed \/ ResumeAnyway
  \/ ReplyDelivered \/ PollAfterReply \/ ReplyGone
  \/ Receive \/ Suspend \/ Finish

\* A thread inside wake_up goes on, and a poll ends; the host resumes what it
\* was told of (ABI.md, Writing a Host).  Nothing makes it reply or resume
\* otherwise.
Fairness ==
  /\ \A w \in Wakers : WF_vars(Swap(w)) /\ WF_vars(CallHook(w))
  /\ WF_vars(ResumeNoticed)
  /\ WF_vars(PollAfterReply)
  /\ WF_vars(Receive \/ Suspend \/ Finish)

Spec == Init /\ [][Next]_vars
FairSpec == Spec /\ Fairness

-----------------------------------------------------------------------------
(* Properties *)

TypeOK ==
  /\ phase \in Phases
  /\ woken \in BOOLEAN
  /\ waking \subseteq Wakers
  /\ telling \subseteq Wakers
  /\ noticed \in BOOLEAN
  /\ inbox \in Nat
  /\ armed \in BOOLEAN
  /\ listening \in BOOLEAN
  /\ request \in Requests
  /\ sent \in 0 .. MaxSends
  /\ spared \in 0 .. MaxPolls
  /\ polls \in Nat
  /\ told \in Nat

\* No wake is lost: a routine suspended on the channel with a message there
\* has a thread on its way to the hook, or the host has been told.  The flag
\* is cleared before the future is polled and set without the hook only
\* directly before a poll (clear and hold in wake.rs).
NoLostWake ==
  phase = "idle" /\ listening /\ inbox > 0 => noticed \/ waking \cup telling # {}

\* The hook is called at most once per poll, counting the wait before the
\* first, whichever threads wake the routine how often (Driver::on_wake).
HookOncePerPoll == told + Cardinality(telling) <= polls + 1

\* Every call of the hook is news from another thread: the waker a reply
\* wakes does not tell the host to resume the machine it is calling.
NoticesAreNews == told + Cardinality(telling \cup waking) <= sent

\* A message the suspended routine waits for brings it to a poll, with a host
\* that resumes only what it is told of.
MessagesArePolled == (listening /\ inbox > 0) ~> (phase = "polling")

=============================================================================
