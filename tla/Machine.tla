------------------------------ MODULE Machine -------------------------------
(***************************************************************************)
(* A machine: the typed host layer over a driver over an outbox            *)
(* (sans-effort-host/src/machine.rs over driver/stepper.rs and             *)
(* driver/status.rs over Outbox.tla).                                      *)
(*                                                                         *)
(* The host's calls are resume and reply; they never overlap.  A call that *)
(* polls spans many steps: the routine records, collects and drops on the  *)
(* thread that polls it, Poller, while other threads holding the outbox    *)
(* or an Awaiting do the same at any moment.  The poll ends in one drain.  *)
(* The wakeup such a call clears and holds is Stepper.tla's subject.       *)
(***************************************************************************)
EXTENDS Outbox

CONSTANT Poller     \* the thread inside the routine's poll
ASSUME PollerAssumption == Poller \in Threads

VARIABLES
  phase,           \* of the driver: see Phases
  status,          \* what the last poll reported
  pending,         \* Machine::pending, by id
  highest_shown,   \* Machine::highest_shown
  never_shown,     \* Machine::never_shown
  alone            \* history: no other thread has used the outbox yet

hostVars == <<pending, highest_shown, never_shown>>
machineVars == <<phase, status, pending, highest_shown, never_shown, alone>>
allVars == <<vars, machineVars>>

\* idle: suspended, no call in progress.  polling: inside the future's poll.
\* ending: the future returned Ready and is being dropped.  done: it is None.
Phases == {"idle", "polling", "ending", "done"}

MachineInit ==
  /\ Init
  /\ phase = "idle"
  /\ status = "Awaiting"
  /\ pending = {}
  /\ highest_shown = 0
  /\ never_shown = {}
  /\ alone = TRUE

-----------------------------------------------------------------------------
(* The host's calls *)

\* Machine::take, and the code a reply of the right kind would come back with.
CodeOf(id) ==
  IF phase = "done" THEN "Finished"
  ELSE IF id \in pending THEN "Ok"
  ELSE IF id # 0 /\ id <= highest_shown /\ id \notin never_shown THEN "Stale"
  ELSE "BadInput"

\* Machine::resume_shown, as far as the poll.
Resume ==
  /\ phase = "idle"
  /\ phase' = "polling"
  /\ UNCHANGED <<vars, status, hostVars, alone>>

\* Machine::reply_shown of an id that nothing awaits: refused, no poll.
ReplyRefused(id) ==
  /\ phase \in {"idle", "done"}
  /\ CodeOf(id) # "Ok"
  /\ UNCHANGED allVars

\* Machine::reply_shown with the wrong kind: taken, and put back.
ReplyWrongKind(id) ==
  /\ phase = "idle"
  /\ CodeOf(id) = "Ok"
  /\ pending' = (pending \ {id}) \cup {id}
  /\ UNCHANGED <<vars, phase, status, highest_shown, never_shown, alone>>

\* Machine::deliver of a value the waiting slot's check refuses: put back.
ReplyMalformed(id) ==
  /\ phase = "idle"
  /\ CodeOf(id) = "Ok"
  /\ slots[id] = "waiting"
  /\ pending' = (pending \ {id}) \cup {id}
  /\ UNCHANGED <<vars, phase, status, highest_shown, never_shown, alone>>

\* Machine::deliver of an answer: polled if its slot was open; if the request
\* was dropped meanwhile, an empty yield and no poll.
ReplyOk(id) ==
  /\ phase = "idle"
  /\ CodeOf(id) = "Ok"
  /\ Deliver(id)
  /\ pending' = pending \ {id}
  /\ phase' = IF slots[id] = "waiting" THEN "polling" ELSE "idle"
  /\ UNCHANGED <<status, highest_shown, never_shown, alone>>

-----------------------------------------------------------------------------
(* The poll *)

\* The routine's own steps.  A future being dropped only drops what it holds
\* and tells.
RoutineStep ==
  /\ \/ /\ phase = "polling"
        /\ \/ Mint(Poller) \/ Open(Poller) \/ Unreserve(Poller)
           \/ \E id \in Ids : Collect(Poller, id) \/ KeepWaker(Poller, id)
     \/ /\ phase \in {"polling", "ending"}
        /\ TellEffect(Poller) \/ (\E id \in Ids : Close(Poller, id))
  /\ UNCHANGED machineVars

\* An Awaiting passes between the routine and another thread, during a poll.
PassAwaiting ==
  /\ phase = "polling"
  /\ \E t \in Threads \ {Poller}, id \in Ids :
       Move(Poller, t, id) \/ Move(t, Poller, id)
  /\ alone' = FALSE
  /\ UNCHANGED <<phase, status, hostVars>>

\* What other threads do with a clone of the outbox or an Awaiting, any time.
OtherStep ==
  /\ \E t \in Threads \ {Poller} :
       \/ TellEffect(t) \/ Mint(t) \/ Open(t) \/ Unreserve(t)
       \/ \E id \in Ids : Collect(t, id) \/ KeepWaker(t, id) \/ Close(t, id)
  /\ alone' = FALSE
  /\ UNCHANGED <<phase, status, hostVars>>

\* Faulty: ids skipped between two shown are forgotten.
ShowWithoutGaps ==
  LET ids == Asked(effects)
      top == IF ids = {} THEN highest_shown
             ELSE CHOOSE id \in ids : \A other \in ids : other <= id
  IN /\ pending' = (pending \cup ids) \ Elements(closed)
     /\ highest_shown' = top
     /\ UNCHANGED never_shown

\* Machine::show, of what Outbox::drain handed over.  Ids ascend, so the ones
\* skipped between two shown were never shown.
Show ==
  LET ids == Asked(effects)
      top == IF ids = {} THEN highest_shown
             ELSE CHOOSE id \in ids : \A other \in ids : other <= id
  IN /\ pending' = (pending \cup ids) \ Elements(closed)
     /\ never_shown' = never_shown \cup {id \in highest_shown + 1 .. top : id \notin ids}
     /\ highest_shown' = top

\* Faulty: Awaiting only if this poll asked for something.
StatusOfBatch == IF Asked(effects) # {} THEN "Awaiting" ELSE "Idle"

\* Status::classify of a pending poll.
PendingStatus == IF \E id \in Ids : slots[id] # "none" THEN "Awaiting" ELSE "Idle"

\* The poll returned Pending: drained, classified, shown.
Suspend ==
  /\ phase = "polling"
  /\ making[Poller] = << >>
  /\ Drain
  /\ Show
  /\ status' = PendingStatus
  /\ phase' = "idle"
  /\ UNCHANGED alone

\* The poll returned Ready: the future is dropped before the drain.
Return ==
  /\ phase = "polling"
  /\ making[Poller] = << >>
  /\ phase' = "ending"
  /\ UNCHANGED <<vars, status, hostVars, alone>>

\* Faulty: drained before the future is dropped.
CompleteUndropped ==
  /\ phase = "ending"
  /\ Drain
  /\ Show
  /\ status' = "Complete"
  /\ phase' = "done"
  /\ UNCHANGED alone

Complete ==
  /\ phase = "ending"
  /\ \A id \in Ids : owner[id] # Poller
  /\ Drain
  /\ Show
  /\ status' = "Complete"
  /\ phase' = "done"
  /\ UNCHANGED alone

MachineNext ==
  \/ Resume
  \/ \E id \in 0 .. MaxId + 1 : ReplyRefused(id)
  \/ \E id \in Ids : ReplyWrongKind(id) \/ ReplyMalformed(id) \/ ReplyOk(id)
  \/ RoutineStep \/ PassAwaiting \/ OtherStep
  \/ Suspend \/ Return \/ Complete

MachineSpec == MachineInit /\ [][MachineNext]_allVars

-----------------------------------------------------------------------------
(* Properties *)

MachineTypeOK ==
  /\ TypeOK
  /\ phase \in Phases
  /\ status \in {"Awaiting", "Idle", "Complete"}
  /\ pending \subseteq Ids
  /\ highest_shown \in 0 .. MaxId
  /\ never_shown \subseteq Ids
  /\ alone \in BOOLEAN

BetweenCalls == phase \in {"idle", "done"}
Replied == Asked(shown) \ handles

\* The reply codes tell a host's mistakes apart (ABI.md, Ids): BAD_INPUT for
\* exactly the ids it was never shown, gaps left by builds that panicked
\* included; STALE for exactly the shown ids it has answered or was told had
\* closed (but see PendingTracksDriver); and every open request it was shown
\* can be answered still, whatever replies of the wrong kind or with malformed
\* values came before.
CodesAreExact ==
  phase = "idle" =>
    \A id \in 0 .. MaxId + 1 :
      /\ CodeOf(id) = "BadInput" <=> id \notin Asked(shown)
      /\ CodeOf(id) = "Stale" => id \in Replied \cup Elements(reported)
      /\ id \in Replied => CodeOf(id) = "Stale"
      /\ id \in Asked(shown) /\ slots[id] = "waiting" => id \in pending

\* A host told Idle owes the routine no answer: any request it could still
\* answer is in the hands of another thread, not of the routine it stepped.
IdleOwesNothing ==
  phase = "idle" /\ status = "Idle" => \A id \in pending : owner[id] # Poller

\* While only the poll uses the outbox, a call leaves nothing behind: all that
\* was recorded is shown, all that was dropped is reported, the host's table
\* is exactly the requests awaiting a reply, and Complete leaves none.
CallsHandOverEverything ==
  alone /\ BetweenCalls =>
    /\ effects = << >> /\ building = None /\ held = << >> /\ closed = << >>
    /\ pending = {id \in Ids : slots[id] = "waiting"}
    /\ phase = "done" => \A id \in Ids : slots[id] = "none"

\* Machine::show's comment: forgetting the handles of dropped requests, "so
\* this table tracks the driver's rather than growing past it".  Between
\* calls, a pending request is one the mailbox still knows.
PendingTracksDriver ==
  BetweenCalls => \A id \in pending : slots[id] = "waiting" \/ id \in Elements(closed)

\* ABI.md, Frames: "A request the host has replied to is never closed".
RepliedNeverClosed ==
  [][\A id \in Replied : id \in Elements(reported') => id \in Elements(reported)]_allVars

=============================================================================
