----------------------------- MODULE Recording ------------------------------
(***************************************************************************)
(* Recording a run through the handle table, and replaying it              *)
(* (sans-effort-host/src/record.rs, the recording parts of table.rs).      *)
(*                                                                         *)
(* A host drives a root machine and what it creates, beside machines of    *)
(* others, with one or two recordings open.  Then the recorded machines    *)
(* are freed, the process may start anew, and a log is replayed on one     *)
(* thread, while others go on creating machines.                           *)
(*                                                                         *)
(* A call is one step and its log entry another.  The host calls a machine *)
(* from one thread at a time, so no call finds a machine busy; what a call *)
(* does inside is HandleTable's.  Wakes outside any call are not recorded  *)
(* and change no machine: WAKES is left out.  Channels are external.       *)
(***************************************************************************)
EXTENDS Codec, FiniteSets

CONSTANTS
  Threads,      \* the host's threads
  Setups,       \* what is recorded, and beside what: see Setup
  MaxCalls,     \* bound: calls of the host before it frees what is left
  MaxSlips      \* bound: of these, calls that no frame asked for

\* The root's routine; recorded once or twice; Table::next where it starts; a
\* bound: the machines others create, in the run and after.
Setup == [root : STRING, twice : BOOLEAN, start : Nat, strangers : Nat]
ASSUME SetupAssumption == \A setup \in Setups : setup \in Setup

VARIABLES
  table,    \* TABLE, and the machines in it
  reissue,  \* REISSUE of the thread that replays
  noting,   \* thread -> the call it has made and not logged, none or one
  host,     \* the host: what it runs, what it knows, how far it is
  replayed  \* the replay
vars == <<table, reissue, noting, host, replayed>>

-----------------------------------------------------------------------------
(* Routines *)

\* What a routine does, instruction by instruction.  A pinned child is
\* parked; the construction of a broken one panics.
Program(kind) ==
  CASE kind = "echo"     -> << "ask", "say" >>
    [] kind = "spawner"  -> << "spawn echo", "ask" >>
    [] kind = "speaker"  -> << "spawn listener", "ask", "send" >>
    [] kind = "listener" -> << "recv", "say" >>
    [] kind = "pinner"   -> << "pin echo", "ask" >>
    [] kind = "panicker" -> << "ask", "ask", "panic" >>
    [] kind = "risky"    -> << "pin broken", "ask" >>
    [] kind = "broken"   -> << >>

Kinds == {"echo", "spawner", "speaker", "listener", "pinner", "panicker", "risky", "broken"}
Children == [op \in {"spawn echo", "spawn listener", "pin echo", "pin broken"} |->
               CASE op \in {"spawn echo", "pin echo"} -> "echo"
                 [] op = "spawn listener" -> "listener"
                 [] op = "pin broken" -> "broken"]

\* ids: the last request id; open: the one awaited, or 0; got: its answer is
\* there; heard: the last thing received.  ear: the channel a listener reads,
\* whose sender is its parent; waits: its waker is in the channel.
NewMachine(kind, place, parent) ==
  [kind |-> kind, place |-> place, owner |-> 0, parent |-> parent,
   status |-> "New", pc |-> 1, ids |-> 0, open |-> 0, got |-> FALSE,
   heard |-> << >>, ear |-> "empty", waits |-> FALSE]

-----------------------------------------------------------------------------
(* Table *)

\* machines, parked and pinned are one function; `place` tells which.
NewTable(next) ==
  [at |-> << >>, next |-> next, recorded |-> << >>, sessions |-> << >>, session |-> 1]

Put(f, x, v) == [y \in DOMAIN f \cup {x} |-> IF y = x THEN v ELSE f[y]]
Drop(f, xs) == [y \in DOMAIN f \ xs |-> f[y]]
Get(f, x, default) == IF x \in DOMAIN f THEN f[x] ELSE default

Larger(a, b) == IF a > b THEN a ELSE b
Least(S) == CHOOSE x \in S : \A y \in S : x <= y

InUse(tb, handle) == handle \in DOMAIN tb.at

\* Faulty: a handle in use is not skipped.
IssueBlindly(tb, again) ==
  IF again # << >> /\ ~InUse(tb, Head(again))
  THEN [handle |-> Head(again), reissue |-> Tail(again),
        next |-> IF Head(again) < U64Max THEN Larger(tb.next, Head(again) + 1) ELSE tb.next]
  ELSE [handle |-> tb.next, reissue |-> << >>,
        next |-> IF tb.next < U64Max THEN tb.next + 1 ELSE 1]

\* Faulty: the handles of a log are issued as given, the counter left behind.
IssueFresh(tb, again) ==
  [handle |-> tb.next, reissue |-> again, next |-> IF tb.next < U64Max THEN tb.next + 1 ELSE 1]

\* Table::issue: the handle, Table::next after it, and REISSUE after it.
\* The recording's next handle is spent even where it cannot be issued.
Issue(tb, again) ==
  LET Free(S) == {h \in S : ~InUse(tb, h)}
      Fresh == IF Free(tb.next .. U64Max) # {} THEN Least(Free(tb.next .. U64Max))
               ELSE Least(Free(1 .. U64Max))
      Rest == IF again = << >> THEN << >> ELSE Tail(again)
  IN IF again # << >> /\ Head(again) # 0 /\ ~InUse(tb, Head(again))
     THEN [handle |-> Head(again), reissue |-> Rest,
           next |-> IF Head(again) < U64Max THEN Larger(tb.next, Head(again) + 1) ELSE tb.next]
     ELSE [handle |-> Fresh, reissue |-> Rest,
           next |-> IF Fresh < U64Max THEN Fresh + 1 ELSE 1]

\* Faulty: the child joins only the first of them.
AdoptFirst(tb, child, parent) ==
  IF parent \notin DOMAIN tb.recorded THEN tb
  ELSE LET s == tb.recorded[parent][1].session IN
    [tb EXCEPT !.sessions[s].handles = Append(@, child),
               !.recorded = Put(@, child, << [session |-> s, machine |-> Len(tb.sessions[s].handles)] >>)]

\* Table::adopt: the child joins each open session of the machine called.
Adopt(tb, child, parent) ==
  LET taps == SelectSeq(Get(tb.recorded, parent, << >>),
                        LAMBDA tap : tap.session \in DOMAIN tb.sessions)
      sessions == {taps[i].session : i \in DOMAIN taps}
      number(s) == Len(tb.sessions[s].handles)
  IN IF parent \notin DOMAIN tb.recorded THEN tb
     ELSE [tb EXCEPT
       !.sessions = [s \in DOMAIN @ |-> IF s \in sessions
                      THEN [@[s] EXCEPT !.handles = Append(@, child)] ELSE @[s]],
       !.recorded = Put(@, child, Get(@, child, << >>) \o
          [i \in DOMAIN taps |-> [session |-> taps[i].session, machine |-> number(taps[i].session)]])]

\* Table::note.
Note(tb, handle, event) ==
  FoldLeft(LAMBDA t, tap :
             IF tap.session \notin DOMAIN t.sessions THEN t
             ELSE [t EXCEPT !.sessions[tap.session].events =
                              Append(@, [event EXCEPT !.machine = tap.machine])],
           tb, Get(tb.recorded, handle, << >>))

\* table::new, new_boxed and new_pinned, in a call on `parent` or, with 0, in
\* none: the table, REISSUE, and the handle.
Create(tb, again, kind, place, parent) ==
  LET issued == Issue(tb, again)
      added == [tb EXCEPT !.at = Put(@, issued.handle, NewMachine(kind, place, parent)),
                          !.next = issued.next]
  IN [table |-> IF parent = 0 THEN added ELSE Adopt(added, issued.handle, parent),
      reissue |-> issued.reissue, handle |-> issued.handle]

\* table::start_recording.
StartRecording(tb, root) ==
  LET session == tb.session IN
  [tb EXCEPT !.session = @ + 1,
             !.sessions = Put(@, session, [handles |-> << root >>, events |-> << >>]),
             !.recorded = Put(@, root, Append(Get(@, root, << >>), [session |-> session, machine |-> 0]))]

\* Faulty: the taps stay.
FinishButTap(tb, session) == [tb EXCEPT !.sessions = Drop(@, {session})]

\* table::finish_recording; the log is tb.sessions[session].
FinishRecording(tb, session) ==
  LET kept == [h \in DOMAIN tb.recorded |->
                 SelectSeq(tb.recorded[h], LAMBDA tap : tap.session # session)]
  IN [tb EXCEPT !.recorded = [h \in {x \in DOMAIN kept : kept[x] # << >>} |-> kept[h]],
                !.sessions = Drop(@, {session})]

\* table::recorded_handle; 0 for none.
RecordedHandle(tb, session, machine) ==
  IF machine < Len(tb.sessions[session].handles)
  THEN tb.sessions[session].handles[machine + 1] ELSE 0

-----------------------------------------------------------------------------
(* A poll *)

Listeners(tb, h) == {c \in DOMAIN tb.at : tb.at[c].parent = h /\ tb.at[c].kind = "listener"}

\* A message, or the end of the channel: the table, and who it wakes.
Tell(tb, h, what) ==
  LET ears == {c \in Listeners(tb, h) : tb.at[c].ear = "empty"} IN
  [table |-> [tb EXCEPT !.at = [c \in DOMAIN @ |-> IF c \in ears
                 THEN [@[c] EXCEPT !.ear = what, !.waits = FALSE] ELSE @[c]]],
   woken |-> {c \in ears : tb.at[c].waits}]

\* The machine is dropped, and its sender with it.
Removed(tb, h) == [Tell(tb, h, "closed").table EXCEPT !.at = Drop(@, {h})]

\* h's routine has made a child.
Spawned(h, s, made) ==
  [s EXCEPT !.table = [made.table EXCEPT !.at[h].pc = @ + 1], !.reissue = made.reissue,
            !.born = @ \cup {made.handle},
            !.out = @ \o EffectFrame(FRAME_TELL, U8(3) \o U64(made.handle))]

\* One instruction of h's routine: it is done, or the routine stops there.
Do(h, s, op) ==
  LET m == s.table.at[h]
      Stop(new, out, end) == [s EXCEPT !.table.at[h] = new, !.out = @ \o out, !.end = end]
      Go(new, out) == Stop([new EXCEPT !.pc = @ + 1], out, "")
      Spawn(place) == Spawned(h, s, Create(s.table, s.reissue, Children[op], place, h))
  IN CASE s.end # "" -> s
       [] op = "ask" /\ m.got -> Go([m EXCEPT !.got = FALSE], << >>)
       [] op = "ask" /\ ~m.got /\ m.open # 0 -> Stop(m, << >>, "Awaiting")
       [] op = "ask" /\ ~m.got /\ m.open = 0 ->
            Stop([m EXCEPT !.ids = @ + 1, !.open = m.ids + 1],
                 EffectFrame(FRAME_ASK, U8(1) \o U64(m.ids + 1)), "Awaiting")
       [] op = "say" -> Go(m, EffectFrame(FRAME_TELL, U8(2) \o Bytes(m.heard)))
       [] op \in {"spawn echo", "spawn listener"} -> Spawn("migrating")
       [] op \in {"pin echo", "pin broken"} -> Spawn("parked")
       [] op = "send" ->
            LET told == Tell(s.table, h, "mail") IN
            [s EXCEPT !.table = [told.table EXCEPT !.at[h].pc = @ + 1], !.woken = @ \cup told.woken]
       [] op = "recv" /\ m.ear = "empty" -> Stop([m EXCEPT !.waits = TRUE], << >>, "Idle")
       [] op = "recv" /\ m.ear # "empty" ->
            Go([m EXCEPT !.heard = IF m.ear = "mail" THEN << 1 >> ELSE << 0 >>], << >>)
       [] op = "panic" -> [s EXCEPT !.end = "panic"]

StatusCode == [Awaiting |-> AWAITING, Idle |-> IDLE, Complete |-> COMPLETE]

\* What a call gives: the table, REISSUE, the outcome, whether it reaches its
\* `note`, and the machines it created.
Returned(tb, again, code) ==
  [table |-> tb, reissue |-> again, outcome |-> Outcome(code, << >>), noted |-> TRUE, born |-> {}]

\* How a poll that ran so far ends, in `guarded` and `reporting_wakes`.  A
\* routine that completes is dropped, its machine stays; one that panics is
\* removed, and what it had recorded and woken is not in the outcome.
Polled(h, ran) ==
  LET end == IF ran.end = "" THEN "Complete" ELSE ran.end
      dropped == IF end = "Complete" THEN Tell(ran.table, h, "closed")
                 ELSE [table |-> ran.table, woken |-> {}]
      woke == FlattenSeq(SetToSeq({EffectFrame(FRAME_WOKE, U64(c)) : c \in ran.woken \cup dropped.woken}))
  IN IF end = "panic"
     THEN [Returned(Removed(ran.table, h), ran.reissue, PANICKED) EXCEPT !.born = ran.born]
     ELSE [Returned([dropped.table EXCEPT !.at[h].status = end], ran.reissue, OK) EXCEPT
             !.born = ran.born,
             !.outcome = Outcome(StatusCode[end], ran.out \o woke)]

\* Poll h's routine to its next wait.
Poll(tb, again, h) ==
  LET ops == Program(tb.at[h].kind)
      start == [table |-> tb, reissue |-> again, out |-> << >>, woken |-> {}, born |-> {}, end |-> ""]
  IN Polled(h, FoldLeft(LAMBDA s, op : Do(h, s, op), start, SubSeq(ops, tb.at[h].pc, Len(ops))))

\* find: OK, or the error.
Find(tb, t, h) ==
  IF ~InUse(tb, h) THEN BAD_HANDLE
  ELSE CASE tb.at[h].place = "migrating" -> OK
         [] tb.at[h].place = "parked" -> BAD_INPUT
         [] tb.at[h].place = "pinned" -> IF tb.at[h].owner = t THEN OK ELSE WRONG_THREAD

-----------------------------------------------------------------------------
(* Calls *)

\* table::resume.  A construction that panics returns at once.
Resume(tb, again, t, h) ==
  LET parked == InUse(tb, h) /\ tb.at[h].place = "parked"
      built == IF parked THEN [tb EXCEPT !.at[h].place = "pinned", !.at[h].owner = t] ELSE tb
      found == Find(built, t, h)
  IN CASE parked /\ tb.at[h].kind = "broken" ->
            [Returned(Removed(tb, h), again, PANICKED) EXCEPT !.noted = FALSE]
       [] found # OK -> Returned(built, again, found)
       [] OTHER -> IF built.at[h].status = "Complete" THEN Returned(built, again, FINISHED)
                   ELSE Poll(built, again, h)

\* table::reply and Encoded::reply.  Every request here awaits a str.
Reply(tb, again, t, h, record) ==
  LET found == Find(tb, t, h)
      input == DecodeInput(record)
      m == tb.at[h]
      Refused(code) == Returned(tb, again, code)
  IN IF found # OK THEN Refused(found)
     ELSE IF ~input.ok THEN Refused(MALFORMED)
     ELSE LET id == input.value.id IN
       CASE m.status = "Complete" -> Refused(FINISHED)
         [] m.status # "Complete" /\ id # 0 /\ id = m.open ->
              IF input.value.kind # "Str" THEN Refused(WRONG_KIND)
              ELSE Poll([tb EXCEPT !.at[h].open = 0, !.at[h].got = TRUE,
                                   !.at[h].heard = input.value.value], again, h)
         [] m.status # "Complete" /\ (id = 0 \/ id # m.open) ->
              Refused(IF id # 0 /\ id <= m.ids THEN STALE ELSE BAD_INPUT)

\* table::free.
Free(tb, again, t, h) ==
  IF Find(tb, t, h) \in {OK, BAD_INPUT} THEN Returned(Removed(tb, h), again, OK)
  ELSE Returned(tb, again, Find(tb, t, h))

Make(tb, again, t, h, call, record) ==
  CASE call = "resume" -> Resume(tb, again, t, h)
    [] call = "reply" -> Reply(tb, again, t, h, record)
    [] call = "free" -> Free(tb, again, t, h)

-----------------------------------------------------------------------------
(* The host's run *)

\* The root is created and recorded before it is resumed.
InitWith(setup, sort) ==
  LET made == Create(NewTable(setup.start), << >>, setup.root, "migrating", 0)
      one == StartRecording(made.table, made.handle)
  IN /\ table = IF setup.twice THEN StartRecording(one, made.handle) ELSE one
     /\ reissue = << >>
     /\ noting = [t \in Threads |-> << >>]
     /\ host = [setup |-> setup, sort |-> sort, phase |-> "run", known |-> {made.handle},
                strangers |-> {}, made |-> << >>, calls |-> 0, slips |-> 0, kept |-> << >>,
                born |-> 1, dead |-> 0]
     /\ replayed = << >>

Init == \E setup \in Setups, sort \in {"sequential", "parallel"} : InitWith(setup, sort)

Quiet == \A t \in Threads : noting[t] = << >>

\* The thread that replays.
Replayer == CHOOSE t \in Threads : TRUE

Migrating(h) == InUse(table, h) => table.at[h].place = "migrating"

\* A sequential host makes one call at a time, a parallel one a call on each
\* machine.  Which thread calls a migrating machine makes no difference to a
\* sequential run: the first does.
MayCall(t, h) ==
  /\ noting[t] = << >>
  /\ IF host.sort = "sequential" THEN Quiet /\ (Migrating(h) => t = Replayer)
     ELSE \A u \in Threads : noting[u] # << >> => noting[u][1].handle # h

\* What the frames and statuses tell a host to do.
Asked(h, call, record) ==
  /\ InUse(table, h)
  /\ \/ call = "resume" /\ table.at[h].status = "New"
     \/ call = "resume" /\ table.at[h].status = "Idle" /\ table.at[h].ear # "empty"
     \/ call = "reply" /\ table.at[h].open # 0 /\ record = StrRecord(table.at[h].open, << 2 >>)
     \/ call = "free"

\* An answer, a late or early one, one of another kind, and one cut short.
Records == {StrRecord(1, << 2 >>), StrRecord(2, << 2 >>), U8(3) \o U64(1), U8(1)}

Arguments(call) == IF call = "reply" THEN Records ELSE {<< >>}

Call(t, h, call, record) ==
  /\ host.phase = "run" /\ MayCall(t, h)
  /\ call = "free" => h \notin host.strangers
  /\ \E result \in {Make(table, reissue, t, h, call, record)} :
       LET event == EventOf(call, 0, record, result.outcome)
           slip == IF Asked(h, call, record) THEN 0 ELSE 1
           dies == InUse(table, h) /\ ~InUse(result.table, h)
       IN /\ IF host.calls < MaxCalls THEN host.slips + slip <= MaxSlips
             ELSE call = "free" /\ InUse(table, h) /\ result.outcome.code = OK
          /\ table' = result.table
          /\ noting' = [noting EXCEPT ![t] =
               << [handle |-> h, event |-> event, noted |-> result.noted, born |-> result.born] >>]
          /\ host' = [host EXCEPT
               !.made = Append(@, [handle |-> h, event |-> event]),
               !.calls = IF @ < MaxCalls THEN @ + 1 ELSE @, !.slips = @ + slip,
               !.born = @ + Cardinality(result.born),
               !.dead = @ + (IF dies THEN 1 ELSE 0)]
  /\ UNCHANGED <<reissue, replayed>>

\* The call is logged and returns; now the host knows its children.
Log(t) ==
  /\ noting[t] # << >>
  /\ LET call == noting[t][1] IN
     /\ table' = IF call.noted THEN Note(table, call.handle, call.event) ELSE table
     /\ host' = [host EXCEPT !.known = @ \cup call.born]
  /\ noting' = [noting EXCEPT ![t] = << >>]
  /\ UNCHANGED <<reissue, replayed>>

\* Another's machine, which no session records: the host may run it too.
Stranger ==
  /\ Cardinality(host.strangers) < host.setup.strangers
  /\ host.phase = "run" => Quiet /\ host.calls < MaxCalls /\ host.strangers = {}
  /\ LET made == Create(table, << >>, "echo", "migrating", 0) IN
     /\ table' = made.table
     /\ host' = [host EXCEPT !.known = @ \cup {made.handle}, !.born = @ + 1,
                             !.strangers = @ \cup {made.handle}]
  /\ UNCHANGED <<reissue, noting, replayed>>

\* Recorder::finish, or a dropped recorder: the first of two at any time, the
\* last once its machines are freed.
FinishRecorder(session) ==
  /\ host.phase = "run" /\ Quiet
  /\ session \in DOMAIN table.sessions
  /\ Cardinality(DOMAIN table.sessions) = 1 => DOMAIN table.at \subseteq host.strangers
  /\ table' = FinishRecording(table, session)
  /\ host' = [host EXCEPT !.kept = Put(@, session, table.sessions[session])]
  /\ UNCHANGED <<reissue, noting, replayed>>

\* Replaying starts, in this process or in another, whose table may have a
\* machine of its own.
Restart ==
  /\ host.phase = "run" /\ Quiet /\ table.sessions = << >>
  /\ \/ /\ UNCHANGED table
        /\ host' = [host EXCEPT !.phase = "replay"]
     \/ /\ host.setup.strangers > 0
        /\ table' = Create(NewTable(1), << >>, "echo", "migrating", 0).table
        /\ host' = [host EXCEPT !.phase = "replay", !.strangers = {1}, !.known = {1},
                                !.born = 1, !.dead = 0]
  /\ UNCHANGED <<reissue, noting, replayed>>

-----------------------------------------------------------------------------
(* record::replay *)

LogOf(session) == host.kept[session]

\* The log goes through bytes; it may lack its first call, and the root may be
\* another routine.
Replay(session, root, lost) ==
  LET saved == DecodeLog(EncodeLog(LogOf(session))).value
      log == [saved EXCEPT !.events = SubSeq(@, lost + 1, Len(@))]
      made == Create(table, log.handles, root, "migrating", 0)
  IN /\ host.phase = "replay" /\ replayed = << >>
     /\ replayed' = << [log |-> log, of |-> session, root |-> root, session |-> made.table.session,
                        at |-> 1, verdict |-> "", own |-> << >>] >>
     /\ table' = StartRecording(made.table, made.handle)
     /\ reissue' = made.reissue
     /\ host' = [host EXCEPT !.born = @ + 1]
     /\ UNCHANGED noting

Ongoing == replayed # << >> /\ replayed[1].verdict = "" /\ host.phase = "replay"

\* The next call, logged in the replay's own session, and compared.
ReplayCall ==
  /\ Ongoing /\ replayed[1].at <= Len(replayed[1].log.events)
  /\ LET r == replayed[1]
         event == r.log.events[r.at]
         h == RecordedHandle(table, r.session, event.machine)
     IN IF h = 0
        THEN /\ replayed' = << [r EXCEPT !.verdict = "Missing"] >>
             /\ UNCHANGED <<table, reissue, host>>
        ELSE \E result \in {Make(table, reissue, Replayer, h, event.call, event.record)} :
             LET own == EventOf(event.call, 0, event.record, result.outcome)
                 dies == InUse(table, h) /\ ~InUse(result.table, h)
             IN /\ table' = IF result.noted THEN Note(result.table, h, own) ELSE result.table
                /\ reissue' = result.reissue
                /\ replayed' = << [r EXCEPT !.at = @ + 1,
                     !.verdict = IF result.outcome = event.outcome THEN "" ELSE "Outcome"] >>
                /\ host' = [host EXCEPT !.born = @ + Cardinality(result.born),
                                        !.dead = @ + (IF dies THEN 1 ELSE 0)]
  /\ UNCHANGED noting

\* Faulty: returns at the first divergence.
ReplayReturnsEarly ==
  LET r == replayed[1] IN
  /\ replayed # << >> /\ host.phase = "replay"
  /\ r.verdict # "" \/ r.at > Len(r.log.events)
  /\ reissue' = << >>
  /\ table' = FinishRecording(table, r.session)
  /\ replayed' = << [r EXCEPT !.verdict = IF @ = "" THEN "Agrees" ELSE @,
                              !.own = table.sessions[r.session]] >>
  /\ host' = [host EXCEPT !.phase = "done"]
  /\ UNCHANGED noting

\* Drop the guard of REISSUE, finish the recorder, free its machines.
ReplayReturns ==
  LET r == replayed[1]
      own == table.sessions[r.session]
      live == ToSet(own.handles) \cap DOMAIN table.at
      finished == FinishRecording(table, r.session)
  IN /\ replayed # << >> /\ host.phase = "replay"
     /\ r.verdict # "" \/ r.at > Len(r.log.events)
     /\ reissue' = << >>
     /\ table' = FoldLeft(LAMBDA tb, h : Free(tb, << >>, Replayer, h).table, finished, own.handles)
     /\ replayed' = << [r EXCEPT !.verdict = IF @ = "" THEN "Agrees" ELSE @, !.own = own] >>
     /\ host' = [host EXCEPT !.phase = "done", !.dead = @ + Cardinality(live)]
     /\ UNCHANGED noting

-----------------------------------------------------------------------------
Next ==
  \/ \E t \in Threads, h \in host.known, call \in ToSet(Calls) :
       \E record \in Arguments(call) : Call(t, h, call, record)
  \/ \E t \in Threads : Log(t)
  \/ Stranger
  \/ \E session \in DOMAIN table.sessions : FinishRecorder(session)
  \/ Restart
  \/ \E session \in DOMAIN host.kept, root \in {host.setup.root, "echo"}, lost \in 0 .. 1 :
       (lost = 1 => root = host.setup.root) /\ Replay(session, root, lost)
  \/ ReplayCall
  \/ ReplayReturns

Spec == Init /\ [][Next]_vars

-----------------------------------------------------------------------------
(* Properties *)

\* Types: machines, taps and sessions are where they should be, and what a
\* call, a log and a replay hold is of the right form.
TypeOK ==
  /\ \A h \in DOMAIN table.at :
       /\ table.at[h].kind \in Kinds
       /\ table.at[h].place \in {"migrating", "parked", "pinned"}
       /\ table.at[h].place = "pinned" => table.at[h].owner \in Threads
       /\ table.at[h].open \in 0 .. table.at[h].ids
  /\ table.next \in 1 .. U64Max
  /\ \A h \in DOMAIN table.recorded : \A i \in DOMAIN table.recorded[h] :
       LET tap == table.recorded[h][i] IN
       /\ tap.session \in DOMAIN table.sessions
       /\ RecordedHandle(table, tap.session, tap.machine) = h
  /\ \A session \in DOMAIN table.sessions :
       \A i \in DOMAIN table.sessions[session].events :
         LET e == table.sessions[session].events[i] IN
         /\ e.call \in ToSet(Calls)
         /\ e.machine < Len(table.sessions[session].handles)
         /\ e.outcome.code \in -9 .. 2
         /\ e.outcome.bytes \in Seq(Byte)
  /\ \A t \in Threads : Len(noting[t]) <= 1
  /\ host.phase \in {"run", "replay", "done"}
  /\ replayed = << >> \/ replayed[1].verdict \in {"", "Agrees", "Outcome", "Missing"}

Sessions == DOMAIN table.sessions \cup DOMAIN host.kept
LogNow(session) ==
  IF session \in DOMAIN host.kept THEN host.kept[session] ELSE table.sessions[session]

\* The calls the host has made on the machines of its run, as `session`
\* numbers them; 99 is a machine the session has not adopted.
Numbered(session, calls) ==
  LET handles == LogNow(session).handles
      numbers(h) == {i \in DOMAIN handles : handles[i] = h}
  IN [i \in DOMAIN calls |->
        [calls[i].event EXCEPT !.machine =
           IF numbers(calls[i].handle) = {} THEN 99 ELSE Least(numbers(calls[i].handle)) - 1]]

\* A log is the run as the host made it: each call on the root and on what it
\* created, in every session open then, in call order, and no call on another
\* machine.  On a parallel host the order is each machine's own.  A call
\* under way may be missing at the end; what came after a session finished is.
LogIsTheRun ==
  host.phase = "run" =>
    LET mine == SelectSeq(host.made, LAMBDA c : c.handle \notin host.strangers)
        of(seq, machine) == SelectSeq(seq, LAMBDA e : e.machine = machine)
    IN \A session \in Sessions :
         LET events == LogNow(session).events
             all == Numbered(session, mine)
             settled == Quiet /\ session \notin DOMAIN host.kept
         IN /\ settled => Len(events) = Len(all)
            /\ IF host.sort = "sequential" THEN IsPrefix(events, all)
               ELSE \A i \in DOMAIN events :
                      IsPrefix(of(events, events[i].machine), of(all, events[i].machine))

\* "A run from a host that makes one call at a time replays exactly", whatever
\* it called, killed or got refused, in this process or another, beside
\* whatever machines others create: every outcome is the recorded one and the
\* replay records the same log.  Two things are asked: no call of the run came
\* from the wrong thread (a replay has one), and no machine of others holds a
\* recorded handle.
ReplayAgrees ==
  \A i \in DOMAIN replayed :
    LET r == replayed[i] IN
    (/\ host.phase = "done" /\ host.sort = "sequential" /\ r.root = host.setup.root
     /\ r.log = LogOf(r.of)
     /\ \A j \in DOMAIN r.log.events : r.log.events[j].outcome.code # WRONG_THREAD
     /\ ToSet(r.log.handles) \cap host.strangers = {})
    => r.verdict = "Agrees" /\ r.own = r.log

\* However a replay ends, also at a call that diverges or names a machine
\* never created, each machine it created is gone, those of others are there,
\* its session is closed, and handles are fresh again.  (Where the counter has
\* been round, another may have been issued a handle the replay had freed: the
\* replay then frees that machine too.)
ReplayLeavesNothing ==
  host.phase = "done" =>
    /\ host.strangers \cap ToSet(replayed[1].own.handles) = {} => DOMAIN table.at = host.strangers
    /\ table.sessions = << >> /\ table.recorded = << >>
    /\ reissue = << >>

\* No machine is issued the handle of another, nor 0, though a replay moves
\* the counter, to the end of u64 and round again: none is lost that way.
HandlesAreUnique ==
  /\ 0 \notin DOMAIN table.at
  /\ Cardinality(DOMAIN table.at) = host.born - host.dead

ShortLog == 3

\* A log survives being saved: it reads back as it was; cut short anywhere, or
\* with more after it, it is refused; with one byte changed, it is refused or
\* is not that log.  Checked on logs of at most ShortLog calls.
SavedLogSurvives ==
  host.phase = "replay" /\ replayed = << >> =>
    \A session \in DOMAIN host.kept :
      LET log == host.kept[session]
          saved == EncodeLog(log)
      IN Len(log.events) > ShortLog \/
         /\ DecodeLog(saved) = Got(log, << >>)
         /\ ~DecodeLog(saved \o U8(0)).ok
         /\ \A n \in 0 .. Len(saved) - 1 : ~DecodeLog(SubSeq(saved, 1, n)).ok
         /\ \A n \in DOMAIN saved :
              DecodeLog([saved EXCEPT ![n] = (@ + 1) % Base]) # Got(log, << >>)

=============================================================================
