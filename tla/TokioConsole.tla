---------------------------- MODULE TokioConsole ----------------------------
(***************************************************************************)
(* The console of the ready-made tokio context (sans-effort-tokio,         *)
(* console.rs and ctx.rs): lines in, lines out, and who shares them.       *)
(*                                                                         *)
(* Every clone of a TokioCtx shares one Console behind one Arc.  A read    *)
(* holds tokio's mutex, which serves its waiters in order, across its      *)
(* awaits, and may be dropped at any of them; what it had taken stays in   *)
(* `partial`.  A write is one synchronous call, on any thread: it looks at *)
(* `failed`, locks, writes a text and its newline, and on an error sets    *)
(* the flag.  The mutexes, the Arc, the reader and the writer are          *)
(* external; a writer that panics is left out.                             *)
(***************************************************************************)
EXTENDS Naturals, Sequences, FiniteSets, SequencesExt

CONSTANTS
  Users,       \* who may hold a context: tasks, and the sides of their joins
  First,       \* who made it
  MaxBytes,    \* bound: bytes that arrive
  MaxReads,    \* bound: reads begun
  MaxErrors,   \* bound: read errors
  MaxLines     \* bound: lines written

ASSUME ConsoleAssumption ==
  /\ First \in Users /\ "nobody" \notin Users /\ IsFiniteSet(Users)
  /\ {MaxBytes, MaxReads, MaxErrors, MaxLines} \subseteq Nat

VARIABLES
  buffered,   \* bytes that arrived and no read has taken
  ended,      \* the end of input comes after them
  partial,    \* the line in progress
  holder,     \* who has the input's mutex, or Free
  waiting,    \* who waits for it, in order
  given,      \* history: who was given a result last, and which
  arrived,    \* bound: bytes so far
  reads,      \* bound: reads so far
  errors,     \* bound: read errors so far
  writing,    \* user -> where its write_line is: "no", "checked", "text"
  failed,     \* the output's flag
  logged,     \* warnings logged
  sink,       \* what the writer was given: texts and newlines
  late,       \* history: lines that reached the writer after a failure
  begun,      \* bound: lines so far
  shares,     \* who holds a clone of the context
  parts       \* the reader and the writer were taken back

input == <<buffered, ended, partial, holder, waiting, given, arrived, reads,
           errors>>
output == <<writing, failed, logged, sink, late, begun>>
sharing == <<shares, parts>>
vars == <<input, output, sharing>>

Free == "nobody"

\* The line queue this implements: a byte a read has taken and not returned
\* is still the input's, and the mutex's holder is the first reader.
Lines == INSTANCE LineQueue WITH
  stream <- partial \o buffered,
  asking <- IF holder = Free THEN waiting ELSE <<holder>> \o waiting

LF == Lines!LF

TypeOK ==
  /\ buffered \in Seq(Lines!Bytes) /\ partial \in Seq(Lines!Bytes)
  /\ ended \in BOOLEAN
  /\ holder \in Users \cup {Free}
  /\ waiting \in Seq(Users)
  /\ given \in [user : Users, result : Lines!Results] \cup {Lines!Nobody}
  /\ arrived \in 0 .. MaxBytes /\ reads \in 0 .. MaxReads
  /\ errors \in 0 .. MaxErrors /\ begun \in 0 .. MaxLines
  /\ writing \in [Users -> {"no", "checked", "text"}]
  /\ failed \in BOOLEAN /\ logged \in Nat /\ late \in Nat
  /\ sink \in Seq([user : Users, part : {"text", "end"}])
  /\ shares \subseteq Users /\ parts \in BOOLEAN

Init ==
  /\ buffered = << >> /\ ended = FALSE /\ partial = << >>
  /\ holder = Free /\ waiting = << >> /\ given = Lines!Nobody
  /\ arrived = 0 /\ reads = 0 /\ errors = 0
  /\ writing = [u \in Users |-> "no"]
  /\ failed = FALSE /\ logged = 0 /\ sink = << >> /\ late = 0 /\ begun = 0
  /\ shares = {First} /\ parts = FALSE

Reading(u) == u = holder \/ u \in Range(waiting)

\* u is in no call of the console.
AtRest(u) == ~Reading(u) /\ writing[u] = "no"

-----------------------------------------------------------------------------
(* The input *)

\* The other end of the reader.
Arrive ==
  /\ arrived < MaxBytes /\ ~ended
  /\ \E b \in Lines!Bytes : buffered' = Append(buffered, b)
  /\ arrived' = arrived + 1
  /\ UNCHANGED <<ended, partial, holder, waiting, given, reads, errors, output,
                 sharing>>

EndInput ==
  /\ ~ended
  /\ ended' = TRUE
  /\ UNCHANGED <<buffered, partial, holder, waiting, given, arrived, reads,
                 errors, output, sharing>>

\* read_line is polled for the first time: it locks, or gets in line.
ReadLine(u) ==
  /\ u \in shares /\ AtRest(u)
  /\ reads < MaxReads
  /\ reads' = reads + 1
  /\ IF holder = Free THEN holder' = u /\ UNCHANGED waiting
                      ELSE waiting' = Append(waiting, u) /\ UNCHANGED holder
  /\ UNCHANGED <<buffered, ended, partial, given, arrived, errors, output,
                 sharing>>

\* The guard is dropped: the mutex is the first waiter's.
Unlock ==
  \/ /\ waiting = << >>
     /\ holder' = Free
     /\ UNCHANGED waiting
  \/ /\ waiting # << >>
     /\ holder' = Head(waiting)
     /\ waiting' = Tail(waiting)

\* The read is over, with this result.
Returns(result) ==
  /\ given' = [user |-> holder, result |-> result]
  /\ Unlock

\* read_until: a byte of the line goes to `partial`.
TakeByte ==
  /\ holder # Free
  /\ buffered # << >> /\ Head(buffered) # LF
  /\ partial' = Append(partial, Head(buffered))
  /\ buffered' = Tail(buffered)
  /\ UNCHANGED <<ended, holder, waiting, given, arrived, reads, errors, output,
                 sharing>>

\* read_until has reached the newline.
TakeLine ==
  /\ holder # Free
  /\ buffered # << >> /\ Head(buffered) = LF
  /\ Returns(Lines!LineOf(Append(partial, LF)))
  /\ partial' = << >>
  /\ buffered' = Tail(buffered)
  /\ UNCHANGED <<ended, arrived, reads, errors, output, sharing>>

\* Faulty: the end of input is Closed, whatever a dropped read had taken.
MeetEndClosed ==
  /\ holder # Free
  /\ buffered = << >> /\ ended
  /\ Returns(Lines!Closed)
  /\ partial' = << >>
  /\ UNCHANGED <<buffered, ended, arrived, reads, errors, output, sharing>>

\* Faulty: a line without its newline is still waited for.
MeetEndOfNoLine ==
  /\ holder # Free
  /\ buffered = << >> /\ ended /\ partial = << >>
  /\ Returns(Lines!Closed)
  /\ UNCHANGED <<buffered, ended, partial, arrived, reads, errors, output,
                 sharing>>

\* read_until has met the end of input: a line held is still a line.
MeetEnd ==
  /\ holder # Free
  /\ buffered = << >> /\ ended
  /\ Returns(IF partial = << >> THEN Lines!Closed ELSE Lines!LineOf(partial))
  /\ partial' = << >>
  /\ UNCHANGED <<buffered, ended, arrived, reads, errors, output, sharing>>

\* The reader fails: the line begun is cleared.
MeetError ==
  /\ holder # Free
  /\ buffered = << >>
  /\ errors < MaxErrors
  /\ errors' = errors + 1
  /\ Returns(Lines!Failed)
  /\ partial' = << >>
  /\ UNCHANGED <<buffered, ended, arrived, reads, output, sharing>>

\* A waiter leaves the line.
LeaveLine(u) ==
  /\ \E i \in DOMAIN waiting : waiting[i] = u /\ waiting' = RemoveAt(waiting, i)
  /\ UNCHANGED holder

\* Faulty: what the read had taken is thrown away, as tokio's own read_line
\* does.
DropReadForgetting(u) ==
  /\ \/ u = holder /\ Unlock /\ partial' = << >>
     \/ LeaveLine(u) /\ UNCHANGED partial
  /\ UNCHANGED <<buffered, ended, given, arrived, reads, errors, output,
                 sharing>>

\* The read is dropped, the losing side of a select: its place or its guard
\* goes, and what it had taken stays.
DropRead(u) ==
  /\ \/ u = holder /\ Unlock
     \/ LeaveLine(u)
  /\ UNCHANGED <<buffered, ended, partial, given, arrived, reads, errors,
                 output, sharing>>

Read == TakeByte \/ TakeLine \/ MeetEnd

-----------------------------------------------------------------------------
(* The output *)

\* write_line: nothing once a write has failed.
WriteLine(u) ==
  /\ u \in shares /\ AtRest(u)
  /\ begun < MaxLines
  /\ begun' = begun + 1
  /\ writing' = IF failed THEN writing ELSE [writing EXCEPT ![u] = "checked"]
  /\ UNCHANGED <<failed, logged, sink, late, input, sharing>>

\* No guard of the writer's mutex is held.
Unlocked == \A u \in Users : writing[u] # "text"

Puts(u, part) == sink' = Append(sink, [user |-> u, part |-> part])

\* Faulty: whoever fails logs it.
FailLogging(u) ==
  /\ failed' = TRUE
  /\ logged' = logged + 1
  /\ writing' = [writing EXCEPT ![u] = "no"]

\* A write or the flush fails: the flag is set, by whoever is first, who logs.
Fail(u) ==
  /\ failed' = TRUE
  /\ logged' = IF failed THEN logged ELSE logged + 1
  /\ writing' = [writing EXCEPT ![u] = "no"]

\* Faulty: the text goes to the writer with no lock.
WriteTextUnlocked(u) ==
  /\ writing[u] = "checked"
  /\ late' = IF failed THEN late + 1 ELSE late
  /\ \/ /\ Puts(u, "text")
        /\ writing' = [writing EXCEPT ![u] = "text"]
        /\ UNCHANGED <<failed, logged>>
     \/ Fail(u) /\ (Puts(u, "text") \/ UNCHANGED sink)
  /\ UNCHANGED <<begun, input, sharing>>

\* The writer is locked and given the text, or fails at it.
WriteText(u) ==
  /\ writing[u] = "checked" /\ Unlocked
  /\ late' = IF failed THEN late + 1 ELSE late
  /\ \/ /\ Puts(u, "text")
        /\ writing' = [writing EXCEPT ![u] = "text"]
        /\ UNCHANGED <<failed, logged>>
     \/ Fail(u) /\ (Puts(u, "text") \/ UNCHANGED sink)
  /\ UNCHANGED <<begun, input, sharing>>

\* The newline and the flush; the guard is dropped.
WriteEnd(u) ==
  /\ writing[u] = "text"
  /\ \/ /\ Puts(u, "end")
        /\ writing' = [writing EXCEPT ![u] = "no"]
        /\ UNCHANGED <<failed, logged>>
     \/ /\ Fail(u)
        /\ Puts(u, "end") \/ UNCHANGED sink
  /\ UNCHANGED <<late, begun, input, sharing>>

-----------------------------------------------------------------------------
(* The context *)

\* One more reference to the Arc.
CloneFor(v) ==
  /\ v \notin shares
  /\ shares' = shares \cup {v}

\* A clone, for a child spawned on the runtime or pinned to the pool.
Share(u, v) ==
  /\ u \in shares /\ CloneFor(v)
  /\ UNCHANGED <<parts, input, output>>

\* A clone is dropped.
LetGo(u) ==
  /\ u \in shares /\ AtRest(u)
  /\ shares' = shares \ {u}
  /\ UNCHANGED <<parts, input, output>>

\* Faulty: whoever asks has them.
IntoPartsShared(u) ==
  /\ u \in shares /\ AtRest(u)
  /\ shares' = shares \ {u}
  /\ parts' = TRUE
  /\ UNCHANGED <<input, output>>

\* into_parts, for the last clone: the console is over, and a line a dropped
\* read had begun with it.  (For another it gives the context back.)
IntoParts(u) ==
  /\ shares = {u} /\ AtRest(u)
  /\ shares' = {}
  /\ parts' = TRUE
  /\ UNCHANGED <<input, output>>

Next ==
  \/ Arrive \/ EndInput \/ Read \/ MeetError
  \/ \E u \in Users :
       \/ ReadLine(u) \/ DropRead(u)
       \/ WriteLine(u) \/ WriteText(u) \/ WriteEnd(u)
       \/ LetGo(u) \/ IntoParts(u)
       \/ \E v \in Users : Share(u, v)

\* The runtime polls every read, and a write runs to its end.
Spec == Init /\ [][Next]_vars /\ WF_vars(Read)

-----------------------------------------------------------------------------
(* Properties *)

\* Reads dropped at any await and begun by anybody lose no byte, tear no line
\* and change nobody's turn ("keeps the bytes it had read, and the next read
\* continues the line", "serves readers in the order they asked").
ReadersShareALineQueue == Lines!Spec

\* When the writer breaks, the flag is looked at before the lock, so several
\* users may be on their way to it.
LoggedOnce == logged = IF failed THEN 1 ELSE 0

LateLinesAreFew ==
  failed => late + Cardinality({u \in Users : writing[u] = "checked"})
              < Cardinality(Users)

\* "So the failure is logged once.  Later lines are dropped": after it only
\* lines already past the flag reach the writer, one of each other user at most.
WriterBreaksOnce == LoggedOnce /\ LateLinesAreFew

\* Until a write fails, every text is followed by its own newline.
LinesKeepTogether ==
  ~failed => \A i \in 1 .. Len(sink) - 1 :
    sink[i].part = "text" => sink[i + 1] = [user |-> sink[i].user, part |-> "end"]

\* The parts come back only when nobody can still use them: no clone, and no
\* read or write in progress ("while a clone still shares them").
PartsAreWhole ==
  parts => shares = {} /\ \A u \in Users : AtRest(u)

\* At the end of input every read returns or is dropped: no drop, in line or
\* with the guard, leaves the mutex held, and no last line is waited for.
ReadsReturn == \A u \in Users : ended /\ Reading(u) ~> ~Reading(u)

=============================================================================
