----------------------------- MODULE LineQueue ------------------------------
(***************************************************************************)
(* What the tokio console promises its readers (console.rs, TokioInput):   *)
(* readers are served in the order they asked, each is given the next      *)
(* whole line of the input, and one that leaves takes nothing with it.     *)
(***************************************************************************)
EXTENDS Naturals, Sequences, SequencesExt

CONSTANT Users   \* who may read: tasks, and the sides of their joins

\* Bytes: any of a text, one no text has, and the two of an ending.
LF == "lf"
CR == "cr"
Bytes == {"char", "bad", CR, LF}

VARIABLES
  stream,    \* the input nobody has been given yet
  ended,     \* nothing comes after it
  asking,    \* the readers, in the order they asked
  given      \* who was given a result last, and which

vars == <<stream, ended, asking, given>>

Result(kind, text) == [kind |-> kind, text |-> text]
Results == [kind : {"line", "closed", "failed"}, text : Seq(Bytes)]
Closed == Result("closed", << >>)
Failed == Result("failed", << >>)

\* How much of a line is its text.
TextLen(bytes) ==
  LET n == Len(bytes)
  IN IF n = 0 \/ bytes[n] # LF THEN n
     ELSE IF n > 1 /\ bytes[n - 1] = CR THEN n - 2 ELSE n - 1

\* line: without its ending, if it is UTF-8.
LineOf(bytes) ==
  LET text == SubSeq(bytes, 1, TextLen(bytes))
  IN IF "bad" \in Range(text) THEN Failed ELSE Result("line", text)

Nobody == [user |-> "nobody", result |-> Closed]
Init == stream = << >> /\ ended = FALSE /\ asking = << >> /\ given = Nobody

Arrive ==
  /\ ~ended
  /\ \E b \in Bytes : stream' = Append(stream, b)
  /\ UNCHANGED <<ended, asking, given>>

End ==
  /\ ended' = TRUE
  /\ UNCHANGED <<stream, asking, given>>

Ask ==
  /\ \E u \in Users \ Range(asking) : asking' = Append(asking, u)
  /\ UNCHANGED <<stream, ended, given>>

Leave ==
  /\ \E i \in DOMAIN asking : asking' = RemoveAt(asking, i)
  /\ UNCHANGED <<stream, ended, given>>

\* The first reader is given a result, for the first n bytes of the input.
Gives(result, n) ==
  /\ asking # << >>
  /\ given' = [user |-> Head(asking), result |-> result]
  /\ asking' = Tail(asking)
  /\ stream' = SubSeq(stream, n + 1, Len(stream))
  /\ UNCHANGED ended

\* The next line; at the end of input, what is left is one.
GiveLine ==
  \E n \in 1 .. Len(stream) :
    /\ \A i \in 1 .. n - 1 : stream[i] # LF
    /\ stream[n] = LF \/ (ended /\ n = Len(stream))
    /\ Gives(LineOf(SubSeq(stream, 1, n)), n)

GiveClosed == ended /\ stream = << >> /\ Gives(Closed, 0)

\* A read error: the line begun is given up.
GiveFailed ==
  \E n \in 0 .. Len(stream) :
    /\ \A i \in 1 .. n : stream[i] # LF
    /\ Gives(Failed, n)

Next ==
  Arrive \/ End \/ Ask \/ Leave \/ GiveLine \/ GiveClosed \/ GiveFailed

Spec == Init /\ [][Next]_vars

=============================================================================
