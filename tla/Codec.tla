------------------------------- MODULE Codec --------------------------------
(***************************************************************************)
(* The bytes that cross the boundary (sans-effort-core/src/boundary/       *)
(* codec.rs), the effect frames and reply records of the byte layer        *)
(* (sans-effort-host/src/encoded.rs, encoded/input.rs), and the form in    *)
(* which a recording is saved (sans-effort-host/src/record.rs).            *)
(*                                                                         *)
(* A byte has Base values, a u32 W32 bytes and a u64 W64 bytes (256, 4 and *)
(* 8 in the code).  A character is one byte, below Base \div 2: text is    *)
(* ASCII.  A writer is the sequence it appends; a reader takes a sequence  *)
(* and gives what it read and what is left, or the error.                  *)
(***************************************************************************)
EXTENDS Integers, Sequences, SequencesExt

CONSTANTS
  Base,  \* the values of a byte
  W32,   \* the bytes of a u32
  W64    \* the bytes of a u64

ASSUME CodecAssumption ==
  /\ Base \in Nat /\ Base > 8
  /\ W32 \in Nat \ {0} /\ W64 \in Nat \ {0}

Byte == 0 .. Base - 1
U32Size == Base ^ W32
U64Max == Base ^ W64 - 1

-----------------------------------------------------------------------------
(* Writer *)

\* to_le_bytes.
LittleEndian(v, width) == [i \in 1 .. width |-> (v \div Base ^ (i - 1)) % Base]

U8(v) == << v >>
U32(v) == LittleEndian(v, W32)
U64(v) == LittleEndian(v, W64)
\* bytes, str, and nested, whose length is filled in after.
Bytes(b) == U32(Len(b)) \o b

-----------------------------------------------------------------------------
(* Reader *)

Got(value, rest) == [ok |-> TRUE, value |-> value, rest |-> rest]
Failed(error) == [ok |-> FALSE, error |-> error]
\* The `?` operator.
Then(read, Next(_, _)) == IF read.ok THEN Next(read.value, read.rest) ELSE read

Take(b, n) ==
  IF n > Len(b) THEN Failed("Truncated")
  ELSE Got(SubSeq(b, 1, n), SubSeq(b, n + 1, Len(b)))

FromLittleEndian(s) ==
  LET low[i \in 0 .. Len(s)] == IF i = 0 THEN 0 ELSE low[i - 1] + s[i] * Base ^ (i - 1)
  IN low[Len(s)]

Number(b, width) == Then(Take(b, width), LAMBDA s, rest : Got(FromLittleEndian(s), rest))
ReadU8(b) == Number(b, 1)
ReadU32(b) == Number(b, W32)
ReadU64(b) == Number(b, W64)
ReadBytes(b) == Then(ReadU32(b), LAMBDA n, rest : Take(rest, n))
ReadStr(b) ==
  Then(ReadBytes(b), LAMBDA s, rest :
       IF \A i \in DOMAIN s : s[i] < Base \div 2 THEN Got(s, rest) ELSE Failed("InvalidUtf8"))

\* n values, one after the other, into a Vec.  A value takes a byte at least:
\* one more than Len(b) of them fails as n of them would.
Many(b, n, Read(_)) ==
  FoldLeft(LAMBDA got, i :
             Then(got, LAMBDA vs, rest :
                  Then(Read(rest), LAMBDA v, left : Got(Append(vs, v), left))),
           Got(<< >>, b), [i \in 1 .. IF n > Len(b) THEN Len(b) + 1 ELSE n |-> i])

\* finish: nothing may be left.
Finish(read) ==
  Then(read, LAMBDA v, rest :
       IF rest = << >> THEN Got(v, rest) ELSE Failed("TrailingBytes"))

-----------------------------------------------------------------------------
(* The byte layer: frames out, reply records in *)

FRAME_TELL == 1
FRAME_ASK == 2
FRAME_CLOSED == 3
FRAME_WOKE == 4

EffectFrame(kind, view) == U8(kind) \o Bytes(view)

\* A reply record, as a host writes it: Input::Str.
StrRecord(id, text) == U8(1) \o U64(id) \o Bytes(text)

InputOf(kind, id, value) == [kind |-> kind, id |-> id, value |-> value]

DecodeInput(record) ==
  Finish(Then(ReadU8(record), LAMBDA tag, b :
    LET WithId(Next(_, _)) == Then(ReadU64(b), Next) IN
    CASE tag = 1 -> WithId(LAMBDA id, r : Then(ReadStr(r), LAMBDA v, s : Got(InputOf("Str", id, v), s)))
      [] tag = 2 -> WithId(LAMBDA id, r : Then(ReadU64(r), LAMBDA v, s : Got(InputOf("U64", id, v), s)))
      [] tag = 3 -> WithId(LAMBDA id, r : Got(InputOf("Unit", id, << >>), r))
      [] tag = 4 -> WithId(LAMBDA id, r : Then(ReadBytes(r), LAMBDA v, s : Got(InputOf("Bytes", id, v), s)))
      [] OTHER -> Failed("UnknownTag")))

-----------------------------------------------------------------------------
(* What a call returns: contract.rs *)

OK == 0
AWAITING == 0
COMPLETE == 1
IDLE == 2
FINISHED == -2
WRONG_KIND == -3
PANICKED == -4
BAD_HANDLE == -5
BAD_INPUT == -6
MALFORMED == -7
STALE == -8
WRONG_THREAD == -9

-----------------------------------------------------------------------------
(* A saved recording *)

Outcome(code, bytes) == [code |-> code, bytes |-> bytes]

\* Faulty: the magnitude of the code.
EncodeOutcomeUnsigned(o) == U32(IF o.code < 0 THEN -o.code ELSE o.code) \o Bytes(o.bytes)

\* The code is an i32, kept as its bits.
EncodeOutcome(o) == U32(o.code % U32Size) \o Bytes(o.bytes)

DecodeOutcome(b) ==
  Then(ReadU32(b), LAMBDA u, r :
    Then(ReadBytes(r), LAMBDA bytes, s :
      Got(Outcome(IF 2 * u < U32Size THEN u ELSE u - U32Size, bytes), s)))

Calls == << "resume", "reply", "free" >>   \* by tag

\* Only a reply has a record.
EventOf(call, machine, record, outcome) ==
  [call |-> call, machine |-> machine, record |-> record, outcome |-> outcome]

EncodeEvent(e) ==
  LET tag == CHOOSE i \in DOMAIN Calls : Calls[i] = e.call
  IN U8(tag) \o U32(e.machine)
     \o (IF e.call = "reply" THEN Bytes(e.record) ELSE << >>)
     \o EncodeOutcome(e.outcome)

DecodeEvent(b) ==
  Then(ReadU8(b), LAMBDA tag, r :
    IF tag \notin DOMAIN Calls THEN Failed("UnknownTag")
    ELSE Then(ReadU32(r), LAMBDA machine, s :
      Then(IF Calls[tag] = "reply" THEN ReadBytes(s) ELSE Got(<< >>, s), LAMBDA record, t :
        Then(DecodeOutcome(t), LAMBDA outcome, u :
          Got(EventOf(Calls[tag], machine, record, outcome), u)))))

EncodeLog(log) ==
  U32(Len(log.handles)) \o FlattenSeq([i \in DOMAIN log.handles |-> U64(log.handles[i])])
  \o U32(Len(log.events)) \o FlattenSeq([i \in DOMAIN log.events |-> EncodeEvent(log.events[i])])

\* Log::from_bytes.
DecodeLog(b) ==
  Finish(Then(ReadU32(b), LAMBDA n, r :
    Then(Many(r, n, ReadU64), LAMBDA handles, s :
      Then(ReadU32(s), LAMBDA m, t :
        Then(Many(t, m, DecodeEvent), LAMBDA events, u :
          Got([handles |-> handles, events |-> events], u))))))

=============================================================================
