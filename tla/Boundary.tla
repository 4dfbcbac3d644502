------------------------------ MODULE Boundary ------------------------------
(***************************************************************************)
(* The wire contract of the demo: one machine of the greeter's library     *)
(* (demo/driven/boundary, demo/driven/cdylib), driven through its C        *)
(* functions by a host in Python (main.py) or Java (Main.java).            *)
(*                                                                         *)
(* Three programs write down the same tags, fields and reply forms by      *)
(* hand: each table below is transcribed from its own.  A routine yields   *)
(* any effects its trait bounds allow; the library encodes them; the host  *)
(* reads them by its own table and answers by its own writers; the library *)
(* checks the answer and the routine gets it.  What the calls do inside is *)
(* Machine's and HandleTable's subject, and what a host does between them  *)
(* PythonHost's and JavaHost's.                                            *)
(*                                                                         *)
(* An optional value of a host is << >> or <<v>>.  An answer that crosses  *)
(* as a tag and what the tag says is <<tag, value>>; unit is << >>.        *)
(***************************************************************************)
EXTENDS Codec, FiniteSets

CONSTANTS
  HostSorts,     \* who drives the machine: see HostSort
  MadeKinds      \* the kinds of machine they make

\* A host knows some tags: one older than the library lacks the newer ones.
\* Two bounds: the effects its machine yields, the records it gets wrong.
HostSort == [lang : {"python", "java"}, knows : SUBSET (1 .. 12), yields : Nat, slips : Nat]
ASSUME BoundaryAssumption == \A sort \in HostSorts : sort \in HostSort

VARIABLES
  lib,     \* the library: the machine, its requests, what its routine got
  call,    \* the last call: what it was, what it returned
  caller   \* the host
boundary == <<lib, call, caller>>

-----------------------------------------------------------------------------
(* Values that cross *)

ReadLineErrors == 0 .. 1   \* closed, failed
FsErrors == 0 .. 2         \* not found, permission denied, other
Errors == [ReadLineError |-> ReadLineErrors, FsError |-> FsErrors]

Encode(type, v) ==
  CASE type = "unit" -> << >>
    [] type = "u32" -> U32(v)
    [] type = "u64" -> U64(v)
    [] type \in {"str", "bytes"} -> Bytes(v)
    [] type \in DOMAIN Errors -> U8(v)

Decode(type, b) ==
  CASE type = "unit" -> Got(<< >>, b)
    [] type = "u32" -> ReadU32(b)
    [] type = "u64" -> ReadU64(b)
    [] type = "str" -> ReadStr(b)
    [] type = "bytes" -> ReadBytes(b)
    [] type \in DOMAIN Errors ->
         Then(ReadU8(b), LAMBDA tag, rest :
              IF tag \in Errors[type] THEN Got(tag, rest) ELSE Failed("UnknownTag"))

\* Answer: the wire kind it crosses as, and what follows the tag 0 and 1.
AsItself(kind) == [wire |-> kind, of |-> << >>]
ResultOf(ok, error) == [wire |-> "bytes", of |-> <<ok, error>>]
OptionOf(some) == [wire |-> "bytes", of |-> <<"unit", some>>]

\* Answer::into_wire and from_wire, of Result and Option; the wire kinds
\* cross as themselves.
IntoWire(answer, a) ==
  IF answer.of = << >> THEN a ELSE U8(a[1]) \o Encode(answer.of[a[1] + 1], a[2])
FromWire(answer, wire) ==
  IF answer.of = << >> THEN Got(wire, << >>)
  ELSE Finish(Then(ReadU8(wire), LAMBDA tag, b :
         IF tag > 1 THEN Failed("UnknownTag")
         ELSE Then(Decode(answer.of[tag + 1], b), LAMBDA v, rest : Got(<<tag, v>>, rest))))

\* reply::check.
Checked(answer, wire) == FromWire(answer, wire).ok

-----------------------------------------------------------------------------
(* Effects: their fields, and the answer of those that ask *)

Asks(fields, answer) == [fields |-> fields, asks |-> TRUE, answer |-> answer]
Tells(fields) == [fields |-> fields, asks |-> FALSE, answer |-> AsItself("unit")]

CountEffect == Asks(<< >>, AsItself("u64"))
LookupEffect == Asks(<<"str">>, AsItself("str"))
ReadLineEffect == Asks(<< >>, ResultOf("str", "ReadLineError"))
SleepEffect == Asks(<<"u64">>, AsItself("unit"))
WriteLineEffect == Tells(<<"str">>)
SpawnEffect == Tells(<<"u64">>)
SpawnPinnedEffect == Tells(<<"u64">>)
NowEffect == Asks(<< >>, AsItself("u64"))
RandomEffect == Asks(<<"u32">>, AsItself("bytes"))
VarEffect == Asks(<<"str">>, OptionOf("str"))
ReadFileEffect == Asks(<<"str">>, ResultOf("bytes", "FsError"))
WriteFileEffect == Asks(<<"str", "bytes">>, ResultOf("unit", "FsError"))

\* SleepEffect::millis saturates.
Millis(duration) == IF duration > U64Max THEN U64Max ELSE duration

Full ==
  [Count |-> CountEffect, Lookup |-> LookupEffect, ReadLine |-> ReadLineEffect,
   Sleep |-> SleepEffect, WriteLine |-> WriteLineEffect, Spawned |-> SpawnEffect,
   SpawnedPinned |-> SpawnPinnedEffect, Now |-> NowEffect, Random |-> RandomEffect,
   Var |-> VarEffect, ReadFile |-> ReadFileEffect, WriteFile |-> WriteFileEffect]

QuietEffects == {"Sleep", "WriteLine"}

-----------------------------------------------------------------------------
(* The library's side of the wire *)

Tag ==
  [Count |-> 1, Lookup |-> 2, ReadLine |-> 3, Sleep |-> 4, WriteLine |-> 5, Spawned |-> 6,
   SpawnedPinned |-> 7, Now |-> 8, Random |-> 9, Var |-> 10, ReadFile |-> 11, WriteFile |-> 12]

\* Encode for View: what follows the tag; an asking effect's id is last.
ViewFields ==
  [Count |-> <<"u64">>, Lookup |-> <<"str", "u64">>, ReadLine |-> <<"u64">>,
   Sleep |-> <<"u64", "u64">>, WriteLine |-> <<"str">>, Spawned |-> <<"u64">>,
   SpawnedPinned |-> <<"u64">>, Now |-> <<"u64">>, Random |-> <<"u32", "u64">>,
   Var |-> <<"str", "u64">>, ReadFile |-> <<"str", "u64">>,
   WriteFile |-> <<"str", "bytes", "u64">>]

EncodeView(view) ==
  U8(Tag[view.name])
  \o FlattenSeq([i \in DOMAIN view.fields |-> Encode(ViewFields[view.name][i], view.fields[i])])

\* Faulty: the id after it.
IdAfter(effects, last, i) == last + 1 + Cardinality({j \in 1 .. i : Full[effects[j].name].asks})
\* The id of the i-th of `effects`, which asks; those before took up to `last`.
IdOf(effects, last, i) == last + Cardinality({j \in 1 .. i : Full[effects[j].name].asks})

\* HostEffect::split, of the i-th.
Split(effects, last, i) ==
  LET asks == Full[effects[i].name].asks
  IN [name |-> effects[i].name, asks |-> asks,
      fields |-> effects[i].args \o IF asks THEN <<IdOf(effects, last, i)>> ELSE << >>]

\* encode, and the table's woke frames.
EncodeBatch(shown, closed, woken) ==
  FlattenSeq([i \in DOMAIN shown |->
    EffectFrame(IF shown[i].asks THEN FRAME_ASK ELSE FRAME_TELL, EncodeView(shown[i]))])
  \o FlattenSeq([i \in DOMAIN closed |-> EffectFrame(FRAME_CLOSED, U64(closed[i]))])
  \o FlattenSeq([i \in DOMAIN woken |-> EffectFrame(FRAME_WOKE, U64(woken[i]))])

\* greeter_new and the others: the routine, by the function's suffix, with
\* the effects its trait bounds name, and a vocabulary that offers them.
Constructors ==
  [new            |-> {"Count", "Lookup", "ReadLine", "Sleep", "WriteLine"},
   new_fanout     |-> {"Count", "Lookup", "ReadLine", "Sleep", "WriteLine"},
   new_ticker     |-> QuietEffects,
   new_ping_pong  |-> {"Spawned", "WriteLine"},
   new_ring       |-> {"Spawned", "WriteLine"},
   new_deadline   |-> {"Sleep", "Spawned", "WriteLine"},
   new_deadlock   |-> {"Spawned", "WriteLine"},
   new_front_desk |-> {"ReadLine", "WriteLine", "SpawnedPinned"},
   new_journal    |-> {"Var", "ReadFile", "WriteFile", "Now", "Random", "WriteLine"}]

-----------------------------------------------------------------------------
(* The host in Python *)

\* Reader: integers have no width.
PythonReads(type, b) ==
  CASE type = "u8" -> Number(b, 1)
    [] type = "u32" -> Number(b, W32)
    [] type = "u64" -> Number(b, W64)
    [] type \in {"str", "bytes"} -> Then(Number(b, W32), LAMBDA n, rest : Take(rest, n))

TAGS == <<"count", "lookup", "read_line", "sleep", "write_line", "spawned", "spawned_pinned",
          "now", "random", "var", "read_file", "write_file">>

\* decode, from `r.u8()` on.
PythonFields ==
  [count |-> <<"u64">>, lookup |-> <<"str", "u64">>, read_line |-> <<"u64">>,
   sleep |-> <<"u64", "u64">>, write_line |-> <<"str">>, spawned |-> <<"u64">>,
   spawned_pinned |-> <<"u64">>, now |-> <<"u64">>, random |-> <<"u32", "u64">>,
   var |-> <<"str", "u64">>, read_file |-> <<"str", "u64">>,
   write_file |-> <<"str", "bytes", "u64">>]

PythonTable ==
  [tag \in DOMAIN TAGS |-> [kind |-> TAGS[tag], fields |-> PythonFields[TAGS[tag]]]]

\* reply_str, reply_u64, reply_unit, reply_bytes.
PythonRecord(form, id, v) ==
  CASE form = "str" -> U8(1) \o U64(id) \o U32(Len(v)) \o v
    [] form = "u64" -> U8(2) \o U64(id) \o U64(v)
    [] form = "unit" -> U8(3) \o U64(id)
    [] form = "bytes" -> U8(4) \o U64(id) \o U32(Len(v)) \o v

PythonReadLine(line) ==
  IF line = << >> THEN <<1, 0>> ELSE U8(0) \o U32(Len(line[1])) \o line[1]
\* Faulty: a set variable is written as a Result would be.
PythonSomeStrAsResult(s) ==
  IF s = << >> THEN U8(0) ELSE U8(0) \o U32(Len(s[1])) \o s[1]
PythonSomeStr(s) == IF s = << >> THEN U8(0) ELSE U8(1) \o U32(Len(s[1])) \o s[1]
PythonOkBytes(b) == IF b = << >> THEN <<1, 0>> ELSE U8(0) \o U32(Len(b[1])) \o b[1]

\* drive: the record of each ask.
PythonAnswers(kind, id, v) ==
  CASE kind = "read_line" -> PythonRecord("bytes", id, PythonReadLine(v))
    [] kind = "lookup" -> PythonRecord("str", id, v)
    [] kind = "sleep" -> PythonRecord("unit", id, << >>)
    [] kind \in {"count", "now"} -> PythonRecord("u64", id, v)
    [] kind = "random" -> PythonRecord("bytes", id, v)
    [] kind = "var" -> PythonRecord("bytes", id, PythonSomeStr(v))
    [] kind = "read_file" -> PythonRecord("bytes", id, PythonOkBytes(v))
    [] kind = "write_file" -> PythonRecord("bytes", id, U8(0))

\* Library.new.
PythonNew(kind) ==
  CASE kind = "greeter" -> "new"
    [] kind = "fanout" -> "new_fanout"
    [] kind = "ticker" -> "new_ticker"
    [] kind = "ping-pong" -> "new_ping_pong"
    [] kind = "front-desk" -> "new_front_desk"
    [] kind = "ring" -> "new_ring"
    [] kind = "journal" -> "new_journal"
    [] kind = "deadline" -> "new_deadline"
    [] kind = "deadlock" -> "new_deadlock"

-----------------------------------------------------------------------------
(* The host in Java *)

\* Reader: a u64 is a long, signed; a u32 fits it.
JavaReads(type, b) ==
  CASE type = "u8" -> Number(b, 1)
    [] type = "u32" -> Number(b, W32)
    [] type = "u64" -> Then(Number(b, W64), LAMBDA n, rest :
                            Got(IF 2 * n > U64Max THEN n - (U64Max + 1) ELSE n, rest))
    [] type \in {"str", "bytes"} -> Then(Number(b, W32), LAMBDA n, rest : Take(rest, n))

Reads(kind, fields) == [kind |-> kind, fields |-> fields]

\* Faulty: the length of a draw is read as a u64.
JavaTableWide ==
  << Reads("count", <<"u64">>), Reads("lookup", <<"str", "u64">>),
     Reads("read_line", <<"u64">>), Reads("sleep", <<"u64", "u64">>),
     Reads("write_line", <<"str">>), Reads("spawned", <<"u64">>),
     Reads("spawned_pinned", <<"u64">>), Reads("now", <<"u64">>),
     Reads("random", <<"u64", "u64">>), Reads("var", <<"str", "u64">>),
     Reads("read_file", <<"str", "u64">>), Reads("write_file", <<"str", "bytes", "u64">>) >>

\* decode's switch, by tag.
JavaTable ==
  << Reads("count", <<"u64">>), Reads("lookup", <<"str", "u64">>),
     Reads("read_line", <<"u64">>), Reads("sleep", <<"u64", "u64">>),
     Reads("write_line", <<"str">>), Reads("spawned", <<"u64">>),
     Reads("spawned_pinned", <<"u64">>), Reads("now", <<"u64">>),
     Reads("random", <<"u32", "u64">>), Reads("var", <<"str", "u64">>),
     Reads("read_file", <<"str", "u64">>), Reads("write_file", <<"str", "bytes", "u64">>) >>

\* A long as its bits.
PutLong(v) == U64(v % (U64Max + 1))

\* replyStr, replyU64, replyUnit, replyBytes.
JavaRecord(form, id, v) ==
  CASE form = "str" -> U8(1) \o PutLong(id) \o U32(Len(v)) \o v
    [] form = "u64" -> U8(2) \o PutLong(id) \o PutLong(v)
    [] form = "unit" -> U8(3) \o PutLong(id)
    [] form = "bytes" -> U8(4) \o PutLong(id) \o U32(Len(v)) \o v

JavaSomeStr(s) == IF s = << >> THEN U8(0) ELSE U8(1) \o U32(Len(s[1])) \o s[1]
JavaOkBytes(b) == IF b = << >> THEN <<1, 0>> ELSE U8(0) \o U32(Len(b[1])) \o b[1]
JavaReadLine(line) ==
  IF line = << >> THEN <<1, 0>> ELSE U8(0) \o U32(Len(line[1])) \o line[1]

\* perform.
JavaAnswers(kind, id, v) ==
  CASE kind = "read_line" -> JavaRecord("bytes", id, JavaReadLine(v))
    [] kind = "lookup" -> JavaRecord("str", id, v)
    [] kind = "sleep" -> JavaRecord("unit", id, << >>)
    [] kind \in {"count", "now"} -> JavaRecord("u64", id, v)
    [] kind = "random" -> JavaRecord("bytes", id, v)
    [] kind = "var" -> JavaRecord("bytes", id, JavaSomeStr(v))
    [] kind = "read_file" -> JavaRecord("bytes", id, JavaOkBytes(v))
    [] kind = "write_file" -> JavaRecord("bytes", id, U8(0))

\* Library.create.
JavaNew(kind) ==
  CASE kind = "fanout" -> "new_fanout"
    [] kind = "ticker" -> "new_ticker"
    [] kind = "ping-pong" -> "new_ping_pong"
    [] kind = "front-desk" -> "new_front_desk"
    [] kind = "ring" -> "new_ring"
    [] kind = "journal" -> "new_journal"
    [] kind = "deadline" -> "new_deadline"
    [] kind = "deadlock" -> "new_deadlock"
    [] OTHER -> "new"

-----------------------------------------------------------------------------
(* Either host *)

HostReads(lang, type, b) == IF lang = "python" THEN PythonReads(type, b) ELSE JavaReads(type, b)
HostTable(lang) == IF lang = "python" THEN PythonTable ELSE JavaTable
HostNew(lang, kind) == IF lang = "python" THEN PythonNew(kind) ELSE JavaNew(kind)
HostAnswers(lang, kind, id, v) ==
  IF lang = "python" THEN PythonAnswers(kind, id, v) ELSE JavaAnswers(kind, id, v)

\* frames: one takes 1 + W32 bytes at least, and one more read fails.
Frames(lang, b) ==
  FoldLeft(LAMBDA got, i :
             Then(got, LAMBDA frames, rest :
               IF rest = << >> THEN got
               ELSE Then(HostReads(lang, "u8", rest), LAMBDA kind, r :
                    Then(HostReads(lang, "bytes", r), LAMBDA payload, left :
                         Got(Append(frames, [kind |-> kind, payload |-> payload]), left)))),
           Got(<< >>, b), [i \in 1 .. 1 + Len(b) \div (1 + W32) |-> i])

Fields(lang, types, b) ==
  FoldLeft(LAMBDA got, type :
             Then(got, LAMBDA vs, rest :
                  Then(HostReads(lang, type, rest), LAMBDA v, left : Got(Append(vs, v), left))),
           Got(<< >>, b), types)

Item(kind, fields) == [kind |-> kind, fields |-> fields]

\* decode, of one frame: nothing for one that is skipped.
DecodeFrame(sort, frame) ==
  IF frame.kind \in {FRAME_CLOSED, FRAME_WOKE}
  THEN Then(Fields(sort.lang, <<"u64">>, frame.payload), LAMBDA vs, rest :
            Got(<<Item(IF frame.kind = FRAME_CLOSED THEN "closed" ELSE "woke", vs)>>, << >>))
  ELSE IF frame.kind \notin {FRAME_TELL, FRAME_ASK} THEN Got(<< >>, << >>)
  ELSE Then(HostReads(sort.lang, "u8", frame.payload), LAMBDA tag, b :
    IF tag \in sort.knows
    THEN LET entry == HostTable(sort.lang)[tag]
         IN Finish(Then(Fields(sort.lang, entry.fields, b), LAMBDA vs, rest :
                        Got(<<Item(entry.kind, vs)>>, rest)))
    ELSE IF frame.kind = FRAME_TELL THEN Got(<< >>, << >>) ELSE Failed("UnknownTag"))

\* decode: all of the batch, or an exception.
HostDecode(sort, b) ==
  Then(Frames(sort.lang, b), LAMBDA frames, rest :
    FoldLeft(LAMBDA got, frame :
               Then(got, LAMBDA items, none :
                    Then(DecodeFrame(sort, frame), LAMBDA item, also : Got(items \o item, << >>))),
             Got(<< >>, << >>), frames))

\* A value the host answers with: an optional one, text, bytes or a number.
Texts == {<< >>, <<1>>}
Blobs == {<< >>, <<Base - 1, 0>>}
HostValues(item) ==
  CASE item.kind = "read_line" -> {<< >>} \cup {<<text>> : text \in Texts}
    [] item.kind = "lookup" -> Texts
    [] item.kind \in {"sleep", "write_file"} -> {<< >>}
    [] item.kind \in {"count", "now"} -> {1, U64Max \div 2}
    [] item.kind = "random" -> {[i \in 1 .. item.fields[1] |-> i % Base]}
    [] item.kind = "var" -> {<< >>} \cup {<<text>> : text \in Texts}
    [] item.kind = "read_file" -> {<< >>} \cup {<<blob>> : blob \in Blobs}

-----------------------------------------------------------------------------
(* The machine *)

\* What a routine yields: each effect its bounds allow, with some arguments.
Lengths == {Base + 1}
Durations == {0, U64Max + 1}
Handles == {2, U64Max}
Argument(name, type) ==
  CASE type = "str" -> {<<1>>}
    [] type = "bytes" -> {<< >>}
    [] type = "u32" -> Lengths
    [] type = "u64" -> IF name = "Sleep" THEN {Millis(d) : d \in Durations} ELSE Handles
Yieldable(name) ==
  LET types == Full[name].fields IN
  {[name |-> name, args |-> args] : args \in
     CASE types = << >> -> {<< >>}
       [] Len(types) = 1 -> {<<v>> : v \in Argument(name, types[1])}
       [] Len(types) = 2 -> {<<v, w>> : v \in Argument(name, types[1]), w \in Argument(name, types[2])}}

Asking(effects) == {i \in DOMAIN effects : Full[effects[i].name].asks}
NewIds(l, effects) == l.ids + 1 .. l.ids + Cardinality(Asking(effects))

\* A poll to the routine's next wait: what it yields, which of its requests,
\* old or new, it abandons, and whether it returns, which abandons them all.
PollOf(l) ==
  LET one == UNION {Yieldable(name) : name \in l.offers}
      yields == {<< >>} \cup (IF l.left < 1 THEN {} ELSE {<<e>> : e \in one})
                \cup (IF l.left < 2 THEN {} ELSE {<<e, f>> : e \in one, f \in one})
      polls(effects, returns) ==
        LET waits == l.open \cup NewIds(l, effects) IN
        {[effects |-> effects, closed |-> closed, returns |-> returns] :
           closed \in IF returns THEN {waits} ELSE SUBSET waits}
  IN UNION {polls(effects, returns) : effects \in yields, returns \in BOOLEAN}

\* Machine::show, of a poll.
Shown(l, p) == [i \in DOMAIN p.effects |-> Split(p.effects, l.ids, i)]
AfterPoll(l, p) ==
  LET new == NewIds(l, p.effects)
      open == (l.open \cup new) \ p.closed
      asker(id) == CHOOSE i \in Asking(p.effects) :
                     l.ids + Cardinality(Asking(p.effects) \cap 1 .. i) = id
      name(id) == p.effects[asker(id)].name
  IN [l EXCEPT !.ids = @ + Cardinality(new), !.open = open, !.left = @ - Len(p.effects),
               !.asked = [id \in DOMAIN @ \cup new |-> IF id \in new THEN name(id) ELSE @[id]],
               !.closed = @ \cup p.closed,
               !.status = IF p.returns THEN COMPLETE
                          ELSE IF open = {} THEN IDLE ELSE AWAITING]

-----------------------------------------------------------------------------
(* Calls *)

NoCall == [stage |-> "none", code |-> OK, bytes |-> << >>, shown |-> << >>, closed |-> << >>,
           woken |-> << >>, honest |-> TRUE]

\* The machine has just been made; whatever it yields comes from `resume`.
BoundaryInit ==
  \E sort \in HostSorts, kind \in MadeKinds :
    /\ lib = [offers |-> Constructors[HostNew(sort.lang, kind)], status |-> IDLE, ids |-> 0,
              open |-> {}, asked |-> << >>, closed |-> {}, got |-> << >>, left |-> sort.yields]
    /\ call = NoCall
    /\ caller = [sort |-> sort, made |-> kind, todo |-> << >>, read |-> << >>, meant |-> << >>,
                 stuck |-> FALSE, slips |-> 0]

\* No machine is made.
BoundaryRest ==
  /\ lib = << >>
  /\ call = NoCall
  /\ caller = << >>

FreeToCall == call.stage # "returned" /\ ~caller.stuck

\* The routine runs and the call succeeds: deliver and write_out.
Succeeds(l, honest) ==
  \E p \in PollOf(l), woken \in {<< >>, <<2>>} :
    LET shown == Shown(l, p)
        closed == SetToSortSeq(p.closed, <)
    IN /\ lib' = AfterPoll(l, p)
       /\ call' = [stage |-> "returned", code |-> AfterPoll(l, p).status,
                   bytes |-> EncodeBatch(shown, closed, woken), shown |-> shown,
                   closed |-> closed, woken |-> woken, honest |-> honest]

\* Nothing is written, and nothing has changed.
Refuses(code, honest) ==
  /\ call' = [NoCall EXCEPT !.stage = "returned", !.code = code, !.honest = honest]
  /\ UNCHANGED lib

\* greeter_resume.
ResumeMachine ==
  /\ FreeToCall
  /\ IF lib.status = COMPLETE THEN Refuses(FINISHED, TRUE) ELSE Succeeds(lib, TRUE)
  /\ UNCHANGED caller

\* Encoded::reply, Machine::reply and reply::check.
Delivers(record, honest) ==
  LET input == DecodeInput(record)
      id == input.value.id
      answer == Full[lib.asked[id]].answer
      kind == [Str |-> "str", U64 |-> "u64", Unit |-> "unit", Bytes |-> "bytes"][input.value.kind]
  IN IF ~input.ok THEN Refuses(MALFORMED, honest)
     ELSE IF lib.status = COMPLETE THEN Refuses(FINISHED, honest)
     ELSE IF id \notin lib.open THEN Refuses(IF id \in 1 .. lib.ids THEN STALE ELSE BAD_INPUT, honest)
     ELSE IF kind # answer.wire THEN Refuses(WRONG_KIND, honest)
     ELSE IF ~Checked(answer, input.value.value) THEN Refuses(MALFORMED, honest)
     ELSE Succeeds([lib EXCEPT !.open = @ \ {id},
                      !.got = [x \in DOMAIN @ \cup {id} |->
                        IF x = id THEN FromWire(answer, input.value.value).value ELSE @[x]]],
                   honest)

\* What an answer is to the routine: a closed input, a file not found.
Meaning(kind, v) ==
  CASE kind \in {"lookup", "count", "now", "random", "sleep"} -> v
    [] kind \in {"read_line", "read_file"} -> IF v = << >> THEN <<1, 0>> ELSE <<0, v[1]>>
    [] kind = "var" -> IF v = << >> THEN <<0, << >> >> ELSE <<1, v[1]>>
    [] kind = "write_file" -> <<0, << >> >>

\* Thread.sleep takes no negative number.
Sleepable(lang, item) ==
  ~(lang = "java" /\ item.kind = "sleep" /\ item.fields[1] < 0)
CannotPerform(id) ==
  /\ FreeToCall
  /\ id \in DOMAIN caller.todo /\ ~Sleepable(caller.sort.lang, caller.todo[id])
  /\ caller' = [caller EXCEPT !.stuck = TRUE]
  /\ UNCHANGED <<lib, call>>

\* The host performs an ask and answers it, with its own writer.
Answers(id) ==
  /\ FreeToCall
  /\ id \in DOMAIN caller.todo /\ Sleepable(caller.sort.lang, caller.todo[id])
  /\ \E v \in HostValues(caller.todo[id]) :
       /\ Delivers(HostAnswers(caller.sort.lang, caller.todo[id].kind, id, v), TRUE)
       /\ caller' = [caller EXCEPT
            !.todo = [x \in DOMAIN @ \ {id} |-> @[x]],
            !.meant = [x \in DOMAIN @ \cup {id} |->
                         IF x = id THEN Meaning(caller.todo[id].kind, v) ELSE @[x]]]

\* A host with a fault in its writer, which catches the refusal: a record cut
\* short, one with more after it, one of another kind, one that holds no valid
\* answer or another, one to a request answered before or never made.
Garbled(id) ==
  {U8(1) \o U64(id), U8(3) \o U64(id) \o U8(0), U8(5) \o U64(id), << >>}
  \cup {U8(3) \o U64(x) : x \in {id, 0, U64Max}}
  \cup {StrRecord(id, text) : text \in {<<1>>, <<Base - 1>>}}
  \cup {U8(4) \o U64(id) \o Bytes(wire) :
          wire \in {<< >>, <<0>>, <<1>>, <<2>>, <<1, 0>>, <<1, 3>>, <<0, 1, 0, 1, 0>>, <<1, 1, 0, Base - 1>>}}

Garbles(id) ==
  /\ FreeToCall
  /\ caller.slips < caller.sort.slips
  /\ id \in DOMAIN lib.asked
  /\ \E record \in Garbled(id) : Delivers(record, FALSE)
  /\ caller' = [caller EXCEPT !.slips = @ + 1,
                   !.todo = [x \in DOMAIN @ \ DOMAIN lib'.got |-> @[x]]]

\* _collect and collect, decode, and the loop taking the batch up.
Collect ==
  /\ call.stage = "returned"
  /\ call' = [call EXCEPT !.stage = "collected", !.bytes = << >>]
  /\ LET decoded == HostDecode(caller.sort, call.bytes)
         items == decoded.value
         of(kinds) == {i \in DOMAIN items : items[i].kind \in kinds}
         closed == {Last(items[i].fields) : i \in of({"closed"})}
         asks == {i \in DOMAIN items : \A kind \in {"closed", "woke", "write_line", "spawned", "spawned_pinned"} :
                                         items[i].kind # kind}
         new == {Last(items[i].fields) : i \in asks}
     IN caller' =
          IF call.code < 0 THEN [caller EXCEPT !.read = << >>]
          ELSE IF ~decoded.ok THEN [caller EXCEPT !.read = << >>, !.stuck = TRUE]
          ELSE [caller EXCEPT !.read = items,
                  !.todo = [x \in ((DOMAIN @) \cup new) \ closed |->
                     IF x \in new THEN items[CHOOSE i \in asks : Last(items[i].fields) = x] ELSE @[x]]]
  /\ UNCHANGED lib

BoundaryNext ==
  /\ caller # << >>
  /\ \/ ResumeMachine
     \/ \E id \in DOMAIN lib.asked : Answers(id) \/ CannotPerform(id) \/ Garbles(id)
     \/ Collect

-----------------------------------------------------------------------------
(* Properties *)

\* Types: requests are open, answered or abandoned, and numbered from 1; a
\* host's list of asks names requests.
BoundaryTypeOK ==
  caller # << >> =>
    /\ lib.offers \subseteq DOMAIN Full
    /\ DOMAIN lib.asked = 1 .. lib.ids
    /\ lib.open \cup lib.closed \cup DOMAIN lib.got = DOMAIN lib.asked
    /\ lib.status \in {AWAITING, COMPLETE, IDLE}
    /\ lib.status = AWAITING <=> lib.open # {}
    /\ call.bytes \in Seq(Byte)
    /\ DOMAIN caller.todo \subseteq 1 .. lib.ids

\* The name a host gives each effect.
Named ==
  [Count |-> "count", Lookup |-> "lookup", ReadLine |-> "read_line", Sleep |-> "sleep",
   WriteLine |-> "write_line", Spawned |-> "spawned", SpawnedPinned |-> "spawned_pinned",
   Now |-> "now", Random |-> "random", Var |-> "var", ReadFile |-> "read_file",
   WriteFile |-> "write_file"]

\* A u64 is the same number to a host whose own are signed.
SameItem(item, view) ==
  /\ item.kind = Named[view.name]
  /\ Len(item.fields) = Len(view.fields)
  /\ \A i \in DOMAIN view.fields :
       IF ViewFields[view.name][i] = "u64"
       THEN (item.fields[i] - view.fields[i]) % (U64Max + 1) = 0
       ELSE item.fields[i] = view.fields[i]

\* Three programs agree on the tags and fields: after each call the host has
\* read just what the routine yielded, in order, then the requests it
\* abandoned and the machines it woke.  A host older than the library skips
\* the tells it does not know, and stops only at an ask; one that knows sleep
\* and write_line runs every ticker.
HostReadsTheBatch ==
  caller # << >> /\ call.stage = "collected" /\ call.code >= 0 =>
    LET knows(view) == Tag[view.name] \in caller.sort.knows
        views == SelectSeq(call.shown, knows)
        frames == [i \in DOMAIN call.closed |-> Item("closed", <<call.closed[i]>>)]
                  \o [i \in DOMAIN call.woken |-> Item("woke", <<call.woken[i]>>)]
        unanswerable == \E i \in DOMAIN call.shown : call.shown[i].asks /\ ~knows(call.shown[i])
    IN /\ IF unanswerable THEN caller.stuck
          ELSE /\ Len(caller.read) = Len(views) + Len(frames)
               /\ \A i \in DOMAIN views : SameItem(caller.read[i], views[i])
               /\ SubSeq(caller.read, Len(views) + 1, Len(caller.read)) = frames
               /\ caller.stuck => \E id \in DOMAIN caller.todo :
                                    ~Sleepable(caller.sort.lang, caller.todo[id])
       /\ caller.made = "ticker" => ~unanswerable

\* What a routine may be told, by the effect it asked with.
Text(v) == \A i \in DOMAIN v : v[i] < Base \div 2
IsAnswer(name, v) ==
  CASE name \in {"Count", "Now"} -> v \in 0 .. U64Max
    [] name = "Lookup" -> Text(v)
    [] name = "Sleep" -> v = << >>
    [] name = "Random" -> v \in Seq(Byte)
    [] name = "ReadLine" -> IF v[1] = 0 THEN Text(v[2]) ELSE v[2] \in ReadLineErrors
    [] name = "Var" -> IF v[1] = 0 THEN v[2] = << >> ELSE Text(v[2])
    [] name = "ReadFile" -> IF v[1] = 0 THEN v[2] \in Seq(Byte) ELSE v[2] \in FsErrors
    [] name = "WriteFile" -> IF v[1] = 0 THEN v[2] = << >> ELSE v[2] \in FsErrors

\* A host's answer, in the form it writes by hand, is never refused and
\* reaches the routine as it was meant; whatever else a faulty host sends, the
\* routine is only ever told an answer of the type it awaits, once, and a
\* refused record leaves the request open: the honest answer is taken later.
AnswersArriveAsMeant ==
  caller # << >> =>
    /\ call.code < 0 => ~call.honest \/ (call.code = FINISHED /\ lib.status = COMPLETE)
    /\ \A id \in DOMAIN lib.got \cap DOMAIN caller.meant : lib.got[id] = caller.meant[id]
    /\ \A id \in DOMAIN lib.got : IsAnswer(lib.asked[id], lib.got[id])
    /\ lib.open \cap (DOMAIN lib.got \cup lib.closed) = {}
    /\ lib.open \cup DOMAIN lib.got \cup lib.closed = 1 .. lib.ids

=============================================================================
