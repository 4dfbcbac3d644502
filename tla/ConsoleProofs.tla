---------------------------- MODULE ConsoleProofs ---------------------------
(***************************************************************************)
(* The tokio console, for any finite set of users and any input: readers   *)
(* share one queue of whole lines, a broken writer is reported once, and   *)
(* the parts come back when nobody can use them.                           *)
(*                                                                         *)
(* Two invariants carry most of it.  InputInv: the mutex is free only when *)
(* nobody waits for it, and the line in progress has no newline.  GuardInv:*)
(* one guard at a time, and what the newest entry of the sink says of      *)
(* whoever holds it.                                                       *)
(***************************************************************************)
EXTENDS TokioConsole, SequenceTheorems, FiniteSetTheorems, TLAPS

-----------------------------------------------------------------------------
(* Types *)

InputOK ==
  /\ buffered \in Seq(Lines!Bytes) /\ partial \in Seq(Lines!Bytes)
  /\ ended \in BOOLEAN
  /\ holder \in Users \cup {Free}
  /\ waiting \in Seq(Users)
  /\ given \in [user : Users, result : Lines!Results] \cup {Lines!Nobody}
  /\ arrived \in 0 .. MaxBytes /\ reads \in 0 .. MaxReads
  /\ errors \in 0 .. MaxErrors

OutputOK ==
  /\ begun \in 0 .. MaxLines
  /\ writing \in [Users -> {"no", "checked", "text"}]
  /\ failed \in BOOLEAN /\ logged \in Nat /\ late \in Nat
  /\ sink \in Seq([user : Users, part : {"text", "end"}])
  /\ shares \subseteq Users /\ parts \in BOOLEAN

LEMMA TypeParts == TypeOK <=> InputOK /\ OutputOK
  BY DEF TypeOK, InputOK, OutputOK

\* A line's text is bytes, and a bad line is Failed.
LEMMA LineOfType ==
  ASSUME NEW bytes \in Seq(Lines!Bytes)
  PROVE  Lines!LineOf(bytes) \in Lines!Results
<1> DEFINE text == SubSeq(bytes, 1, Lines!TextLen(bytes))
<1>1. Len(bytes) \in Nat /\ Lines!TextLen(bytes) \in 0 .. Len(bytes)
  BY DEF Lines!TextLen
<1>2. text \in Seq(Lines!Bytes)
  BY <1>1, SubSeqProperties
<1>3. << >> \in Seq(Lines!Bytes)
  OBVIOUS
<1> HIDE DEF text
<1>4. Lines!Failed \in Lines!Results /\ Lines!Result("line", text) \in Lines!Results
  BY <1>2, <1>3 DEF Lines!Failed, Lines!Result, Lines!Results
<1>5. QED
  BY <1>4 DEF Lines!LineOf, text

LEMMA PlainResults ==
  Lines!Closed \in Lines!Results /\ Lines!Failed \in Lines!Results
<1>1. << >> \in Seq(Lines!Bytes)
  OBVIOUS
<1>2. QED
  BY <1>1 DEF Lines!Closed, Lines!Failed, Lines!Result, Lines!Results

\* The mutex passes to a user or is free.
LEMMA UnlockType ==
  ASSUME InputOK, Unlock
  PROVE  holder' \in Users \cup {Free} /\ waiting' \in Seq(Users)
<1>1. waiting # << >> => Head(waiting) \in Users /\ Tail(waiting) \in Seq(Users)
  BY HeadTailProperties DEF InputOK
<1>2. QED
  BY <1>1 DEF InputOK, Unlock

LEMMA ReturnsType ==
  ASSUME InputOK, NEW result \in Lines!Results, holder # Free, Returns(result)
  PROVE  /\ given' \in [user : Users, result : Lines!Results] \cup {Lines!Nobody}
         /\ holder' \in Users \cup {Free} /\ waiting' \in Seq(Users)
<1>1. given' = [user |-> holder, result |-> result] /\ Unlock
  BY DEF Returns
<1>2. holder \in Users
  BY DEF InputOK
<1>3. QED
  BY <1>1, <1>2, UnlockType

LEMMA RemoveAtIs ==
  ASSUME NEW S, NEW s \in Seq(S), NEW i \in 1 .. Len(s)
  PROVE  /\ RemoveAt(s, i) \in Seq(S)
         /\ Len(RemoveAt(s, i)) = Len(s) - 1
         /\ \A j \in 1 .. Len(s) - 1 :
              RemoveAt(s, i)[j] = IF j < i THEN s[j] ELSE s[j + 1]
<1>1. /\ SubSeq(s, 1, i - 1) \in Seq(S) /\ Len(SubSeq(s, 1, i - 1)) = i - 1
      /\ \A j \in 1 .. i - 1 : SubSeq(s, 1, i - 1)[j] = s[j]
  BY SubSeqProperties
<1>2. /\ SubSeq(s, i + 1, Len(s)) \in Seq(S)
      /\ Len(SubSeq(s, i + 1, Len(s))) = Len(s) - i
      /\ \A j \in 1 .. Len(s) - i : SubSeq(s, i + 1, Len(s))[j] = s[i + j]
  BY SubSeqProperties
<1> DEFINE a == SubSeq(s, 1, i - 1)
           b == SubSeq(s, i + 1, Len(s))
<1> HIDE DEF a, b
<1>3. /\ a \o b \in Seq(S) /\ Len(a \o b) = Len(s) - 1
      /\ \A j \in 1 .. Len(s) - 1 : (a \o b)[j] = IF j < i THEN s[j] ELSE s[j + 1]
  <2>1. /\ a \in Seq(S) /\ Len(a) = i - 1 /\ \A j \in 1 .. i - 1 : a[j] = s[j]
        /\ b \in Seq(S) /\ Len(b) = Len(s) - i
        /\ \A j \in 1 .. Len(s) - i : b[j] = s[i + j]
    BY <1>1, <1>2 DEF a, b
  <2>2. /\ a \o b \in Seq(S) /\ Len(a \o b) = Len(a) + Len(b)
        /\ \A j \in 1 .. Len(a) + Len(b) : (a \o b)[j] =
              IF j <= Len(a) THEN a[j] ELSE b[j - Len(a)]
    BY <2>1, ConcatProperties
  <2>3. \A j \in 1 .. Len(s) - 1 : (a \o b)[j] = IF j < i THEN s[j] ELSE s[j + 1]
    <3> TAKE j \in 1 .. Len(s) - 1
    <3>1. (a \o b)[j] = IF j <= i - 1 THEN a[j] ELSE b[j - (i - 1)]
      BY <2>1, <2>2
    <3>2. CASE j < i
      BY <3>1, <3>2, <2>1
    <3>3. CASE ~(j < i)
      <4>1. j - (i - 1) \in 1 .. Len(s) - i /\ i + (j - (i - 1)) = j + 1
        BY <3>3
      <4>2. QED
        BY <3>1, <3>3, <4>1, <2>1
    <3>4. QED
      BY <3>2, <3>3
  <2>4. QED
    BY <2>1, <2>2, <2>3
<1>4. QED
  BY <1>3 DEF RemoveAt, a, b

LEMMA LeaveType ==
  ASSUME InputOK, NEW u, LeaveLine(u)
  PROVE  holder' \in Users \cup {Free} /\ waiting' \in Seq(Users)
<1>1. PICK i \in DOMAIN waiting : waiting' = RemoveAt(waiting, i)
  BY DEF LeaveLine
<1>2. i \in 1 .. Len(waiting) /\ waiting \in Seq(Users)
  BY DEF InputOK
<1>3. RemoveAt(waiting, i) \in Seq(Users)
  BY <1>2, RemoveAtIs
<1>4. QED
  BY <1>1, <1>3 DEF LeaveLine, InputOK

\* Every variable keeps its type.
THEOREM TypeCorrect == Spec => []TypeOK
<1>1. Init => TypeOK
  <2> SUFFICES ASSUME Init PROVE TypeOK
    OBVIOUS
  <2>0. MaxBytes \in Nat /\ MaxReads \in Nat /\ MaxErrors \in Nat
    BY ConsoleAssumption DEF ConsoleAssumption
  <2>1. InputOK
    <3>1. << >> \in Seq(Lines!Bytes) /\ << >> \in Seq(Users)
      OBVIOUS
    <3>2. 0 \in 0 .. MaxBytes /\ 0 \in 0 .. MaxReads /\ 0 \in 0 .. MaxErrors
      BY <2>0
    <3>3. QED
      BY <3>1, <3>2, Zenon DEF Init, InputOK
  <2>2. OutputOK
    <3>1. 0 \in 0 .. MaxLines /\ First \in Users
      BY ConsoleAssumption DEF ConsoleAssumption
    <3>2. << >> \in Seq([user : Users, part : {"text", "end"}]) /\ 0 \in Nat
      OBVIOUS
    <3>3. QED
      BY <3>1, <3>2 DEF Init, OutputOK
  <2>3. QED
    BY <2>1, <2>2, TypeParts
<1>2. InputOK /\ [Next]_vars => InputOK'
  <2> SUFFICES ASSUME InputOK, [Next]_vars PROVE InputOK'
    OBVIOUS
  <2>0. /\ buffered # << >> => /\ Head(buffered) \in Lines!Bytes
                               /\ Tail(buffered) \in Seq(Lines!Bytes)
        /\ LF \in Lines!Bytes
        /\ << >> \in Seq(Lines!Bytes)
    BY HeadTailProperties DEF InputOK, LF, Lines!LF, Lines!Bytes
  <2>a. \A b \in Lines!Bytes : /\ Append(buffered, b) \in Seq(Lines!Bytes)
                               /\ Append(partial, b) \in Seq(Lines!Bytes)
    BY AppendProperties DEF InputOK
  <2>b. /\ MaxBytes \in Nat /\ MaxReads \in Nat /\ MaxErrors \in Nat
        /\ MaxLines \in Nat
    BY ConsoleAssumption DEF ConsoleAssumption
  <2>1. CASE Arrive
    BY <2>1, <2>a, <2>b DEF Arrive, InputOK
  <2>2. CASE EndInput
    BY <2>2 DEF EndInput, InputOK
  <2>3. ASSUME NEW u \in Users, ReadLine(u) PROVE InputOK'
    <3>1. Append(waiting, u) \in Seq(Users)
      BY <2>3, AppendProperties DEF InputOK
    <3>2. reads' \in 0 .. MaxReads
      BY <2>3, <2>b DEF ReadLine, InputOK
    <3>3. holder' \in Users \cup {Free} /\ waiting' \in Seq(Users)
      BY <2>3, <3>1 DEF ReadLine, InputOK
    <3>4. QED
      BY <2>3, <3>2, <3>3 DEF ReadLine, InputOK
  <2>4. CASE TakeByte
    BY <2>4, <2>0, <2>a DEF TakeByte, InputOK
  <2>5. CASE TakeLine
    <3>1. Lines!LineOf(Append(partial, LF)) \in Lines!Results
      BY <2>0, <2>a, LineOfType
    <3>2. QED
      BY <2>5, <3>1, <2>0, ReturnsType DEF TakeLine, InputOK
  <2>6. CASE MeetEnd
    <3> DEFINE r == IF partial = << >> THEN Lines!Closed ELSE Lines!LineOf(partial)
    <3>1. r \in Lines!Results
      BY LineOfType, PlainResults DEF InputOK
    <3> HIDE DEF r
    <3>2. Returns(r) /\ holder # Free
      BY <2>6 DEF MeetEnd, r
    <3>3. QED
      BY <2>6, <3>1, <3>2, <2>0, ReturnsType DEF MeetEnd, InputOK
  <2>7. CASE MeetError
    BY <2>7, <2>0, <2>b, PlainResults, ReturnsType DEF MeetError, InputOK
  <2>8. ASSUME NEW u \in Users, DropRead(u) PROVE InputOK'
    <3>1. holder' \in Users \cup {Free} /\ waiting' \in Seq(Users)
      BY <2>8, UnlockType, LeaveType DEF DropRead
    <3>2. QED
      BY <2>8, <3>1 DEF DropRead, InputOK
  <2>9. ASSUME UNCHANGED input PROVE InputOK'
    BY <2>9 DEF input, InputOK
  <2>10. ASSUME NEW u \in Users,
                WriteLine(u) \/ WriteText(u) \/ WriteEnd(u) \/ LetGo(u) \/ IntoParts(u)
                \/ \E v \in Users : Share(u, v)
         PROVE  UNCHANGED input
    BY <2>10 DEF WriteLine, WriteText, WriteEnd, LetGo, IntoParts, Share
  <2>11. UNCHANGED vars => UNCHANGED input
    BY DEF vars
  <2>12. QED
    BY <2>1, <2>2, <2>3, <2>4, <2>5, <2>6, <2>7, <2>8, <2>9, <2>10, <2>11 DEF Next, Read
<1>3. OutputOK /\ [Next]_vars => OutputOK'
  <2> SUFFICES ASSUME OutputOK, [Next]_vars PROVE OutputOK'
    OBVIOUS
  <2>b. /\ MaxBytes \in Nat /\ MaxReads \in Nat /\ MaxErrors \in Nat
        /\ MaxLines \in Nat
    BY ConsoleAssumption DEF ConsoleAssumption
  <2>0. ASSUME NEW u \in Users, NEW part \in {"text", "end"}, Puts(u, part)
        PROVE  sink' \in Seq([user : Users, part : {"text", "end"}])
    BY <2>0, AppendProperties DEF Puts, OutputOK
  <2>1. ASSUME NEW u \in Users, WriteLine(u) PROVE OutputOK'
    BY <2>1, <2>b DEF WriteLine, OutputOK, sharing
  <2>2. ASSUME NEW u \in Users, WriteText(u) \/ WriteEnd(u) PROVE OutputOK'
    <3>1. sink' \in Seq([user : Users, part : {"text", "end"}])
      BY <2>2, <2>0 DEF WriteText, WriteEnd, OutputOK
    <3>2. writing' \in [Users -> {"no", "checked", "text"}]
      BY <2>2 DEF WriteText, WriteEnd, Fail, OutputOK
    <3>3. failed' \in BOOLEAN
      BY <2>2 DEF WriteText, WriteEnd, Fail, OutputOK
    <3>4. logged' \in Nat
      <4>1. logged' = logged \/ logged' = logged + 1
        BY <2>2 DEF WriteText, WriteEnd, Fail
      <4>2. QED
        BY <4>1 DEF OutputOK
    <3>5. late' \in Nat
      <4>1. late' = late \/ late' = late + 1
        BY <2>2 DEF WriteText, WriteEnd
      <4>2. QED
        BY <4>1 DEF OutputOK
    <3>6. UNCHANGED <<begun, shares, parts>>
      BY <2>2 DEF WriteText, WriteEnd, sharing
    <3>7. QED
      BY <3>1, <3>2, <3>3, <3>4, <3>5, <3>6 DEF OutputOK
  <2>4. ASSUME NEW u \in Users,
               LetGo(u) \/ IntoParts(u) \/ \E v \in Users : Share(u, v)
        PROVE  OutputOK'
    BY <2>4 DEF LetGo, IntoParts, Share, CloneFor, OutputOK, output
  <2>5. ASSUME UNCHANGED <<output, sharing>> PROVE OutputOK'
    BY <2>5 DEF output, sharing, OutputOK
  <2>6. Arrive \/ EndInput \/ Read \/ MeetError => UNCHANGED <<output, sharing>>
    BY DEF Arrive, EndInput, Read, TakeByte, TakeLine, MeetEnd, MeetError
  <2>7. ASSUME NEW u \in Users, ReadLine(u) \/ DropRead(u)
        PROVE  UNCHANGED <<output, sharing>>
    BY <2>7 DEF ReadLine, DropRead
  <2>8. UNCHANGED vars => UNCHANGED <<output, sharing>>
    BY DEF vars
  <2>9. QED
    BY <2>1, <2>2, <2>4, <2>5, <2>6, <2>7, <2>8 DEF Next
<1>4. QED
  BY <1>1, <1>2, <1>3, TypeParts, PTL DEF Spec

-----------------------------------------------------------------------------
(* The output *)

Checked == {u \in Users : writing[u] = "checked"}

OutputInv ==
  /\ ~failed => late = 0
  /\ LoggedOnce
  /\ LateLinesAreFew

\* Whoever reached the writer leaves room for one more.
LEMMA CheckedCounts ==
  ASSUME OutputOK
  PROVE  /\ IsFiniteSet(Checked) /\ Cardinality(Checked) \in Nat
         /\ Cardinality(Users) \in Nat
         /\ \A u \in Checked :
              Cardinality(Checked \ {u}) = Cardinality(Checked) - 1
         /\ \A u \in Users \ Checked : Cardinality(Checked) < Cardinality(Users)
<1>1. IsFiniteSet(Users) /\ Checked \subseteq Users
  BY ConsoleAssumption DEF ConsoleAssumption, Checked
<1>2. IsFiniteSet(Checked)
  BY <1>1, FS_Subset
<1>3. \A u \in Checked : Cardinality(Checked \ {u}) = Cardinality(Checked) - 1
  BY <1>2, FS_RemoveElement
<1>4. Cardinality(Checked) \in Nat /\ Cardinality(Users) \in Nat
  BY <1>1, <1>2, FS_CardinalityType
<1>5. ASSUME NEW u \in Users \ Checked
      PROVE  Cardinality(Checked) < Cardinality(Users)
  <2>1. Checked \subseteq Users \ {u} /\ IsFiniteSet(Users \ {u})
    BY <1>1, FS_RemoveElement
  <2>2. /\ Cardinality(Checked) <= Cardinality(Users \ {u})
        /\ Cardinality(Users \ {u}) = Cardinality(Users) - 1
    BY <1>1, <2>1, FS_Subset, FS_RemoveElement
  <2>3. Cardinality(Users \ {u}) \in Nat
    BY <2>1, FS_CardinalityType
  <2>4. QED
    BY <1>4, <2>2, <2>3
<1>6. QED
  BY <1>2, <1>3, <1>4, <1>5

LEMMA OutputInvIs ==
  OutputInv <=> /\ ~failed => late = 0
                /\ logged = IF failed THEN 1 ELSE 0
                /\ failed => late + Cardinality(Checked) < Cardinality(Users)
  BY Zenon DEF OutputInv, LoggedOnce, LateLinesAreFew, Checked

LEMMA OutputInvIsInductive ==
  ASSUME OutputOK, OutputOK', OutputInv, [Next]_vars
  PROVE  OutputInv'
<1> DEFINE c == Cardinality(Checked)
<1>0. /\ ~failed => late = 0
      /\ logged = IF failed THEN 1 ELSE 0
      /\ failed => late + c < Cardinality(Users)
  BY OutputInvIs
<1>a. /\ c \in Nat /\ c' \in Nat /\ Cardinality(Users) \in Nat
      /\ late \in Nat /\ late' \in Nat /\ logged \in Nat
      /\ failed \in BOOLEAN /\ failed' \in BOOLEAN
  <2>1. Checked' \subseteq Users /\ IsFiniteSet(Users)
    BY ConsoleAssumption DEF ConsoleAssumption, Checked
  <2>2. IsFiniteSet(Checked')
    BY <2>1, FS_Subset
  <2>3. Cardinality(Checked') \in Nat
    BY <2>2, FS_CardinalityType
  <2>4. /\ late \in Nat /\ late' \in Nat /\ logged \in Nat
        /\ failed \in BOOLEAN /\ failed' \in BOOLEAN
    BY DEF OutputOK
  <2>5. c' = Cardinality(Checked')
    OBVIOUS
  <2>6. QED
    BY <2>3, <2>4, <2>5, CheckedCounts
<1>b. SUFFICES /\ ~failed' => late' = 0
               /\ logged' = IF failed' THEN 1 ELSE 0
               /\ failed' => late' + c' < Cardinality(Users)
  BY DEF OutputInv, LoggedOnce, LateLinesAreFew, Checked
<1>1. ASSUME UNCHANGED <<writing, failed, logged, late>>
      PROVE  <1>b!1
  BY <1>0, <1>1 DEF Checked
<1>2. ASSUME NEW u \in Users, WriteLine(u) PROVE <1>b!1
  <2>1. UNCHANGED <<failed, logged, late>> /\ (failed => writing' = writing)
    BY <1>2, <1>a DEF WriteLine
  <2>2. failed => c' = c
    BY <2>1 DEF Checked
  <2>3. QED
    BY <1>0, <2>1, <2>2
<1>3. ASSUME NEW u \in Users, WriteText(u) \/ WriteEnd(u),
             failed' = TRUE, logged' = (IF failed THEN logged ELSE logged + 1),
             writing' = [writing EXCEPT ![u] = "no"]
      PROVE  <1>b!1
  <2>1. Checked' = Checked \ {u}
    BY <1>3 DEF Checked, OutputOK
  <2>2. CASE WriteText(u)
    <3>1. u \in Checked
      BY <2>2 DEF WriteText, Checked
    <3>2. c' = c - 1 /\ late' = IF failed THEN late + 1 ELSE late
      BY <2>1, <2>2, <3>1, CheckedCounts DEF WriteText
    <3>3. u \in (Users \ Checked)'
      BY <2>1, <1>3
    <3>4. c' < Cardinality(Users)
      <4>1. c <= Cardinality(Users)
        <5>1. IsFiniteSet(Users) /\ Checked \subseteq Users
          BY ConsoleAssumption DEF ConsoleAssumption, Checked
        <5>2. QED
          BY <5>1, FS_Subset
      <4>2. QED
        BY <3>2, <4>1, <1>a
    <3>5. QED
      BY <1>0, <1>a, <1>3, <3>2, <3>4
  <2>3. CASE WriteEnd(u)
    <3>1. u \notin Checked
      BY <2>3 DEF WriteEnd, Checked
    <3>2. c' = c /\ late' = late /\ c < Cardinality(Users)
      BY <2>1, <2>3, <3>1, CheckedCounts DEF WriteEnd
    <3>3. QED
      BY <1>0, <1>a, <1>3, <3>2
  <2>4. QED
    BY <1>3, <2>2, <2>3
<1>4. ASSUME NEW u \in Users, WriteText(u),
             writing' = [writing EXCEPT ![u] = "text"], UNCHANGED <<failed, logged>>
      PROVE  <1>b!1
  <2>1. Checked' = Checked \ {u} /\ u \in Checked
    BY <1>4 DEF Checked, OutputOK, WriteText
  <2>2. c' = c - 1 /\ late' = IF failed THEN late + 1 ELSE late
    BY <2>1, <1>4, CheckedCounts DEF WriteText
  <2>3. QED
    BY <1>0, <1>a, <1>4, <2>2
<1>5. ASSUME NEW u \in Users, WriteEnd(u),
             writing' = [writing EXCEPT ![u] = "no"], UNCHANGED <<failed, logged>>
      PROVE  <1>b!1
  <2>1. Checked' = Checked /\ late' = late
    BY <1>5 DEF Checked, OutputOK, WriteEnd
  <2>2. QED
    BY <1>0, <1>5, <2>1
<1>6. ASSUME NEW u \in Users, WriteText(u) PROVE <1>b!1
  BY <1>3, <1>4, <1>6 DEF WriteText, Fail
<1>7. ASSUME NEW u \in Users, WriteEnd(u) PROVE <1>b!1
  BY <1>3, <1>5, <1>7 DEF WriteEnd, Fail
<1>8. ASSUME NEW u \in Users,
             \/ ReadLine(u) \/ DropRead(u) \/ LetGo(u) \/ IntoParts(u)
             \/ \E v \in Users : Share(u, v)
      PROVE  UNCHANGED output
  BY <1>8 DEF ReadLine, DropRead, LetGo, IntoParts, Share
<1>9. Arrive \/ EndInput \/ Read \/ MeetError \/ UNCHANGED vars => UNCHANGED output
  BY DEF Arrive, EndInput, Read, TakeByte, TakeLine, MeetEnd, MeetError, vars
<1>10. UNCHANGED output => UNCHANGED <<writing, failed, logged, late>>
  BY DEF output
<1>11. QED
  BY <1>1, <1>2, <1>6, <1>7, <1>8, <1>9, <1>10 DEF Next

LEMMA OutputInvHolds == Spec => [](OutputOK /\ OutputInv)
<1>1. Init /\ OutputOK => OutputInv
  <2> SUFFICES ASSUME Init, OutputOK PROVE OutputInv
    OBVIOUS
  <2>1. failed = FALSE /\ late = 0 /\ logged = 0
    BY DEF Init
  <2>2. QED
    BY <2>1, OutputInvIs
<1>2. TypeOK => OutputOK
  BY TypeParts
<1>3. OutputOK /\ OutputOK' /\ OutputInv /\ [Next]_vars => OutputInv'
  BY OutputInvIsInductive
<1>4. QED
  BY <1>1, <1>2, <1>3, TypeCorrect, PTL DEF Spec

\* However many writers are past the flag when the writer breaks, one of them
\* logs it, and fewer lines than there are users reach the writer after it
\* (TokioOutput::write_line's swap).
THEOREM WriterReportedOnce == Spec => []WriterBreaksOnce
<1>1. OutputInv => WriterBreaksOnce
  BY DEF OutputInv, WriterBreaksOnce
<1>2. QED
  BY <1>1, OutputInvHolds, PTL

-----------------------------------------------------------------------------
(* Lines keep together *)

Newest == sink[Len(sink)]

GuardInv ==
  /\ \A u, v \in Users : writing[u] = "text" /\ writing[v] = "text" => u = v
  /\ ~failed => \A u \in Users : writing[u] = "text" =>
                 sink # << >> /\ Newest = [user |-> u, part |-> "text"]
  /\ ~failed /\ Unlocked /\ sink # << >> => Newest.part = "end"
  /\ LinesKeepTogether

\* What one more entry does to the sink.
LEMMA PutsIs ==
  ASSUME OutputOK, NEW u \in Users, NEW part \in {"text", "end"}, Puts(u, part)
  PROVE  /\ sink' # << >> /\ Newest' = [user |-> u, part |-> part]
         /\ Len(sink') = Len(sink) + 1 /\ Len(sink) \in Nat
         /\ \A i \in 1 .. Len(sink) : sink'[i] = sink[i]
BY AppendProperties DEF Puts, Newest, OutputOK

LEMMA GuardInvIsInductive ==
  ASSUME OutputOK, OutputOK', GuardInv, [Next]_vars
  PROVE  GuardInv'
<1>1. ASSUME UNCHANGED <<writing, failed, sink>>
      PROVE  GuardInv'
  BY <1>1 DEF GuardInv, Unlocked, Newest, LinesKeepTogether
<1>2. ASSUME NEW u \in Users, WriteLine(u) PROVE GuardInv'
  <2>1. UNCHANGED <<failed, sink>> /\ writing' \in [Users -> {"no", "checked", "text"}]
    BY <1>2 DEF WriteLine, OutputOK
  <2>2. \A v \in Users : writing'[v] = "text" <=> writing[v] = "text"
    BY <1>2 DEF WriteLine, OutputOK, AtRest
  <2>3. QED
    BY <2>1, <2>2 DEF GuardInv, Unlocked, Newest, LinesKeepTogether
<1>3. ASSUME NEW u \in Users, WriteText(u), Puts(u, "text"),
             writing' = [writing EXCEPT ![u] = "text"], UNCHANGED failed
      PROVE  GuardInv'
  <2>1. Unlocked
    BY <1>3 DEF WriteText
  <2>2. \A v \in Users : writing'[v] = "text" <=> v = u
    BY <1>3, <2>1 DEF OutputOK, Unlocked
  <2>3. /\ sink' # << >> /\ Newest' = [user |-> u, part |-> "text"]
        /\ Len(sink') = Len(sink) + 1 /\ Len(sink) \in Nat
        /\ \A i \in 1 .. Len(sink) : sink'[i] = sink[i]
    BY <1>3, PutsIs
  <2>4. ASSUME ~failed
        PROVE  \A i \in 1 .. Len(sink') - 1 : sink'[i].part = "text" =>
                 sink'[i + 1] = [user |-> sink'[i].user, part |-> "end"]
    <3> TAKE i \in 1 .. Len(sink') - 1
    <3>1. CASE i = Len(sink)
      <4>1. sink # << >> /\ i \in 1 .. Len(sink)
        BY <3>1, <2>3
      <4>2. sink'[i].part = "end"
        BY <4>1, <3>1, <2>1, <2>3, <2>4 DEF GuardInv, Newest
      <4>3. QED
        BY <4>2
    <3>2. CASE i # Len(sink)
      <4>1. i \in 1 .. Len(sink) - 1 /\ i \in 1 .. Len(sink) /\ i + 1 \in 1 .. Len(sink)
        BY <3>2, <2>3
      <4>2. sink'[i] = sink[i] /\ sink'[i + 1] = sink[i + 1]
        BY <4>1, <2>3
      <4>3. QED
        BY <4>1, <4>2, <2>4 DEF GuardInv, LinesKeepTogether
    <3>3. QED
      BY <3>1, <3>2
  <2>5. ~Unlocked'
    BY <2>2 DEF Unlocked
  <2>6. QED
    BY <2>2, <2>3, <2>4, <2>5, <1>3 DEF GuardInv, LinesKeepTogether
<1>4. ASSUME NEW u \in Users, WriteEnd(u), Puts(u, "end"),
             writing' = [writing EXCEPT ![u] = "no"], UNCHANGED failed
      PROVE  GuardInv'
  <2>1. writing[u] = "text" /\ \A v \in Users : writing[v] = "text" => v = u
    BY <1>4 DEF WriteEnd, GuardInv
  <2>2. Unlocked'
    BY <1>4, <2>1 DEF OutputOK, Unlocked
  <2>3. /\ sink' # << >> /\ Newest' = [user |-> u, part |-> "end"]
        /\ Len(sink') = Len(sink) + 1 /\ Len(sink) \in Nat
        /\ \A i \in 1 .. Len(sink) : sink'[i] = sink[i]
    BY <1>4, PutsIs
  <2>4. ASSUME ~failed
        PROVE  \A i \in 1 .. Len(sink') - 1 : sink'[i].part = "text" =>
                 sink'[i + 1] = [user |-> sink'[i].user, part |-> "end"]
    <3> TAKE i \in 1 .. Len(sink') - 1
    <3>1. CASE i = Len(sink)
      <4>1. i \in 1 .. Len(sink)
        BY <3>1, <2>3
      <4>a. Newest = [user |-> u, part |-> "text"]
        BY <2>1, <2>4 DEF GuardInv
      <4>2. sink'[i].user = u
        BY <4>1, <4>a, <3>1, <2>3 DEF Newest
      <4>3. sink'[i + 1] = [user |-> u, part |-> "end"]
        BY <3>1, <2>3 DEF Newest
      <4>4. QED
        BY <4>2, <4>3
    <3>2. CASE i # Len(sink)
      <4>1. i \in 1 .. Len(sink) - 1 /\ i \in 1 .. Len(sink) /\ i + 1 \in 1 .. Len(sink)
        BY <3>2, <2>3
      <4>2. sink'[i] = sink[i] /\ sink'[i + 1] = sink[i + 1]
        BY <4>1, <2>3
      <4>3. QED
        BY <4>1, <4>2, <2>4 DEF GuardInv, LinesKeepTogether
    <3>3. QED
      BY <3>1, <3>2
  <2>5. \A v \in Users : writing'[v] # "text"
    BY <2>2 DEF Unlocked
  <2>6. QED
    BY <2>3, <2>4, <2>5, <1>4 DEF GuardInv, LinesKeepTogether
<1>5. ASSUME NEW u \in Users, Fail(u)
      PROVE  GuardInv'
  <2>1. failed' = TRUE /\ \A v \in Users : writing'[v] = "text" => writing[v] = "text"
    BY <1>5 DEF Fail, OutputOK
  <2>2. QED
    BY <2>1 DEF GuardInv, LinesKeepTogether
<1>6. ASSUME NEW u \in Users, WriteText(u) PROVE GuardInv'
  BY <1>3, <1>5, <1>6 DEF WriteText
<1>7. ASSUME NEW u \in Users, WriteEnd(u) PROVE GuardInv'
  BY <1>4, <1>5, <1>7 DEF WriteEnd
<1>8. ASSUME NEW u \in Users,
             \/ ReadLine(u) \/ DropRead(u) \/ LetGo(u) \/ IntoParts(u)
             \/ \E v \in Users : Share(u, v)
      PROVE  UNCHANGED output
  BY <1>8 DEF ReadLine, DropRead, LetGo, IntoParts, Share
<1>9. Arrive \/ EndInput \/ Read \/ MeetError \/ UNCHANGED vars => UNCHANGED output
  BY DEF Arrive, EndInput, Read, TakeByte, TakeLine, MeetEnd, MeetError, vars
<1>10. UNCHANGED output => UNCHANGED <<writing, failed, sink>>
  BY DEF output
<1>11. QED
  BY <1>1, <1>2, <1>6, <1>7, <1>8, <1>9, <1>10 DEF Next

\* Until a write fails no line is torn or mixed with another
\* (TokioOutput::write_line holds the writer's mutex over both writes).
THEOREM LinesStayWhole == Spec => []LinesKeepTogether
<1>1. Init /\ OutputOK => GuardInv
  <2> SUFFICES ASSUME Init PROVE GuardInv
    OBVIOUS
  <2>1. sink = << >> /\ Len(sink) = 0 /\ \A u \in Users : writing[u] = "no"
    BY DEF Init
  <2>2. QED
    BY <2>1 DEF GuardInv, Unlocked, LinesKeepTogether
<1>2. OutputOK /\ OutputOK' /\ GuardInv /\ [Next]_vars => GuardInv'
  BY GuardInvIsInductive
<1>3. TypeOK => OutputOK
  BY TypeParts
<1>4. GuardInv => LinesKeepTogether
  BY DEF GuardInv
<1>5. QED
  BY <1>1, <1>2, <1>3, <1>4, TypeCorrect, PTL DEF Spec

-----------------------------------------------------------------------------
(* The parts *)

SharingInv ==
  /\ parts => shares = {}
  /\ \A u \in Users : ~AtRest(u) => u \in shares

\* Handing the mutex on, and leaving the line, bring nobody new.
LEMMA NobodyNew ==
  ASSUME InputOK, Unlock \/ \E u \in Users : LeaveLine(u), NEW x \in Users, Reading(x)'
  PROVE  Reading(x)
<1>0. waiting \in Seq(Users) /\ x # Free
  BY ConsoleAssumption DEF InputOK, ConsoleAssumption, Free
<1>1. CASE Unlock /\ waiting = << >>
  BY <1>0, <1>1 DEF Unlock, Reading
<1>2. CASE Unlock /\ waiting # << >>
  <2>1. Range(Tail(waiting)) \subseteq Range(waiting) /\ Head(waiting) \in Range(waiting)
    <3>1. /\ Tail(waiting) \in Seq(Users) /\ Len(Tail(waiting)) = Len(waiting) - 1
          /\ \A i \in 1 .. Len(Tail(waiting)) : Tail(waiting)[i] = waiting[i + 1]
      BY <1>0, <1>2, HeadTailProperties
    <3>2. Head(waiting) = waiting[1] /\ 1 \in DOMAIN waiting
      BY <1>0, <1>2
    <3>3. \A i \in DOMAIN Tail(waiting) : i + 1 \in DOMAIN waiting
      BY <1>0, <3>1
    <3>4. QED
      BY <3>1, <3>2, <3>3 DEF Range
  <2>2. QED
    BY <1>2, <2>1 DEF Unlock, Reading
<1>3. ASSUME NEW u \in Users, LeaveLine(u)
      PROVE  Reading(x)
  <2>1. PICK i \in DOMAIN waiting : waiting' = RemoveAt(waiting, i)
    BY <1>3 DEF LeaveLine
  <2>2. i \in 1 .. Len(waiting)
    BY <1>0
  <2>3. /\ waiting' \in Seq(Users) /\ Len(waiting') = Len(waiting) - 1
        /\ \A j \in 1 .. Len(waiting) - 1 :
             waiting'[j] = IF j < i THEN waiting[j] ELSE waiting[j + 1]
    BY <1>0, <2>1, <2>2, RemoveAtIs
  <2>4. \A j \in DOMAIN waiting' : \E k \in DOMAIN waiting : waiting'[j] = waiting[k]
    <3> TAKE j \in DOMAIN waiting'
    <3>1. j \in 1 .. Len(waiting) - 1
      BY <2>3
    <3>2. j \in DOMAIN waiting /\ j + 1 \in DOMAIN waiting
      BY <1>0, <3>1
    <3>3. QED
      BY <2>3, <3>1, <3>2
  <2>5. Range(waiting') \subseteq Range(waiting)
    BY <2>4 DEF Range
  <2>6. QED
    BY <1>3, <2>5 DEF LeaveLine, Reading
<1>4. QED
  BY <1>1, <1>2, <1>3

\* into_parts finds nobody else, and nobody comes after it (ctx.rs).
THEOREM PartsComeBackWhole == Spec => []PartsAreWhole
<1>1. Init => SharingInv
  <2> SUFFICES ASSUME Init PROVE SharingInv
    OBVIOUS
  <2>1. holder = Free /\ Range(waiting) = {} /\ parts = FALSE
        /\ \A u \in Users : writing[u] = "no"
    BY DEF Init, Range
  <2>2. \A u \in Users : u # Free
    BY ConsoleAssumption DEF ConsoleAssumption, Free
  <2>3. QED
    BY <2>1, <2>2 DEF SharingInv, AtRest, Reading
<1>2. TypeOK /\ SharingInv /\ [Next]_vars => SharingInv'
  <2> SUFFICES ASSUME InputOK, OutputOK, SharingInv, [Next]_vars PROVE SharingInv'
    BY TypeParts
  <2>1. ASSUME NEW u \in Users, ReadLine(u) PROVE SharingInv'
    <3>1. \A x \in Users : Reading(x)' => Reading(x) \/ x = u
      <4>1. Range(Append(waiting, u)) = Range(waiting) \cup {u}
        <5>1. waiting \in Seq(Users)
          BY DEF InputOK
        <5>2. QED
          BY <5>1, AppendProperties DEF Range
      <4>2. QED
        BY <2>1, <4>1 DEF ReadLine, Reading
    <3>2. UNCHANGED <<writing, shares, parts>> /\ u \in shares
      BY <2>1 DEF ReadLine, output, sharing
    <3>3. QED
      BY <3>1, <3>2 DEF SharingInv, AtRest
  <2>2. ASSUME UNCHANGED <<writing, shares, parts>>,
               \A x \in Users : Reading(x)' => Reading(x)
        PROVE  SharingInv'
    BY <2>2 DEF SharingInv, AtRest
  <2>3. ASSUME NEW u \in Users, DropRead(u) PROVE SharingInv'
    <3>1. CASE Unlock
      BY <2>2, <2>3, <3>1, NobodyNew DEF DropRead, output, sharing
    <3>2. CASE LeaveLine(u)
      BY <2>2, <2>3, <3>2, NobodyNew DEF DropRead, output, sharing
    <3>3. QED
      BY <2>3, <3>1, <3>2 DEF DropRead
  <2>4. ASSUME TakeLine \/ MeetEnd \/ MeetError PROVE SharingInv'
    <3>1. Unlock /\ UNCHANGED <<writing, shares, parts>>
      BY <2>4 DEF TakeLine, MeetEnd, MeetError, Returns, output, sharing
    <3>2. QED
      BY <2>2, <3>1, NobodyNew
  <2>5. ASSUME UNCHANGED <<holder, waiting, writing, shares, parts>> PROVE SharingInv'
    BY <2>2, <2>5 DEF Reading
  <2>6. Arrive \/ EndInput \/ TakeByte \/ UNCHANGED vars
          => UNCHANGED <<holder, waiting, writing, shares, parts>>
    BY DEF Arrive, EndInput, TakeByte, vars, input, output, sharing
  <2>7. ASSUME NEW u \in Users, WriteLine(u) \/ WriteText(u) \/ WriteEnd(u)
        PROVE  SharingInv'
    <3>1. UNCHANGED <<holder, waiting, shares, parts>> /\ u \in shares
      BY <2>7 DEF WriteLine, WriteText, WriteEnd, input, sharing, SharingInv, AtRest
    <3>2. \A x \in Users : x # u => writing'[x] = writing[x]
      BY <2>7 DEF WriteLine, WriteText, WriteEnd, Fail, OutputOK
    <3>3. QED
      BY <3>1, <3>2 DEF SharingInv, AtRest, Reading
  <2>8. ASSUME NEW u \in Users, NEW v \in Users, Share(u, v) PROVE SharingInv'
    BY <2>8 DEF Share, CloneFor, SharingInv, AtRest, Reading, input, output
  <2>9. ASSUME NEW u \in Users, LetGo(u) \/ IntoParts(u) PROVE SharingInv'
    BY <2>9 DEF LetGo, IntoParts, SharingInv, AtRest, Reading, input, output
  <2>10. QED
    BY <2>1, <2>3, <2>4, <2>5, <2>6, <2>7, <2>8, <2>9 DEF Next, Read
<1>3. TypeOK /\ SharingInv => PartsAreWhole
  BY DEF SharingInv, PartsAreWhole
<1>4. QED
  BY <1>1, <1>2, <1>3, TypeCorrect, PTL DEF Spec

-----------------------------------------------------------------------------
(* Readers share a line queue *)

InputInv ==
  /\ holder = Free => waiting = << >>
  /\ \A i \in 1 .. Len(partial) : partial[i] # LF

LEMMA InputInvHolds == Spec => []InputInv
<1>1. Init => InputInv
  BY DEF Init, InputInv
<1>2. TypeOK /\ InputInv /\ [Next]_vars => InputInv'
  <2> SUFFICES ASSUME InputOK, InputInv, [Next]_vars PROVE InputInv'
    BY TypeParts
  <2>0. waiting \in Seq(Users) /\ Free \notin Users
    BY ConsoleAssumption DEF InputOK, ConsoleAssumption, Free
  <2>1. ASSUME Unlock, partial' = partial \/ partial' = << >> PROVE InputInv'
    <3>1. holder' = Free => waiting' = << >>
      <4>1. waiting # << >> => Head(waiting) \in Users
        BY <2>0, HeadTailProperties
      <4>2. QED
        BY <2>0, <2>1, <4>1 DEF Unlock
    <3>2. QED
      BY <2>1, <3>1 DEF InputInv
  <2>2. ASSUME NEW u \in Users, ReadLine(u) PROVE InputInv'
    BY <2>0, <2>2 DEF ReadLine, InputInv
  <2>3. CASE TakeByte
    <3>1. partial \in Seq(Lines!Bytes) /\ Head(buffered) \in Lines!Bytes
      BY <2>3, HeadTailProperties DEF TakeByte, InputOK
    <3>2. partial' = Append(partial, Head(buffered)) /\ Head(buffered) # LF
          /\ UNCHANGED <<holder, waiting>>
      BY <2>3 DEF TakeByte
    <3>3. QED
      BY <3>1, <3>2, AppendProperties DEF InputInv
  <2>4. ASSUME TakeLine \/ MeetEnd \/ MeetError PROVE InputInv'
    <3>1. Unlock /\ partial' = << >>
      BY <2>4 DEF TakeLine, MeetEnd, MeetError, Returns
    <3>2. QED
      BY <2>1, <3>1
  <2>5. ASSUME NEW u \in Users, DropRead(u) PROVE InputInv'
    <3>1. CASE LeaveLine(u)
      <4>1. waiting # << >>
        BY <2>0, <3>1 DEF LeaveLine
      <4>2. UNCHANGED <<holder, partial>>
        BY <2>5, <3>1 DEF LeaveLine, DropRead
      <4>3. QED
        BY <4>1, <4>2 DEF InputInv
    <3>2. QED
      BY <2>1, <2>5, <3>1 DEF DropRead
  <2>6. ASSUME UNCHANGED <<holder, waiting, partial>> PROVE InputInv'
    BY <2>6 DEF InputInv
  <2>7. Arrive \/ EndInput \/ UNCHANGED vars => UNCHANGED <<holder, waiting, partial>>
    BY DEF Arrive, EndInput, vars, input
  <2>8. ASSUME NEW u \in Users,
               \/ WriteLine(u) \/ WriteText(u) \/ WriteEnd(u) \/ LetGo(u) \/ IntoParts(u)
               \/ \E v \in Users : Share(u, v)
        PROVE  UNCHANGED <<holder, waiting, partial>>
    BY <2>8 DEF WriteLine, WriteText, WriteEnd, LetGo, IntoParts, Share, input
  <2>9. QED
    BY <2>2, <2>3, <2>4, <2>5, <2>6, <2>7, <2>8 DEF Next, Read
<1>3. QED
  BY <1>1, <1>2, TypeCorrect, PTL DEF Spec

Stream == partial \o buffered
Line == IF holder = Free THEN waiting ELSE <<holder>> \o waiting

\* The mutex goes to the next in line: the line loses its first.
LEMMA UnlockServes ==
  ASSUME InputOK, holder # Free, Unlock
  PROVE  Line # << >> /\ Head(Line) = holder /\ Line' = Tail(Line)
<1>1. waiting \in Seq(Users) /\ holder \in Users /\ Free \notin Users
  BY ConsoleAssumption DEF InputOK, ConsoleAssumption, Free
<1>2. Line = <<holder>> \o waiting
  BY DEF Line
<1>3. /\ <<holder>> \o waiting # << >> /\ Head(<<holder>> \o waiting) = holder
      /\ Tail(<<holder>> \o waiting) = waiting
  BY <1>1
<1>4. CASE waiting = << >>
  BY <1>2, <1>3, <1>4 DEF Unlock, Line
<1>5. CASE waiting # << >>
  <2>1. Head(waiting) \in Users /\ waiting = <<Head(waiting)>> \o Tail(waiting)
    BY <1>1, <1>5
  <2>2. QED
    BY <1>1, <1>2, <1>3, <1>5, <2>1 DEF Unlock, Line
<1>6. QED
  BY <1>4, <1>5

\* A waiter that leaves leaves its place in the whole line.
LEMMA LeaveLeaves ==
  ASSUME InputOK, InputInv, NEW u, LeaveLine(u)
  PROVE  \E i \in DOMAIN Line : Line' = RemoveAt(Line, i)
<1>1. waiting \in Seq(Users)
  BY DEF InputOK
<1>2. PICK i \in 1 .. Len(waiting) : waiting' = RemoveAt(waiting, i)
  BY <1>1 DEF LeaveLine
<1>3. holder # Free /\ holder \in Users /\ holder' = holder
  BY <1>1, <1>2 DEF LeaveLine, InputInv, InputOK
<1>4. Line = <<holder>> \o waiting /\ Line' = <<holder>> \o RemoveAt(waiting, i)
  BY <1>2, <1>3 DEF Line
<1> DEFINE w == <<holder>> \o waiting
           r == <<holder>> \o RemoveAt(waiting, i)
<1>5. <<holder>> \in Seq(Users) /\ Len(<<holder>>) = 1
  BY <1>3
<1>6. /\ w \in Seq(Users) /\ Len(w) = Len(waiting) + 1
      /\ \A j \in 1 .. Len(waiting) + 1 : w[j] = IF j = 1 THEN holder ELSE waiting[j - 1]
  BY <1>1, <1>5, ConcatProperties
<1>7. /\ RemoveAt(waiting, i) \in Seq(Users) /\ Len(RemoveAt(waiting, i)) = Len(waiting) - 1
      /\ \A j \in 1 .. Len(waiting) - 1 :
           RemoveAt(waiting, i)[j] = IF j < i THEN waiting[j] ELSE waiting[j + 1]
  BY <1>1, RemoveAtIs
<1>8. /\ r \in Seq(Users) /\ Len(r) = Len(waiting)
      /\ \A j \in 1 .. Len(waiting) :
           r[j] = IF j = 1 THEN holder ELSE RemoveAt(waiting, i)[j - 1]
  <2> DEFINE v == RemoveAt(waiting, i)
  <2>1. v \in Seq(Users) /\ Len(v) = Len(waiting) - 1
    BY <1>7
  <2> HIDE DEF v
  <2>2. /\ <<holder>> \o v \in Seq(Users) /\ Len(<<holder>> \o v) = Len(waiting)
        /\ \A j \in 1 .. Len(waiting) :
             (<<holder>> \o v)[j] = IF j = 1 THEN holder ELSE v[j - 1]
    BY <1>1, <1>5, <2>1, ConcatProperties
  <2>3. QED
    BY <2>2 DEF v
<1>9. i + 1 \in 1 .. Len(w)
  BY <1>1, <1>6
<1> DEFINE x == RemoveAt(w, i + 1)
<1>10. /\ x \in Seq(Users) /\ Len(x) = Len(waiting)
       /\ \A j \in 1 .. Len(waiting) : x[j] = IF j < i + 1 THEN w[j] ELSE w[j + 1]
  <2> HIDE DEF w
  <2>1. /\ RemoveAt(w, i + 1) \in Seq(Users) /\ Len(RemoveAt(w, i + 1)) = Len(w) - 1
        /\ \A j \in 1 .. Len(w) - 1 :
              RemoveAt(w, i + 1)[j] = IF j < i + 1 THEN w[j] ELSE w[j + 1]
    BY <1>6, <1>9, RemoveAtIs
  <2>2. Len(w) - 1 = Len(waiting)
    BY <1>1, <1>6
  <2>3. QED
    BY <2>1, <2>2
<1> HIDE DEF w, r, x
<1>11. \A j \in 1 .. Len(waiting) : r[j] = x[j]
  <2> TAKE j \in 1 .. Len(waiting)
  <2>1. Len(waiting) \in Nat
    BY <1>1
  <2>2. CASE j = 1
    BY <2>1, <2>2, <1>2, <1>6, <1>8, <1>10
  <2>3. CASE j # 1 /\ j - 1 < i
    <3>1. j < i + 1 /\ j - 1 \in 1 .. Len(waiting) - 1
      BY <2>1, <2>3, <1>2
    <3>2. r[j] = waiting[j - 1]
      BY <2>3, <3>1, <1>7, <1>8
    <3>3. x[j] = w[j] /\ w[j] = waiting[j - 1]
      BY <2>1, <2>3, <3>1, <1>6, <1>10
    <3>4. QED
      BY <3>2, <3>3
  <2>4. CASE j # 1 /\ ~(j - 1 < i)
    <3>1. ~(j < i + 1) /\ j - 1 \in 1 .. Len(waiting) - 1 /\ j + 1 \in 1 .. Len(waiting) + 1
      BY <2>1, <2>4, <1>2
    <3>2. r[j] = waiting[j]
      BY <2>4, <3>1, <1>7, <1>8
    <3>3. x[j] = w[j + 1] /\ w[j + 1] = waiting[j]
      BY <2>1, <2>4, <3>1, <1>6, <1>10
    <3>4. QED
      BY <3>2, <3>3
  <2>5. QED
    BY <2>2, <2>3, <2>4
<1>12. r = x
  BY <1>8, <1>10, <1>11, SeqEqual
<1>13. i + 1 \in DOMAIN w
  BY <1>6, <1>9
<1>14. Line' = r /\ Line = w
  BY <1>4 DEF r, w
<1>15. QED
  BY <1>12, <1>13, <1>14 DEF x

\* The queue's copy of the community operators.
LEMMA SameOperators ==
  /\ \A s, i : Lines!RemoveAt(s, i) = RemoveAt(s, i)
  /\ \A s : Lines!Range(s) = Range(s)
BY Zenon DEF Lines!RemoveAt, RemoveAt, Lines!Range, Range

\* Whoever holds the mutex is given its result, for the first n bytes.
LEMMA HolderIsGiven ==
  ASSUME InputOK, holder # Free, NEW result, NEW n, Returns(result),
         Stream' = SubSeq(Stream, n + 1, Len(Stream)), UNCHANGED ended
  PROVE  Lines!Gives(result, n)
<1>1. Line # << >> /\ Head(Line) = holder /\ Line' = Tail(Line)
  BY UnlockServes DEF Returns
<1>2. given' = [user |-> holder, result |-> result]
  BY DEF Returns
<1>3. QED
  BY <1>1, <1>2, Zenon DEF Lines!Gives, Line, Stream

\* The stream, byte by byte.
LEMMA StreamIs ==
  ASSUME InputOK
  PROVE  /\ Stream \in Seq(Lines!Bytes) /\ Len(Stream) = Len(partial) + Len(buffered)
         /\ Len(partial) \in Nat /\ Len(buffered) \in Nat
         /\ \A i \in 1 .. Len(partial) : Stream[i] = partial[i]
         /\ \A i \in 1 .. Len(buffered) : Stream[Len(partial) + i] = buffered[i]
<1>1. partial \in Seq(Lines!Bytes) /\ buffered \in Seq(Lines!Bytes)
  BY DEF InputOK
<1>2. /\ Stream \in Seq(Lines!Bytes) /\ Len(Stream) = Len(partial) + Len(buffered)
      /\ \A i \in 1 .. Len(partial) + Len(buffered) : Stream[i] =
           IF i <= Len(partial) THEN partial[i] ELSE buffered[i - Len(partial)]
  BY <1>1, ConcatProperties DEF Stream
<1>3. Len(partial) \in Nat /\ Len(buffered) \in Nat
  BY <1>1
<1>4. ASSUME NEW i \in 1 .. Len(buffered)
      PROVE  Stream[Len(partial) + i] = buffered[i]
  <2>1. /\ Len(partial) + i \in 1 .. Len(partial) + Len(buffered)
        /\ ~(Len(partial) + i <= Len(partial)) /\ Len(partial) + i - Len(partial) = i
    BY <1>3
  <2>2. QED
    BY <1>2, <2>1
<1>5. QED
  BY <1>2, <1>3, <1>4

\* A byte moves from the reader to the line in progress: nothing changes.
LEMMA TakeByteStutters ==
  ASSUME InputOK, TakeByte
  PROVE  UNCHANGED <<Stream, ended, Line, given>>
<1>1. /\ partial' = Append(partial, Head(buffered)) /\ buffered' = Tail(buffered)
      /\ UNCHANGED <<ended, holder, waiting, given>> /\ buffered # << >>
  BY DEF TakeByte
<1>2. partial \in Seq(Lines!Bytes) /\ buffered \in Seq(Lines!Bytes)
  BY DEF InputOK
<1>3. Append(partial, Head(buffered)) \o Tail(buffered) = partial \o buffered
  BY <1>1, <1>2
<1>4. QED
  BY <1>1, <1>3 DEF Stream, Line

LEMMA TakeLineGives ==
  ASSUME InputOK, InputInv, TakeLine
  PROVE  Lines!GiveLine
<1> DEFINE n == Len(partial) + 1
<1>1. /\ holder # Free /\ buffered # << >> /\ Head(buffered) = LF
      /\ Returns(Lines!LineOf(Append(partial, LF)))
      /\ partial' = << >> /\ buffered' = Tail(buffered) /\ UNCHANGED ended
  BY DEF TakeLine
<1>2. partial \in Seq(Lines!Bytes) /\ buffered \in Seq(Lines!Bytes)
  BY DEF InputOK
<1>3. /\ Stream \in Seq(Lines!Bytes) /\ n \in 1 .. Len(Stream)
      /\ Stream[n] = LF /\ \A i \in 1 .. n - 1 : Stream[i] # LF
  <2>1. Len(buffered) >= 1 /\ buffered[1] = LF
    BY <1>1, <1>2
  <2>2. QED
    BY <2>1, StreamIs DEF InputInv
<1>4. SubSeq(Stream, 1, n) = Append(partial, LF)
  <2>1. partial \o buffered = Append(partial, LF) \o Tail(buffered)
    BY <1>1, <1>2
  <2>2. SubSeq(Append(partial, LF) \o Tail(buffered), 1, n) = Append(partial, LF)
    BY <1>1, <1>2
  <2>3. QED
    BY <2>1, <2>2 DEF Stream
<1>5. SubSeq(Stream, n + 1, Len(Stream)) = Tail(buffered)
  <2>1. Len(partial) \in Nat /\ Len(buffered) \in Nat /\ Len(Stream) = Len(partial) + Len(buffered)
    BY StreamIs
  <2>2. /\ SubSeq(Stream, n + 1, Len(Stream)) \in Seq(Lines!Bytes)
        /\ Len(SubSeq(Stream, n + 1, Len(Stream))) = Len(buffered) - 1
        /\ \A i \in 1 .. Len(buffered) - 1 :
             SubSeq(Stream, n + 1, Len(Stream))[i] = Stream[n + i]
    <3> DEFINE k == n + 1
               s == Stream
    <3>1. k \in 1 .. Len(s) + 1 /\ Len(s) - k + 1 = Len(buffered) - 1
      BY <1>3, <2>1
    <3>2. \A i \in Nat : k + i - 1 = n + i
      BY <1>3
    <3>3. s \in Seq(Lines!Bytes) /\ Len(s) \in Nat
      BY <1>3, <2>1
    <3> HIDE DEF n, k, s
    <3>4. /\ SubSeq(s, k, Len(s)) \in Seq(Lines!Bytes)
          /\ Len(SubSeq(s, k, Len(s))) = Len(s) - k + 1
          /\ \A i \in 1 .. Len(s) - k + 1 : SubSeq(s, k, Len(s))[i] = s[k + i - 1]
      <4>1. k \in Nat /\ k <= Len(s) + 1
        BY <3>1, <3>3
      <4>2. CASE k <= Len(s)
        BY <3>1, <3>3, <4>1, <4>2, SubSeqProperties
      <4>3. CASE k = Len(s) + 1
        BY <3>1, <3>3, <4>1, <4>3, SubSeqProperties
      <4>4. QED
        BY <3>3, <4>1, <4>2, <4>3
    <3>5. \A i \in 1 .. Len(buffered) - 1 : SubSeq(s, k, Len(s))[i] = s[n + i]
      <4> TAKE i \in 1 .. Len(buffered) - 1
      <4>1. SubSeq(s, k, Len(s))[i] = s[k + i - 1]
        BY <3>1, <3>4
      <4>2. k + i - 1 = n + i
        BY <2>1, <3>2
      <4>3. QED
        BY <4>1, <4>2
    <3>6. /\ SubSeq(s, k, Len(s)) \in Seq(Lines!Bytes)
          /\ Len(SubSeq(s, k, Len(s))) = Len(buffered) - 1
      BY <3>1, <3>4
    <3>7. QED
      BY <3>5, <3>6, Zenon DEF s, k
  <2>3. /\ Tail(buffered) \in Seq(Lines!Bytes) /\ Len(Tail(buffered)) = Len(buffered) - 1
        /\ \A i \in 1 .. Len(buffered) - 1 : Tail(buffered)[i] = buffered[i + 1]
    BY <1>1, <1>2, HeadTailProperties
  <2>4. \A i \in 1 .. Len(buffered) - 1 : Stream[n + i] = buffered[i + 1]
    <3> TAKE i \in 1 .. Len(buffered) - 1
    <3>1. n + i = Len(partial) + (i + 1) /\ i + 1 \in 1 .. Len(buffered)
      BY <2>1
    <3>2. QED
      BY <3>1, StreamIs
  <2>5. QED
    BY <2>1, <2>2, <2>3, <2>4, SeqEqual
<1>6. Stream' = Tail(buffered)
  <2>1. << >> \o Tail(buffered) = Tail(buffered)
    BY <1>1, <1>2
  <2>2. QED
    BY <1>1, <2>1 DEF Stream
<1> HIDE DEF n
<1>7. Lines!Gives(Lines!LineOf(SubSeq(Stream, 1, n)), n)
  BY <1>1, <1>4, <1>5, <1>6, HolderIsGiven
<1>8. QED
  BY <1>3, <1>7 DEF Lines!GiveLine, Stream, LF

LEMMA MeetEndGives ==
  ASSUME InputOK, InputInv, MeetEnd
  PROVE  Lines!GiveLine \/ Lines!GiveClosed
<1>1. /\ holder # Free /\ buffered = << >> /\ ended
      /\ Returns(IF partial = << >> THEN Lines!Closed ELSE Lines!LineOf(partial))
      /\ partial' = << >> /\ buffered' = << >> /\ UNCHANGED ended
  BY DEF MeetEnd
<1>2. partial \in Seq(Lines!Bytes) /\ partial \o << >> = partial
  BY DEF InputOK
<1>3. Stream = partial /\ Stream' = << >>
  BY <1>1, <1>2 DEF Stream
<1>4. CASE partial = << >>
  <2>1. SubSeq(Stream, 1, Len(Stream)) = << >>
    BY <1>3, <1>4
  <2>2. Returns(Lines!Closed)
    BY <1>1, <1>4
  <2>3. Lines!Gives(Lines!Closed, 0)
    <3>1. 0 + 1 = 1
      OBVIOUS
    <3>2. Stream' = SubSeq(Stream, 0 + 1, Len(Stream))
      BY <1>3, <2>1, <3>1
    <3>3. QED
      BY <1>1, <2>2, <3>2, HolderIsGiven
  <2>4. QED
    BY <1>1, <1>3, <1>4, <2>3, Zenon DEF Lines!GiveClosed, Stream
<1>5. CASE partial # << >>
  <2> DEFINE n == Len(partial)
  <2>1. n \in 1 .. Len(Stream) /\ SubSeq(Stream, 1, n) = partial
    BY <1>2, <1>3, <1>5
  <2>2. SubSeq(Stream, n + 1, Len(Stream)) = << >>
    BY <1>2, <1>3
  <2>3. \A i \in 1 .. n - 1 : Stream[i] # LF
    BY <1>2, <1>3 DEF InputInv
  <2>4. ended /\ n = Len(Stream)
    BY <1>1, <1>3
  <2> HIDE DEF n
  <2>5. Lines!Gives(Lines!LineOf(SubSeq(Stream, 1, n)), n)
    BY <1>1, <1>3, <1>5, <2>1, <2>2, HolderIsGiven
  <2>6. QED
    BY <2>1, <2>3, <2>4, <2>5 DEF Lines!GiveLine, Stream, LF
<1>6. QED
  BY <1>4, <1>5

LEMMA MeetErrorGives ==
  ASSUME InputOK, InputInv, MeetError
  PROVE  Lines!GiveFailed
<1>1. /\ holder # Free /\ buffered = << >> /\ Returns(Lines!Failed)
      /\ partial' = << >> /\ buffered' = << >> /\ UNCHANGED ended
  BY DEF MeetError
<1>2. partial \in Seq(Lines!Bytes) /\ partial \o << >> = partial
  BY DEF InputOK
<1>3. Stream = partial /\ Stream' = << >>
  BY <1>1, <1>2 DEF Stream
<1> DEFINE n == Len(partial)
<1>4. n \in 0 .. Len(Stream) /\ SubSeq(Stream, n + 1, Len(Stream)) = << >>
  BY <1>2, <1>3
<1>5. \A i \in 1 .. n : Stream[i] # LF
  BY <1>3 DEF InputInv
<1> HIDE DEF n
<1>6. Lines!Gives(Lines!Failed, n)
  BY <1>1, <1>3, <1>4, HolderIsGiven
<1>7. QED
  BY <1>4, <1>5, <1>6 DEF Lines!GiveFailed, Stream, LF

LEMMA ReadAsks ==
  ASSUME InputOK, InputInv, NEW u \in Users, ReadLine(u)
  PROVE  Lines!Ask
<1>1. /\ ~Reading(u) /\ UNCHANGED <<buffered, ended, partial, given>>
      /\ IF holder = Free THEN holder' = u /\ UNCHANGED waiting
                          ELSE waiting' = Append(waiting, u) /\ UNCHANGED holder
  BY DEF ReadLine, AtRest
<1>2. waiting \in Seq(Users) /\ u # Free /\ holder \in Users \cup {Free}
  BY ConsoleAssumption DEF InputOK, ConsoleAssumption, Free
<1>3. UNCHANGED Stream
  BY <1>1 DEF Stream
<1>4. u \notin Range(Line) /\ Line' = Append(Line, u)
  <2>1. CASE holder = Free
    <3>1. Line = << >> /\ Line' = <<u>> \o << >>
      BY <1>1, <1>2, <2>1 DEF Line, InputInv
    <3>2. QED
      BY <3>1 DEF Range
  <2>2. CASE holder # Free
    <3>1. Line = <<holder>> \o waiting /\ Line' = <<holder>> \o Append(waiting, u)
      BY <1>1, <2>2 DEF Line
    <3>2. <<holder>> \o Append(waiting, u) = Append(<<holder>> \o waiting, u)
      BY <1>2
    <3>3. u \notin Range(<<holder>> \o waiting)
      <4>1. holder \in Users /\ <<holder>> \in Seq(Users)
        BY <1>2, <2>2
      <4>2. /\ Len(<<holder>> \o waiting) = 1 + Len(waiting)
            /\ <<holder>> \o waiting \in Seq(Users)
            /\ \A i \in 1 .. 1 + Len(waiting) : (<<holder>> \o waiting)[i] =
                 IF i <= 1 THEN <<holder>>[i] ELSE waiting[i - 1]
        BY <1>2, <4>1, ConcatProperties
      <4>3. ASSUME NEW i \in 1 .. 1 + Len(waiting)
            PROVE  (<<holder>> \o waiting)[i] # u
        <5>1. CASE i = 1
          BY <1>1, <4>2, <5>1 DEF Reading
        <5>2. CASE i # 1
          <6>1. i - 1 \in DOMAIN waiting /\ ~(i <= 1)
            BY <1>2, <5>2
          <6>2. waiting[i - 1] # u
            BY <1>1, <6>1 DEF Reading, Range
          <6>3. QED
            BY <4>2, <6>1, <6>2
        <5>3. QED
          BY <5>1, <5>2
      <4>4. QED
        BY <4>2, <4>3 DEF Range
    <3>4. QED
      BY <3>1, <3>2, <3>3
  <2>3. QED
    BY <2>1, <2>2
<1>5. QED
  BY <1>1, <1>3, <1>4, SameOperators, Zenon DEF Lines!Ask, Stream, Line

LEMMA DropLeaves ==
  ASSUME InputOK, InputInv, NEW u \in Users, DropRead(u)
  PROVE  Lines!Leave
<1>1. UNCHANGED <<buffered, ended, partial, given>> /\ UNCHANGED Stream
  BY DEF DropRead, Stream
<1>2. \E i \in DOMAIN Line : Line' = RemoveAt(Line, i)
  <2>1. CASE u = holder /\ Unlock
    <3>1. holder # Free /\ holder \in Users /\ waiting \in Seq(Users)
      BY <2>1, ConsoleAssumption DEF InputOK, ConsoleAssumption, Free
    <3>2. Line # << >> /\ Line' = Tail(Line)
      BY <2>1, <3>1, UnlockServes
    <3>3. Line \in Seq(Users)
      BY <3>1, ConcatProperties DEF Line
    <3>4. 1 \in DOMAIN Line /\ 1 \in 1 .. Len(Line)
      BY <3>2, <3>3
    <3>5. Tail(Line) = RemoveAt(Line, 1)
      <4>1. /\ RemoveAt(Line, 1) \in Seq(Users) /\ Len(RemoveAt(Line, 1)) = Len(Line) - 1
            /\ \A j \in 1 .. Len(Line) - 1 :
                 RemoveAt(Line, 1)[j] = IF j < 1 THEN Line[j] ELSE Line[j + 1]
        BY <3>3, <3>4, RemoveAtIs
      <4>2. /\ Tail(Line) \in Seq(Users) /\ Len(Tail(Line)) = Len(Line) - 1
            /\ \A j \in 1 .. Len(Line) - 1 : Tail(Line)[j] = Line[j + 1]
        BY <3>2, <3>3, HeadTailProperties
      <4>3. \A j \in 1 .. Len(Line) - 1 : ~(j < 1)
        OBVIOUS
      <4>4. QED
        BY <4>1, <4>2, <4>3, SeqEqual
    <3>6. QED
      BY <3>2, <3>4, <3>5
  <2>2. CASE LeaveLine(u)
    BY <2>2, LeaveLeaves
  <2>3. QED
    BY <2>1, <2>2 DEF DropRead
<1>3. QED
  BY <1>1, <1>2, SameOperators, Zenon DEF Lines!Leave, Stream, Line

\* Every step of the console is a step of the line queue, or none.
LEMMA StepServes ==
  ASSUME InputOK, InputInv, [Next]_vars
  PROVE  [Lines!Next]_(Lines!vars)
<1> DEFINE Same == UNCHANGED <<Stream, ended, Line, given>>
<1>0. Same => UNCHANGED Lines!vars
  BY DEF Lines!vars, Stream, Line
<1>1. UNCHANGED input => Same
  BY DEF input, Stream, Line
<1>2. CASE Arrive
  <2>1. PICK b \in Lines!Bytes : buffered' = Append(buffered, b)
    BY <1>2 DEF Arrive
  <2>2. partial \o Append(buffered, b) = Append(partial \o buffered, b)
    BY DEF InputOK
  <2>3. ~ended /\ UNCHANGED <<partial, ended, holder, waiting, given>>
    BY <1>2 DEF Arrive
  <2>4. Lines!Arrive
    BY <2>1, <2>2, <2>3, Zenon DEF Lines!Arrive
  <2>5. QED
    BY <2>4 DEF Lines!Next
<1>3. CASE EndInput
  <2>1. Lines!End
    BY <1>3 DEF EndInput, Lines!End
  <2>2. QED
    BY <2>1 DEF Lines!Next
<1>4. CASE TakeByte
  BY <1>0, <1>4, TakeByteStutters
<1>5. CASE TakeLine
  BY <1>5, TakeLineGives DEF Lines!Next
<1>6. CASE MeetEnd
  BY <1>6, MeetEndGives DEF Lines!Next
<1>7. CASE MeetError
  BY <1>7, MeetErrorGives DEF Lines!Next
<1>8. ASSUME NEW u \in Users, ReadLine(u) PROVE Lines!Next
  BY <1>8, ReadAsks DEF Lines!Next
<1>9. ASSUME NEW u \in Users, DropRead(u) PROVE Lines!Next
  BY <1>9, DropLeaves DEF Lines!Next
<1>10. ASSUME NEW u \in Users,
             \/ WriteLine(u) \/ WriteText(u) \/ WriteEnd(u) \/ LetGo(u) \/ IntoParts(u)
             \/ \E v \in Users : Share(u, v)
      PROVE  UNCHANGED input
  BY <1>10 DEF WriteLine, WriteText, WriteEnd, LetGo, IntoParts, Share
<1>11. UNCHANGED vars => UNCHANGED input
  BY DEF vars
<1> HIDE DEF Same
<1>12. QED
  BY <1>0, <1>1, <1>2, <1>3, <1>4, <1>5, <1>6, <1>7, <1>8, <1>9, <1>10, <1>11
  DEF Next, Read

\* The console implements the line queue: whole lines, in the order asked,
\* whoever gives up a read on the way (TokioInput, "drop-safe").
THEOREM ReadersAreServedInOrder == Spec => ReadersShareALineQueue
<1>1. Init => Lines!Init
  <2>1. << >> \o << >> = << >>
    OBVIOUS
  <2>2. QED
    BY <2>1 DEF Init, Lines!Init
<1>2. InputOK /\ InputInv /\ [Next]_vars => [Lines!Next]_(Lines!vars)
  BY StepServes
<1>3. TypeOK => InputOK
  BY TypeParts
<1>4. QED
  BY <1>1, <1>2, <1>3, TypeCorrect, InputInvHolds, PTL
  DEF Spec, ReadersShareALineQueue, Lines!Spec

=============================================================================
