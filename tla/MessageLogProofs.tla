-------------------------- MODULE MessageLogProofs --------------------------
(***************************************************************************)
(* For every limit, policy and payload size, with or without write errors: *)
(* the byte limit of the message log holds, what the writer refused as     *)
(* full or broken stays the end of the log, the log is what the writer's   *)
(* answers say, and a reader returns exactly the whole messages before the *)
(* first place it has to complain of.                                      *)
(***************************************************************************)
EXTENDS MessageLog, FiniteSetTheorems, SequenceTheorems, TLAPS

Writers == [open : BOOLEAN, bad : BOOLEAN, limited : BOOLEAN, bytes : Nat,
            frames : Nat, max : Nat, policy : Policies]

Appended == [size : PayloadSizes, answer : Answers, at : Nat]

LogType ==
  /\ writer \in Writers
  /\ buffer \in Seq(Units) /\ file \in Seq(Units)
  /\ appends \in Seq(Appended)

Kept == Len(file) + Len(buffer)
Allowed == IF writer.max < 2 THEN 2 ELSE writer.max

\* While nothing has failed the counter is what is kept; once a write has failed
\* the counter misses the failed frame, which the limit had allowed.
KeptInv ==
  /\ writer.open /\ ~writer.bad => Kept = writer.bytes
  /\ writer.bytes # 0 /\ writer.max # 0 => Kept <= Allowed

RefusedInv ==
  writer.open =>
    \A i \in 1 .. Len(appends) :
      /\ appends[i].answer \in {"StoppedByLimit", "RotateNotImplemented"} => writer.limited
      /\ appends[i].answer = "IoError" => writer.bad

LogInv == LogType /\ KeptInv /\ RefusedInv /\ RefusalsAreFinal

-----------------------------------------------------------------------------
\* What the operations assign to the writer's fields keeps its type.
LEMMA WriterUpdates ==
  ASSUME NEW w \in Writers, NEW b \in BOOLEAN, NEW n \in Nat
  PROVE  /\ [w EXCEPT !.open = b] \in Writers
         /\ [w EXCEPT !.bad = b] \in Writers
         /\ [w EXCEPT !.limited = b] \in Writers
         /\ [w EXCEPT !.bytes = n, !.frames = @ + 1] \in Writers
         /\ [w EXCEPT !.open = b, !.bad = TRUE] \in Writers
<1>1. [w EXCEPT !.open = b] \in Writers
  BY SMT DEF Writers
<1>2. \A v \in Writers, c \in BOOLEAN : [v EXCEPT !.bad = c] \in Writers
  BY SMT DEF Writers
<1>3. [w EXCEPT !.limited = b] \in Writers
  BY SMT DEF Writers
<1>4. [w EXCEPT !.bytes = n] \in Writers
  BY SMT DEF Writers
<1>5. \A v \in Writers : [v EXCEPT !.frames = @ + 1] \in Writers
  BY SMT DEF Writers
<1>6. /\ [[w EXCEPT !.bytes = n] EXCEPT !.frames = @ + 1] \in Writers
      /\ [[w EXCEPT !.open = b] EXCEPT !.bad = TRUE] \in Writers
  BY <1>1, <1>2, <1>4, <1>5, Zenon
<1> QED BY <1>1, <1>2, <1>3, <1>6

\* The units written for a file header and for a message.
LEMMA HeaderType == FileHeader \in Seq(Units) /\ Len(FileHeader) = 2
<1>1. 0 \in 0 .. MaxMessages
  BY LogAssumption, SMT
<1>2. \A i \in 1 .. 2 : Unit("file", i, 0, 0) \in Units
  BY <1>1, SMT DEF Unit, Units
<1> QED BY <1>2, SMT DEF FileHeader

\* A frame is made of units, and as long as the counter is told.
LEMMA FrameType ==
  ASSUME NEW m \in 1 .. MaxMessages, NEW n \in PayloadSizes
  PROVE  Frame(m, n) \in Seq(Units) /\ Len(Frame(m, n)) = FrameBytes(n)
<1> DEFINE head == [i \in 1 .. 2 |-> Unit("header", i, m, n)]
           body == [i \in 1 .. n |-> Unit("payload", i, m, n)]
<1>1. n \in Nat /\ MaxMessages \in Nat
  BY LogAssumption
<1>2. head \in Seq(Units) /\ Len(head) = 2
  <2>1. \A i \in 1 .. 2 : Unit("header", i, m, n) \in Units
    BY <1>1, SMT DEF Unit, Units
  <2> QED BY <2>1, SMT
<1>3. body \in Seq(Units) /\ Len(body) = n
  <2>1. \A i \in 1 .. n : Unit("payload", i, m, n) \in Units
    BY <1>1, SMT DEF Unit, Units
  <2> QED BY <1>1, <2>1, SMT
<1> HIDE DEF head, body
<1>4. head \o body \in Seq(Units) /\ Len(head \o body) = Len(head) + Len(body)
  BY <1>2, <1>3, ConcatProperties
<1> QED BY <1>2, <1>3, <1>4 DEF head, body, Frame, FrameBytes

\* The stream keeps what it was given, except at an error.
LEMMA StreamKeeps ==
  ASSUME LogType, writer'.bad \in BOOLEAN, writer.bad => writer'.bad,
         NEW units \in Seq(Units), Stream(units)
  PROVE  /\ buffer' \in Seq(Units) /\ file' \in Seq(Units)
         /\ ~writer'.bad => Kept' = Kept + Len(units)
         /\ Kept' <= Kept + Len(units)
<1>1. CASE writer.bad
  BY <1>1, LenProperties, SMT DEF Stream, Kept, LogType
<1>2. CASE ~writer.bad
  <2> DEFINE held == buffer \o units
  <2>1. held \in Seq(Units) /\ Len(held) = Len(buffer) + Len(units)
    BY ConcatProperties DEF LogType
  <2>2. PICK k \in 0 .. Len(held) :
          /\ file' = file \o SubSeq(held, 1, k)
          /\ \/ ~writer'.bad /\ buffer' = SubSeq(held, k + 1, Len(held))
             \/ writer'.bad /\ k < Len(held) /\ buffer' = <<>>
    BY <1>2, Zenon DEF Stream
  <2> HIDE DEF held
  <2>3. Len(held) \in Nat /\ \A i \in 1 .. Len(held) : held[i] \in Units
    BY <2>1, LenProperties, ElementOfSeq
  <2>4. /\ SubSeq(held, 1, k) \in Seq(Units) /\ Len(SubSeq(held, 1, k)) = k
        /\ SubSeq(held, k + 1, Len(held)) \in Seq(Units)
        /\ Len(SubSeq(held, k + 1, Len(held))) = Len(held) - k
    BY <2>3, SMT
  <2>5. file' \in Seq(Units) /\ Len(file') = Len(file) + k
    BY <2>2, <2>4, ConcatProperties DEF LogType
  <2>6. /\ buffer' \in Seq(Units)
        /\ \/ ~writer'.bad /\ Len(buffer') = Len(held) - k
           \/ writer'.bad /\ Len(buffer') = 0
    BY <2>2, <2>4, EmptySeq
  <2>7. Len(buffer) \in Nat /\ Len(units) \in Nat /\ Len(file) \in Nat
    BY LenProperties DEF LogType
  <2>8. /\ ~writer'.bad => Kept' = Kept + Len(units)
        /\ Kept' <= Kept + Len(units)
    <3>1. CASE Len(buffer') = Len(held) - k
      BY <2>1, <2>5, <2>7, <3>1, SMT DEF Kept
    <3>2. CASE writer'.bad /\ Len(buffer') = 0
      BY <2>1, <2>5, <2>7, <3>2, SMT DEF Kept
    <3> QED BY <2>6, <3>1, <3>2
  <2> QED BY <2>5, <2>6, <2>8
<1> QED BY <1>1, <1>2

-----------------------------------------------------------------------------
\* The invariant holds before the first call.
LEMMA LogInitInv == Init => LogInv
<1> SUFFICES ASSUME Init PROVE LogInv OBVIOUS
<1>1. LogType
  BY SMT DEF Init, LogType, Writers, Policies
<1>2. KeptInv /\ RefusedInv
  BY SMT DEF Init, KeptInv, RefusedInv
<1>3. RefusalsAreFinal
  BY SMT DEF Init, RefusalsAreFinal
<1> QED BY <1>1, <1>2, <1>3 DEF LogInv

\* A file that is opened anew holds no more than its header.
LEMMA OpenStep ==
  ASSUME LogInv, NEW max \in Limits, NEW policy \in Policies, Open(max, policy)
  PROVE  LogInv'
<1>1. max \in Nat
  BY LogAssumption
<1>2. CASE /\ writer' = NewWriter(TRUE, 2, max, policy)
           /\ \E k \in 0 .. 2 : file' = SubSeq(FileHeader, 1, k)
                             /\ buffer' = SubSeq(FileHeader, k + 1, 2)
           /\ appends' = <<>>
  <2>1. PICK k \in 0 .. 2 : file' = SubSeq(FileHeader, 1, k)
                         /\ buffer' = SubSeq(FileHeader, k + 1, 2)
    BY <1>2
  <2>2. /\ file' \in Seq(Units) /\ buffer' \in Seq(Units)
        /\ Len(file') = k /\ Len(buffer') = 2 - k
    BY <2>1, HeaderType, SMT
  <2>3. /\ writer' \in Writers /\ writer'.bytes = 2 /\ writer'.max = max
        /\ writer'.open /\ ~writer'.bad
    <3>1. writer' \in Writers
      BY <1>1, <1>2, SMT DEF NewWriter, Writers
    <3> QED BY <1>2, <3>1, Zenon DEF NewWriter
  <2>4. LogType'
    BY <1>2, <2>2, <2>3, EmptySeq DEF LogType
  <2>5. KeptInv'
    BY <1>1, <2>2, <2>3, SMT DEF KeptInv, Kept, Allowed
  <2> QED BY <1>2, <2>4, <2>5, SMT DEF LogInv, RefusedInv, RefusalsAreFinal
<1>3. CASE /\ writer' = NewWriter(FALSE, 0, max, policy)
           /\ \/ UNCHANGED <<file, appends>>
              \/ file' \in {<<>>, SubSeq(FileHeader, 1, 1)} /\ appends' = <<>>
           /\ UNCHANGED buffer
  <2>1. /\ writer' \in Writers /\ writer'.bytes = 0 /\ ~writer'.open
    <3>1. writer' \in Writers
      BY <1>1, <1>3, SMT DEF NewWriter, Writers
    <3> QED BY <1>3, <3>1, Zenon DEF NewWriter
  <2>2. <<>> \in Seq(Units) /\ SubSeq(FileHeader, 1, 1) \in Seq(Units)
    <3>1. \A i \in 1 .. 1 : FileHeader[i] \in Units
      BY HeaderType, ElementOfSeq
    <3> QED BY <3>1, EmptySeq, SubSeqProperties
  <2>3. file' \in Seq(Units) /\ buffer' \in Seq(Units)
    BY <1>3, <2>2 DEF LogInv, LogType
  <2>4. appends' = appends \/ appends' = <<>>
    BY <1>3
  <2>5. LogType'
    BY <2>1, <2>3, <2>4, EmptySeq DEF LogInv, LogType
  <2>6. RefusalsAreFinal'
    <3>1. CASE appends' = appends
      BY <3>1 DEF LogInv, RefusalsAreFinal
    <3>2. CASE appends' = <<>>
      BY <3>2, SMT DEF RefusalsAreFinal
    <3> QED BY <2>4, <3>1, <3>2
  <2> QED BY <2>1, <2>5, <2>6 DEF LogInv, KeptInv, RefusedInv
<1> QED BY <1>2, <1>3 DEF Open

\* One more answer in the history: the old ones do not change.
LEMMA OneMoreAnswer ==
  ASSUME LogInv, writer.open, writer'.open, NEW n \in PayloadSizes, NEW answer \in Answers,
         Answered(n, answer),
         writer.limited => writer'.limited, writer.bad => writer'.bad,
         answer \in {"StoppedByLimit", "RotateNotImplemented"} => writer'.limited,
         answer = "IoError" => writer'.bad,
         answer = "Written" => ~writer.limited /\ ~writer.bad
  PROVE  /\ appends' \in Seq(Appended)
         /\ RefusedInv' /\ RefusalsAreFinal'
<1> DEFINE added == [size |-> n, answer |-> answer, at |-> writer.bytes]
<1>1. /\ appends \in Seq(Appended)
      /\ added \in Appended /\ added.answer = answer
      /\ appends' = Append(appends, added)
  <2>1. writer.bytes \in Nat
    BY SMT DEF LogInv, LogType, Writers
  <2> QED BY <2>1 DEF LogInv, LogType, Appended, Answered
<1> HIDE DEF added
<1>2. /\ appends' \in Seq(Appended)
      /\ Len(appends') = Len(appends) + 1
      /\ appends'[Len(appends) + 1] = added
      /\ \A i \in 1 .. Len(appends) : appends'[i] = appends[i]
      /\ Len(appends) \in Nat /\ DOMAIN appends' = 1 .. Len(appends')
      /\ DOMAIN appends = 1 .. Len(appends)
  BY <1>1, SMT
<1>3. ASSUME NEW i \in 1 .. Len(appends) + 1
      PROVE  i \in 1 .. Len(appends) \/ (i = Len(appends) + 1 /\ appends'[i].answer = answer)
  BY <1>1, <1>2, <1>3, SMT
<1>4. RefusedInv'
  BY <1>2, <1>3 DEF LogInv, RefusedInv
<1>5. RefusalsAreFinal'
  <2> SUFFICES ASSUME NEW i \in 1 .. Len(appends'), NEW j \in 1 .. Len(appends'), i < j,
                      appends'[i].answer \in {"StoppedByLimit", "RotateNotImplemented", "IoError"}
               PROVE  appends'[j].answer # "Written"
    BY <1>2 DEF RefusalsAreFinal
  <2>1. i \in 1 .. Len(appends)
    BY <1>2, SMT
  <2>2. CASE j \in 1 .. Len(appends)
    BY <1>2, <2>1, <2>2 DEF LogInv, RefusalsAreFinal
  <2>3. CASE appends'[j].answer = answer
    BY <1>2, <2>1, <2>3 DEF LogInv, RefusedInv
  <2> QED BY <1>2, <1>3, <2>2, <2>3
<1> QED BY <1>2, <1>4, <1>5

\* append(), refused or recorded.
LEMMA AppendStep ==
  ASSUME LogInv, NEW n \in PayloadSizes, AppendMessage(n)
  PROVE  LogInv'
<1>1. writer \in Writers /\ writer.open /\ Len(appends) \in Nat /\ n \in Nat
  BY LenProperties, LogAssumption DEF LogInv, LogType, AppendMessage
<1>2. ASSUME NEW answer \in Answers \ {"Written", "IoError"}, NEW limited \in BOOLEAN,
             Refuse(answer, n, limited), writer.limited => limited,
             answer \in {"StoppedByLimit", "RotateNotImplemented"} => limited
      PROVE  LogInv'
  <2>1. /\ writer' \in Writers /\ writer'.open /\ writer'.limited = limited
        /\ writer'.bad = writer.bad /\ writer'.bytes = writer.bytes
        /\ writer'.max = writer.max
    BY <1>1, <1>2, SMT DEF Refuse, Writers
  <2>2. /\ appends' \in Seq(Appended)
        /\ RefusedInv' /\ RefusalsAreFinal'
    BY <1>1, <1>2, <2>1, OneMoreAnswer DEF Refuse
  <2>3. KeptInv' /\ LogType'
    BY <1>2, <2>1, <2>2 DEF Refuse, LogInv, LogType, KeptInv, Kept, Allowed
  <2> QED BY <2>2, <2>3 DEF LogInv
<1>3. ASSUME ~writer.limited, ~WouldExceed(FrameBytes(n)), Record(n)
      PROVE  LogInv'
  <2>1. PICK bad \in BOOLEAN :
          /\ writer' = IF bad THEN [writer EXCEPT !.bad = TRUE]
                       ELSE [writer EXCEPT !.bytes = @ + FrameBytes(n), !.frames = @ + 1]
          /\ bad \/ ~writer.bad
          /\ Stream(Frame(Len(appends) + 1, n))
          /\ Answered(n, IF bad THEN "IoError" ELSE "Written")
    BY <1>3, Zenon DEF Record
  <2>2. FrameBytes(n) = 2 + n
    BY DEF FrameBytes
  <2>3. /\ writer' \in Writers /\ writer'.open /\ writer'.limited = writer.limited
        /\ writer'.bad = bad /\ writer'.max = writer.max
        /\ writer'.bytes = IF bad THEN writer.bytes ELSE writer.bytes + 2 + n
    <3>1. CASE bad
      <4>1. writer' = [writer EXCEPT !.bad = TRUE]
        BY <2>1, <3>1
      <4>2. writer' \in Writers
        BY <1>1, <4>1, WriterUpdates
      <4> QED BY <1>1, <3>1, <4>1, <4>2, Zenon DEF Writers
    <3>2. CASE ~bad
      <4>1. writer' = [writer EXCEPT !.bytes = @ + FrameBytes(n), !.frames = @ + 1]
        BY <2>1, <3>2
      <4>2. writer' \in Writers /\ writer'.bytes = writer.bytes + 2 + n
        <5>1. writer.bytes \in Nat
          BY <1>1, SMT DEF Writers
        <5>2. writer.bytes + FrameBytes(n) \in Nat
              /\ writer.bytes + FrameBytes(n) = writer.bytes + 2 + n
          BY <1>1, <2>2, <5>1, SMT
        <5>3. writer' \in Writers
          BY <1>1, <4>1, <5>2, WriterUpdates
        <5> QED BY <1>1, <4>1, <5>2, <5>3, Zenon DEF Writers
      <4>3. ~writer.bad
        BY <2>1, <3>2
      <4> QED BY <1>1, <3>2, <4>1, <4>2, <4>3, Zenon DEF Writers
    <3> QED BY <3>1, <3>2
  <2>4. Len(appends) + 1 \in 1 .. MaxMessages
    BY <1>1, LogAssumption, SMT DEF AppendMessage
  <2>5. /\ buffer' \in Seq(Units) /\ file' \in Seq(Units)
        /\ ~bad => Kept' = Kept + 2 + n
        /\ Kept' <= Kept + 2 + n
    <3>1. /\ Frame(Len(appends) + 1, n) \in Seq(Units)
          /\ Len(Frame(Len(appends) + 1, n)) = 2 + n
      BY <2>2, <2>4, FrameType
    <3>2. Kept \in Nat
      BY LenProperties, SMT DEF LogInv, LogType, Kept
    <3>3. Stream(Frame(Len(appends) + 1, n)) /\ (writer.bad => writer'.bad)
      BY <2>1, <2>3
    <3>4. /\ buffer' \in Seq(Units) /\ file' \in Seq(Units)
          /\ ~bad => Kept' = Kept + (2 + n)
          /\ Kept' <= Kept + (2 + n)
      BY <2>3, <3>1, <3>3, StreamKeeps DEF LogInv
    <3> QED BY <1>1, <3>2, <3>4, SMT
  <2>6. /\ appends' \in Seq(Appended)
        /\ RefusedInv' /\ RefusalsAreFinal'
    <3> DEFINE answer == IF bad THEN "IoError" ELSE "Written"
    <3>1. answer \in Answers /\ (answer = "IoError" <=> bad)
          /\ answer \notin {"StoppedByLimit", "RotateNotImplemented"}
      BY DEF Answers
    <3>2. answer = "Written" => ~writer.limited /\ ~writer.bad
      BY <1>3, <2>1, <3>1
    <3>3. Answered(n, answer)
      BY <2>1
    <3> HIDE DEF answer
    <3>4. writer.bad => writer'.bad
      BY <2>1, <2>3
    <3> QED BY <1>1, <2>3, <3>1, <3>2, <3>3, <3>4, OneMoreAnswer
  <2>7. KeptInv'
    <3>1. /\ Kept \in Nat /\ writer.bytes \in Nat /\ writer.max \in Nat
          /\ Kept' \in Nat
      BY <1>1, <2>5, LenProperties, SMT DEF LogInv, LogType, Kept, Writers
    <3>2. CASE ~writer.bad
      <4>1. Kept = writer.bytes
        BY <1>1, <3>2 DEF LogInv, KeptInv
      <4>2. writer.max # 0 => writer.bytes + 2 + n <= writer.max
        BY <1>1, <1>3, <2>2, <3>1, SMT DEF WouldExceed
      <4> QED BY <1>1, <2>3, <2>5, <3>1, <4>1, <4>2, SMT DEF KeptInv, Allowed
    <3>3. CASE writer.bad
      <4>1. bad /\ Kept' = Kept
        BY <2>1, <2>3, <3>3 DEF Stream, Kept
      <4> QED BY <2>3, <4>1 DEF LogInv, KeptInv, Allowed
    <3> QED BY <3>2, <3>3
  <2> QED BY <2>3, <2>5, <2>6, <2>7 DEF LogInv, LogType
<1>4. writer.policy \in Policies
  BY <1>1 DEF Writers
<1>5. /\ LimitAnswer \in Answers \ {"Written", "IoError"}
      /\ LimitedAfter \in BOOLEAN
      /\ LimitAnswer \in {"StoppedByLimit", "RotateNotImplemented"} => LimitedAfter
  BY <1>4 DEF LimitAnswer, LimitedAfter, Policies, Answers
<1>6. CASE writer.limited /\ Refuse("StoppedByLimit", n, TRUE)
  BY <1>2, <1>6 DEF Answers
<1>7. CASE ~writer.limited /\ n > MaxFrameSize /\ Refuse("PayloadTooLarge", n, FALSE)
  BY <1>2, <1>7 DEF Answers
<1>8. CASE /\ ~writer.limited
           /\ IF WouldExceed(FrameBytes(n)) THEN Refuse(LimitAnswer, n, LimitedAfter)
                                            ELSE Record(n)
  BY <1>2, <1>3, <1>5, <1>8
<1> QED BY <1>6, <1>7, <1>8 DEF AppendMessage

\* flush() and close() move what is kept into the file, or lose some of it.
LEMMA EmptiedStep ==
  ASSUME LogInv, NEW open \in BOOLEAN, writer.open, Emptied(open)
  PROVE  LogInv'
<1>1. /\ writer' \in Writers /\ writer'.open = open /\ writer'.limited = writer.limited
      /\ writer'.bad \in BOOLEAN /\ writer'.max = writer.max /\ writer'.bytes = writer.bytes
      /\ writer.bad => writer'.bad
  <2>1. writer \in Writers /\ (writer' = [writer EXCEPT !.open = open]
                              \/ writer' = [writer EXCEPT !.open = open, !.bad = TRUE])
    BY DEF LogInv, LogType, Emptied
  <2>2. writer' \in Writers
    BY <2>1, WriterUpdates
  <2>3. CASE writer' = [writer EXCEPT !.open = open]
    BY <2>1, <2>2, <2>3, Zenon DEF Writers
  <2>4. CASE writer' = [writer EXCEPT !.open = open, !.bad = TRUE]
    BY <2>1, <2>2, <2>4, Zenon DEF Writers
  <2> QED BY <2>1, <2>3, <2>4
<1>2. <<>> \in Seq(Units) /\ Len(<<>>) = 0
  BY SMT
<1>3. /\ buffer' \in Seq(Units) /\ file' \in Seq(Units)
      /\ ~writer'.bad => Kept' = Kept
      /\ Kept' <= Kept
  <2>1. Kept \in Nat
    BY LenProperties, SMT DEF LogInv, LogType, Kept
  <2>2. Stream(<<>>)
    BY DEF Emptied
  <2>3. /\ buffer' \in Seq(Units) /\ file' \in Seq(Units)
        /\ ~writer'.bad => Kept' = Kept + Len(<<>>)
        /\ Kept' <= Kept + Len(<<>>)
    BY <1>1, <1>2, <2>2, StreamKeeps DEF LogInv
  <2> QED BY <1>2, <2>1, <2>3, SMT
<1>4. LogType'
  BY <1>1, <1>3 DEF LogInv, LogType, Emptied
<1>5. KeptInv'
  <2>1. /\ Kept \in Nat /\ Kept' \in Nat /\ writer.max \in Nat
    BY <1>4, LenProperties, SMT DEF LogInv, LogType, Kept, Writers
  <2> QED BY <1>1, <1>3, <2>1, SMT DEF LogInv, KeptInv, Allowed
<1>6. RefusedInv' /\ RefusalsAreFinal'
  BY <1>1 DEF LogInv, RefusedInv, RefusalsAreFinal, Emptied
<1> QED BY <1>4, <1>5, <1>6 DEF LogInv

\* Steps that write nothing: a crash loses the buffer, readers change nothing.
LEMMA CrashStep == ASSUME LogInv, Crash PROVE LogInv'
<1>1. /\ writer' \in Writers /\ ~writer'.open
      /\ writer'.max = writer.max /\ writer'.bytes = writer.bytes
  <2>1. writer \in Writers /\ writer' = [writer EXCEPT !.open = FALSE]
    BY DEF LogInv, LogType, Crash
  <2>2. writer' \in Writers
    BY <2>1, WriterUpdates
  <2> QED BY <2>1, <2>2, Zenon DEF Writers
<1>2. LogType'
  BY <1>1, SMT DEF LogInv, LogType, Crash
<1>3. KeptInv'
  <2>1. Len(file) \in Nat /\ Len(buffer) \in Nat /\ writer.max \in Nat /\ Len(buffer') = 0
    BY LenProperties, SMT DEF LogInv, LogType, Crash, Writers
  <2> QED BY <1>1, <2>1, SMT DEF LogInv, KeptInv, Kept, Allowed, Crash
<1> QED BY <1>1, <1>2, <1>3 DEF LogInv, RefusedInv, RefusalsAreFinal, Crash

\* Every step keeps the invariant.
LEMMA LogNextInv == LogInv /\ [Next]_vars => LogInv'
<1> SUFFICES ASSUME LogInv, [Next]_vars PROVE LogInv' OBVIOUS
<1>1. CASE \E max \in Limits, policy \in Policies : Open(max, policy)
  BY <1>1, OpenStep
<1>2. CASE \E n \in PayloadSizes : AppendMessage(n)
  BY <1>2, AppendStep
<1>3. CASE Flush \/ Close
  BY <1>3, EmptiedStep DEF Flush, Close
<1>4. CASE Crash
  BY <1>4, CrashStep
<1>5. CASE OpenReader \/ CloseReader \/ ReadNext \/ UNCHANGED vars
  <2>1. UNCHANGED <<writer, buffer, file, appends>>
    BY <1>5, Zenon DEF OpenReader, CloseReader, ReadNext, vars
  <2> QED BY <2>1 DEF LogInv, LogType, KeptInv, Kept, Allowed, RefusedInv, RefusalsAreFinal
<1> QED BY <1>1, <1>2, <1>3, <1>4, <1>5 DEF Next

\* The invariant holds in every reachable state.
THEOREM LogInvariance == Spec => []LogInv
BY LogInitInv, LogNextInv, PTL DEF Spec

\* Disk use never passes the limit, for every limit, policy and payload size.
THEOREM LimitHolds == Spec => []WithinLimit
<1>1. LogInv => WithinLimit
  <2> SUFFICES ASSUME LogInv PROVE WithinLimit OBVIOUS
  <2>1. Len(file \o buffer) = Kept
    BY ConcatProperties DEF LogInv, LogType, Kept
  <2> QED BY <2>1 DEF LogInv, KeptInv, WithinLimit, Allowed
<1> QED BY <1>1, LogInvariance, PTL

\* A log that has answered full or broken is never written to again, however many
\* messages are offered.
THEOREM RefusalsHold == Spec => []RefusalsAreFinal
<1>1. LogInv => RefusalsAreFinal
  BY DEF LogInv
<1> QED BY <1>1, LogInvariance, PTL

-----------------------------------------------------------------------------
(* What the log holds, and what a reader makes of it.                      *)

\* Where the frames of the messages lie, as far as the log reaches.
Log == file \o buffer
PlacesInv ==
  /\ \A m \in Begun : 2 <= appends[m].at
  /\ \A i, j \in Begun : i < j => EndOf(i) <= appends[j].at
  /\ \A p \in 1 .. Len(Log) :
       IF p <= 2 THEN Log[p] = FileHeader[p] ELSE \E m \in Begun : Covers(m, p)
  /\ \A m \in Begun : \A p \in 1 .. Len(Log) : Covers(m, p) => Log[p] = UnitOf(m, p)

\* What the counters of a writer say of them.
CountedInv ==
  writer.bytes # 0 =>
    /\ 2 <= writer.bytes
    /\ \A m \in Recorded : EndOf(m) <= writer.bytes
    /\ \A m \in Torn : appends[m].at = writer.bytes
    /\ \A p \in 3 .. writer.bytes : \E m \in Recorded : Covers(m, p)
    /\ writer.frames = Cardinality(Recorded)
    /\ (\A m \in DOMAIN appends : appends[m].answer # "IoError") => Len(Log) <= writer.bytes

\* A closed writer has nothing left to write.
ClosedInv ==
  /\ ~writer.open => buffer = <<>>
  /\ writer.open => writer.bytes # 0

WrittenInv == PlacesInv /\ CountedInv /\ ClosedInv

\* Where a reader stands, in a file nobody is writing.
Readers == [open : BOOLEAN, pos : Nat, eof : BOOLEAN, records : Seq(Nat),
            verdict : ReadStatuses]

IdleInv ==
  /\ writer.open => ~reader.open /\ reader.verdict = "Ok"
  /\ ~reader.open => /\ reader.records = <<>>
                     /\ reader.verdict \in {"Ok", "InvalidHeader"}
                     /\ reader.verdict = "InvalidHeader" => Len(file) < 2

PositionInv ==
  reader.open =>
    /\ 2 <= reader.pos /\ reader.pos <= Len(file)
    /\ \A m \in Returned \ {0} : EndOf(m) <= reader.pos

\* Behind the end of the file, or a torn tail, there is nothing to read.
EndedInv ==
  reader.open /\ reader.verdict \in {"Eof", "InvalidHeader"} => reader.eof

FirstInv ==
  reader.open /\ reader.verdict = "Ok" =>
    /\ ~reader.eof
    /\ reader.pos = 2 \/ \E m \in Whole : EndOf(m) = reader.pos
    /\ \A m \in Whole : EndOf(m) <= reader.pos =>
         m \in Returned /\ appends[m].size <= ReadLimit

ReaderInv ==
  /\ reader \in Readers
  /\ IdleInv /\ PositionInv /\ EndedInv /\ FirstInv
  /\ InventsOnlyPastTooLarge /\ ReaderVerdictIsExact

-----------------------------------------------------------------------------
\* Which unit is where in a frame.
LEMMA FrameUnits ==
  ASSUME NEW m, NEW n \in Nat
  PROVE  /\ Frame(m, n)[1] = Unit("header", 1, m, n)
         /\ Frame(m, n)[2] = Unit("header", 2, m, n)
         /\ \A k \in 3 .. 2 + n : Frame(m, n)[k] = Unit("payload", k - 2, m, n)
<1> DEFINE head == [i \in 1 .. 2 |-> Unit("header", i, m, n)]
           body == [i \in 1 .. n |-> Unit("payload", i, m, n)]
           S == {Unit("header", i, m, n) : i \in 1 .. 2}
                  \cup {Unit("payload", i, m, n) : i \in 1 .. n}
<1>1. head \in Seq(S) /\ Len(head) = 2 /\ head[1] = Unit("header", 1, m, n)
      /\ head[2] = Unit("header", 2, m, n)
  <2>1. \A i \in 1 .. 2 : Unit("header", i, m, n) \in S
    OBVIOUS
  <2> HIDE DEF S
  <2> QED BY <2>1, SMT
<1>2. body \in Seq(S) /\ Len(body) = n
      /\ \A i \in 1 .. n : body[i] = Unit("payload", i, m, n)
  <2>1. \A i \in 1 .. n : Unit("payload", i, m, n) \in S
    OBVIOUS
  <2> HIDE DEF S
  <2> QED BY <2>1, SMT
<1>3. Frame(m, n) = head \o body
  BY DEF Frame
<1> HIDE DEF head, body, S
<1>4. \A i \in 1 .. Len(head) + Len(body) :
        (head \o body)[i] = IF i <= Len(head) THEN head[i] ELSE body[i - Len(head)]
  BY <1>1, <1>2, ConcatProperties
<1>5. \A i \in 1 .. 2 + n : (head \o body)[i] = IF i <= 2 THEN head[i] ELSE body[i - 2]
  BY <1>1, <1>2, <1>4
<1>6. 1 \in 1 .. 2 + n /\ 2 \in 1 .. 2 + n
  BY SMT
<1>7. \A k \in 3 .. 2 + n : k \in 1 .. 2 + n /\ ~(k <= 2) /\ k - 2 \in 1 .. n
  BY SMT
<1>8. (head \o body)[1] = head[1] /\ (head \o body)[2] = head[2]
  <2>1. 1 <= 2 /\ 2 <= 2
    BY SMT
  <2> QED BY <1>5, <1>6, <2>1, Zenon
<1>9. \A k \in 3 .. 2 + n : (head \o body)[k] = body[k - 2]
  BY <1>5, <1>7
<1> QED BY <1>1, <1>2, <1>3, <1>7, <1>8, <1>9

\* The log is the file with what is still kept behind it.
LEMMA LogUnits ==
  ASSUME LogType
  PROVE  /\ Log \in Seq(Units) /\ Len(Log) = Kept
         /\ Len(file) \in Nat /\ Len(buffer) \in Nat
         /\ \A p \in 1 .. Len(Log) :
              Log[p] = IF p <= Len(file) THEN file[p] ELSE buffer[p - Len(file)]
BY ConcatProperties, LenProperties DEF LogType, Log, Kept

\* The stream appends what it is given to the log, or a first part of both is left.
LEMMA StreamPlaces ==
  ASSUME LogType, LogType', NEW units \in Seq(Units), Stream(units), ~writer.bad
  PROVE  /\ Len(Log') <= Len(Log) + Len(units)
         /\ ~writer'.bad => Len(Log') = Len(Log) + Len(units)
         /\ \A p \in 1 .. Len(Log') :
              Log'[p] = IF p <= Len(Log) THEN Log[p] ELSE units[p - Len(Log)]
<1> DEFINE held == buffer \o units
<1>1. /\ held \in Seq(Units) /\ Len(held) = Len(buffer) + Len(units)
      /\ \A i \in 1 .. Len(buffer) + Len(units) :
           held[i] = IF i <= Len(buffer) THEN buffer[i] ELSE units[i - Len(buffer)]
  BY ConcatProperties DEF LogType
<1>2. PICK k \in 0 .. Len(held) :
        /\ file' = file \o SubSeq(held, 1, k)
        /\ \/ ~writer'.bad /\ buffer' = SubSeq(held, k + 1, Len(held))
           \/ writer'.bad /\ k < Len(held) /\ buffer' = <<>>
  BY Zenon DEF Stream
<1> HIDE DEF held
<1>3. Len(held) \in Nat /\ \A i \in 1 .. Len(held) : held[i] \in Units
  BY <1>1, LenProperties, ElementOfSeq
<1> DEFINE out == SubSeq(held, 1, k)
           rest == SubSeq(held, k + 1, Len(held))
<1>4. /\ out \in Seq(Units) /\ Len(out) = k
      /\ \A i \in 1 .. k : out[i] = held[i]
      /\ rest \in Seq(Units) /\ Len(rest) = Len(held) - k
      /\ \A i \in 1 .. Len(held) - k : rest[i] = held[k + i]
  BY <1>3, SMT
<1>5. file' = file \o out /\ (buffer' = rest \/ (writer'.bad /\ buffer' = <<>>))
      /\ (~writer'.bad => buffer' = rest)
  BY <1>2
<1> HIDE DEF out, rest
<1>6. /\ Len(file) \in Nat /\ Len(file') = Len(file) + k
      /\ \A i \in 1 .. Len(file) + k :
           file'[i] = IF i <= Len(file) THEN file[i] ELSE out[i - Len(file)]
  <2>1. /\ Len(file') = Len(file) + Len(out)
        /\ \A i \in 1 .. Len(file) + Len(out) :
             file'[i] = IF i <= Len(file) THEN file[i] ELSE out[i - Len(file)]
    <3>1. file \in Seq(Units)
      BY DEF LogType
    <3>2. /\ Len(file \o out) = Len(file) + Len(out)
          /\ \A i \in 1 .. Len(file) + Len(out) :
               (file \o out)[i] = IF i <= Len(file) THEN file[i] ELSE out[i - Len(file)]
      BY <3>1, <1>4, ConcatProperties
    <3> QED BY <1>5, <3>2
  <2> QED BY <1>4, <2>1, LenProperties DEF LogType
<1>7. /\ Len(Log) = Len(file) + Len(buffer)
      /\ Len(Log') = Len(file') + Len(buffer')
      /\ Len(buffer) \in Nat /\ Len(units) \in Nat
      /\ \A p \in 1 .. Len(Log) :
           Log[p] = IF p <= Len(file) THEN file[p] ELSE buffer[p - Len(file)]
      /\ \A p \in 1 .. Len(Log') :
           Log'[p] = IF p <= Len(file') THEN file'[p] ELSE buffer'[p - Len(file')]
  BY LogUnits, ConcatProperties, LenProperties DEF Kept, LogType, Log
<1>8. Len(buffer') = Len(held) - k \/ (writer'.bad /\ Len(buffer') = 0)
  BY <1>4, <1>5, SMT
<1>9. Len(Log') <= Len(Log) + Len(units)
      /\ (~writer'.bad => Len(Log') = Len(Log) + Len(units))
  <2>1. Len(Log') = Len(file) + k + Len(buffer')
    BY <1>6, <1>7
  <2>2. ~writer'.bad => Len(buffer') = Len(held) - k
    BY <1>4, <1>5
  <2>3. /\ Len(Log) = Len(file) + Len(buffer) /\ Len(held) = Len(buffer) + Len(units)
        /\ Len(file) \in Nat /\ Len(buffer) \in Nat /\ Len(units) \in Nat
        /\ k \in Nat /\ k <= Len(held)
    BY <1>1, <1>3, <1>6, <1>7, SMT
  <2>4. CASE Len(buffer') = Len(held) - k
    BY <2>1, <2>3, <2>4, SMT
  <2>5. CASE writer'.bad /\ Len(buffer') = 0
    BY <2>1, <2>3, <2>5, SMT
  <2> QED BY <1>8, <2>4, <2>5
<1>10. ASSUME NEW p \in 1 .. Len(Log')
       PROVE  Log'[p] = IF p <= Len(Log) THEN Log[p] ELSE units[p - Len(Log)]
  <2>1. CASE p <= Len(file)
    BY <2>1, <1>6, <1>7, SMT
  <2>2. CASE Len(file) < p
    <3>1. p - Len(file) \in 1 .. Len(held)
      BY <2>2, <1>1, <1>6, <1>7, <1>9, SMT
    <3>2. Log'[p] = held[p - Len(file)]
      <4>1. CASE p <= Len(file) + k
        BY <4>1, <2>2, <1>4, <1>6, <1>7, SMT
      <4>2. CASE Len(file) + k < p
        <5>1. buffer' = rest /\ p - Len(file') \in 1 .. Len(held) - k
          BY <4>2, <1>4, <1>5, <1>6, <1>7, <1>8, SMT
        <5>2. Log'[p] = rest[p - Len(file')]
          BY <4>2, <5>1, <1>6, <1>7, SMT
        <5>3. k + (p - Len(file')) = p - Len(file)
          BY <1>6, SMT
        <5> QED BY <5>1, <5>2, <5>3, <1>4
      <4> QED BY <4>1, <4>2, <1>6, SMT
    <3>3. p <= Len(Log) => Log[p] = buffer[p - Len(file)]
      BY <2>2, <1>6, <1>7, SMT
    <3>4. p - Len(Log) = p - Len(file) - Len(buffer)
      BY <1>6, <1>7, SMT
    <3>5. p - Len(file) \in 1 .. Len(buffer) + Len(units)
          /\ (p <= Len(Log) <=> p - Len(file) <= Len(buffer))
      BY <3>1, <1>1, <1>6, <1>7, SMT
    <3>6. held[p - Len(file)] = IF p - Len(file) <= Len(buffer) THEN buffer[p - Len(file)]
                                ELSE units[p - Len(file) - Len(buffer)]
      BY <3>5, <1>1
    <3> QED BY <3>2, <3>3, <3>4, <3>5, <3>6, Zenon
  <2> QED BY <2>1, <2>2, <1>6, SMT
<1> QED BY <1>9, <1>10

NoError == \A m \in DOMAIN appends : appends[m].answer # "IoError"

\* What a step that offers no message leaves of the log is where it was.
LEMMA PlacesStay ==
  ASSUME LogType, LogType', PlacesInv, UNCHANGED appends, Len(Log') <= Len(Log),
         \A p \in 1 .. Len(Log') : Log'[p] = Log[p]
  PROVE  PlacesInv'
<1>1. Len(Log) \in Nat /\ Len(Log') \in Nat
  BY LogUnits, LenProperties DEF LogType, Log, Kept
<1>2. \A p \in 1 .. Len(Log') : p \in 1 .. Len(Log)
  BY <1>1, SMT
<1>3. /\ Begun' = Begun /\ \A m \in Begun : EndOf(m)' = EndOf(m)
      /\ \A m, p : Covers(m, p)' = Covers(m, p)
      /\ \A m, p : UnitOf(m, p)' = UnitOf(m, p)
  BY DEF Begun, Recorded, Torn, EndOf, Covers, UnitOf
<1>4. FileHeader' = FileHeader
  OBVIOUS
<1> QED BY <1>1, <1>2, <1>3, <1>4 DEF PlacesInv

\* One more answer: which messages are recorded or torn now.
LEMMA HistoryGrows ==
  ASSUME LogType, NEW n \in PayloadSizes, NEW answer \in Answers, Answered(n, answer)
  PROVE  LET new == Len(appends) + 1
         IN /\ new \in Nat /\ new \notin DOMAIN appends
            /\ DOMAIN appends' = DOMAIN appends \cup {new}
            /\ \A m \in DOMAIN appends : m \in Nat /\ m < new /\ appends'[m] = appends[m]
            /\ appends'[new] = [size |-> n, answer |-> answer, at |-> writer.bytes]
            /\ Recorded' = Recorded \cup IF answer = "Written" THEN {new} ELSE {}
            /\ Torn' = Torn \cup IF answer = "IoError" /\ NoError THEN {new} ELSE {}
<1> DEFINE new == Len(appends) + 1
           added == [size |-> n, answer |-> answer, at |-> writer.bytes]
<1>1. added \in Appended /\ added.answer = answer
  <2>1. writer.bytes \in Nat
    BY SMT DEF LogType, Writers
  <2> QED BY <2>1 DEF Appended
<1>2. appends' = Append(appends, added) /\ appends \in Seq(Appended)
  BY DEF Answered, LogType
<1> HIDE DEF added
<1>3. /\ appends' \in Seq(Appended) /\ Len(appends') = new /\ appends'[new] = added
      /\ \A m \in 1 .. Len(appends) : appends'[m] = appends[m]
      /\ Len(appends) \in Nat
      /\ DOMAIN appends = 1 .. Len(appends) /\ DOMAIN appends' = 1 .. Len(appends')
  BY <1>1, <1>2, AppendProperties, LenProperties
<1>4. /\ new \in Nat /\ new \notin DOMAIN appends
      /\ DOMAIN appends' = DOMAIN appends \cup {new}
      /\ \A m \in DOMAIN appends : m \in Nat /\ m < new /\ appends'[m] = appends[m]
  BY <1>3, SMT
<1>5. Recorded' = Recorded \cup IF answer = "Written" THEN {new} ELSE {}
  <2>1. Recorded' = {m \in DOMAIN appends' : appends'[m].answer = "Written"}
    BY DEF Recorded
  <2>2. appends'[new].answer = answer
    BY <1>1, <1>3
  <2> HIDE DEF new
  <2> QED BY <1>4, <2>1, <2>2, Zenon DEF Recorded
<1>6. \A m \in DOMAIN appends : \A j \in 1 .. m - 1 : j \in DOMAIN appends
  BY <1>3, SMT
<1>7. \A j : j \in 1 .. new - 1 <=> j \in DOMAIN appends
  BY <1>3, SMT
<1>8. Torn' = Torn \cup IF answer = "IoError" /\ NoError THEN {new} ELSE {}
  <2>1. Torn' = {m \in DOMAIN appends' :
                   /\ appends'[m].answer = "IoError"
                   /\ \A j \in 1 .. m - 1 : appends'[j].answer # "IoError"}
    BY DEF Torn
  <2>2. appends'[new].answer = answer
    BY <1>1, <1>3
  <2> HIDE DEF new
  <2>3. ASSUME NEW m \in DOMAIN appends
        PROVE  m \in Torn' <=> m \in Torn
    BY <1>4, <1>6, <2>1, <2>3, Zenon DEF Torn
  <2>4. new \in Torn' <=> answer = "IoError" /\ NoError
    <3>1. new \in Torn' <=> /\ appends'[new].answer = "IoError"
                            /\ \A j \in 1 .. new - 1 : appends'[j].answer # "IoError"
      BY <1>4, <2>1, Zenon
    <3> QED BY <1>4, <1>7, <2>2, <3>1, Zenon DEF NoError
  <2>5. new \notin Torn /\ Torn \subseteq DOMAIN appends /\ Torn' \subseteq DOMAIN appends'
    BY <1>4, <2>1, Zenon DEF Torn
  <2> QED BY <1>4, <2>3, <2>4, <2>5, Zenon
<1> QED BY <1>3, <1>4, <1>5, <1>8 DEF added

\* An answer that begins no frame leaves everything where it is.
LEMMA PlacesIgnore ==
  ASSUME LogType, PlacesInv, CountedInv, NEW n \in PayloadSizes, NEW answer \in Answers,
         Answered(n, answer), answer # "Written", answer = "IoError" => ~NoError,
         UNCHANGED <<buffer, file>>, writer'.bytes = writer.bytes,
         writer'.frames = writer.frames
  PROVE  PlacesInv' /\ CountedInv'
<1> DEFINE new == Len(appends) + 1
<1>1. /\ Recorded' = Recorded /\ Torn' = Torn
      /\ DOMAIN appends' = DOMAIN appends \cup {new}
      /\ \A m \in DOMAIN appends : appends'[m] = appends[m]
  BY HistoryGrows
<1> HIDE DEF new
<1>2. Log' = Log /\ Begun' = Begun /\ Begun \subseteq DOMAIN appends
  BY <1>1 DEF Log, Begun, Recorded, Torn
<1>3. ASSUME NEW m \in DOMAIN appends
      PROVE  /\ EndOf(m)' = EndOf(m) /\ appends'[m] = appends[m]
             /\ \A p : Covers(m, p)' = Covers(m, p) /\ UnitOf(m, p)' = UnitOf(m, p)
  BY <1>1 DEF EndOf, Covers, UnitOf
<1>4. PlacesInv'
  <2>1. /\ \A m \in Begun' : 2 <= appends'[m].at
        /\ \A i, j \in Begun' : i < j => EndOf(i)' <= appends'[j].at
    BY <1>2, <1>3 DEF PlacesInv
  <2>2. ASSUME NEW p \in 1 .. Len(Log')
        PROVE  IF p <= 2 THEN Log'[p] = FileHeader[p] ELSE \E m \in Begun' : Covers(m, p)'
    BY <1>2, <1>3 DEF PlacesInv
  <2>3. \A m \in Begun' : \A p \in 1 .. Len(Log') : Covers(m, p)' => Log'[p] = UnitOf(m, p)'
    BY <1>2, <1>3 DEF PlacesInv
  <2> QED BY <2>1, <2>2, <2>3 DEF PlacesInv
<1>5. CountedInv'
  <2>1. Recorded \subseteq DOMAIN appends /\ Torn \subseteq DOMAIN appends
    BY DEF Recorded, Torn
  <2>2. NoError' => NoError
    BY <1>1 DEF NoError
  <2> QED BY <1>1, <1>2, <1>3, <2>1, <2>2 DEF CountedInv, NoError
<1> QED BY <1>4, <1>5

\* A frame that is begun lies behind those that were, however much of it is left.
LEMMA PlacesGrow ==
  ASSUME LogType, LogType', PlacesInv, CountedInv, writer.bytes # 0, NoError,
         NEW n \in PayloadSizes, NEW answer \in {"Written", "IoError"}, Answered(n, answer),
         Len(Log') <= writer.bytes + FrameBytes(n),
         Len(Log') <= Len(Log) \/ Len(Log) = writer.bytes,
         \A p \in 1 .. Len(Log') :
           Log'[p] = IF p <= Len(Log) THEN Log[p]
                     ELSE Frame(Len(appends) + 1, n)[p - Len(Log)]
  PROVE  PlacesInv'
<1>0. PICK new \in {Len(appends) + 1} : TRUE
  OBVIOUS
<1>1. /\ new \in Nat /\ new \notin DOMAIN appends
      /\ \A m \in DOMAIN appends : m \in Nat /\ m < new /\ appends'[m] = appends[m]
      /\ appends'[new] = [size |-> n, answer |-> answer, at |-> writer.bytes]
      /\ Recorded' = Recorded \cup IF answer = "Written" THEN {new} ELSE {}
      /\ Torn' = Torn \cup IF answer = "IoError" THEN {new} ELSE {}
  BY <1>0, HistoryGrows DEF Answers
<1>2. Len(Log) \in Nat /\ Len(Log') \in Nat /\ writer.bytes \in Nat /\ n \in Nat
  <2>1. Log \in Seq(Units) /\ Log' \in Seq(Units)
    BY ConcatProperties DEF LogType, Log
  <2>2. Len(Log) \in Nat /\ Len(Log') \in Nat
    BY <2>1, LenProperties
  <2>3. writer.bytes \in Nat
    BY DEF LogType, Writers
  <2>4. n \in Nat
    BY LogAssumption
  <2>5. QED BY <2>2, <2>3, <2>4
<1>3. Begun' = Begun \cup {new} /\ Begun \subseteq DOMAIN appends /\ Begun = Recorded
  <2>1. Torn = {}
    BY DEF Torn, NoError
  <2> QED BY <1>1, <2>1 DEF Begun, Recorded
<1>4. ASSUME NEW m \in Begun
      PROVE  /\ EndOf(m)' = EndOf(m) /\ appends'[m] = appends[m] /\ m \in Nat /\ m < new
             /\ \A p : Covers(m, p)' = Covers(m, p) /\ UnitOf(m, p)' = UnitOf(m, p)
             /\ EndOf(m) <= writer.bytes
             /\ EndOf(m) \in Nat /\ appends[m].at \in Nat
  <2>1. appends'[m] = appends[m] /\ m \in Nat /\ m < new
    BY <1>1, <1>3
  <2>2. EndOf(m) \in Nat /\ appends[m].at \in Nat
    <3>1. appends[m] \in Appended
      BY <1>3, ElementOfSeq, LenProperties DEF LogType
    <3>2. appends[m].at \in Nat /\ appends[m].size \in Nat
      BY <3>1, LogAssumption, Zenon DEF Appended
    <3> QED BY <3>2, SMT DEF EndOf, FrameBytes
  <2>3. EndOf(m) <= writer.bytes
    BY <1>3 DEF CountedInv
  <2> QED BY <2>1, <2>2, <2>3 DEF EndOf, Covers, UnitOf
<1>5. /\ appends'[new].at = writer.bytes /\ appends'[new].size = n
      /\ EndOf(new)' = writer.bytes + FrameBytes(n)
      /\ \A p : Covers(new, p)' <=> writer.bytes < p /\ p <= writer.bytes + FrameBytes(n)
      /\ \A p : UnitOf(new, p)' = Frame(new, n)[p - writer.bytes]
  BY <1>1 DEF EndOf, Covers, UnitOf
<1>6. FrameBytes(n) = 2 + n /\ 2 <= writer.bytes
  BY DEF FrameBytes, CountedInv
<1>7. \A m \in Begun' : 2 <= appends'[m].at
  BY <1>3, <1>4, <1>5, <1>6 DEF PlacesInv
<1>8. ASSUME NEW i \in Begun', NEW j \in Begun', i < j
      PROVE  EndOf(i)' <= appends'[j].at
  <2>1. CASE j = new
    <3>1. i \in Begun
      BY <1>1, <1>3, <1>8, <2>1, SMT
    <3> QED BY <1>4, <1>5, <2>1, <3>1
  <2>2. CASE j \in Begun
    <3>1. i \in Begun
      <4>1. j \in Nat /\ j < new
        BY <1>4, <2>2
      <4>2. i # new
        BY <4>1, <1>1, <1>8, SMT
      <4> QED BY <1>3, <4>2
    <3> QED BY <1>4, <1>8, <2>2, <3>1 DEF PlacesInv
  <2> QED BY <1>3, <2>1, <2>2
<1>9. ASSUME NEW p \in 1 .. Len(Log')
      PROVE  IF p <= 2 THEN Log'[p] = FileHeader[p] ELSE \E m \in Begun' : Covers(m, p)'
  <2>1. CASE p <= Len(Log)
    <3>1. p \in 1 .. Len(Log) /\ Log'[p] = Log[p]
      BY <1>2, <2>1, SMT
    <3>2. IF p <= 2 THEN Log[p] = FileHeader[p] ELSE \E m \in Begun : Covers(m, p)
      BY <3>1 DEF PlacesInv
    <3> QED BY <1>3, <1>4, <3>1, <3>2
  <2>2. CASE Len(Log) < p
    <3>1. writer.bytes < p /\ p <= writer.bytes + FrameBytes(n) /\ ~(p <= 2)
      BY <1>2, <1>6, <2>2, SMT
    <3>2. Covers(new, p)'
      BY <1>5, <3>1
    <3> QED BY <1>3, <3>1, <3>2
  <2> QED BY <1>2, <2>1, <2>2, SMT
<1>10. ASSUME NEW m \in Begun', NEW p \in 1 .. Len(Log'), Covers(m, p)'
       PROVE  Log'[p] = UnitOf(m, p)'
  <2>1. CASE m = new
    <3>1. writer.bytes < p
      BY <1>5, <1>10, <2>1
    <3>2. ~(p <= Len(Log)) /\ Len(Log) = writer.bytes
      <4>1. Len(Log) <= writer.bytes
        BY DEF CountedInv, NoError
      <4> QED BY <1>2, <3>1, <4>1, SMT
    <3> QED BY <1>5, <2>1, <3>2, <1>0
  <2>2. CASE m \in Begun
    <3>1. Covers(m, p) /\ p <= writer.bytes
      <4>1. Covers(m, p) /\ p <= EndOf(m) /\ EndOf(m) <= writer.bytes /\ EndOf(m) \in Nat
        BY <1>4, <1>10, <2>2 DEF Covers
      <4> QED BY <1>2, <4>1, SMT
    <3>2. p \in 1 .. Len(Log) /\ Log'[p] = Log[p]
      BY <1>2, <3>1, SMT
    <3> QED BY <1>4, <2>2, <3>1, <3>2 DEF PlacesInv
  <2> QED BY <1>3, <2>1, <2>2
<1> QED BY <1>7, <1>8, <1>9, <1>10 DEF PlacesInv

\* A log whose writer has been asked for nothing yet.
LEMMA PlacesEmpty ==
  ASSUME appends = <<>>, Len(Log) \in Nat, Len(Log) <= 2,
         \A p \in 1 .. Len(Log) : Log[p] = FileHeader[p]
  PROVE  PlacesInv /\ NoError /\ Recorded = {} /\ Torn = {}
<1>1. DOMAIN appends = {}
  BY SMT
<1>2. NoError /\ Recorded = {} /\ Torn = {} /\ Begun = {}
  BY <1>1 DEF NoError, Recorded, Torn, Begun
<1>3. \A p \in 1 .. Len(Log) : p <= 2
  BY SMT
<1> QED BY <1>2, <1>3 DEF PlacesInv

\* A log nobody has opened is what was written: nothing.
LEMMA WrittenInitInv == Init => WrittenInv
<1> SUFFICES ASSUME Init PROVE WrittenInv OBVIOUS
<1>1. Log = <<>> /\ appends = <<>> /\ buffer = <<>>
  BY SMT DEF Init, Log
<1>2. PlacesInv
  BY <1>1, PlacesEmpty, SMT
<1>3. writer.bytes = 0 /\ ~writer.open
  BY DEF Init
<1> QED BY <1>1, <1>2, <1>3 DEF WrittenInv, CountedInv, ClosedInv

\* A file that is opened anew holds its header, and one that cannot be opened at most
\* a part of it, or what it held before.
LEMMA WrittenOpen ==
  ASSUME LogInv, LogInv', WrittenInv, NEW max \in Limits, NEW policy \in Policies,
         Open(max, policy)
  PROVE  WrittenInv'
<1>1. LogType /\ LogType'
  BY DEF LogInv
<1>2. CASE /\ writer' = NewWriter(TRUE, 2, max, policy)
           /\ \E k \in 0 .. 2 : file' = SubSeq(FileHeader, 1, k)
                             /\ buffer' = SubSeq(FileHeader, k + 1, 2)
           /\ appends' = <<>>
  <2>1. PICK k \in 0 .. 2 : file' = SubSeq(FileHeader, 1, k)
                         /\ buffer' = SubSeq(FileHeader, k + 1, 2)
    BY <1>2
  <2>2. /\ Len(file') = k /\ \A p \in 1 .. k : file'[p] = FileHeader[p]
        /\ Len(buffer') = 2 - k /\ \A p \in 1 .. 2 - k : buffer'[p] = FileHeader[k + p]
    BY <2>1, HeaderType, SMT
  <2>3. /\ Len(Log') = 2
        /\ \A p \in 1 .. Len(Log') :
             Log'[p] = IF p <= Len(file') THEN file'[p] ELSE buffer'[p - Len(file')]
    <3>1. Len(Log') = Len(file') + Len(buffer')
          /\ \A p \in 1 .. Len(Log') :
               Log'[p] = IF p <= Len(file') THEN file'[p] ELSE buffer'[p - Len(file')]
      BY <1>1, ConcatProperties DEF LogType, Log
    <3> QED BY <2>2, <3>1, SMT
  <2>4. ASSUME NEW p \in 1 .. Len(Log')
        PROVE  Log'[p] = FileHeader[p]
    <3>1. CASE p <= k
      <4>1. p \in 1 .. k
        BY <2>3, <3>1, SMT
      <4> QED BY <2>2, <2>3, <3>1, <4>1
    <3>2. CASE k < p
      <4>1. p - k \in 1 .. 2 - k /\ ~(p <= k) /\ k + (p - k) = p
        BY <2>3, <3>2, SMT
      <4>2. Log'[p] = buffer'[p - k]
        BY <2>2, <2>3, <4>1
      <4>3. buffer'[p - k] = FileHeader[k + (p - k)]
        BY <2>2, <4>1
      <4> QED BY <4>1, <4>2, <4>3
    <3> QED BY <2>3, <3>1, <3>2, SMT
  <2>5. /\ writer'.bytes = 2 /\ writer'.frames = 0 /\ writer'.open
    BY <1>2, Zenon DEF NewWriter
  <2>6. Len(Log') \in Nat /\ Len(Log') <= 2
    BY <2>3
  <2>7. PlacesInv' /\ NoError' /\ Recorded' = {} /\ Torn' = {}
    <3>1. DOMAIN appends' = {}
      BY <1>2, SMT
    <3>2. NoError' /\ Recorded' = {} /\ Torn' = {} /\ Begun' = {}
      BY <3>1 DEF NoError, Recorded, Torn, Begun
    <3>3. \A p \in 1 .. Len(Log') : p <= 2
      BY <2>6, SMT
    <3> QED BY <2>4, <3>2, <3>3 DEF PlacesInv
  <2>8. CountedInv'
    <3>1. Cardinality({}) = 0 /\ 3 .. 2 = {}
      BY FS_EmptySet, SMT
    <3> QED BY <2>3, <2>5, <2>7, <3>1, SMT DEF CountedInv
  <2> QED BY <2>5, <2>7, <2>8 DEF WrittenInv, ClosedInv
<1>3. CASE /\ writer' = NewWriter(FALSE, 0, max, policy)
           /\ \/ UNCHANGED <<file, appends>>
              \/ file' \in {<<>>, SubSeq(FileHeader, 1, 1)} /\ appends' = <<>>
           /\ UNCHANGED buffer
  <2>1. writer'.bytes = 0 /\ ~writer'.open
    BY <1>3, Zenon DEF NewWriter
  <2>2. buffer = <<>> /\ buffer' = <<>>
    BY <1>3 DEF Open, WrittenInv, ClosedInv
  <2>3. Log' = file'
    BY <1>1, <2>2, ConcatEmptySeq DEF Log, LogType
  <2>4. PlacesInv'
    <3>1. CASE UNCHANGED <<file, appends>>
      <4>1. Log' = Log
        BY <3>1, <1>3 DEF Log
      <4>2. Len(Log) \in Nat
        BY <1>1, LogUnits, LenProperties
      <4> QED BY <3>1, <4>1, <4>2, <1>1, PlacesStay, SMT DEF WrittenInv
    <3>2. CASE file' \in {<<>>, SubSeq(FileHeader, 1, 1)} /\ appends' = <<>>
      <4>1. /\ Len(file') \in Nat /\ Len(file') <= 2
            /\ \A p \in 1 .. Len(file') : file'[p] = FileHeader[p]
        <5>1. CASE file' = <<>>
          BY <5>1, SMT
        <5>2. CASE file' = SubSeq(FileHeader, 1, 1)
          BY <5>2, HeaderType, SMT
        <5> QED BY <3>2, <5>1, <5>2
      <4>2. DOMAIN appends' = {}
        BY <3>2, SMT
      <4>3. Begun' = {}
        BY <4>2 DEF Recorded, Torn, Begun
      <4>4. \A p \in 1 .. Len(Log') : p <= 2
        BY <2>3, <4>1, SMT
      <4> QED BY <2>3, <4>1, <4>3, <4>4 DEF PlacesInv
    <3> QED BY <1>3, <3>1, <3>2
  <2> QED BY <2>1, <2>2, <2>4 DEF WrittenInv, CountedInv, ClosedInv
<1> QED BY <1>2, <1>3 DEF Open

\* flush(), close() and a crash leave a first part of the log.
LEMMA WrittenLess ==
  ASSUME LogInv, LogInv', WrittenInv, UNCHANGED appends,
         writer'.bytes = writer.bytes, writer'.frames = writer.frames,
         writer'.open => writer.open, buffer' = <<>>,
         Len(Log') <= Len(Log), \A p \in 1 .. Len(Log') : Log'[p] = Log[p]
  PROVE  WrittenInv'
<1>1. LogType /\ LogType'
  BY DEF LogInv
<1>2. PlacesInv'
  BY <1>1, PlacesStay DEF WrittenInv
<1>3. /\ Recorded' = Recorded /\ Torn' = Torn
      /\ \A m : EndOf(m)' = EndOf(m)
      /\ \A m, p : Covers(m, p)' = Covers(m, p)
  BY DEF Recorded, Torn, EndOf, Covers
<1>4. Len(Log) \in Nat /\ Len(Log') \in Nat /\ writer.bytes \in Nat
  BY <1>1, LogUnits, LenProperties, SMT DEF LogType, Log, Writers
<1>5. NoError /\ Len(Log) <= writer.bytes => Len(Log') <= writer.bytes
  BY <1>4, SMT
<1>6. CountedInv'
  BY <1>3, <1>5 DEF WrittenInv, CountedInv, NoError
<1> QED BY <1>2, <1>6 DEF WrittenInv, ClosedInv

\* A death keeps the file and loses what was held.
LEMMA WrittenCrash == ASSUME LogInv, LogInv', WrittenInv, Crash PROVE WrittenInv'
<1>1. writer'.bytes = writer.bytes /\ writer'.frames = writer.frames /\ ~writer'.open
  <2>1. writer \in Writers /\ writer' = [writer EXCEPT !.open = FALSE]
    BY DEF LogInv, LogType, Crash
  <2> QED BY <2>1, Zenon DEF Writers
<1>2. buffer' = <<>> /\ Log' = file /\ UNCHANGED appends
  BY ConcatEmptySeq DEF LogInv, LogType, Log, Crash
<1>3. Len(Log') <= Len(Log) /\ \A p \in 1 .. Len(Log') : Log'[p] = Log[p]
  <2>1. LogType
    BY DEF LogInv
  <2>2. /\ Len(Log) = Len(file) + Len(buffer) /\ Len(file) \in Nat /\ Len(buffer) \in Nat
        /\ \A p \in 1 .. Len(Log) :
             Log[p] = IF p <= Len(file) THEN file[p] ELSE buffer[p - Len(file)]
    BY <2>1, LogUnits DEF Kept
  <2> QED BY <1>2, <2>2, SMT
<1> QED BY <1>1, <1>2, <1>3, WrittenLess

\* flush() and close() hand over what is held, or fail and lose some of it.
LEMMA WrittenEmptied ==
  ASSUME LogInv, LogInv', WrittenInv, NEW open \in BOOLEAN, writer.open, Emptied(open)
  PROVE  WrittenInv'
<1>1. writer'.bytes = writer.bytes /\ writer'.frames = writer.frames
  <2>1. writer \in Writers /\ (writer' = [writer EXCEPT !.open = open]
                              \/ writer' = [writer EXCEPT !.open = open, !.bad = TRUE])
    BY DEF LogInv, LogType, Emptied
  <2>2. CASE writer' = [writer EXCEPT !.open = open]
    BY <2>1, <2>2, Zenon DEF Writers
  <2>3. CASE writer' = [writer EXCEPT !.open = open, !.bad = TRUE]
    BY <2>1, <2>3, Zenon DEF Writers
  <2> QED BY <2>1, <2>2, <2>3
<1>2. buffer' = <<>> /\ Stream(<<>>) /\ UNCHANGED appends
  BY DEF Emptied
<1>3. LogType /\ LogType' /\ <<>> \in Seq(Units) /\ Len(<<>>) = 0
  BY SMT DEF LogInv
<1>4. Len(Log) \in Nat /\ Len(Log') \in Nat
  BY <1>3, LogUnits, LenProperties DEF LogType, Log
<1>5. Len(Log') <= Len(Log) /\ \A p \in 1 .. Len(Log') : Log'[p] = Log[p]
  <2>1. CASE writer.bad
    <3>1. Log' = Log
      BY <1>2, <2>1 DEF Stream, Log
    <3> QED BY <1>4, <3>1, SMT
  <2>2. CASE ~writer.bad
    <3>1. /\ Len(Log') <= Len(Log) + Len(<<>>)
          /\ \A p \in 1 .. Len(Log') :
               Log'[p] = IF p <= Len(Log) THEN Log[p] ELSE <<>>[p - Len(Log)]
      BY <1>2, <1>3, <2>2, StreamPlaces
    <3>2. Len(Log') <= Len(Log) /\ \A p \in 1 .. Len(Log') : p <= Len(Log)
      BY <1>3, <1>4, <3>1, SMT
    <3> QED BY <3>1, <3>2
  <2> QED BY <2>1, <2>2
<1> QED BY <1>1, <1>2, <1>5, WrittenLess

\* append() of a message that is refused, or written as a whole, or torn.
LEMMA WrittenAppend ==
  ASSUME LogInv, LogInv', WrittenInv, NEW n \in PayloadSizes, AppendMessage(n)
  PROVE  WrittenInv'
<1>1. /\ LogType /\ LogType' /\ writer \in Writers /\ writer.open /\ writer.bytes \in Nat
      /\ writer.bytes # 0 /\ n \in Nat
  BY LogAssumption, SMT DEF LogInv, LogType, Writers, AppendMessage, WrittenInv, ClosedInv
<1>2. ASSUME NEW answer \in Answers \ {"Written", "IoError"}, NEW limited \in BOOLEAN,
             Refuse(answer, n, limited)
      PROVE  WrittenInv'
  <2>1. /\ writer'.open /\ writer'.bytes = writer.bytes /\ writer'.frames = writer.frames
    BY <1>1, <1>2, Zenon DEF Refuse, Writers
  <2>2. PlacesInv' /\ CountedInv'
    BY <1>1, <1>2, <2>1, PlacesIgnore DEF Refuse, WrittenInv
  <2> QED BY <1>1, <2>1, <2>2 DEF WrittenInv, ClosedInv
<1>3. ASSUME Record(n)
      PROVE  WrittenInv'
  <2>0. PICK new \in {Len(appends) + 1} : TRUE
    OBVIOUS
  <2>1. PICK bad \in BOOLEAN :
          /\ writer' = IF bad THEN [writer EXCEPT !.bad = TRUE]
                       ELSE [writer EXCEPT !.bytes = @ + FrameBytes(n), !.frames = @ + 1]
          /\ bad \/ ~writer.bad
          /\ Stream(Frame(Len(appends) + 1, n))
          /\ Answered(n, IF bad THEN "IoError" ELSE "Written")
    BY <1>3, Zenon DEF Record
  <2>2. /\ writer'.open /\ writer'.bad = bad
        /\ bad => writer'.bytes = writer.bytes /\ writer'.frames = writer.frames
        /\ ~bad => /\ writer'.bytes = writer.bytes + FrameBytes(n)
                   /\ writer'.frames = writer.frames + 1
    <3>1. CASE bad
      BY <1>1, <2>1, <3>1, Zenon DEF Writers
    <3>2. CASE ~bad
      BY <1>1, <2>1, <3>2, Zenon DEF Writers
    <3> QED BY <3>1, <3>2
  <2>3. /\ Len(Log) \in Nat /\ Len(Log') \in Nat /\ FrameBytes(n) = 2 + n
        /\ ~writer.bad => Len(Log) = writer.bytes
        /\ NoError => Len(Log) <= writer.bytes
    BY <1>1, LogUnits, LenProperties
       DEF LogType, Log, FrameBytes, LogInv, KeptInv, WrittenInv, CountedInv, NoError
  <2>4. /\ Frame(Len(appends) + 1, n) \in Seq(Units)
        /\ Len(Frame(Len(appends) + 1, n)) = FrameBytes(n)
    <3>1. Len(appends) + 1 \in 1 .. MaxMessages
      <4>1. Len(appends) \in Nat /\ Len(appends) < MaxMessages
        BY <1>1, LenProperties DEF LogType, AppendMessage
      <4> QED BY <4>1, LogAssumption, SMT
    <3> QED BY <3>1, FrameType
  <2>5. ~writer.bad =>
          /\ Len(Log') <= Len(Log) + FrameBytes(n)
          /\ ~bad => Len(Log') = Len(Log) + FrameBytes(n)
          /\ \A p \in 1 .. Len(Log') :
               Log'[p] = IF p <= Len(Log) THEN Log[p]
                         ELSE Frame(Len(appends) + 1, n)[p - Len(Log)]
    BY <1>1, <2>1, <2>2, <2>4, StreamPlaces
  <2>6. writer.bad => Log' = Log /\ UNCHANGED <<buffer, file>>
    BY <2>1 DEF Stream, Log
  <2>7. CASE ~NoError
    <3>1. writer.bad
      BY <1>1, <2>7, LenProperties DEF NoError, LogInv, RefusedInv, LogType
    <3>2. bad /\ UNCHANGED <<buffer, file>>
      BY <2>1, <2>6, <3>1
    <3>3. Answered(n, "IoError") /\ "IoError" \in Answers
      BY <2>1, <3>2 DEF Answers
    <3>4. PlacesInv' /\ CountedInv'
      BY <1>1, <2>2, <2>7, <3>2, <3>3, PlacesIgnore DEF WrittenInv
    <3> QED BY <1>1, <2>2, <3>2, <3>4 DEF WrittenInv, ClosedInv
  <2>8. CASE NoError
    <3>1. PICK answer \in {"Written", "IoError"} :
            Answered(n, answer) /\ (answer = "IoError" <=> bad)
      BY <2>1
    <3>2. Len(Log') <= writer.bytes + FrameBytes(n)
      BY <1>1, <2>3, <2>5, <2>6, <2>8, SMT
    <3>3. Len(Log') <= Len(Log) \/ Len(Log) = writer.bytes
      BY <2>3, <2>6, SMT
    <3>4. \A p \in 1 .. Len(Log') :
            Log'[p] = IF p <= Len(Log) THEN Log[p]
                      ELSE Frame(Len(appends) + 1, n)[p - Len(Log)]
      <4>1. CASE writer.bad
        BY <2>3, <2>6, <4>1, SMT
      <4> QED BY <2>5, <4>1
    <3>5. PlacesInv'
      BY <1>1, <2>8, <3>1, <3>2, <3>3, <3>4, PlacesGrow DEF WrittenInv
    <3>6. answer \in Answers
      BY <3>1 DEF Answers
    <3>7. /\ new \in Nat /\ new \notin DOMAIN appends
          /\ DOMAIN appends' = DOMAIN appends \cup {new}
          /\ \A m \in DOMAIN appends : m < new /\ appends'[m] = appends[m]
          /\ appends'[new] = [size |-> n, answer |-> answer, at |-> writer.bytes]
          /\ Recorded' = Recorded \cup IF answer = "Written" THEN {new} ELSE {}
          /\ Torn' = Torn \cup IF answer = "IoError" THEN {new} ELSE {}
      BY <1>1, <2>0, <2>8, <3>1, <3>6, HistoryGrows
    <3>8. Torn = {} /\ Recorded \subseteq DOMAIN appends
      BY <2>8 DEF NoError, Torn, Recorded
    <3>9. \A m \in Recorded : EndOf(m)' = EndOf(m) /\ \A p : Covers(m, p)' = Covers(m, p)
      BY <3>7, <3>8 DEF EndOf, Covers
    <3>10. /\ appends'[new].at = writer.bytes /\ appends'[new].answer = answer
           /\ EndOf(new)' = writer.bytes + FrameBytes(n)
           /\ \A p : Covers(new, p)' <=> writer.bytes < p /\ p <= writer.bytes + FrameBytes(n)
      BY <3>7 DEF EndOf, Covers
    <3>11. /\ 2 <= writer.bytes /\ \A m \in Recorded : EndOf(m) <= writer.bytes
           /\ \A p \in 3 .. writer.bytes : \E m \in Recorded : Covers(m, p)
           /\ writer.frames = Cardinality(Recorded)
      BY <1>1 DEF WrittenInv, CountedInv
    <3>12. CASE answer = "IoError"
      <4>1. bad /\ Recorded' = Recorded /\ Torn' = {new}
        BY <3>1, <3>7, <3>8, <3>12
      <4>2. ~NoError'
        BY <3>7, <3>10, <3>12 DEF NoError
      <4>3. CountedInv'
        BY <2>2, <3>9, <3>10, <3>11, <4>1, <4>2 DEF CountedInv, NoError
      <4> QED BY <1>1, <2>2, <3>5, <4>1, <4>3 DEF WrittenInv, ClosedInv
    <3>13. CASE answer = "Written"
      <4>1. ~bad /\ Recorded' = Recorded \cup {new} /\ Torn' = {}
        BY <3>1, <3>7, <3>8, <3>13
      <4>2. writer'.bytes = writer.bytes + FrameBytes(n) /\ writer'.frames = writer.frames + 1
            /\ ~writer.bad
        BY <2>1, <2>2, <4>1
      <4>3. \A m \in Recorded' : EndOf(m)' <= writer'.bytes
        <5>1. \A m \in Recorded : EndOf(m) <= writer.bytes + FrameBytes(n)
          <6> SUFFICES ASSUME NEW m \in Recorded PROVE EndOf(m) <= writer.bytes + FrameBytes(n)
            OBVIOUS
          <6>1. appends[m] \in Appended
            BY <1>1, <3>8, ElementOfSeq, LenProperties DEF LogType
          <6>2. appends[m].at \in Nat /\ appends[m].size \in Nat
            BY <6>1, LogAssumption, Zenon DEF Appended
          <6>3. EndOf(m) \in Nat
            BY <6>2, SMT DEF EndOf, FrameBytes
          <6> QED BY <1>1, <2>3, <3>11, <6>3, SMT
        <5>2. writer.bytes + FrameBytes(n) <= writer.bytes + FrameBytes(n)
          BY <1>1, <2>3, SMT
        <5> QED BY <3>9, <3>10, <4>1, <4>2, <5>1, <5>2
      <4>4. ASSUME NEW p \in 3 .. writer'.bytes
            PROVE  \E m \in Recorded' : Covers(m, p)'
        <5>1. CASE p <= writer.bytes
          <6>1. p \in 3 .. writer.bytes
            BY <1>1, <5>1, SMT
          <6> QED BY <3>9, <3>11, <4>1, <6>1
        <5>2. CASE writer.bytes < p
          <6>1. p <= writer.bytes + FrameBytes(n)
            BY <1>1, <2>3, <4>2, SMT
          <6> QED BY <3>10, <4>1, <5>2, <6>1
        <5> QED BY <1>1, <5>1, <5>2, SMT
      <4>5. writer'.frames = Cardinality(Recorded')
        <5>1. IsFiniteSet(Recorded)
          <6>1. DOMAIN appends = 1 .. Len(appends) /\ Len(appends) \in Nat
            BY <1>1, LenProperties DEF LogType
          <6>2. IsFiniteSet(1 .. Len(appends))
            BY <6>1, FS_Interval
          <6> QED BY <3>8, <6>1, <6>2, FS_Subset
        <5>2. new \notin Recorded
          BY <3>7, <3>8
        <5> QED BY <3>11, <4>1, <4>2, <5>1, <5>2, FS_AddElement
      <4>6. /\ 2 <= writer'.bytes
            /\ Len(Log') <= writer'.bytes
        BY <1>1, <2>3, <3>2, <3>11, <4>2, SMT
      <4>7. CountedInv'
        BY <4>1, <4>3, <4>4, <4>5, <4>6 DEF CountedInv
      <4>8. writer'.bytes # 0
        BY <1>1, <4>6, SMT
      <4> QED BY <2>2, <3>5, <4>7, <4>8 DEF WrittenInv, ClosedInv
    <3> QED BY <3>1, <3>12, <3>13
  <2> QED BY <2>7, <2>8
<1>4. LimitAnswer \in Answers \ {"Written", "IoError"} /\ LimitedAfter \in BOOLEAN
  BY <1>1 DEF LimitAnswer, LimitedAfter, Policies, Answers, Writers
<1>5. CASE writer.limited /\ Refuse("StoppedByLimit", n, TRUE)
  BY <1>2, <1>5 DEF Answers
<1>6. CASE ~writer.limited /\ n > MaxFrameSize /\ Refuse("PayloadTooLarge", n, FALSE)
  BY <1>2, <1>6 DEF Answers
<1>7. CASE IF WouldExceed(FrameBytes(n)) THEN Refuse(LimitAnswer, n, LimitedAfter)
                                         ELSE Record(n)
  BY <1>2, <1>3, <1>4, <1>7
<1> QED BY <1>5, <1>6, <1>7 DEF AppendMessage

\* Every step keeps the places of the frames and what is counted of them.
LEMMA WrittenNextInv == LogInv /\ LogInv' /\ WrittenInv /\ [Next]_vars => WrittenInv'
<1> SUFFICES ASSUME LogInv, LogInv', WrittenInv, [Next]_vars PROVE WrittenInv' OBVIOUS
<1>1. CASE \E max \in Limits, policy \in Policies : Open(max, policy)
  BY <1>1, WrittenOpen
<1>2. CASE \E n \in PayloadSizes : AppendMessage(n)
  BY <1>2, WrittenAppend
<1>3. CASE Flush \/ Close
  BY <1>3, WrittenEmptied DEF Flush, Close
<1>4. CASE Crash
  BY <1>4, WrittenCrash
<1>5. CASE OpenReader \/ CloseReader \/ ReadNext \/ UNCHANGED vars
  <2>1. UNCHANGED <<writer, buffer, file, appends>>
    BY <1>5, Zenon DEF OpenReader, CloseReader, ReadNext, vars
  <2> QED BY <2>1 DEF WrittenInv, PlacesInv, CountedInv, ClosedInv, Log, Begun, Recorded, Torn,
                      EndOf, Covers, UnitOf
<1> QED BY <1>1, <1>2, <1>3, <1>4, <1>5 DEF Next

\* Where the frames of append() lie in the log, and what its counters say of them, holds
\* in every state: open, append, flush, close, a failed write and a crash keep it.
THEOREM WrittenInvariance == Spec => []WrittenInv
<1>1. LogInv /\ LogInv' /\ WrittenInv /\ [Next]_vars => WrittenInv'
  BY WrittenNextInv
<1> QED BY <1>1, WrittenInitInv, LogInvariance, PTL DEF Spec

\* The log is what append() has said it is: its counters, and place by place the frames of
\* the messages, for every size, limit, policy and error of the stream.
THEOREM WrittenHolds == Spec => []LogIsWhatWasWritten
<1>1. LogInv /\ WrittenInv => LogIsWhatWasWritten
  <2> SUFFICES ASSUME LogInv, WrittenInv PROVE LogIsWhatWasWritten OBVIOUS
  <2>1. LogType
    BY DEF LogInv
  <2>2. writer.open /\ ~writer.bad => Len(Log) = writer.bytes
    BY <2>1, LogUnits DEF LogInv, KeptInv
  <2>3. ASSUME NEW p \in 1 .. Len(Log)
        PROVE  IF p <= 2 THEN Log[p] = FileHeader[p]
               ELSE \E m \in Begun : Covers(m, p) /\ Log[p] = UnitOf(m, p)
    BY DEF WrittenInv, PlacesInv
  <2>4. /\ \A i, j \in Begun : i < j => EndOf(i) <= appends[j].at
        /\ \A m \in Recorded : 2 <= appends[m].at
    BY DEF WrittenInv, PlacesInv, Begun
  <2> QED BY <2>2, <2>3, <2>4 DEF WrittenInv, CountedInv, LogIsWhatWasWritten, Log
<1> QED BY <1>1, LogInvariance, WrittenInvariance, PTL

-----------------------------------------------------------------------------
\* Sizes and places of a message.
LEMMA MessageType ==
  ASSUME LogType, NEW m \in DOMAIN appends
  PROVE  /\ m \in Nat /\ appends[m].at \in Nat /\ appends[m].size \in Nat
         /\ EndOf(m) = appends[m].at + 2 + appends[m].size /\ EndOf(m) \in Nat
<1>1. m \in 1 .. Len(appends) /\ Len(appends) \in Nat /\ appends[m] \in Appended
  BY ElementOfSeq, LenProperties DEF LogType
<1>2. appends[m].at \in Nat /\ appends[m].size \in Nat
  BY <1>1, LogAssumption, Zenon DEF Appended
<1> QED BY <1>1, <1>2, SMT DEF EndOf, FrameBytes

\* Of two frames that were begun the earlier ends before the later begins.
LEMMA FrameOrder ==
  ASSUME LogType, PlacesInv, NEW i \in Begun, NEW j \in Begun
  PROVE  /\ i \in DOMAIN appends /\ i \in Nat /\ j \in Nat
         /\ i < j => EndOf(i) <= appends[j].at
         /\ appends[i].at < appends[j].at => i < j
         /\ appends[i].at = appends[j].at => i = j
         /\ EndOf(i) <= appends[j].at => i < j
<1>1. i \in DOMAIN appends /\ j \in DOMAIN appends
  BY DEF Begun, Recorded, Torn
<1>2. /\ i \in Nat /\ appends[i].at \in Nat /\ appends[i].at < EndOf(i) /\ EndOf(i) \in Nat
      /\ j \in Nat /\ appends[j].at \in Nat /\ appends[j].at < EndOf(j) /\ EndOf(j) \in Nat
  BY <1>1, MessageType, SMT
<1>3. (i < j => EndOf(i) <= appends[j].at) /\ (j < i => EndOf(j) <= appends[i].at)
  BY DEF PlacesInv
<1>4. i = j => EndOf(i) = EndOf(j) /\ appends[i].at = appends[j].at
  OBVIOUS
<1> QED BY <1>1, <1>2, <1>3, <1>4, SMT

\* What the log holds the file holds, as far as it reaches.
LEMMA FilePlaces ==
  ASSUME LogType, PlacesInv
  PROVE  /\ Len(file) \in Nat
         /\ \A p \in 1 .. Len(file) :
              IF p <= 2 THEN file[p] = FileHeader[p] ELSE \E m \in Begun : Covers(m, p)
         /\ \A m \in Begun : \A p \in 1 .. Len(file) : Covers(m, p) => file[p] = UnitOf(m, p)
<1>1. /\ Len(file) \in Nat /\ Len(buffer) \in Nat /\ Len(Log) = Len(file) + Len(buffer)
      /\ \A p \in 1 .. Len(Log) :
           Log[p] = IF p <= Len(file) THEN file[p] ELSE buffer[p - Len(file)]
  BY LogUnits DEF Kept
<1>2. ASSUME NEW p \in 1 .. Len(file)
      PROVE  p \in 1 .. Len(Log) /\ file[p] = Log[p]
  BY <1>1, SMT
<1> QED BY <1>1, <1>2 DEF PlacesInv

\* A unit of a frame tells its message.
LEMMA UnitTells ==
  ASSUME LogType, NEW m \in DOMAIN appends, NEW p \in Nat, Covers(m, p)
  PROVE  /\ UnitOf(m, p).message = m /\ UnitOf(m, p).size = appends[m].size
         /\ UnitOf(m, p).part # "file"
         /\ p = appends[m].at + 1 =>
              UnitOf(m, p).part = "header" /\ UnitOf(m, p).at = 1
         /\ UnitOf(m, p).part = "header" /\ UnitOf(m, p).at = 1 => p = appends[m].at + 1
<1> DEFINE n == appends[m].size
           k == p - appends[m].at
<1>1. n \in Nat /\ k \in 1 .. 2 + n /\ (p = appends[m].at + 1 <=> k = 1)
  <2>1. /\ appends[m].at \in Nat /\ n \in Nat /\ EndOf(m) = appends[m].at + 2 + n
    BY MessageType
  <2>2. appends[m].at < p /\ p <= EndOf(m)
    BY DEF Covers
  <2> HIDE DEF n
  <2> QED BY <2>1, <2>2, SMT
<1>2. UnitOf(m, p) = Frame(m, n)[k]
  BY DEF UnitOf
<1> HIDE DEF n, k
<1>3. k = 1 \/ k = 2 \/ k \in 3 .. 2 + n
  BY <1>1, SMT
<1>4. CASE k = 1
  <2>1. UnitOf(m, p) = Unit("header", 1, m, n)
    BY <1>1, <1>2, <1>4, FrameUnits
  <2> QED BY <1>1, <1>4, <2>1 DEF Unit, n
<1>5. CASE k = 2
  <2>1. UnitOf(m, p) = Unit("header", 2, m, n) /\ 2 # 1
    BY <1>1, <1>2, <1>5, FrameUnits
  <2> QED BY <1>1, <1>5, <2>1 DEF Unit, n
<1>6. CASE k \in 3 .. 2 + n
  <2>1. UnitOf(m, p) = Unit("payload", k - 2, m, n) /\ k # 1
    <3>1. k # 1
      BY <1>6, SMT
    <3> QED BY <1>1, <1>2, <1>6, <3>1, FrameUnits
  <2> QED BY <1>1, <2>1 DEF Unit, n
<1> QED BY <1>3, <1>4, <1>5, <1>6

\* A file header is not a frame header.
LEMMA HeaderTells == FileHeader[1].part = "file" /\ FileHeader[2].part = "file"
<1>1. 1 \in 1 .. 2 /\ 2 \in 1 .. 2
  BY SMT
<1> QED BY <1>1, Zenon DEF FileHeader, Unit

\* A header in the file is the first unit of a frame that was begun.
LEMMA HeaderBegins ==
  ASSUME LogType, PlacesInv, NEW p \in 1 .. Len(file),
         file[p].part = "header", file[p].at = 1
  PROVE  \E m \in Begun : /\ p = appends[m].at + 1
                          /\ file[p].message = m /\ file[p].size = appends[m].size
<1>1. ~(p <= 2)
  <2>1. ASSUME p <= 2 PROVE FALSE
    <3>1. file[p] = FileHeader[p]
      BY <2>1, FilePlaces
    <3>2. Len(file) \in Nat
      BY FilePlaces
    <3>3. p = 1 \/ p = 2
      BY <2>1, <3>2, SMT
    <3> QED BY <3>1, <3>3, HeaderTells
  <2> QED BY <2>1
<1>2. PICK m \in Begun : Covers(m, p)
  BY <1>1, FilePlaces
<1>3. file[p] = UnitOf(m, p)
  BY <1>2, FilePlaces
<1>4. m \in DOMAIN appends /\ p \in Nat
  BY SMT DEF Begun, Recorded, Torn
<1>5. /\ UnitOf(m, p).message = m /\ UnitOf(m, p).size = appends[m].size
      /\ UnitOf(m, p).part = "header" /\ UnitOf(m, p).at = 1 => p = appends[m].at + 1
  BY <1>2, <1>4, UnitTells
<1> QED BY <1>3, <1>5

\* The whole messages are those begun whose frames end within the file.
LEMMA WholeIsBegun ==
  ASSUME LogType, PlacesInv
  PROVE  Whole = {m \in Begun : EndOf(m) <= Len(file)}
<1>1. Begun \subseteq DOMAIN appends /\ Len(file) \in Nat
  BY FilePlaces DEF Begun, Recorded, Torn
<1>2. ASSUME NEW m \in Whole PROVE m \in Begun /\ EndOf(m) <= Len(file)
  <2>1. /\ m \in DOMAIN appends /\ EndOf(m) <= Len(file)
        /\ \A p \in appends[m].at + 1 .. EndOf(m) : file[p] = UnitOf(m, p)
    BY DEF Whole
  <2> DEFINE p == appends[m].at + 1
  <2>2. p \in appends[m].at + 1 .. EndOf(m) /\ p \in 1 .. Len(file) /\ p \in Nat
        /\ appends[m].at < p /\ p <= EndOf(m)
    BY <1>1, <2>1, MessageType, SMT
  <2>3. Covers(m, p) /\ file[p] = UnitOf(m, p)
    BY <2>1, <2>2 DEF Covers
  <2>4. /\ UnitOf(m, p).message = m
        /\ UnitOf(m, p).part = "header" /\ UnitOf(m, p).at = 1
    BY <2>1, <2>2, <2>3, UnitTells
  <2> HIDE DEF p
  <2>5. \E j \in Begun : file[p].message = j
    BY <2>2, <2>3, <2>4, HeaderBegins
  <2> QED BY <2>1, <2>3, <2>4, <2>5
<1>3. ASSUME NEW m \in Begun, EndOf(m) <= Len(file) PROVE m \in Whole
  <2>1. ASSUME NEW p \in appends[m].at + 1 .. EndOf(m) PROVE file[p] = UnitOf(m, p)
    <3>1. p \in 1 .. Len(file) /\ appends[m].at < p /\ p <= EndOf(m)
      BY <1>1, <1>3, MessageType, SMT
    <3> QED BY <3>1, FilePlaces DEF Covers
  <2> QED BY <1>1, <1>3, <2>1 DEF Whole
<1> QED BY <1>2, <1>3

\* Where the reader stands before its first other answer a frame begins, if the file
\* goes on, and what it has returned are the whole messages before that place.
LEMMA NextFrame ==
  ASSUME LogType, PlacesInv, ReaderInv, reader.open, reader.verdict = "Ok", Left # 0
  PROVE  /\ reader.pos \in Nat /\ reader.pos < Len(file)
         /\ reader.pos + 1 \in 1 .. Len(file)
         /\ \E m \in Begun : /\ appends[m].at = reader.pos
                             /\ NextUnit.part = "header" /\ NextUnit.at = 1
                             /\ NextUnit.message = m /\ NextUnit.size = appends[m].size
<1>1. /\ reader.pos \in Nat /\ 2 <= reader.pos /\ reader.pos <= Len(file)
      /\ Len(file) \in Nat
  BY FilePlaces, SMT DEF ReaderInv, PositionInv, Readers
<1>2. reader.pos < Len(file) /\ reader.pos + 1 \in 1 .. Len(file) /\ ~(reader.pos + 1 <= 2)
  BY <1>1, SMT DEF Left
<1>3. PICK m \in Begun : Covers(m, reader.pos + 1)
  BY <1>2, FilePlaces
<1>4. m \in DOMAIN appends /\ reader.pos + 1 \in Nat
  BY <1>1, SMT DEF Begun, Recorded, Torn
<1>5. /\ appends[m].at \in Nat /\ EndOf(m) \in Nat
      /\ appends[m].at < reader.pos + 1 /\ reader.pos + 1 <= EndOf(m)
      /\ 2 <= appends[m].at
  BY <1>3, <1>4, MessageType DEF Covers, PlacesInv
<1>6. appends[m].at = reader.pos
  <2>1. CASE reader.pos = 2
    BY <1>5, <2>1, SMT
  <2>2. CASE \E w \in Whole : EndOf(w) = reader.pos
    <3>1. PICK w \in Begun : EndOf(w) = reader.pos
      BY <2>2, WholeIsBegun
    <3>2. w \in Nat /\ m \in Nat /\ EndOf(w) \in Nat
          /\ (w < m => EndOf(w) <= appends[m].at)
      BY <1>1, <3>1, FrameOrder
    <3>3. /\ m < w => EndOf(m) <= appends[w].at
          /\ appends[w].at \in Nat /\ appends[w].at < EndOf(w)
      <4>1. w \in DOMAIN appends
        BY FrameOrder
      <4> QED BY <4>1, FrameOrder, MessageType, SMT
    <3>4. m = w => EndOf(m) = EndOf(w)
      OBVIOUS
    <3> QED BY <1>1, <1>5, <3>1, <3>2, <3>3, <3>4, SMT
  <2> QED BY <2>1, <2>2 DEF ReaderInv, FirstInv
<1>7. /\ UnitOf(m, reader.pos + 1).message = m
      /\ UnitOf(m, reader.pos + 1).size = appends[m].size
      /\ UnitOf(m, reader.pos + 1).part = "header" /\ UnitOf(m, reader.pos + 1).at = 1
  BY <1>3, <1>4, <1>6, UnitTells
<1>8. NextUnit = UnitOf(m, reader.pos + 1)
  BY <1>2, <1>3, FilePlaces DEF NextUnit
<1> QED BY <1>1, <1>2, <1>6, <1>7, <1>8

\* Before its first other answer a reader has returned the readable messages up to where
\* it stands.
LEMMA ReturnedReadable ==
  ASSUME LogType, PlacesInv, reader.open, reader.verdict = "Ok", PositionInv, FirstInv,
         InventsOnlyPastTooLarge, reader.pos \in Nat
  PROVE  /\ \A m \in Whole : EndOf(m) <= reader.pos => m \in Readable
         /\ Returned = {m \in Whole : EndOf(m) <= reader.pos}
         /\ ReaderVerdictIsExact
<1>1. Returned = {m \in Whole : EndOf(m) <= reader.pos}
  <2>1. 0 \notin Returned
    BY DEF InventsOnlyPastTooLarge
  <2> QED BY <2>1 DEF InventsOnlyPastTooLarge, PositionInv, FirstInv
<1>2. Whole \subseteq Begun
  BY WholeIsBegun
<1>3. ASSUME NEW m \in Whole, NEW j \in Whole, j <= m
      PROVE  EndOf(j) <= EndOf(m)
  <2>1. m \in Nat /\ j \in Nat /\ EndOf(m) \in Nat /\ EndOf(j) \in Nat
        /\ appends[m].at < EndOf(m) /\ appends[m].at \in Nat
        /\ (j < m => EndOf(j) <= appends[m].at)
    <3>1. m \in DOMAIN appends /\ j \in DOMAIN appends /\ m \in Begun /\ j \in Begun
      BY <1>2 DEF Whole
    <3>2. j < m => EndOf(j) <= appends[m].at
      BY <3>1, FrameOrder
    <3> QED BY <3>1, <3>2, MessageType, SMT
  <2>2. j = m => EndOf(j) = EndOf(m)
    OBVIOUS
  <2> QED BY <1>3, <2>1, <2>2, SMT
<1>4. \A m \in Whole : EndOf(m) \in Nat
  BY MessageType DEF Whole
<1>5. ASSUME NEW m \in Whole, EndOf(m) <= reader.pos PROVE m \in Readable
  <2> SUFFICES ASSUME NEW j \in Whole, j <= m PROVE appends[j].size <= ReadLimit
    BY DEF Readable
  <2>1. EndOf(j) <= reader.pos
    BY <1>3, <1>4, <1>5, SMT
  <2> QED BY <2>1 DEF FirstInv
<1>6. ASSUME NEW m \in Readable, NEW r \in Returned, m < r PROVE m \in Returned
  <2>1. m \in Whole /\ r \in Whole /\ EndOf(r) <= reader.pos
    BY <1>1 DEF Readable
  <2>2. m <= r
    <3>1. m \in Nat /\ r \in Nat
      BY <2>1, MessageType DEF Whole
    <3> QED BY <1>6, <3>1, SMT
  <2>3. EndOf(m) <= reader.pos
    BY <1>3, <1>4, <2>1, <2>2, SMT
  <2> QED BY <1>1, <2>1, <2>3
<1> QED BY <1>1, <1>5, <1>6 DEF ReaderVerdictIsExact

\* When no readable message is left, all of them have been returned, and the file ends
\* with them exactly if the reader is at its end.
LEMMA NoMore ==
  ASSUME LogType, PlacesInv, ReaderInv, reader.open, reader.verdict = "Ok",
         \A m \in Readable : EndOf(m) <= reader.pos
  PROVE  Readable \subseteq Returned /\ (EndsReadable <=> Left = 0)
<1>1. /\ reader.pos \in Nat /\ 2 <= reader.pos /\ reader.pos <= Len(file)
      /\ Len(file) \in Nat
  BY FilePlaces, SMT DEF ReaderInv, PositionInv, Readers
<1>2. /\ \A m \in Whole : EndOf(m) <= reader.pos => m \in Readable
      /\ Returned = {m \in Whole : EndOf(m) <= reader.pos}
  BY <1>1, ReturnedReadable DEF ReaderInv
<1>3. Readable \subseteq Returned
  BY <1>2 DEF Readable
<1>4. ASSUME Left = 0 PROVE EndsReadable
  <2>1. Len(file) = reader.pos
    BY <1>1, <1>4, SMT DEF Left
  <2>2. ASSUME NEW p \in 3 .. Len(file) PROVE \E m \in Readable : p <= EndOf(m)
    <3>1. CASE reader.pos = 2
      BY <1>1, <2>1, <3>1, SMT
    <3>2. CASE \E w \in Whole : EndOf(w) = reader.pos
      <4>1. PICK w \in Whole : EndOf(w) = reader.pos
        BY <3>2
      <4>2. p <= EndOf(w) /\ EndOf(w) <= reader.pos
        BY <1>1, <2>1, <4>1, SMT
      <4> QED BY <1>2, <4>2
    <3> QED BY <3>1, <3>2 DEF ReaderInv, FirstInv
  <2>3. Len(file) >= 2
    BY <1>1, SMT
  <2> QED BY <2>2, <2>3 DEF EndsReadable
<1>5. ASSUME EndsReadable PROVE Left = 0
  <2>1. ASSUME Left # 0 PROVE FALSE
    <3>1. reader.pos + 1 \in 3 .. Len(file)
      BY <1>1, <2>1, SMT DEF Left
    <3>2. PICK m \in Readable : reader.pos + 1 <= EndOf(m)
      BY <1>5, <3>1 DEF EndsReadable
    <3>3. EndOf(m) \in Nat
      BY MessageType DEF Readable, Whole
    <3> QED BY <1>1, <3>2, <3>3, SMT
  <2> QED BY <2>1
<1> QED BY <1>3, <1>4, <1>5

\* When the frame that begins where the reader stands is not readable, nothing more is, and
\* it is too large for the reader exactly if its header is whole and its size says so.
LEMMA NotReadable ==
  ASSUME LogType, PlacesInv, ReaderInv, reader.open, reader.verdict = "Ok", Left # 0,
         NEW m \in Begun, appends[m].at = reader.pos,
         Len(file) < EndOf(m) \/ appends[m].size > ReadLimit
  PROVE  /\ \A r \in Readable : EndOf(r) <= reader.pos
         /\ LargeFollows <=> appends[m].size > ReadLimit /\ Left >= 2
<1>1. /\ reader.pos \in Nat /\ 2 <= reader.pos /\ reader.pos <= Len(file)
      /\ Len(file) \in Nat /\ Left = Len(file) - reader.pos
  BY FilePlaces, SMT DEF ReaderInv, PositionInv, Readers, Left
<1>2. /\ \A w \in Whole : EndOf(w) <= reader.pos => w \in Readable
      /\ Returned = {w \in Whole : EndOf(w) <= reader.pos}
  BY <1>1, ReturnedReadable DEF ReaderInv
<1>3. Whole = {w \in Begun : EndOf(w) <= Len(file)}
  BY WholeIsBegun
<1>4. m \in DOMAIN appends /\ m \in Nat /\ EndOf(m) \in Nat /\ reader.pos < EndOf(m)
      /\ appends[m].size \in Nat /\ ReadLimit \in Nat
  <2>1. m \in DOMAIN appends
    BY FrameOrder
  <2> QED BY <1>1, <2>1, MessageType, LogAssumption, SMT
<1>5. ASSUME NEW k \in Begun
      PROVE  /\ k \in Nat /\ EndOf(k) \in Nat /\ appends[k].at \in Nat
             /\ k < m => EndOf(k) <= reader.pos
             /\ m < k => EndOf(m) <= appends[k].at
             /\ appends[k].at < EndOf(k) /\ appends[k].size \in Nat
  <2>1. k \in DOMAIN appends /\ k \in Nat
    BY FrameOrder
  <2>2. /\ k < m => EndOf(k) <= appends[m].at
        /\ m < k => EndOf(m) <= appends[k].at
    BY FrameOrder
  <2> QED BY <2>1, <2>2, MessageType, SMT
<1>6. ASSUME NEW r \in Readable PROVE EndOf(r) <= reader.pos
  <2>1. r \in Begun /\ EndOf(r) <= Len(file)
    BY <1>3 DEF Readable
  <2>2. CASE r < m
    BY <1>5, <2>1, <2>2
  <2>3. CASE m <= r
    <3>1. EndOf(m) <= Len(file)
      <4>1. CASE m = r
        BY <2>1, <4>1
      <4>2. CASE m < r
        <5>1. EndOf(m) <= appends[r].at /\ appends[r].at < EndOf(r)
              /\ EndOf(r) \in Nat /\ appends[r].at \in Nat
          BY <1>5, <2>1, <4>2
        <5> QED BY <1>1, <1>4, <2>1, <5>1, SMT
      <4> QED BY <1>4, <1>5, <2>1, <2>3, <4>1, <4>2, SMT
    <3>2. m \in Whole
      BY <1>3, <3>1
    <3>3. appends[m].size <= ReadLimit
      BY <2>3, <3>2 DEF Readable
    <3> QED BY <1>1, <1>4, <3>1, <3>3, SMT
  <2> QED BY <1>4, <1>5, <2>1, <2>2, <2>3, SMT
<1>7. ASSUME appends[m].size > ReadLimit, Left >= 2 PROVE LargeFollows
  <2>1. appends[m].at + 2 <= Len(file)
    BY <1>1, <1>7, SMT
  <2>2. ASSUME NEW j \in Begun, j < m PROVE j \in Readable
    <3>1. EndOf(j) <= reader.pos /\ EndOf(j) \in Nat
      BY <1>5, <2>2
    <3>2. EndOf(j) <= Len(file)
      BY <1>1, <3>1, SMT
    <3> QED BY <1>2, <1>3, <3>1, <3>2
  <2> QED BY <1>7, <2>1, <2>2 DEF LargeFollows
<1>8. ASSUME LargeFollows PROVE appends[m].size > ReadLimit /\ Left >= 2
  <2>1. PICK k \in Begun : /\ appends[k].at + 2 <= Len(file) /\ appends[k].size > ReadLimit
                           /\ \A j \in Begun : j < k => j \in Readable
    BY <1>8 DEF LargeFollows
  <2>2. CASE k = m
    BY <1>1, <2>1, <2>2, SMT
  <2>3. CASE k < m
    <3>1. EndOf(k) <= reader.pos /\ EndOf(k) \in Nat
      BY <1>5, <2>3
    <3>2. k \in Whole
      BY <1>1, <1>3, <3>1, SMT
    <3>3. appends[k].size <= ReadLimit
      BY <3>1, <3>2 DEF ReaderInv, FirstInv
    <3> QED BY <1>4, <1>5, <2>1, <3>3, SMT
  <2>4. CASE m < k
    <3>1. m \in Readable
      BY <2>1, <2>4
    <3> QED BY <1>1, <1>4, <1>6, <3>1, SMT
  <2> QED BY <1>4, <1>5, <2>2, <2>3, <2>4, SMT
<1> QED BY <1>6, <1>7, <1>8

-----------------------------------------------------------------------------
\* A reader that is closed has nothing to say.
LEMMA ReaderIdle ==
  ASSUME reader \in Readers, ~reader.open, reader.verdict = "Ok", reader.records = <<>>
  PROVE  ReaderInv
<1>1. DOMAIN reader.records = {}
  BY SMT
<1>2. Returned = {} /\ InventsOnlyPastTooLarge
  BY <1>1 DEF Returned, InventsOnlyPastTooLarge
<1> QED BY <1>2 DEF ReaderInv, IdleInv, PositionInv, EndedInv, FirstInv, ReaderVerdictIsExact

\* A reader that was just opened, or could not be.
LEMMA NewReaderType ==
  ASSUME NEW open \in BOOLEAN, NEW status \in ReadStatuses
  PROVE  /\ NewReader(open, status) \in Readers
         /\ NewReader(open, status).open = open /\ NewReader(open, status).eof = FALSE
         /\ NewReader(open, status).verdict = status
         /\ NewReader(open, status).records = <<>>
         /\ open => NewReader(open, status).pos = 2
<1>1. <<>> \in Seq(Nat) /\ (IF open THEN 2 ELSE 0) \in Nat
  BY SMT
<1> QED BY <1>1, Zenon DEF NewReader, Readers

\* No reader has been opened yet.
LEMMA ReaderInitInv == Init => ReaderInv
<1> SUFFICES ASSUME Init PROVE ReaderInv OBVIOUS
<1>1. reader = NewReader(FALSE, "Ok") /\ "Ok" \in ReadStatuses
  BY DEF Init, ReadStatuses
<1> QED BY <1>1, NewReaderType, ReaderIdle

\* A reader opened on what is there, long enough for a file header or not.
LEMMA ReaderOpens ==
  ASSUME LogType, PlacesInv, ~writer.open, NEW status \in {"Ok", "InvalidHeader"},
         reader = NewReader(status = "Ok", status), status = "Ok" <=> Len(file) >= 2
  PROVE  ReaderInv
<1>1. /\ reader \in Readers /\ (reader.open <=> status = "Ok") /\ reader.eof = FALSE
      /\ reader.verdict = status /\ reader.records = <<>>
      /\ status = "Ok" => reader.pos = 2
  BY NewReaderType DEF ReadStatuses
<1>2. DOMAIN reader.records = {}
  BY <1>1, SMT
<1>3. Returned = {} /\ InventsOnlyPastTooLarge
  BY <1>2 DEF Returned, InventsOnlyPastTooLarge
<1>4. Len(file) \in Nat
  BY FilePlaces
<1>5. \A m \in Begun : EndOf(m) \in Nat /\ EndOf(m) > 2 /\ appends[m].at \in Nat
                       /\ 2 <= appends[m].at
  <2> SUFFICES ASSUME NEW m \in Begun
               PROVE  EndOf(m) \in Nat /\ EndOf(m) > 2 /\ appends[m].at \in Nat
                      /\ 2 <= appends[m].at
    OBVIOUS
  <2>1. m \in DOMAIN appends /\ 2 <= appends[m].at
    BY FrameOrder DEF PlacesInv
  <2> QED BY <2>1, MessageType, SMT
<1>6. \A m \in Whole : m \in Begun /\ EndOf(m) <= Len(file)
  BY WholeIsBegun
<1>7. CASE status = "Ok"
  <2>1. PositionInv
    BY <1>1, <1>3, <1>4, <1>7, SMT DEF PositionInv
  <2>2. \A m \in Whole : ~(EndOf(m) <= reader.pos)
    BY <1>1, <1>5, <1>6, <1>7, SMT
  <2>3. FirstInv
    BY <1>1, <1>7, <2>2 DEF FirstInv
  <2>4. ReaderVerdictIsExact
    BY <1>1, <1>3, <1>7 DEF ReaderVerdictIsExact
  <2> QED BY <1>1, <1>3, <1>7, <2>1, <2>3, <2>4 DEF ReaderInv, IdleInv, EndedInv
<1>8. CASE status = "InvalidHeader"
  <2>1. ~(Len(file) >= 2) /\ Len(file) < 2
    BY <1>4, <1>8, SMT
  <2>2. Whole = {}
    BY <1>4, <1>5, <1>6, <2>1, SMT
  <2>3. ~LargeFollows
    <3>1. \A m \in Begun : ~(appends[m].at + 2 <= Len(file))
      BY <1>4, <1>5, <2>1, SMT
    <3> QED BY <3>1 DEF LargeFollows
  <2>4. ReaderVerdictIsExact
    BY <1>1, <1>8, <2>1, <2>2, <2>3 DEF ReaderVerdictIsExact, Readable, EndsReadable
  <2> QED BY <1>1, <1>3, <1>8, <2>1, <2>4
           DEF ReaderInv, IdleInv, PositionInv, EndedInv, FirstInv
<1> QED BY <1>7, <1>8

\* What a reader's step does not change.
LEMMA ReaderLeaves ==
  ASSUME UNCHANGED <<writer, buffer, file, appends>>
  PROVE  /\ Begun' = Begun /\ Whole' = Whole /\ Readable' = Readable
         /\ (EndsReadable' <=> EndsReadable) /\ (LargeFollows' <=> LargeFollows)
         /\ \A m : EndOf(m)' = EndOf(m)
<1>1. /\ \A m : EndOf(m)' = EndOf(m)
      /\ \A m, p : UnitOf(m, p)' = UnitOf(m, p)
  BY DEF EndOf, UnitOf
<1>2. Whole' = Whole /\ Begun' = Begun
  BY <1>1 DEF Whole, Begun, Recorded, Torn
<1>3. Readable' = Readable
  BY <1>2 DEF Readable
<1> QED BY <1>1, <1>2, <1>3 DEF EndsReadable, LargeFollows

\* An answer other than Ok: the first is the verdict, and must be right.
LEMMA AnswerStep ==
  ASSUME LogType, PlacesInv, ReaderInv, reader.open, ~writer.open,
         UNCHANGED <<writer, buffer, file, appends>>,
         NEW status \in {"Eof", "PayloadTooLarge", "InvalidHeader"}, NEW n \in Nat,
         NEW eof \in BOOLEAN, Answer(status, n, eof), n <= Left, reader.eof => eof,
         reader.verdict = "Ok" =>
           /\ eof \/ status = "PayloadTooLarge"
           /\ Readable \subseteq Returned
           /\ status = IF EndsReadable THEN "Eof"
                       ELSE IF LargeFollows THEN "PayloadTooLarge" ELSE "InvalidHeader"
  PROVE  ReaderInv'
<1>1. reader \in Readers /\ reader.pos \in Nat /\ Len(file) \in Nat /\ reader.pos + n \in Nat
  BY FilePlaces, SMT DEF ReaderInv, Readers
<1>2. /\ reader' \in Readers /\ reader'.open /\ reader'.pos = reader.pos + n
      /\ reader'.records = reader.records /\ reader'.eof = eof
      /\ reader'.verdict = IF reader.verdict = "Ok" THEN status ELSE reader.verdict
  <2> DEFINE v == IF reader.verdict = "Ok" THEN status ELSE reader.verdict
             q == reader.pos + n
  <2>1. v \in ReadStatuses /\ q \in Nat
    BY <1>1, Zenon DEF Readers, ReadStatuses
  <2>2. reader' = [reader EXCEPT !.pos = q, !.eof = eof, !.verdict = v]
    BY <1>1, Zenon DEF Answer, Readers
  <2> HIDE DEF v, q
  <2>3. \A r \in Readers : /\ [r EXCEPT !.pos = q] \in Readers
                           /\ [r EXCEPT !.eof = eof] \in Readers
                           /\ [r EXCEPT !.verdict = v] \in Readers
    BY <2>1, SMT DEF Readers
  <2>4. reader'.open = reader.open /\ reader'.pos = q /\ reader'.records = reader.records
        /\ reader'.verdict = v /\ reader'.eof = eof
    BY <1>1, <2>2, Zenon DEF Readers
  <2>5. reader' \in Readers
    <3>1. reader' = [[[reader EXCEPT !.pos = q] EXCEPT !.eof = eof] EXCEPT !.verdict = v]
      BY <2>2
    <3> QED BY <1>1, <2>3, <3>1
  <2> QED BY <2>4, <2>5 DEF v, q
<1>3. /\ Whole' = Whole /\ Readable' = Readable /\ Returned' = Returned
      /\ (EndsReadable' <=> EndsReadable) /\ (LargeFollows' <=> LargeFollows)
      /\ \A m : EndOf(m)' = EndOf(m)
  BY <1>2, ReaderLeaves DEF Returned
<1>4. reader'.verdict # "Ok"
  BY <1>2
<1>5. IdleInv'
  BY <1>2 DEF IdleInv
<1>6. PositionInv'
  <2>1. /\ 2 <= reader.pos /\ reader.pos <= Len(file)
        /\ \A m \in Returned \ {0} : EndOf(m) <= reader.pos
    BY DEF ReaderInv, PositionInv
  <2>2. 2 <= reader.pos + n /\ reader.pos + n <= Len(file)
    BY <1>1, <2>1, SMT DEF Left
  <2>3. \A m \in Returned \ {0} : EndOf(m) <= reader.pos + n
    <3>1. \A m \in Returned \ {0} : EndOf(m) \in Nat
      BY MessageType DEF ReaderInv, InventsOnlyPastTooLarge, Whole
    <3> QED BY <1>1, <2>1, <3>1, SMT
  <2> QED BY <1>2, <1>3, <2>2, <2>3 DEF PositionInv
<1>7. InventsOnlyPastTooLarge'
  BY <1>2, <1>3 DEF ReaderInv, InventsOnlyPastTooLarge
<1>8. ReaderVerdictIsExact'
  <2>1. CASE reader.verdict = "Ok"
    BY <1>2, <1>3, <1>4, <2>1 DEF ReaderVerdictIsExact
  <2>2. CASE reader.verdict # "Ok"
    BY <1>2, <1>3, <1>4, <2>2 DEF ReaderInv, ReaderVerdictIsExact
  <2> QED BY <2>1, <2>2
<1>9. FirstInv'
  BY <1>4 DEF FirstInv
<1>10. EndedInv'
  BY <1>2 DEF ReaderInv, EndedInv
<1> QED BY <1>2, <1>5, <1>6, <1>7, <1>8, <1>9, <1>10 DEF ReaderInv

\* So their order and completeness are no further question.
LEMMA OkVerdict ==
  LogType /\ PlacesInv /\ (reader.open /\ reader.verdict = "Ok" /\ reader.pos \in Nat)
    /\ PositionInv /\ FirstInv /\ InventsOnlyPastTooLarge
  => ReaderVerdictIsExact
BY ReturnedReadable

\* What a step assigns to the reader's fields keeps its type.
LEMMA ReaderUpdates ==
  ASSUME NEW R, NEW V,
         NEW r \in [open : BOOLEAN, pos : Nat, eof : BOOLEAN, records : R, verdict : V],
         NEW q \in Nat, NEW s \in R
  PROVE  /\ [r EXCEPT !.pos = q]
              \in [open : BOOLEAN, pos : Nat, eof : BOOLEAN, records : R, verdict : V]
         /\ [r EXCEPT !.records = s]
              \in [open : BOOLEAN, pos : Nat, eof : BOOLEAN, records : R, verdict : V]
BY SMT

\* What taking a record moves.
LEMMA TakeMoves ==
  ASSUME reader \in Readers, NEW m \in Nat, NEW n \in Nat, TakeRecord(m, n)
  PROVE  /\ reader' \in Readers /\ reader'.open = reader.open
         /\ reader'.pos = reader.pos + FrameBytes(n) /\ FrameBytes(n) \in Nat
         /\ reader'.eof = reader.eof /\ reader'.verdict = reader.verdict
         /\ DOMAIN reader.records = 1 .. Len(reader.records) /\ Len(reader.records) \in Nat
         /\ \A i \in DOMAIN reader'.records :
              \/ i \in DOMAIN reader.records /\ reader'.records[i] = reader.records[i]
              \/ i = Len(reader.records) + 1 /\ reader'.records[i] = m
         /\ \A i, j \in DOMAIN reader'.records :
              i < j => i \in DOMAIN reader.records /\ reader'.records[i] = reader.records[i]
         /\ Returned' = Returned \cup {m}
<1> DEFINE q == reader.pos + FrameBytes(n)
           s == Append(reader.records, m)
<1>1. reader.pos \in Nat /\ reader.records \in Seq(Nat) /\ FrameBytes(n) \in Nat /\ q \in Nat
  BY SMT DEF Readers, FrameBytes
<1>2. s \in Seq(Nat)
  BY <1>1, AppendProperties
<1>3. /\ reader' \in Readers /\ reader'.open = reader.open /\ reader'.pos = q
      /\ reader'.records = s /\ reader'.eof = reader.eof /\ reader'.verdict = reader.verdict
  <2>1. reader' = [reader EXCEPT !.pos = q, !.records = s]
    BY Zenon DEF TakeRecord, Readers
  <2> HIDE DEF q, s
  <2>2. \A r \in Readers : /\ [r EXCEPT !.pos = q] \in Readers
                           /\ [r EXCEPT !.records = s] \in Readers
    BY <1>1, <1>2, ReaderUpdates DEF Readers
  <2>3. /\ reader'.open = reader.open /\ reader'.pos = q /\ reader'.records = s
        /\ reader'.eof = reader.eof /\ reader'.verdict = reader.verdict
    BY <2>1, Zenon DEF Readers
  <2>4. reader' \in Readers
    <3>1. reader' = [[reader EXCEPT !.pos = q] EXCEPT !.records = s]
      BY <2>1
    <3> QED BY <2>2, <3>1
  <2> QED BY <2>3, <2>4
<1>4. /\ DOMAIN reader.records = 1 .. Len(reader.records) /\ Len(reader.records) \in Nat
      /\ DOMAIN reader'.records = 1 .. Len(reader.records) + 1
      /\ reader'.records[Len(reader.records) + 1] = m
      /\ \A i \in 1 .. Len(reader.records) : reader'.records[i] = reader.records[i]
  <2>1. /\ reader'.records \in Seq(Nat) /\ Len(reader'.records) = Len(reader.records) + 1
        /\ reader'.records[Len(reader.records) + 1] = m
        /\ \A i \in 1 .. Len(reader.records) : reader'.records[i] = reader.records[i]
    BY <1>1, <1>2, <1>3, AppendProperties
  <2> QED BY <1>1, <2>1, LenProperties
<1>5. \A i \in DOMAIN reader'.records :
        \/ i \in DOMAIN reader.records /\ reader'.records[i] = reader.records[i]
        \/ i = Len(reader.records) + 1 /\ reader'.records[i] = m
  BY <1>4, SMT
<1>6. Returned' = Returned \cup {m}
  <2>1. \A i \in DOMAIN reader.records : i \in DOMAIN reader'.records
    BY <1>4, SMT
  <2>2. Len(reader.records) + 1 \in DOMAIN reader'.records
    BY <1>4, SMT
  <2> QED BY <1>4, <1>5, <2>1, <2>2 DEF Returned
<1>7. ASSUME NEW i \in DOMAIN reader'.records, NEW j \in DOMAIN reader'.records, i < j
      PROVE  i \in DOMAIN reader.records /\ reader'.records[i] = reader.records[i]
  <2>1. i # Len(reader.records) + 1
    BY <1>4, <1>7, SMT
  <2> QED BY <1>5, <2>1
<1> QED BY <1>1, <1>3, <1>4, <1>5, <1>6, <1>7

\* What passes for a frame where none begins is a message of the reader's own, behind all
\* that were returned; it has answered PayloadTooLarge before.
LEMMA InventStep ==
  ASSUME LogType, PlacesInv, ReaderInv, reader.open, reader.verdict = "PayloadTooLarge",
         UNCHANGED <<writer, buffer, file, appends>>,
         NEW n \in Nat, FrameBytes(n) <= Left, TakeRecord(0, n)
  PROVE  ReaderInv'
<1>1. /\ reader \in Readers /\ reader.pos \in Nat /\ Len(file) \in Nat
      /\ 2 <= reader.pos /\ reader.pos <= Len(file) /\ 0 \in Nat
  BY FilePlaces, SMT DEF ReaderInv, Readers, PositionInv
<1>2. /\ reader' \in Readers /\ reader'.open = reader.open
      /\ reader'.pos = reader.pos + FrameBytes(n) /\ FrameBytes(n) \in Nat
      /\ reader'.verdict = reader.verdict
      /\ \A i \in DOMAIN reader'.records :
           \/ i \in DOMAIN reader.records /\ reader'.records[i] = reader.records[i]
           \/ i = Len(reader.records) + 1 /\ reader'.records[i] = 0
      /\ \A i, j \in DOMAIN reader'.records :
           i < j => i \in DOMAIN reader.records /\ reader'.records[i] = reader.records[i]
      /\ Returned' = Returned \cup {0}
  BY <1>1, TakeMoves
<1>3. /\ Whole' = Whole /\ Readable' = Readable
      /\ (EndsReadable' <=> EndsReadable) /\ (LargeFollows' <=> LargeFollows)
      /\ \A k : EndOf(k)' = EndOf(k)
  BY ReaderLeaves
<1>4. PositionInv'
  <2>1. 2 <= reader.pos + FrameBytes(n) /\ reader.pos + FrameBytes(n) <= Len(file)
    BY <1>1, <1>2, SMT DEF Left
  <2>2. \A r \in Returned \ {0} : EndOf(r) <= reader.pos + FrameBytes(n)
    <3>1. \A r \in Returned \ {0} : EndOf(r) \in Nat /\ EndOf(r) <= reader.pos
      BY MessageType DEF ReaderInv, PositionInv, InventsOnlyPastTooLarge, Whole
    <3> QED BY <1>1, <1>2, <3>1, SMT
  <2> QED BY <1>2, <1>3, <2>1, <2>2 DEF PositionInv
<1>5. InventsOnlyPastTooLarge'
  <2>1. (Returned \ {0})' \subseteq Whole'
    BY <1>2, <1>3 DEF ReaderInv, InventsOnlyPastTooLarge
  <2>2. ASSUME NEW i \in DOMAIN reader'.records, NEW j \in DOMAIN reader'.records,
               i < j, reader'.records[j] # 0
        PROVE  reader'.records[i] < reader'.records[j]
    BY <1>2, <2>2 DEF ReaderInv, InventsOnlyPastTooLarge
  <2> QED BY <1>2, <2>1, <2>2 DEF InventsOnlyPastTooLarge
<1>6. ReaderVerdictIsExact'
  BY <1>2, <1>3 DEF ReaderInv, ReaderVerdictIsExact
<1>7. IdleInv' /\ EndedInv' /\ FirstInv'
  BY <1>2 DEF ReaderInv, IdleInv, EndedInv, FirstInv
<1> QED BY <1>2, <1>4, <1>5, <1>6, <1>7 DEF ReaderInv

\* A message that is taken where a frame begins is whole and comes behind all that were
\* returned.
LEMMA TakeStep ==
  ASSUME LogType, PlacesInv, ReaderInv, reader.open, ~writer.open,
         UNCHANGED <<writer, buffer, file, appends>>,
         NEW m, NEW n, ~reader.eof, AtFrame, HeaderNext(m, n), n <= ReadLimit,
         FrameBytes(n) <= Left, TakeRecord(m, n)
  PROVE  ReaderInv'
<1>1. /\ reader \in Readers /\ reader.pos \in Nat /\ Len(file) \in Nat
      /\ 2 <= reader.pos /\ reader.pos <= Len(file)
  BY FilePlaces, SMT DEF ReaderInv, Readers, PositionInv
<1>2. /\ reader.pos + 1 \in 1 .. Len(file)
      /\ NextUnit.part = "header" /\ NextUnit.at = 1
      /\ m = NextUnit.message /\ n = NextUnit.size
  <2>1. /\ Left >= 2 /\ NextUnit.part = "header" /\ NextUnit.at = 1
        /\ m = NextUnit.message /\ n = NextUnit.size
    BY DEF AtFrame, HeaderNext
  <2>2. Left >= 2
    BY <2>1
  <2>3. reader.pos + 1 \in 1 .. Len(file)
    BY <1>1, <2>2, SMT DEF Left
  <2> QED BY <2>1, <2>3
<1>3. m \in Begun /\ reader.pos + 1 = appends[m].at + 1 /\ n = appends[m].size
  BY <1>2, HeaderBegins DEF NextUnit
<1>4. /\ m \in DOMAIN appends /\ m \in Nat /\ appends[m].at = reader.pos
      /\ EndOf(m) \in Nat /\ EndOf(m) = reader.pos + FrameBytes(n) /\ n \in Nat
      /\ appends[m].at < EndOf(m) /\ FrameBytes(n) \in Nat
  <2>1. m \in DOMAIN appends
    BY <1>3, FrameOrder
  <2>2. /\ m \in Nat /\ appends[m].at \in Nat /\ appends[m].size \in Nat
        /\ EndOf(m) = appends[m].at + 2 + appends[m].size /\ EndOf(m) \in Nat
    BY <2>1, MessageType
  <2>3. appends[m].at = reader.pos
    BY <1>1, <1>3, <2>2, SMT
  <2> QED BY <1>3, <2>1, <2>2, <2>3, SMT DEF FrameBytes
<1>5. EndOf(m) <= Len(file) /\ m \in Whole
  <2>1. EndOf(m) <= Len(file)
    BY <1>1, <1>4, SMT DEF Left
  <2> QED BY <1>3, <2>1, WholeIsBegun
<1>6. /\ reader' \in Readers /\ reader'.open /\ reader'.pos = EndOf(m)
      /\ reader'.eof = reader.eof /\ reader'.verdict = reader.verdict
  BY <1>1, <1>4, TakeMoves
<1>7. \A i, j \in DOMAIN reader'.records :
        i < j => i \in DOMAIN reader.records /\ reader'.records[i] = reader.records[i]
  BY <1>1, <1>4, TakeMoves
<1>8. \A i \in DOMAIN reader'.records :
        \/ i \in DOMAIN reader.records /\ reader'.records[i] = reader.records[i]
        \/ reader'.records[i] = m
  BY <1>1, <1>4, TakeMoves
<1>9. Returned' = Returned \cup {m}
  BY <1>1, <1>4, TakeMoves
<1>10. /\ Begun' = Begun /\ Whole' = Whole /\ Readable' = Readable
       /\ (EndsReadable' <=> EndsReadable) /\ (LargeFollows' <=> LargeFollows)
       /\ \A k : EndOf(k)' = EndOf(k)
  BY ReaderLeaves
<1>11. ASSUME NEW r \in Returned \ {0}
       PROVE  r \in Whole /\ r \in Begun /\ EndOf(r) <= reader.pos /\ EndOf(r) \in Nat
  <2>1. r \in Whole /\ EndOf(r) <= reader.pos
    BY DEF ReaderInv, PositionInv, InventsOnlyPastTooLarge
  <2> QED BY <2>1, WholeIsBegun, MessageType DEF Whole
<1>12. PositionInv'
  <2>1. 2 <= EndOf(m)
    BY <1>1, <1>4, SMT
  <2>2. \A r \in Returned' \ {0} : EndOf(r) <= EndOf(m)
    <3>1. \A r \in Returned \ {0} : EndOf(r) <= EndOf(m)
      BY <1>1, <1>4, <1>11, SMT
    <3>2. EndOf(m) <= EndOf(m)
      BY <1>4, SMT
    <3> QED BY <1>9, <3>1, <3>2
  <2> QED BY <1>5, <1>6, <1>10, <2>1, <2>2 DEF PositionInv
<1>13. InventsOnlyPastTooLarge'
  <2>1. (Returned \ {0})' \subseteq Whole'
    BY <1>5, <1>9, <1>10 DEF ReaderInv, InventsOnlyPastTooLarge
  <2>2. ASSUME NEW i \in DOMAIN reader'.records, NEW j \in DOMAIN reader'.records,
               i < j, reader'.records[j] # 0
        PROVE  reader'.records[i] < reader'.records[j]
    <3>1. i \in DOMAIN reader.records /\ reader'.records[i] = reader.records[i]
      BY <1>7, <2>2
    <3>2. CASE j \in DOMAIN reader.records /\ reader'.records[j] = reader.records[j]
      BY <2>2, <3>1, <3>2 DEF ReaderInv, InventsOnlyPastTooLarge
    <3>3. CASE reader'.records[j] = m
      <4>1. CASE reader.records[i] = 0
        BY <1>4, <2>2, <3>1, <3>3, <4>1, SMT
      <4>2. CASE reader.records[i] # 0
        <5>1. reader.records[i] \in Returned \ {0}
          BY <3>1, <4>2 DEF Returned
        <5>2. reader.records[i] \in Begun /\ EndOf(reader.records[i]) <= appends[m].at
          BY <1>4, <1>11, <5>1
        <5>3. reader.records[i] < m
          BY <1>3, <5>2, FrameOrder
        <5> QED BY <3>1, <3>3, <5>3
      <4> QED BY <4>1, <4>2
    <3> QED BY <1>8, <3>2, <3>3
  <2>3. 0 \in Returned' => reader'.verdict = "PayloadTooLarge"
    <3>1. m # 0
      <4>1. DOMAIN appends = 1 .. Len(appends)
        BY ElementOfSeq, LenProperties DEF LogType
      <4> QED BY <1>4, <4>1, SMT
    <3> QED BY <1>6, <1>9, <3>1 DEF ReaderInv, InventsOnlyPastTooLarge
  <2> QED BY <1>10, <2>1, <2>2, <2>3 DEF InventsOnlyPastTooLarge
<1>14. FirstInv'
  <2> SUFFICES ASSUME reader.verdict = "Ok" PROVE FirstInv'
    BY <1>6 DEF FirstInv
  <2>1. ASSUME NEW w \in Whole, EndOf(w) <= EndOf(m)
        PROVE  w \in Returned' /\ appends[w].size <= ReadLimit
    <3>1. w \in Begun /\ w \in DOMAIN appends
      BY WholeIsBegun DEF Whole
    <3>2. /\ w \in Nat /\ EndOf(w) \in Nat /\ appends[w].at < EndOf(w) /\ appends[w].at \in Nat
      BY <3>1, MessageType, SMT
    <3>3. (w < m => EndOf(w) <= appends[m].at) /\ (m < w => EndOf(m) <= appends[w].at)
      BY <1>3, <3>1, FrameOrder
    <3>4. w = m \/ EndOf(w) <= reader.pos
      BY <1>4, <2>1, <3>2, <3>3, SMT
    <3>5. CASE w = m
      BY <1>3, <1>9, <3>5
    <3>6. CASE EndOf(w) <= reader.pos
      BY <1>9, <3>6 DEF ReaderInv, FirstInv
    <3> QED BY <3>4, <3>5, <3>6
  <2> QED BY <1>5, <1>6, <1>10, <2>1 DEF FirstInv
<1>15. ReaderVerdictIsExact'
  <2>1. CASE reader.verdict = "Ok"
    <3>1. LogType' /\ PlacesInv'
      BY DEF LogType, PlacesInv, Log, Begun, Recorded, Torn, EndOf, Covers, UnitOf
    <3>2. (reader.open /\ reader.verdict = "Ok" /\ reader.pos \in Nat)'
      BY <1>4, <1>6, <2>1
    <3> QED BY <1>12, <1>13, <1>14, <3>1, <3>2, OkVerdict, PTL
  <2>2. CASE reader.verdict # "Ok"
    BY <1>6, <1>9, <1>10, <2>2 DEF ReaderInv, ReaderVerdictIsExact
  <2> QED BY <2>1, <2>2
<1>16. IdleInv' /\ EndedInv'
  BY <1>6 DEF ReaderInv, IdleInv, EndedInv
<1> QED BY <1>6, <1>12, <1>13, <1>14, <1>15, <1>16 DEF ReaderInv

\* read_next() gives every answer for the right reason.
LEMMA ReadNextStep ==
  ASSUME LogType, PlacesInv, ReaderInv, ~writer.open, ReadNext
  PROVE  ReaderInv'
<1>1. /\ reader.open /\ UNCHANGED <<writer, buffer, file, appends>>
      /\ \/ ReadEnd \/ ReadNoHeader
         \/ \E m \in 0 .. MaxMessages, n \in PayloadSizes :
              HeaderNext(m, n) /\ (ReadTooLarge(n) \/ ReadPayload(m, n))
  BY Zenon DEF ReadNext
<1>2. /\ reader \in Readers /\ reader.pos \in Nat /\ Len(file) \in Nat
      /\ reader.pos <= Len(file) /\ Left \in Nat /\ 0 \in Nat
  BY <1>1, FilePlaces, SMT DEF ReaderInv, Readers, PositionInv, Left
<1>3. reader.verdict = "Ok" => ~reader.eof
  BY <1>1 DEF ReaderInv, FirstInv
<1>4. reader.verdict = "Ok" /\ Left # 0 =>
        \E m \in Begun : /\ appends[m].at = reader.pos
                         /\ NextUnit.part = "header" /\ NextUnit.at = 1
                         /\ NextUnit.message = m /\ NextUnit.size = appends[m].size
  BY <1>1, NextFrame
<1>5. CASE ReadEnd
  <2>1. (reader.eof \/ Left = 0) /\ Answer("Eof", 0, TRUE) /\ 0 <= Left
    <3>1. 0 <= Left
      BY <1>2, SMT
    <3> QED BY <1>5, <3>1 DEF ReadEnd
  <2>2. ASSUME reader.verdict = "Ok" PROVE Readable \subseteq Returned /\ EndsReadable
    <3>1. Left = 0
      BY <1>3, <2>1, <2>2
    <3>2. \A r \in Readable : EndOf(r) <= reader.pos
      <4>1. \A r \in Readable : EndOf(r) <= Len(file)
        BY DEF Readable, Whole
      <4>2. Len(file) = reader.pos
        BY <1>2, <3>1, SMT DEF Left
      <4> QED BY <4>1, <4>2
    <3> QED BY <1>1, <2>2, <3>1, <3>2, NoMore
  <2> QED BY <1>1, <1>2, <2>1, <2>2, AnswerStep
<1>6. ASSUME reader.verdict = "Ok", Left # 0,
             NEW m \in Begun, appends[m].at = reader.pos,
             Len(file) < EndOf(m) \/ appends[m].size > ReadLimit
      PROVE  /\ Readable \subseteq Returned /\ ~EndsReadable
             /\ LargeFollows <=> appends[m].size > ReadLimit /\ Left >= 2
  <2>1. /\ \A r \in Readable : EndOf(r) <= reader.pos
        /\ LargeFollows <=> appends[m].size > ReadLimit /\ Left >= 2
    BY <1>1, <1>6, NotReadable
  <2> QED BY <1>1, <1>6, <2>1, NoMore
<1>7. ASSUME NEW m \in Begun, appends[m].at = reader.pos
      PROVE  /\ EndOf(m) = reader.pos + 2 + appends[m].size /\ appends[m].size \in Nat
             /\ FrameBytes(appends[m].size) = 2 + appends[m].size
  <2>1. m \in DOMAIN appends
    BY FrameOrder
  <2> QED BY <1>7, <2>1, MessageType DEF FrameBytes
<1>8. CASE ReadNoHeader
  <2>1. Left > 0 /\ ~reader.eof /\ ~AtFrame /\ Left # 0
        /\ Answer("InvalidHeader", IF Left = 1 THEN 1 ELSE 2, Left = 1)
    BY <1>2, <1>8, SMT DEF ReadNoHeader
  <2>2. ASSUME reader.verdict = "Ok"
        PROVE  Readable \subseteq Returned /\ ~EndsReadable /\ ~LargeFollows /\ Left = 1
    <3>1. PICK m \in Begun : /\ appends[m].at = reader.pos
                             /\ NextUnit.part = "header" /\ NextUnit.at = 1
      BY <1>4, <2>1, <2>2
    <3>2. ~(Left >= 2)
      BY <2>1, <3>1 DEF AtFrame
    <3>3. Len(file) < EndOf(m) /\ Left = 1
      BY <1>2, <1>7, <2>1, <3>1, <3>2, SMT DEF Left
    <3> QED BY <1>6, <2>1, <2>2, <3>1, <3>2, <3>3
  <2>3. CASE Left = 1
    <3>1. Answer("InvalidHeader", 1, TRUE)
      BY <2>1, <2>3
    <3>2. 1 \in Nat /\ 1 <= Left
      BY <2>3, SMT
    <3> QED BY <1>1, <2>2, <3>1, <3>2, AnswerStep
  <2>4. CASE Left # 1
    <3>1. Answer("InvalidHeader", 2, FALSE)
      BY <2>1, <2>4
    <3>2. 2 \in Nat /\ 2 <= Left
      BY <1>2, <2>1, <2>4, SMT
    <3> QED BY <1>1, <2>1, <2>2, <2>4, <3>1, <3>2, AnswerStep
  <2> QED BY <2>3, <2>4
<1>9. ASSUME NEW m \in 0 .. MaxMessages, NEW n \in PayloadSizes, HeaderNext(m, n),
             reader.verdict = "Ok"
      PROVE  AtFrame /\ \E k \in Begun : appends[k].at = reader.pos /\ n = appends[k].size
  <2>1. Left >= 2
    BY <1>9 DEF HeaderNext
  <2>2. Left # 0
    BY <1>2, <2>1, SMT
  <2>3. PICK k \in Begun : /\ appends[k].at = reader.pos
                           /\ NextUnit.part = "header" /\ NextUnit.at = 1
                           /\ NextUnit.size = appends[k].size
    BY <1>4, <1>9, <2>2
  <2>4. AtFrame
    BY <2>1, <2>3 DEF AtFrame
  <2> QED BY <1>9, <2>3, <2>4 DEF HeaderNext
<1>10. ASSUME NEW m \in 0 .. MaxMessages, NEW n \in PayloadSizes, HeaderNext(m, n),
              ReadTooLarge(n)
       PROVE  ReaderInv'
  <2>1. Answer("PayloadTooLarge", 2, FALSE) /\ Left >= 2 /\ ~reader.eof /\ n > ReadLimit
    BY <1>10 DEF ReadTooLarge, HeaderNext
  <2>2. Left >= 2
    BY <2>1
  <2>3. 2 <= Left /\ 2 \in Nat /\ Left # 0
    BY <1>2, <2>2, SMT
  <2>4. ASSUME reader.verdict = "Ok"
        PROVE  Readable \subseteq Returned /\ ~EndsReadable /\ LargeFollows
    <3>1. PICK k \in Begun : appends[k].at = reader.pos /\ n = appends[k].size
      BY <1>9, <1>10, <2>4
    <3>2. appends[k].size > ReadLimit
      BY <2>1, <3>1
    <3> QED BY <1>6, <2>2, <2>3, <2>4, <3>1, <3>2
  <2> QED BY <1>1, <2>1, <2>3, <2>4, AnswerStep
<1>11. ASSUME NEW m \in 0 .. MaxMessages, NEW n \in PayloadSizes, HeaderNext(m, n),
              ReadPayload(m, n)
       PROVE  ReaderInv'
  <2>1. /\ ~reader.eof /\ n <= ReadLimit
        /\ IF FrameBytes(n) <= Left THEN TakeRecord(m, n)
                                    ELSE Answer("InvalidHeader", Left, TRUE)
    BY <1>11, Zenon DEF ReadPayload
  <2>2. n \in Nat
    BY LogAssumption
  <2>3. CASE FrameBytes(n) <= Left /\ AtFrame
    BY <1>1, <1>11, <2>1, <2>3, TakeStep
  <2>4. CASE FrameBytes(n) <= Left /\ ~AtFrame
    <3>1. TakeRecord(0, n)
      BY <1>11, <2>1, <2>4 DEF HeaderNext
    <3>2. reader.verdict = "PayloadTooLarge"
      <4>1. reader.verdict # "Ok"
        BY <1>9, <1>11, <2>4
      <4>2. reader.verdict \notin {"Eof", "InvalidHeader"}
        BY <1>1, <2>1 DEF ReaderInv, EndedInv
      <4> QED BY <1>2, <4>1, <4>2 DEF Readers, ReadStatuses
    <3> QED BY <1>1, <2>2, <2>4, <3>1, <3>2, InventStep
  <2>5. CASE ~(FrameBytes(n) <= Left)
    <3>1. Answer("InvalidHeader", Left, TRUE) /\ Left <= Left /\ Left # 0
      <4>1. Left >= 2
        BY <1>11 DEF HeaderNext
      <4>2. Left <= Left /\ Left # 0
        BY <1>2, <4>1, SMT
      <4> QED BY <2>1, <2>5, <4>2
    <3>2. ASSUME reader.verdict = "Ok"
          PROVE  Readable \subseteq Returned /\ ~EndsReadable /\ ~LargeFollows
      <4>1. PICK k \in Begun : appends[k].at = reader.pos /\ n = appends[k].size
        BY <1>9, <1>11, <3>2
      <4>2. Len(file) < EndOf(k)
        <5>1. ~(2 + appends[k].size <= Len(file) - reader.pos)
          BY <1>7, <2>5, <4>1 DEF Left
        <5> QED BY <1>2, <1>7, <4>1, <5>1, SMT
      <4>3. ~(appends[k].size > ReadLimit)
        BY <1>7, <2>1, <4>1, LogAssumption, SMT
      <4> QED BY <1>6, <3>1, <3>2, <4>1, <4>2, <4>3
    <3> QED BY <1>1, <1>2, <3>1, <3>2, AnswerStep
  <2> QED BY <2>3, <2>4, <2>5
<1> QED BY <1>1, <1>5, <1>8, <1>10, <1>11

\* A reader that has just been opened, whatever the writer has left.
LEMMA ReaderOpened ==
  LogType /\ PlacesInv /\ ~writer.open
    /\ reader = (IF Len(file) >= 2 THEN NewReader(TRUE, "Ok")
                                   ELSE NewReader(FALSE, "InvalidHeader"))
  => ReaderInv
<1> SUFFICES ASSUME LogType, PlacesInv, ~writer.open,
                    reader = IF Len(file) >= 2 THEN NewReader(TRUE, "Ok")
                                               ELSE NewReader(FALSE, "InvalidHeader")
             PROVE  ReaderInv
  OBVIOUS
<1>1. CASE Len(file) >= 2
  BY <1>1, ReaderOpens
<1>2. CASE ~(Len(file) >= 2)
  <2>1. reader = NewReader("InvalidHeader" = "Ok", "InvalidHeader")
    BY <1>2
  <2> QED BY <1>2, <2>1, ReaderOpens
<1> QED BY <1>1, <1>2

\* A closed reader that has answered nothing claims nothing.
LEMMA ReaderClosed ==
  reader \in Readers /\ ~reader.open /\ reader.verdict = "Ok" /\ reader.records = <<>>
  => ReaderInv
BY ReaderIdle

\* Every step keeps what is known of the reader.
LEMMA ReaderNextInv ==
  LogInv /\ LogInv' /\ WrittenInv /\ WrittenInv' /\ ReaderInv /\ [Next]_vars => ReaderInv'
<1> SUFFICES ASSUME LogInv, LogInv', WrittenInv, WrittenInv', ReaderInv, [Next]_vars
             PROVE  ReaderInv'
  OBVIOUS
<1>1. LogType /\ LogType' /\ PlacesInv /\ PlacesInv'
  BY DEF LogInv, WrittenInv
<1>2. ASSUME reader' = NewReader(FALSE, "Ok") PROVE ReaderInv'
  <2>1. "Ok" \in ReadStatuses /\ FALSE \in BOOLEAN
    BY DEF ReadStatuses
  <2>2. (reader \in Readers)' /\ (~reader.open)' /\ (reader.verdict = "Ok")'
        /\ (reader.records = <<>>)'
    BY <1>2, <2>1, NewReaderType
  <2> QED BY <2>2, ReaderClosed, PTL
<1>3. CASE \E max \in Limits, policy \in Policies : Open(max, policy)
  BY <1>2, <1>3 DEF Open
<1>4. ASSUME writer.open, UNCHANGED reader PROVE ReaderInv'
  <2>1. /\ reader \in Readers /\ ~reader.open /\ reader.verdict = "Ok"
        /\ reader.records = <<>>
    BY <1>4 DEF ReaderInv, IdleInv
  <2>2. (reader \in Readers)' /\ (~reader.open)' /\ (reader.verdict = "Ok")'
        /\ (reader.records = <<>>)'
    BY <1>4, <2>1
  <2> QED BY <2>2, ReaderClosed, PTL
<1>5. CASE \E n \in PayloadSizes : AppendMessage(n)
  BY <1>4, <1>5 DEF AppendMessage
<1>6. CASE Flush \/ Close
  BY <1>4, <1>6 DEF Flush, Close, Emptied
<1>7. CASE Crash
  BY <1>4, <1>7 DEF Crash
<1>8. CASE OpenReader
  <2>1. /\ ~writer.open /\ UNCHANGED <<writer, file>>
        /\ reader' = IF Len(file) >= 2 THEN NewReader(TRUE, "Ok")
                                       ELSE NewReader(FALSE, "InvalidHeader")
    BY <1>8 DEF OpenReader
  <2>2. (~writer.open)' /\ (reader = (IF Len(file) >= 2 THEN NewReader(TRUE, "Ok")
                                      ELSE NewReader(FALSE, "InvalidHeader")))'
    BY <2>1
  <2> QED BY <1>1, <2>2, ReaderOpened, PTL
<1>9. CASE CloseReader
  BY <1>2, <1>9 DEF CloseReader
<1>10. CASE ReadNext
  <2>1. ~writer.open
    BY <1>10 DEF ReadNext, ReaderInv, IdleInv
  <2> QED BY <1>1, <1>10, <2>1, ReadNextStep
<1>11. CASE UNCHANGED vars
  <2>1. UNCHANGED <<writer, buffer, file, appends>> /\ UNCHANGED reader
    BY <1>11, Zenon DEF vars
  <2>2. /\ Returned' = Returned /\ Whole' = Whole /\ Readable' = Readable
        /\ (EndsReadable' <=> EndsReadable) /\ (LargeFollows' <=> LargeFollows)
        /\ \A m : EndOf(m)' = EndOf(m)
    BY <2>1, ReaderLeaves DEF Returned
  <2> QED BY <2>1, <2>2 DEF ReaderInv, IdleInv, PositionInv, FirstInv,
             EndedInv, InventsOnlyPastTooLarge, ReaderVerdictIsExact
<1> QED BY <1>3, <1>5, <1>6, <1>7, <1>8, <1>9, <1>10, <1>11 DEF Next

\* Where a reader stands in the file, and that what it has returned are the whole messages
\* before that place, holds after every answer of read_next() up to its first error.
THEOREM ReaderInvariance == Spec => []ReaderInv
BY ReaderInitInv, ReaderNextInv, LogInvariance, WrittenInvariance, PTL DEF Spec

\* The reader's first answer other than Ok is right about the file, and comes after every
\* readable message: for every cut a crash or an error can leave, and every size.
THEOREM VerdictHolds == Spec => []ReaderVerdictIsExact
<1>1. ReaderInv => ReaderVerdictIsExact
  BY DEF ReaderInv
<1> QED BY <1>1, ReaderInvariance, PTL

\* Whatever bytes the payloads hold, a reader returns whole messages in the order of the
\* log, and takes payload for a frame only after it has answered PayloadTooLarge: behind a
\* torn tail, and at the end of the file, it never invents a message.
THEOREM NothingIsInvented == Spec => []InventsOnlyPastTooLarge
<1>1. ReaderInv => InventsOnlyPastTooLarge
  BY DEF ReaderInv
<1> QED BY <1>1, ReaderInvariance, PTL

-----------------------------------------------------------------------------
\* The history is as long as the calls, no frame is counted without one, and a
\* reader that is not open has not moved.
LengthInv ==
  /\ Len(appends) <= MaxMessages /\ writer.frames <= Len(appends)
  /\ writer.max \in Limits \cup {0}
  /\ ~reader.open => reader.pos = 0

LEMMA LengthInit == Init => LengthInv
<1> SUFFICES ASSUME Init PROVE LengthInv OBVIOUS
<1>1. Len(appends) = 0 /\ writer.frames = 0 /\ writer.max = 0
      /\ reader.open = FALSE /\ reader.pos = 0
  BY DEF Init, NewReader
<1> QED BY <1>1, LogAssumption, SMT DEF LengthInv

LEMMA LengthStep ==
  ASSUME LogInv, ReaderInv, LengthInv, [Next]_vars
  PROVE  LengthInv'
<1>1. /\ writer \in Writers /\ Len(appends) \in Nat /\ writer.frames \in Nat
      /\ reader \in Readers /\ appends \in Seq(Appended)
  BY LenProperties, SMT DEF LogInv, LogType, Writers, ReaderInv
<1>2. CASE \E max \in Limits, policy \in Policies : Open(max, policy)
  <2>1. PICK max \in Limits, policy \in Policies : Open(max, policy)
    BY <1>2
  <2>2. writer'.frames = 0 /\ writer'.max = max /\ reader'.open = FALSE /\ reader'.pos = 0
    BY <2>1 DEF Open, NewWriter, NewReader
  <2>3. appends' = appends \/ appends' = <<>>
    BY <2>1 DEF Open
  <2>4. Len(appends') \in Nat /\ Len(appends') <= MaxMessages
    BY <1>1, <2>3, LogAssumption, SMT DEF LengthInv
  <2> QED BY <2>2, <2>4, SMT DEF LengthInv
<1>3. CASE \E n \in PayloadSizes : AppendMessage(n)
  <2>1. PICK n \in PayloadSizes : AppendMessage(n)
    BY <1>3
  <2>2. /\ writer'.frames \in {writer.frames, writer.frames + 1}
        /\ writer'.max = writer.max /\ UNCHANGED reader
        /\ Len(appends) < MaxMessages
        /\ \E r : appends' = Append(appends, r)
    <3>1. \A answer, limited :
            Refuse(answer, n, limited) =>
              /\ writer'.frames = writer.frames /\ writer'.max = writer.max
              /\ \E r : appends' = Append(appends, r)
      BY <1>1 DEF Refuse, Answered, Writers
    <3>2. Record(n) =>
            /\ writer'.frames \in {writer.frames, writer.frames + 1}
            /\ writer'.max = writer.max
            /\ \E r : appends' = Append(appends, r)
      BY <1>1 DEF Record, Answered, Writers
    <3> QED BY <2>1, <3>1, <3>2 DEF AppendMessage
  <2>3. Len(appends') = Len(appends) + 1
    BY <1>1, <2>2, SMT
  <2>4. Len(appends') <= MaxMessages /\ writer'.frames <= Len(appends')
    BY <1>1, <2>2, <2>3, LogAssumption, SMT DEF LengthInv
  <2> QED BY <2>2, <2>4 DEF LengthInv
<1>4. CASE Flush \/ Close \/ Crash
  <2>1. /\ writer'.frames = writer.frames /\ writer'.max = writer.max
        /\ UNCHANGED <<appends, reader>>
    <3>1. ASSUME NEW open \in BOOLEAN, Emptied(open)
          PROVE  writer'.frames = writer.frames /\ writer'.max = writer.max
      BY <1>1, <3>1 DEF Emptied, Writers
    <3>2. Crash => writer'.frames = writer.frames /\ writer'.max = writer.max
      BY <1>1 DEF Crash, Writers
    <3>3. UNCHANGED <<appends, reader>>
      BY <1>4 DEF Flush, Close, Crash, Emptied
    <3> QED BY <1>4, <3>1, <3>2, <3>3 DEF Flush, Close
  <2> QED BY <2>1 DEF LengthInv
<1>5. CASE OpenReader \/ CloseReader
  <2>1. UNCHANGED <<writer, appends>> /\ (~reader'.open => reader'.pos = 0)
    BY <1>5, SMT DEF OpenReader, CloseReader, NewReader
  <2> QED BY <2>1 DEF LengthInv
<1>6. CASE ReadNext
  <2>1. reader'.open = reader.open /\ reader.open
    BY <1>1, <1>6 DEF ReadNext, ReadEnd, ReadNoHeader, ReadTooLarge, ReadPayload, Answer,
                      TakeRecord, Readers
  <2> QED BY <1>6, <2>1 DEF ReadNext, LengthInv
<1>7. CASE UNCHANGED vars
  BY <1>7 DEF vars, LengthInv
<1> QED BY <1>2, <1>3, <1>4, <1>5, <1>6, <1>7 DEF Next

\* The counters, the file and the reader keep their types: no reader stands behind
\* the end of the file, whatever sizes the headers in it announce, and no more frames
\* are counted than messages were offered.
THEOREM LogTypeCorrect == Spec => []TypeOK
<1>1. LogInv /\ ReaderInv /\ LengthInv => TypeOK
  <2> SUFFICES ASSUME LogInv, ReaderInv, LengthInv PROVE TypeOK OBVIOUS
  <2>1. /\ writer \in Writers /\ reader \in Readers /\ Len(appends) \in Nat
        /\ Len(file) \in Nat /\ DOMAIN appends = 1 .. Len(appends)
    BY LenProperties DEF LogInv, LogType, ReaderInv
  <2>2. writer \in [open : BOOLEAN, bad : BOOLEAN, limited : BOOLEAN, bytes : Nat,
                    frames : 0 .. MaxMessages, max : Limits \cup {0}, policy : Policies]
    <3>1. writer.frames \in 0 .. MaxMessages
      BY <2>1, LogAssumption, SMT DEF Writers, LengthInv
    <3> QED BY <2>1, <3>1, Zenon DEF Writers, LengthInv
  <2>3. reader.pos \in 0 .. Len(file)
    <3>1. reader.pos \in Nat /\ reader.open \in BOOLEAN
      BY <2>1 DEF Readers
    <3>2. reader.pos <= Len(file)
      BY <2>1, <3>1, SMT DEF LengthInv, ReaderInv, PositionInv
    <3> QED BY <2>1, <3>1, <3>2, SMT
  <2>4. reader.records \in Seq(0 .. MaxMessages)
    <3>1. reader.records \in Seq(Nat)
      BY <2>1, Zenon DEF Readers
    <3>2. /\ Len(reader.records) \in Nat /\ DOMAIN reader.records = 1 .. Len(reader.records)
          /\ reader.records \in [1 .. Len(reader.records) -> Nat]
      BY <3>1, LenProperties
    <3>3. \A i \in 1 .. Len(reader.records) : reader.records[i] \in 0 .. MaxMessages
      <4>1. \A i \in 1 .. Len(reader.records) : reader.records[i] \in {0} \cup 1 .. Len(appends)
        BY <2>1, <3>2 DEF ReaderInv, InventsOnlyPastTooLarge, Returned, Whole
      <4>2. {0} \cup 1 .. Len(appends) \subseteq 0 .. MaxMessages
        BY <2>1, LogAssumption, SMT DEF LengthInv
      <4> QED BY <4>1, <4>2
    <3> DEFINE S == 0 .. MaxMessages
    <3> HIDE DEF S
    <3>4. PICK n \in Nat : reader.records \in [1 .. n -> S]
      BY <3>2, <3>3 DEF S
    <3>5. reader.records \in UNION {[1 .. k -> S] : k \in Nat}
      BY <3>4
    <3>6. Seq(S) = UNION {[1 .. k -> S] : k \in Nat}
      BY SeqDef
    <3>7. reader.records \in Seq(S)
      BY <3>5, <3>6
    <3> QED BY <3>7 DEF S
  <2>5. reader \in [open : BOOLEAN, pos : 0 .. Len(file), eof : BOOLEAN,
                    records : Seq(0 .. MaxMessages), verdict : ReadStatuses]
    BY <2>1, <2>3, <2>4, Zenon DEF Readers
  <2> QED BY <2>2, <2>5 DEF LogInv, LogType, Appended, TypeOK
<1> QED
  BY <1>1, LengthInit, LengthStep, LogInvariance, ReaderInvariance, PTL DEF Spec

=============================================================================
