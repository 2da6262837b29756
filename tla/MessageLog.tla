----------------------------- MODULE MessageLog -----------------------------
(***************************************************************************)
(* The log of raw provider messages: MessageLogWriter records messages     *)
(* until a byte limit, under one of three policies, and MessageLogReader   *)
(* gets back what a closed writer or a crash has left.                     *)
(*                                                                         *)
(* A file is a sequence of units standing for bytes: two for the file      *)
(* header, two for each frame header, then the payload, whose size differs *)
(* from message to message.  All sizes and limits are counted in units.    *)
(* Messages are numbered in the order append() is called for them; 0 is a  *)
(* message no append() was called for.                                     *)
(*                                                                         *)
(* Only what the log itself puts into a file is known.  A payload holds    *)
(* what its sender likes, also bytes that pass for a frame header: where   *)
(* no frame begins, what the reader finds is any choice at each call.      *)
(***************************************************************************)
EXTENDS Naturals, Sequences, FiniteSets

CONSTANTS
  MaxMessages,   \* bound on the append() calls after one open()
  PayloadSizes,  \* sizes of the messages offered
  MaxFrameSize,  \* the largest payload_size a frame header can name
  Limits,        \* values of max_total_bytes; 0 is no limit
  ReadLimit      \* max_payload_bytes of the reader

ASSUME LogAssumption ==
  /\ MaxMessages \in Nat /\ MaxFrameSize \in Nat /\ ReadLimit \in Nat
  /\ PayloadSizes \subseteq Nat /\ Limits \subseteq Nat

VARIABLES
  writer,   \* a MessageLogWriter
  buffer,   \* units in the ofstream's memory
  file,     \* units the operating system has
  appends,  \* history: of every append() since open(), size, answer and bytes before it
  reader    \* a MessageLogReader

vars == <<writer, buffer, file, appends, reader>>

Policies == {"StopRecording", "DropNew", "RotateDeleteOldest"}
Answers == {"Written", "DroppedByLimit", "StoppedByLimit", "PayloadTooLarge",
            "IoError", "RotateNotImplemented"}
ReadStatuses == {"Ok", "Eof", "InvalidHeader", "PayloadTooLarge"}

Unit(part, i, m, n) == [part |-> part, at |-> i, message |-> m, size |-> n]
FileHeader == [i \in 1 .. 2 |-> Unit("file", i, 0, 0)]
Units == [part : {"file", "header", "payload"}, at : Nat,
          message : 0 .. MaxMessages, size : PayloadSizes \cup {0}]
Frame(m, n) == [i \in 1 .. 2 |-> Unit("header", i, m, n)]
                 \o [i \in 1 .. n |-> Unit("payload", i, m, n)]

TypeOK ==
  /\ writer \in [open : BOOLEAN, bad : BOOLEAN, limited : BOOLEAN, bytes : Nat,
                 frames : 0 .. MaxMessages, max : Limits \cup {0}, policy : Policies]
  /\ buffer \in Seq(Units) /\ file \in Seq(Units)
  /\ appends \in Seq([size : PayloadSizes, answer : Answers, at : Nat])
  /\ reader \in [open : BOOLEAN, pos : 0 .. Len(file), eof : BOOLEAN,
                 records : Seq(0 .. MaxMessages), verdict : ReadStatuses]

-----------------------------------------------------------------------------
(* The writer.                                                             *)

\* What the stream makes of units: a first part of what it holds reaches the
\* file, and the rest stays, or is lost with an error, after which the stream
\* ignores every write.
Stream(units) ==
  IF writer.bad THEN writer'.bad /\ UNCHANGED <<buffer, file>>
  ELSE LET held == buffer \o units
       IN \E k \in 0 .. Len(held) :
            /\ file' = file \o SubSeq(held, 1, k)
            /\ \/ ~writer'.bad /\ buffer' = SubSeq(held, k + 1, Len(held))
               \/ writer'.bad /\ k < Len(held) /\ buffer' = <<>>

\* A reader of the file as it is now, with nothing read.
NewReader(open, status) ==
  [open |-> open, pos |-> IF open THEN 2 ELSE 0, eof |-> FALSE, records |-> <<>>,
   verdict |-> status]

NewWriter(open, bytes, max, policy) ==
  [open |-> open, bad |-> ~open, limited |-> FALSE, bytes |-> bytes, frames |-> 0,
   max |-> max, policy |-> policy]

\* open() forgets what the writer counted and truncates the file.  It fails when
\* the file cannot be opened, which leaves it as it is, or its header written.
Open(max, policy) ==
  /\ ~writer.open /\ ~reader.open
  /\ \/ /\ writer' = NewWriter(TRUE, 2, max, policy)
        /\ \E k \in 0 .. 2 : file' = SubSeq(FileHeader, 1, k)
                          /\ buffer' = SubSeq(FileHeader, k + 1, 2)
        /\ appends' = <<>>
     \/ /\ writer' = NewWriter(FALSE, 0, max, policy)
        /\ \/ UNCHANGED <<file, appends>>
           \/ file' \in {<<>>, SubSeq(FileHeader, 1, 1)} /\ appends' = <<>>
        /\ UNCHANGED buffer
  /\ reader' = NewReader(FALSE, "Ok")

FrameBytes(n) == 2 + n

\* append() returns: a message of n units was offered, and got this answer.
Answered(n, answer) ==
  appends' = Append(appends, [size |-> n, answer |-> answer, at |-> writer.bytes])

SlipWouldExceed(n) ==   \* slip: what was already written is not subtracted
  writer.max # 0 /\ n > writer.max

\* would_exceed_limit, for a frame of n units.
WouldExceed(n) ==
  /\ writer.max # 0
  /\ writer.bytes > writer.max \/ n > writer.max - writer.bytes

\* handle_limit: what append() answers at the limit, and whether it is the end.
LimitAnswer ==
  CASE writer.policy = "StopRecording" -> "StoppedByLimit"
    [] writer.policy = "DropNew" -> "DroppedByLimit"
    [] writer.policy = "RotateDeleteOldest" -> "RotateNotImplemented"

SlipLimitedAfter == writer.policy = "StopRecording"   \* slip: rotation goes on
LimitedAfter == writer.policy # "DropNew"

Refuse(answer, n, limited) ==
  /\ writer' = [writer EXCEPT !.limited = limited]
  /\ Answered(n, answer)
  /\ UNCHANGED <<buffer, file>>

SlipRecord(n) ==   \* slip: the counters are advanced before the stream is asked
  \E bad \in BOOLEAN :
    /\ writer' = [writer EXCEPT !.bad = bad, !.bytes = @ + FrameBytes(n),
                                !.frames = @ + 1]
    /\ Stream(Frame(Len(appends) + 1, n))
    /\ Answered(n, IF bad THEN "IoError" ELSE "Written")

\* The part of append() that writes.
Record(n) ==
  \E bad \in BOOLEAN :
    /\ writer' = IF bad THEN [writer EXCEPT !.bad = TRUE]
                 ELSE [writer EXCEPT !.bytes = @ + FrameBytes(n), !.frames = @ + 1]
    /\ bad \/ ~writer.bad
    /\ Stream(Frame(Len(appends) + 1, n))
    /\ Answered(n, IF bad THEN "IoError" ELSE "Written")

\* append() of a message with a payload of n units; a closed writer only answers
\* WriterClosed.
AppendMessage(n) ==
  /\ writer.open /\ Len(appends) < MaxMessages
  /\ \/ writer.limited /\ Refuse("StoppedByLimit", n, TRUE)
     \/ ~writer.limited /\ n > MaxFrameSize /\ Refuse("PayloadTooLarge", n, FALSE)
     \/ /\ ~writer.limited /\ n <= MaxFrameSize
        /\ IF WouldExceed(FrameBytes(n)) THEN Refuse(LimitAnswer, n, LimitedAfter)
                                         ELSE Record(n)
  /\ UNCHANGED reader

\* The stream is emptied into the file, or fails on the way.
Emptied(open) ==
  /\ writer' \in {[writer EXCEPT !.open = open], [writer EXCEPT !.open = open, !.bad = TRUE]}
  /\ Stream(<<>>)
  /\ buffer' = <<>>
  /\ UNCHANGED <<appends, reader>>

Flush == writer.open /\ Emptied(TRUE)
Close == writer.open /\ Emptied(FALSE)

\* The process dies with what the stream still held.
Crash ==
  /\ writer.open
  /\ writer' = [writer EXCEPT !.open = FALSE]
  /\ buffer' = <<>>
  /\ UNCHANGED <<file, appends, reader>>

-----------------------------------------------------------------------------
(* The reader, of a file nobody is writing.                                *)

OpenReader ==
  /\ ~writer.open
  /\ reader' = IF Len(file) >= 2 THEN NewReader(TRUE, "Ok")
                                 ELSE NewReader(FALSE, "InvalidHeader")
  /\ UNCHANGED <<writer, buffer, file, appends>>

CloseReader ==
  /\ reader.open
  /\ reader' = NewReader(FALSE, "Ok")
  /\ UNCHANGED <<writer, buffer, file, appends>>

Left == Len(file) - reader.pos
NextUnit == file[reader.pos + 1]

\* read_next() answers after taking n units; the first answer other than Ok is
\* the reader's verdict on the file.
Answer(status, n, eof) ==
  reader' = [reader EXCEPT !.pos = @ + n, !.eof = eof,
               !.verdict = IF @ = "Ok" THEN status ELSE @]

TakeRecord(m, n) ==
  reader' = [reader EXCEPT !.pos = @ + FrameBytes(n), !.records = Append(@, m)]

\* A frame begins where the reader stands.
AtFrame == Left >= 2 /\ NextUnit.part = "header" /\ NextUnit.at = 1

\* The next units pass for the header of message m with a payload of n units: they
\* are one, or they have its magic, version and size, as any bytes of a payload may.
HeaderNext(m, n) ==
  /\ Left >= 2
  /\ IF AtFrame THEN m = NextUnit.message /\ n = NextUnit.size ELSE m = 0

SlipReadEnd ==   \* slip: any short read of a header is the end of the file
  (reader.eof \/ Left < 2) /\ Answer("Eof", 0, TRUE)
ReadEnd == (reader.eof \/ Left = 0) /\ Answer("Eof", 0, TRUE)

\* Fewer units than a header, or units that are not one: a torn tail looks like
\* a damaged file.
ReadNoHeader ==
  /\ ~reader.eof /\ Left > 0 /\ ~AtFrame
  /\ Answer("InvalidHeader", IF Left = 1 THEN 1 ELSE 2, Left = 1)

\* The header is taken and its payload is left: the next call starts inside it.
ReadTooLarge(n) ==
  ~reader.eof /\ n > ReadLimit /\ Answer("PayloadTooLarge", 2, FALSE)

SlipReadPayload(m, n) ==   \* slip: the number of payload units read is not checked
  /\ ~reader.eof /\ n <= ReadLimit
  /\ reader' = [reader EXCEPT !.pos = IF Left < FrameBytes(n) THEN Len(file) ELSE @ + FrameBytes(n),
                              !.records = Append(@, m)]

ReadPayload(m, n) ==
  /\ ~reader.eof /\ n <= ReadLimit
  /\ IF FrameBytes(n) <= Left THEN TakeRecord(m, n)
                              ELSE Answer("InvalidHeader", Left, TRUE)

ReadNext ==
  /\ reader.open
  /\ \/ ReadEnd
     \/ ReadNoHeader
     \/ \E m \in 0 .. MaxMessages, n \in PayloadSizes :
          HeaderNext(m, n) /\ (ReadTooLarge(n) \/ ReadPayload(m, n))
  /\ UNCHANGED <<writer, buffer, file, appends>>

-----------------------------------------------------------------------------
Init ==
  /\ writer = [open |-> FALSE, bad |-> FALSE, limited |-> FALSE, bytes |-> 0,
               frames |-> 0, max |-> 0, policy |-> "StopRecording"]
  /\ buffer = <<>> /\ file = <<>> /\ appends = <<>>
  /\ reader = NewReader(FALSE, "Ok")

Next ==
  \/ \E max \in Limits, policy \in Policies : Open(max, policy)
  \/ \E n \in PayloadSizes : AppendMessage(n)
  \/ Flush
  \/ Close
  \/ Crash
  \/ OpenReader
  \/ CloseReader
  \/ ReadNext

Spec == Init /\ [][Next]_vars

-----------------------------------------------------------------------------
(* Properties.                                                             *)

\* The messages append() has written, the one it has failed to write, and the places
\* of a message's frame.
Recorded == {m \in DOMAIN appends : appends[m].answer = "Written"}
Torn == {m \in DOMAIN appends :
           /\ appends[m].answer = "IoError"
           /\ \A j \in 1 .. m - 1 : appends[j].answer # "IoError"}
Begun == Recorded \cup Torn
EndOf(m) == appends[m].at + FrameBytes(appends[m].size)
Covers(m, p) == appends[m].at < p /\ p <= EndOf(m)
UnitOf(m, p) == Frame(m, appends[m].size)[p - appends[m].at]

\* Disk use is bounded: what is in the file and on its way there never passes the
\* limit, whatever the policy, the sizes and the errors were; only the file header
\* is written without asking.
WithinLimit ==
  writer.bytes # 0 /\ writer.max # 0 =>
    Len(file \o buffer) <= IF writer.max < 2 THEN 2 ELSE writer.max

\* The counters name exactly the messages that were answered Written: their frames lie
\* one behind the other, in order and without a gap, from the file header up to bytes.
\* While no write has failed that is what the log holds; after a failure the log is a
\* first part of it and of the frame that failed: nothing is missing before its end.
LogIsWhatWasWritten ==
  LET log == file \o buffer
  IN writer.bytes # 0 =>
       /\ \A i, j \in Begun : i < j => EndOf(i) <= appends[j].at
       /\ \A m \in Recorded : 2 <= appends[m].at /\ EndOf(m) <= writer.bytes
       /\ \A p \in 3 .. writer.bytes : \E m \in Recorded : Covers(m, p)
       /\ \A m \in Torn : appends[m].at = writer.bytes
       /\ writer.frames = Cardinality(Recorded)
       /\ writer.open /\ ~writer.bad => Len(log) = writer.bytes
       /\ \A p \in 1 .. Len(log) :
            IF p <= 2 THEN log[p] = FileHeader[p]
            ELSE \E m \in Begun : Covers(m, p) /\ log[p] = UnitOf(m, p)

\* A message refused because the log is full or broken is not followed by one that
\* is written, except under DropNew: the others leave no hole in the middle.  (A
\* payload too large for a frame is passed over under every policy.)
RefusalsAreFinal ==
  \A i, j \in DOMAIN appends :
    /\ i < j
    /\ appends[i].answer \in {"StoppedByLimit", "RotateNotImplemented", "IoError"}
    => appends[j].answer # "Written"

\* The messages whose frames are whole in the file, and those of them that come before
\* one the reader finds too large.
Whole == {m \in DOMAIN appends :
            /\ EndOf(m) <= Len(file)
            /\ \A p \in appends[m].at + 1 .. EndOf(m) : file[p] = UnitOf(m, p)}
Readable == {m \in Whole : \A j \in Whole : j <= m => appends[j].size <= ReadLimit}
Returned == {reader.records[i] : i \in DOMAIN reader.records}

\* Nothing follows the readable messages, or what follows is the whole header of a
\* message that is too large.
EndsReadable == Len(file) >= 2 /\ \A p \in 3 .. Len(file) : \E m \in Readable : p <= EndOf(m)
LargeFollows ==
  \E m \in Begun : /\ appends[m].at + 2 <= Len(file) /\ appends[m].size > ReadLimit
                   /\ \A j \in Begun : j < m => j \in Readable

\* The reader returns every readable message, without passing over one, before its
\* first other answer, which is Eof only if nothing follows them.  A torn tail is
\* InvalidHeader.
ReaderVerdictIsExact ==
  IF reader.verdict = "Ok"
    THEN reader.open => /\ Returned \subseteq Readable
                        /\ \A m \in Readable, r \in Returned : m < r => m \in Returned
    ELSE /\ Readable \subseteq Returned
         /\ reader.verdict = IF EndsReadable THEN "Eof"
                             ELSE IF LargeFollows THEN "PayloadTooLarge"
                             ELSE "InvalidHeader"

\* However often read_next() is called, what it returns are whole messages, each once
\* and in the order of the log, and a message nobody recorded at most behind one that
\* was too large, whose payload it then takes for frames: a torn or damaged tail, and
\* the end of the file, never make it invent one.
InventsOnlyPastTooLarge ==
  /\ Returned \ {0} \subseteq Whole
  /\ \A i, j \in DOMAIN reader.records :
       i < j /\ reader.records[j] # 0 => reader.records[i] < reader.records[j]
  /\ 0 \in Returned => reader.verdict = "PayloadTooLarge"

=============================================================================
