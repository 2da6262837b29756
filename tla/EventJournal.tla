---------------------------- MODULE EventJournal ----------------------------
(***************************************************************************)
(* The journal of normalized events: the market thread enqueues, one       *)
(* writer thread drains the queue into an ofstream, and a reader, of the   *)
(* live file or of what a crash has left of it, gets the records back.     *)
(*                                                                         *)
(* Events are numbered in the order they are queued.  A file is a sequence *)
(* of units, which stand for the bytes: two for the file header, then two  *)
(* for the frame header and two for the payload of each event, so that a   *)
(* file can end inside any of them.  The ofstream keeps units in memory    *)
(* and hands them to the operating system when it likes; what a crash      *)
(* loses is what it kept.                                                  *)
(***************************************************************************)
EXTENDS SequencesExt

CONSTANTS
  Capacity,   \* of the queue
  MaxEvents   \* bound on the number of events enqueued

ASSUME JournalAssumption == Capacity \in Nat \ {0} /\ MaxEvents \in Nat

VARIABLES
  queue,      \* the ring of AsyncEventJournalQueue
  frame,      \* the frame the last try_pop handed to drain_one
  draining,   \* drain_one holds a popped frame it has not appended
  buffer,     \* units in the ofstream's memory
  file,       \* units the operating system has
  bad,        \* ~output_.good()
  crashed,    \* the process is gone
  enqueued,   \* history: how many events try_enqueue answered Queued for
  reader      \* an EventJournalReader

vars == <<queue, frame, draining, buffer, file, bad, crashed, enqueued, reader>>

Events == 1 .. MaxEvents
Both(part, e) == [half \in 1 .. 2 |-> [part |-> part, half |-> half, event |-> e]]
FileHeader == Both("file", 0)
FrameOf(e) == Both("header", e) \o Both("payload", e)
Units == [part : {"file", "header", "payload"}, half : 1 .. 2, event : 0 .. MaxEvents]
ReadStatuses == {"Record", "EndOfFile", "TruncatedTail", "Corrupt", "InvalidFile"}

\* The queue is used through its abstract specification, which SpscRing
\* implements.
Queue == INSTANCE BoundedFifo
           WITH items <- queue, popped <- frame, Values <- Events, NoValue <- 0

TypeOK ==
  /\ queue \in Seq(Events) /\ Len(queue) <= Capacity
  /\ frame \in Events \cup {0}
  /\ draining \in BOOLEAN /\ bad \in BOOLEAN /\ crashed \in BOOLEAN
  /\ buffer \in Seq(Units) /\ file \in Seq(Units)
  /\ enqueued \in 0 .. MaxEvents
  /\ reader \in [valid : BOOLEAN, eof : BOOLEAN, pos : 0 .. Len(file),
                 records : Seq(Events), afterCrash : BOOLEAN,
                 status : ReadStatuses,
                 verdict : ReadStatuses \cup {"None"}]

-----------------------------------------------------------------------------
(* The two threads of the process.                                         *)

\* try_enqueue.  A full queue answers Full and changes nothing.
TryEnqueue ==
  /\ ~crashed /\ enqueued < MaxEvents
  /\ Queue!Push(enqueued + 1)
  /\ enqueued' = enqueued + 1
  /\ UNCHANGED <<draining, buffer, file, bad, crashed, reader>>

SlipDrainPop ==   \* slip: the frame taken out is not kept for append_frame
  /\ ~crashed /\ ~draining
  /\ Queue!Pop
  /\ UNCHANGED <<draining, buffer, file, bad, crashed, enqueued, reader>>

\* drain_one first takes a frame out of the queue; an empty queue ends it.
DrainPop ==
  /\ ~crashed /\ ~draining
  /\ Queue!Pop
  /\ draining' = TRUE
  /\ UNCHANGED <<buffer, file, bad, crashed, enqueued, reader>>

\* What the stream does with units: any number of the oldest it holds reach the
\* file; an error sets badbit, and from then on nothing is written.
Stream(units) ==
  LET held == buffer \o units
  IN \E k \in 0 .. Len(held) :
       /\ file' = file \o SubSeq(held, 1, k)
       /\ \/ buffer' = SubSeq(held, k + 1, Len(held)) /\ UNCHANGED bad
          \/ k < Len(held) /\ buffer' = <<>> /\ bad' = TRUE

SlipAppend ==   \* slip: an earlier error is cleared before writing
  /\ ~crashed /\ draining
  /\ draining' = FALSE
  /\ LET held == buffer \o FrameOf(frame)
     IN \E k \in 0 .. Len(held) :
          /\ file' = file \o SubSeq(held, 1, k)
          /\ \/ buffer' = SubSeq(held, k + 1, Len(held)) /\ bad' = FALSE
             \/ k < Len(held) /\ buffer' = <<>> /\ bad' = TRUE
  /\ UNCHANGED <<queue, frame, crashed, enqueued, reader>>

\* append_frame: the header and the payload go to the stream; a stream that is
\* not good ignores both, and the popped frame is gone.
AppendFrame ==
  /\ ~crashed /\ draining
  /\ draining' = FALSE
  /\ \/ bad /\ UNCHANGED <<buffer, file, bad>>
     \/ ~bad /\ Stream(FrameOf(frame))
  /\ UNCHANGED <<queue, frame, crashed, enqueued, reader>>

Flush ==
  /\ ~crashed /\ ~draining /\ ~bad
  /\ \/ file' = file \o buffer /\ buffer' = <<>> /\ UNCHANGED bad
     \/ /\ bad' = TRUE /\ buffer' = <<>>
        /\ \E k \in 0 .. Len(buffer) - 1 : file' = file \o SubSeq(buffer, 1, k)
  /\ UNCHANGED <<queue, frame, draining, crashed, enqueued, reader>>

\* The process dies: the queue, the frame in hand and the buffer are lost.
Crash ==
  /\ ~crashed /\ crashed' = TRUE
  /\ queue' = <<>> /\ buffer' = <<>> /\ draining' = FALSE
  /\ UNCHANGED <<frame, file, bad, enqueued, reader>>

-----------------------------------------------------------------------------
(* The reader.                                                             *)

NewReader(valid) ==
  [valid |-> valid, pos |-> IF valid THEN Len(FileHeader) ELSE 0, eof |-> ~valid,
   records |-> <<>>, afterCrash |-> crashed, status |-> "InvalidFile",
   verdict |-> "None"]

OpenReader ==
  /\ reader' = NewReader(Len(file) >= Len(FileHeader))
  /\ UNCHANGED <<queue, frame, draining, buffer, file, bad, crashed, enqueued>>

Left == Len(file) - reader.pos
HeaderNext == \A i \in 1 .. 2 : file[reader.pos + i].part = "header"

\* next() answers st after reading n units: the first answer other than Record
\* is the reader's verdict on the file.
Answer(st, n, eof) ==
  reader' = [reader EXCEPT !.status = st, !.pos = @ + n, !.eof = eof,
               !.verdict = IF @ = "None" /\ st # "Record" THEN st ELSE @]

SlipReadEnd ==   \* slip: any short read of a header counts as a clean end
  reader.valid /\ (reader.eof \/ Left < 2) /\ Answer("EndOfFile", 0, TRUE)

\* Nothing left, or an earlier read has run into the end of the stream.
ReadEnd ==
  reader.valid /\ (reader.eof \/ Left = 0) /\ Answer("EndOfFile", 0, TRUE)

\* The file ends inside a header, or inside the payload of a good header.
ReadTruncated ==
  /\ reader.valid /\ ~reader.eof
  /\ Left = 1 \/ (Left \in 2 .. 3 /\ HeaderNext)
  /\ Answer("TruncatedTail", Left, TRUE)

TakeRecord ==
  reader' = [reader EXCEPT !.status = "Record", !.pos = @ + 4,
               !.records = Append(@, file[reader.pos + 4].event)]

SlipReadRecord ==   \* slip: the length of the payload that was read is not checked
  /\ reader.valid /\ ~reader.eof /\ Left >= 2
  /\ IF HeaderNext
       THEN reader' = [reader EXCEPT !.status = "Record",
                         !.pos = @ + (IF Left >= 4 THEN 4 ELSE Left),
                         !.records = Append(@, file[reader.pos + 2].event)]
       ELSE Answer("Corrupt", 2, FALSE)

ReadRecord ==
  /\ reader.valid /\ ~reader.eof /\ Left >= 2
  /\ IF HeaderNext THEN Left >= 4 /\ TakeRecord
                   ELSE Answer("Corrupt", 2, FALSE)

ReadInvalid == ~reader.valid /\ Answer("InvalidFile", 0, TRUE)

ReadNext ==
  /\ ReadInvalid \/ ReadEnd \/ ReadTruncated \/ ReadRecord
  /\ UNCHANGED <<queue, frame, draining, buffer, file, bad, crashed, enqueued>>

-----------------------------------------------------------------------------
\* The writer's constructor: the stream holds the file header, or did not open.
Init ==
  /\ Queue!Init
  /\ draining = FALSE
  /\ file = <<>>
  /\ \/ buffer = FileHeader /\ bad = FALSE
     \/ buffer = <<>> /\ bad = TRUE
  /\ crashed = FALSE
  /\ enqueued = 0
  /\ reader = [NewReader(FALSE) EXCEPT !.afterCrash = FALSE]

Next ==
  \/ TryEnqueue
  \/ DrainPop
  \/ AppendFrame
  \/ Flush
  \/ Crash
  \/ OpenReader
  \/ ReadNext

Spec == Init /\ [][Next]_vars

-----------------------------------------------------------------------------
(* Properties.                                                             *)

Enqueued == [i \in 1 .. enqueued |-> i]

\* The place of the i-th unit of an event's frame in a file that has lost nothing,
\* and whether units are a first part of that file, cut anywhere.
Place(e, i) == 2 + 4 * (e - 1) + i
IsCut(units) ==
  /\ Len(units) <= 2 + 4 * enqueued
  /\ \A i \in 1 .. 2 : i <= Len(units) => units[i] = FileHeader[i]
  /\ \A e \in 1 .. enqueued, i \in 1 .. 4 :
       Place(e, i) <= Len(units) => units[Place(e, i)] = FrameOf(e)[i]

\* The events of units that start as a file does and are frames from then on.
EventsOf(units) == [i \in 1 .. (Len(units) - 2) \div 4 |-> units[Place(i, 4)].event]

\* Whatever was lost to a write error or a crash was lost at the end: the file is
\* a first part of what it would be without losses, cut anywhere.  A stream that
\* has failed once must never be written to again, or the journal gets a hole
\* nobody sees.
JournalHasNoHole == IsCut(file)

\* While the writer is good, every event that was queued is still in the queue,
\* in the frame being drained, in the stream or in the file, in this order.
\* drain_one answers false both for an empty queue and for a lost frame: good()
\* is what tells the two apart.
GoodLosesNothing ==
  ~bad /\ ~crashed =>
    Enqueued = EventsOf(file \o buffer)
                 \o (IF draining THEN <<frame>> ELSE <<>>) \o queue

\* A reader of the growing file, or of what a crash left, gets the events in
\* order from the first, and never takes a torn tail for corruption.
ReaderSeesPrefix ==
  IsPrefix(reader.records, Enqueued) /\ reader.status # "Corrupt"

\* The first verdict on a file left by a crash is exact: everything whole was
\* returned, and TruncatedTail, EndOfFile and InvalidFile say how it ends.  (Only
\* the first: a reader asked again after TruncatedTail answers EndOfFile.)
VerdictIsExact ==
  LET next == Place(Len(reader.records) + 1, 0)   \* where the records read end
  IN reader.afterCrash /\ reader.verdict # "None" =>
       /\ reader.verdict = "InvalidFile" => Len(file) < 2 /\ reader.records = <<>>
       /\ reader.verdict = "EndOfFile" => Len(file) = next
       /\ reader.verdict = "TruncatedTail" => next < Len(file) /\ Len(file) < next + 4
       /\ reader.verdict \in {"InvalidFile", "EndOfFile", "TruncatedTail"}

=============================================================================
