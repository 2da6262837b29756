--------------------------- MODULE RecoveryProofs ---------------------------
(***************************************************************************)
(* For every capacity of the queue and every number of events.             *)
(*                                                                         *)
(* The journal has no hole, and a reader, of a growing file or of what a   *)
(* crash left, gets a first part of what was queued.  The argument follows *)
(* one event at a time: what is queued is numbered without gaps behind     *)
(* what was taken out, and while the stream is good the file and the       *)
(* buffer together hold exactly what was taken out.                        *)
(*                                                                         *)
(* Recovery runs the journal: every step of it is one of EventJournal, so  *)
(* that the journal's invariants hold.  With them: what is committed is in *)
(* the file, a checkpoint never goes back, and replay continues exactly    *)
(* where the applied events end.                                           *)
(***************************************************************************)
EXTENDS Recovery, SequenceTheorems, TLAPS

Readers ==
  [valid : BOOLEAN, eof : BOOLEAN, pos : Nat, records : Seq(Nat),
   afterCrash : BOOLEAN, status : ReadStatuses, verdict : ReadStatuses \cup {"None"}]

JournalType ==
  /\ queue \in Seq(Nat) /\ frame \in Nat /\ enqueued \in Nat
  /\ draining \in BOOLEAN /\ bad \in BOOLEAN /\ crashed \in BOOLEAN
  /\ buffer \in Seq(Units) /\ file \in Seq(Units)
  /\ enqueued <= MaxEvents

Hand == IF draining THEN 1 ELSE 0
Log == file \o buffer

\* The queue holds the last events, in order, and the frame in hand the one before.
QueueInv ==
  /\ Len(queue) + Hand <= enqueued
  /\ \A i \in 1 .. Len(queue) : queue[i] = (enqueued - Len(queue)) + i
  /\ draining => frame = enqueued - Len(queue)

LogInv ==
  /\ IsCut(Log)
  /\ ~bad /\ ~crashed => Len(Log) = 2 + 4 * (enqueued - Len(queue) - Hand)

ReaderInv ==
  /\ reader \in Readers
  /\ reader.pos <= Len(file)
  /\ \A i \in 1 .. Len(reader.records) : reader.records[i] = i
  /\ IF reader.valid THEN 2 + 4 * Len(reader.records) <= Len(file)
                     ELSE Len(reader.records) = 0
  /\ reader.valid /\ ~reader.eof => reader.pos = 2 + 4 * Len(reader.records)
  /\ reader.status # "Corrupt"

JournalInv == JournalType /\ QueueInv /\ LogInv /\ ReaderInv

-----------------------------------------------------------------------------
(* The units of a file.                                                    *)

LEMMA HeaderUnits ==
  /\ FileHeader \in Seq(Units) /\ Len(FileHeader) = 2
<1>1. \A i \in 1 .. 2 : [part |-> "file", half |-> i, event |-> 0] \in Units
  BY JournalAssumption, SMT DEF Units
<1> QED BY <1>1, SMT DEF FileHeader, Both

LEMMA FrameUnits ==
  ASSUME NEW e \in 1 .. MaxEvents
  PROVE  /\ FrameOf(e) \in Seq(Units) /\ Len(FrameOf(e)) = 4
         /\ \A i \in 1 .. 2 : FrameOf(e)[i].part = "header"
         /\ FrameOf(e)[4].event = e
<1>1. \A part \in {"header", "payload"}, i \in 1 .. 2 :
        [part |-> part, half |-> i, event |-> e] \in Units
  BY JournalAssumption, SMT DEF Units
<1>2. /\ Both("header", e) \in Seq(Units) /\ Len(Both("header", e)) = 2
      /\ \A i \in 1 .. 2 : Both("header", e)[i].part = "header"
  BY <1>1, SMT DEF Both
<1>3. /\ Both("payload", e) \in Seq(Units) /\ Len(Both("payload", e)) = 2
      /\ Both("payload", e)[2].event = e
  BY <1>1, SMT DEF Both
<1>4. /\ FrameOf(e) \in Seq(Units)
      /\ Len(FrameOf(e)) = Len(Both("header", e)) + Len(Both("payload", e))
      /\ \A i \in 1 .. Len(Both("header", e)) + Len(Both("payload", e)) :
           FrameOf(e)[i] = IF i <= Len(Both("header", e)) THEN Both("header", e)[i]
                           ELSE Both("payload", e)[i - Len(Both("header", e))]
  BY <1>2, <1>3, ConcatProperties DEF FrameOf
<1> QED BY <1>2, <1>3, <1>4, SMT

\* A first part of a cut is a cut.
LEMMA CutOfFirstPart ==
  ASSUME NEW u \in Seq(Units), NEW v \in Seq(Units), enqueued \in Nat, IsCut(u),
         Len(v) <= Len(u), \A i \in 1 .. Len(v) : v[i] = u[i]
  PROVE  IsCut(v)
<1>1. Len(u) \in Nat /\ Len(v) \in Nat
  BY LenProperties
<1>2. \A i \in 1 .. 2 : i <= Len(v) => i \in 1 .. Len(v) /\ i <= Len(u)
  BY <1>1, SMT
<1>3. \A e \in 1 .. enqueued, i \in 1 .. 4 :
        Place(e, i) <= Len(v) => Place(e, i) \in 1 .. Len(v) /\ Place(e, i) <= Len(u)
  BY <1>1, SMT DEF Place
<1>4. Len(v) <= 2 + 4 * enqueued
  BY <1>1, SMT DEF IsCut
<1> QED BY <1>2, <1>3, <1>4 DEF IsCut

\* A file that has lost nothing before an event may get its frame next.
LEMMA CutGrows ==
  ASSUME NEW u \in Seq(Units), enqueued \in 0 .. MaxEvents, IsCut(u),
         NEW e \in 1 .. enqueued, Len(u) = 2 + 4 * (e - 1)
  PROVE  u \o FrameOf(e) \in Seq(Units) /\ IsCut(u \o FrameOf(e))
<1> DEFINE w == u \o FrameOf(e)
<1>1. e \in 1 .. MaxEvents /\ enqueued \in Nat
  BY JournalAssumption, SMT
<1>2. FrameOf(e) \in Seq(Units) /\ Len(FrameOf(e)) = 4
  BY <1>1, FrameUnits
<1>3. /\ w \in Seq(Units)
      /\ Len(w) = Len(u) + Len(FrameOf(e))
      /\ \A i \in 1 .. Len(u) + Len(FrameOf(e)) :
           w[i] = IF i <= Len(u) THEN u[i] ELSE FrameOf(e)[i - Len(u)]
  BY <1>2, ConcatProperties
<1> HIDE DEF w
<1>4. Len(w) = 2 + 4 * e
  BY <1>1, <1>2, <1>3, SMT
<1>5. Len(w) <= 2 + 4 * enqueued
  BY <1>1, <1>4, SMT
<1>6. \A i \in 1 .. 2 : i <= Len(w) => w[i] = FileHeader[i]
  <2>1. \A i \in 1 .. 2 : i <= Len(u) /\ i \in 1 .. Len(u) + Len(FrameOf(e))
    BY <1>1, <1>2, SMT
  <2> QED BY <1>3, <2>1 DEF IsCut
<1>7. ASSUME NEW d \in 1 .. enqueued, NEW i \in 1 .. 4, Place(d, i) <= Len(w)
      PROVE  w[Place(d, i)] = FrameOf(d)[i]
  <2>1. Place(d, i) \in 1 .. Len(u) + Len(FrameOf(e)) /\ d <= e
    BY <1>1, <1>2, <1>4, <1>7, SMT DEF Place
  <2>2. CASE d < e
    <3>1. Place(d, i) <= Len(u)
      BY <1>1, <2>2, SMT DEF Place
    <3> QED BY <1>3, <2>1, <3>1 DEF IsCut
  <2>3. CASE d = e
    <3>1. ~(Place(d, i) <= Len(u)) /\ Place(d, i) - Len(u) = i
      BY <1>1, <2>3, SMT DEF Place
    <3> QED BY <1>3, <2>1, <2>3, <3>1
  <2> QED BY <1>1, <2>1, <2>2, <2>3, SMT
<1> QED BY <1>3, <1>5, <1>6, <1>7 DEF IsCut, w

\* How units are grouped does not matter.
LEMMA Regroup ==
  ASSUME NEW s \in Seq(Units), NEW t \in Seq(Units), NEW u \in Seq(Units)
  PROVE  (s \o t) \o u = s \o (t \o u)
BY ConcatAssociative

\* What a stream that takes units does to the file and the buffer: nothing is lost,
\* or everything from some place on.
LEMMA StreamMoves ==
  ASSUME file \in Seq(Units), buffer \in Seq(Units), NEW units \in Seq(Units),
         NEW k \in 0 .. Len(buffer \o units),
         file' = file \o SubSeq(buffer \o units, 1, k),
         \/ buffer' = SubSeq(buffer \o units, k + 1, Len(buffer \o units))
         \/ buffer' = <<>>
  PROVE  /\ file' \in Seq(Units) /\ buffer' \in Seq(Units) /\ Log' \in Seq(Units)
         /\ Len(file) <= Len(file')
         /\ Log \o units \in Seq(Units)
         /\ buffer' = SubSeq(buffer \o units, k + 1, Len(buffer \o units))
              => Log' = Log \o units
         /\ Len(Log') <= Len(Log \o units)
         /\ \A i \in 1 .. Len(Log') : Log'[i] = (Log \o units)[i]
<1> DEFINE held == buffer \o units
           first == SubSeq(held, 1, k)
           rest == SubSeq(held, k + 1, Len(held))
<1>1. held \in Seq(Units) /\ Len(held) \in Nat
  BY ConcatProperties, LenProperties
<1>2. /\ first \in Seq(Units) /\ rest \in Seq(Units) /\ Len(first) = k
      /\ Len(rest) = Len(held) - k
  <2>1. \A i \in 1 .. Len(held) : held[i] \in Units
    BY <1>1, ElementOfSeq
  <2> HIDE DEF held
  <2> QED BY <1>1, <2>1, SMT DEF held
<1>3. first \o rest = held
  <2> HIDE DEF held
  <2>1. 1 \in 1 .. Len(held) + 1 /\ k \in 1 - 1 .. Len(held) /\ Len(held) \in k .. Len(held)
    BY <1>1, SMT DEF held
  <2>2. first \o rest = SubSeq(held, 1, Len(held))
    BY <1>1, <2>1, ConcatAdjacentSubSeq
  <2> QED BY <1>1, <2>2, SubSeqFull
<1>4. Log \o units = file \o held
  BY ConcatAssociative DEF Log
<1>5. file \o held = (file \o first) \o rest
  <2> HIDE DEF held, first, rest
  <2>1. (file \o first) \o rest = file \o (first \o rest)
    BY <1>2, Regroup
  <2> QED BY <1>3, <2>1
<1>6. file' = file \o first /\ (buffer' = rest \/ buffer' = <<>>)
  OBVIOUS
<1>7. /\ file \o first \in Seq(Units)
      /\ Len(file \o first) = Len(file) + Len(first)
      /\ Len(file) \in Nat
  <2> HIDE DEF first
  <2> QED BY <1>2, ConcatProperties, LenProperties
<1>8. /\ (file \o first) \o rest \in Seq(Units)
      /\ Len((file \o first) \o rest) = Len(file \o first) + Len(rest)
      /\ \A i \in 1 .. Len(file \o first) + Len(rest) :
           ((file \o first) \o rest)[i]
             = IF i <= Len(file \o first) THEN (file \o first)[i]
               ELSE rest[i - Len(file \o first)]
  <2> HIDE DEF first, rest
  <2> DEFINE begun == file \o first
  <2>1. begun \in Seq(Units) /\ rest \in Seq(Units)
    BY <1>2, <1>7
  <2> HIDE DEF begun
  <2>2. /\ begun \o rest \in Seq(Units)
        /\ Len(begun \o rest) = Len(begun) + Len(rest)
        /\ \A i \in 1 .. Len(begun) + Len(rest) :
             (begun \o rest)[i] = IF i <= Len(begun) THEN begun[i]
                                  ELSE rest[i - Len(begun)]
    BY <2>1, ConcatProperties
  <2> QED BY <2>2 DEF begun
<1>9. buffer' = <<>> => Log' = file \o first
  BY <1>6, <1>7, ConcatEmptySeq DEF Log
<1>10. buffer' = rest => Log' = (file \o first) \o rest
  BY <1>6 DEF Log
<1> HIDE DEF held, first, rest
<1>11. Len(file) <= Len(file') /\ file' \in Seq(Units)
  BY <1>2, <1>6, <1>7, SMT
<1>12. buffer' \in Seq(Units) /\ Log' \in Seq(Units)
  BY <1>2, <1>6, <1>7, <1>8, <1>9, <1>10, EmptySeq
<1>13. CASE buffer' = rest
  <2>1. Log' = Log \o units
    BY <1>4, <1>5, <1>10, <1>13
  <2>2. Len(Log') \in Nat
    BY <1>12, LenProperties
  <2> QED BY <1>8, <1>10, <1>11, <1>12, <1>13, <2>1, <2>2, SMT DEF rest, held
<1>14. CASE buffer' = <<>> /\ buffer' # rest
  <2>1. Len(Log') = Len(file \o first) /\ Len(file \o first) \in Nat
    BY <1>7, <1>9, <1>14, LenProperties
  <2>2. Len(Log \o units) = Len(file \o first) + Len(rest) /\ Len(rest) \in Nat
    BY <1>2, <1>4, <1>5, <1>8, LenProperties
  <2>3. \A i \in 1 .. Len(Log') : /\ i \in 1 .. Len(file \o first) + Len(rest)
                                  /\ i <= Len(file \o first)
    BY <2>1, <2>2, SMT
  <2>4. \A i \in 1 .. Len(Log') : Log'[i] = (Log \o units)[i]
    BY <1>4, <1>5, <1>8, <1>9, <1>14, <2>3
  <2>5. Len(Log') <= Len(Log \o units)
    BY <2>1, <2>2, SMT
  <2> QED BY <1>4, <1>5, <1>8, <1>11, <1>12, <1>14, <2>4, <2>5 DEF rest, held
<1> QED BY <1>6, <1>13, <1>14

-----------------------------------------------------------------------------
(* The readers' answers.                                                   *)

\* What the operations assign to a reader's fields keeps its type.
LEMMA ReaderUpdates ==
  /\ \A r \in Readers, st \in ReadStatuses : [r EXCEPT !.status = st] \in Readers
  /\ \A r \in Readers, p \in Nat : [r EXCEPT !.pos = p] \in Readers
  /\ \A r \in Readers, b \in BOOLEAN : [r EXCEPT !.eof = b] \in Readers
  /\ \A r \in Readers, b \in BOOLEAN : [r EXCEPT !.afterCrash = b] \in Readers
  /\ \A r \in Readers, q \in Seq(Nat) : [r EXCEPT !.records = q] \in Readers
  /\ \A r \in Readers, v \in ReadStatuses \cup {"None"} : [r EXCEPT !.verdict = v] \in Readers
<1>1. \A r \in Readers, st \in ReadStatuses : [r EXCEPT !.status = st] \in Readers
  BY SMT DEF Readers, ReadStatuses
<1>2. \A r \in Readers, p \in Nat : [r EXCEPT !.pos = p] \in Readers
  BY SMT DEF Readers
<1>3. \A r \in Readers, b \in BOOLEAN : [r EXCEPT !.eof = b] \in Readers
  BY SMT DEF Readers
<1>4. \A r \in Readers, b \in BOOLEAN : [r EXCEPT !.afterCrash = b] \in Readers
  BY SMT DEF Readers
<1>5. \A r \in Readers, q \in Seq(Nat) : [r EXCEPT !.records = q] \in Readers
  <2> DEFINE S == Seq(Nat)
             R == [valid : BOOLEAN, eof : BOOLEAN, pos : Nat, records : S, afterCrash : BOOLEAN,
                   status : ReadStatuses, verdict : ReadStatuses \cup {"None"}]
  <2>1. \A r \in R, q \in S : [r EXCEPT !.records = q] \in R
    <3> HIDE DEF S
    <3> QED BY SMT
  <2> QED BY <2>1 DEF Readers
<1>6. \A r \in Readers, v \in ReadStatuses \cup {"None"} : [r EXCEPT !.verdict = v] \in Readers
  BY SMT DEF Readers
<1> QED BY <1>1, <1>2, <1>3, <1>4, <1>5, <1>6

\* What next() assigns to the reader's fields keeps its type and the rest.
LEMMA AnswerFields ==
  ASSUME reader \in Readers, NEW st \in ReadStatuses, NEW n \in Nat, NEW eof \in BOOLEAN,
         Answer(st, n, eof)
  PROVE  /\ reader' \in Readers /\ reader'.records = reader.records
         /\ reader'.valid = reader.valid /\ reader'.eof = eof
         /\ reader'.pos = reader.pos + n /\ reader'.status = st
         /\ reader'.afterCrash = reader.afterCrash
         /\ st # "Record" /\ reader.verdict = "None" => reader'.verdict = st
         /\ reader.verdict # "None" => reader'.verdict = reader.verdict
<1> DEFINE verdict == IF reader.verdict = "None" /\ st # "Record" THEN st ELSE reader.verdict
<1>1. reader.verdict \in ReadStatuses \cup {"None"} /\ reader.pos \in Nat
  BY SMT DEF Readers
<1>2. verdict \in ReadStatuses \cup {"None"} /\ reader.pos + n \in Nat
  BY <1>1, SMT
<1>3. reader' = [reader EXCEPT !.status = st, !.pos = reader.pos + n, !.eof = eof,
                   !.verdict = verdict]
  BY DEF Answer
<1> HIDE DEF verdict
<1>4. [[[[reader EXCEPT !.status = st] EXCEPT !.pos = reader.pos + n] EXCEPT !.eof = eof]
         EXCEPT !.verdict = verdict] \in Readers
  BY <1>2, ReaderUpdates, Zenon
<1>5. reader' \in Readers
  BY <1>3, <1>4
<1>6. reader'.verdict = verdict
  BY <1>3, <1>5, Zenon DEF Readers
<1>7. /\ reader'.records = reader.records /\ reader'.valid = reader.valid /\ reader'.eof = eof
      /\ reader'.pos = reader.pos + n /\ reader'.status = st
      /\ reader'.afterCrash = reader.afterCrash
  BY <1>3, <1>5, Zenon DEF Readers
<1> QED BY <1>5, <1>6, <1>7 DEF verdict

LEMMA TakeRecordFields ==
  ASSUME reader \in Readers, NEW e \in Nat,
         reader' = [reader EXCEPT !.status = "Record", !.pos = reader.pos + 4,
                      !.records = Append(reader.records, e)]
  PROVE  /\ reader' \in Readers /\ reader'.records = Append(reader.records, e)
         /\ reader'.valid = reader.valid /\ reader'.eof = reader.eof
         /\ reader'.pos = reader.pos + 4 /\ reader'.status = "Record"
         /\ reader'.afterCrash = reader.afterCrash /\ reader'.verdict = reader.verdict
<1>1. /\ reader.pos + 4 \in Nat /\ Append(reader.records, e) \in Seq(Nat)
  BY SMT DEF Readers
<1>2. "Record" \in ReadStatuses
  BY DEF ReadStatuses
<1>3. [[[reader EXCEPT !.status = "Record"] EXCEPT !.pos = reader.pos + 4]
         EXCEPT !.records = Append(reader.records, e)] \in Readers
  BY <1>1, <1>2, ReaderUpdates, Zenon
<1>4. reader' \in Readers
  BY <1>3
<1> QED BY <1>4, Zenon DEF Readers

LEMMA NewReaderType ==
  ASSUME NEW valid \in BOOLEAN, crashed \in BOOLEAN
  PROVE  /\ NewReader(valid) \in Readers /\ NewReader(valid).valid = valid
         /\ NewReader(valid).pos = IF valid THEN 2 ELSE 0
         /\ NewReader(valid).records = <<>> /\ NewReader(valid).status = "InvalidFile"
         /\ NewReader(valid).eof = ~valid /\ NewReader(valid).afterCrash = crashed
         /\ NewReader(valid).verdict = "None"
<1>1. NewReader(valid) \in Readers
  BY HeaderUnits, EmptySeq, SMT DEF NewReader, Readers, ReadStatuses
<1> QED BY <1>1, HeaderUnits, Zenon DEF NewReader

-----------------------------------------------------------------------------
(* One step of the process.                                                *)

LEMMA JournalInitInv == Init => JournalInv
<1> SUFFICES ASSUME Init PROVE JournalInv OBVIOUS
<1>1. queue = <<>> /\ frame = 0
  BY DEF Init, Queue!Init
<1>2. /\ buffer \in Seq(Units) /\ file = <<>> /\ Log = buffer
      /\ Len(buffer) <= 2 /\ (~bad => Len(buffer) = 2)
      /\ \A i \in 1 .. Len(buffer) : buffer[i] = FileHeader[i]
  <2>1. CASE buffer = FileHeader /\ bad = FALSE
    BY <2>1, HeaderUnits, ConcatEmptySeq DEF Init, Log
  <2>2. CASE buffer = <<>> /\ bad = TRUE
    BY <2>2, EmptySeq, SMT DEF Init, Log
  <2> QED BY <2>1, <2>2 DEF Init
<1>3. JournalType
  <2>1. draining \in BOOLEAN /\ bad \in BOOLEAN /\ crashed \in BOOLEAN
    BY Zenon DEF Init
  <2>2. enqueued \in Nat /\ enqueued <= MaxEvents /\ frame \in Nat
    BY <1>1, JournalAssumption, SMT DEF Init
  <2> QED BY <1>1, <1>2, <2>1, <2>2, EmptySeq DEF JournalType
<1>4. QueueInv
  BY <1>1, SMT DEF Init, QueueInv, Hand
<1>5. LogInv
  <2>1. Len(buffer) \in Nat
    BY <1>2, LenProperties
  <2>2. IsCut(buffer)
    <3>1. \A i \in 1 .. 2 : i <= Len(buffer) => i \in 1 .. Len(buffer)
      BY <2>1, SMT
    <3>2. enqueued = 0 /\ 1 .. enqueued = {}
      BY SMT DEF Init
    <3> QED BY <1>2, <2>1, <3>1, <3>2, SMT DEF IsCut
  <2> QED BY <1>1, <1>2, <2>2, SMT DEF Init, LogInv, Hand
<1>6. ReaderInv
  <2> DEFINE new == NewReader(FALSE)
  <2>1. /\ new \in Readers /\ new.valid = FALSE /\ new.pos = 0
        /\ new.records = <<>> /\ new.status = "InvalidFile"
    BY NewReaderType DEF Init
  <2>2. reader = [new EXCEPT !.afterCrash = FALSE]
    BY DEF Init
  <2> HIDE DEF new
  <2>3. reader \in Readers
    BY <2>1, <2>2, ReaderUpdates
  <2>4. /\ reader.valid = FALSE /\ reader.pos = 0
        /\ reader.records = <<>> /\ reader.status = "InvalidFile"
    BY <2>1, <2>2, Zenon DEF Readers
  <2> QED BY <1>2, <2>3, <2>4, SMT DEF ReaderInv
<1> QED BY <1>3, <1>4, <1>5, <1>6 DEF JournalInv

\* The facts about lengths every step needs.
LEMMA Lengths ==
  ASSUME JournalInv
  PROVE  /\ Len(queue) \in Nat /\ Len(buffer) \in Nat /\ Len(file) \in Nat
         /\ Log \in Seq(Units) /\ Len(Log) = Len(file) + Len(buffer)
         /\ Hand \in 0 .. 1 /\ enqueued \in 0 .. MaxEvents
<1>1. /\ Len(queue) \in Nat /\ Len(buffer) \in Nat /\ Len(file) \in Nat
      /\ Log \in Seq(Units) /\ Len(Log) = Len(file) + Len(buffer)
  BY LenProperties, ConcatProperties DEF JournalInv, JournalType, Log
<1> QED BY <1>1, JournalAssumption, SMT DEF JournalInv, JournalType, Hand

\* A file that only grows leaves its readers as right as they were.
LEMMA ReaderKeeps ==
  ASSUME JournalInv, UNCHANGED reader, file' \in Seq(Units), Len(file) <= Len(file')
  PROVE  ReaderInv'
<1>1. /\ Len(file) \in Nat /\ Len(file') \in Nat /\ Len(reader.records) \in Nat
      /\ reader.pos \in Nat
  BY Lengths, LenProperties, SMT DEF JournalInv, ReaderInv, Readers
<1> QED BY <1>1, SMT DEF JournalInv, ReaderInv

LEMMA EnqueueStep == ASSUME JournalInv, TryEnqueue PROVE JournalInv'
<1>1. /\ queue' = Append(queue, enqueued + 1) /\ enqueued' = enqueued + 1 /\ frame' = frame
      /\ UNCHANGED <<draining, buffer, file, bad, crashed, reader>>
      /\ enqueued < MaxEvents /\ queue \in Seq(Nat) /\ enqueued \in Nat
  BY DEF TryEnqueue, Queue!Push, JournalInv, JournalType
<1>2. /\ queue' \in Seq(Nat) /\ Len(queue') = Len(queue) + 1
      /\ \A i \in 1 .. Len(queue) : queue'[i] = queue[i]
      /\ queue'[Len(queue) + 1] = enqueued + 1
  BY <1>1, SMT
<1>3. JournalType'
  BY <1>1, <1>2, JournalAssumption, SMT DEF JournalInv, JournalType
<1>4. QueueInv'
  <2>1. Hand' = Hand
    BY <1>1 DEF Hand
  <2>2. Len(queue) \in Nat /\ Hand \in 0 .. 1 /\ Len(queue) + Hand <= enqueued
    BY Lengths DEF JournalInv, QueueInv
  <2>3. ASSUME NEW i \in 1 .. Len(queue')
        PROVE  queue'[i] = (enqueued' - Len(queue')) + i
    <3>1. CASE i \in 1 .. Len(queue)
      BY <1>1, <1>2, <2>2, <3>1, SMT DEF JournalInv, QueueInv
    <3>2. CASE i = Len(queue) + 1
      BY <1>1, <1>2, <2>2, <3>2, SMT
    <3> QED BY <1>2, <2>2, <3>1, <3>2, SMT
  <2>4. Len(queue') + Hand' <= enqueued' /\ enqueued' - Len(queue') = enqueued - Len(queue)
    BY <1>1, <1>2, <2>1, <2>2, SMT
  <2> QED BY <1>1, <2>3, <2>4 DEF JournalInv, QueueInv
<1>5. LogInv'
  <2>1. Log' = Log /\ Hand' = Hand
    BY <1>1 DEF Log, Hand
  <2>2. IsCut(Log)'
    <3>1. Len(Log) \in Nat /\ Len(Log) <= 2 + 4 * enqueued
      BY Lengths DEF JournalInv, LogInv, IsCut
    <3>2. Len(Log) <= 2 + 4 * enqueued'
      BY <1>1, <3>1, SMT
    <3>3. \A e \in 1 .. enqueued', i \in 1 .. 4 : Place(e, i) <= Len(Log) => e \in 1 .. enqueued
      BY <1>1, <3>1, SMT DEF Place
    <3> QED BY <2>1, <3>2, <3>3 DEF JournalInv, LogInv, IsCut
  <2>3. ~bad /\ ~crashed => Len(Log) = 2 + 4 * (enqueued' - Len(queue') - Hand')
    BY <1>1, <1>2, <2>1, Lengths, SMT DEF JournalInv, LogInv
  <2> QED BY <1>1, <2>1, <2>2, <2>3 DEF LogInv
<1>6. ReaderInv'
  BY <1>1 DEF JournalInv, ReaderInv
<1> QED BY <1>3, <1>4, <1>5, <1>6 DEF JournalInv

LEMMA DrainPopStep == ASSUME JournalInv, DrainPop PROVE JournalInv'
<1>1. /\ queue # <<>> /\ queue' = Tail(queue) /\ frame' = Head(queue)
      /\ ~draining /\ draining' = TRUE
      /\ UNCHANGED <<buffer, file, bad, crashed, enqueued, reader>>
      /\ queue \in Seq(Nat) /\ enqueued \in Nat
  BY DEF DrainPop, Queue!Pop, JournalInv, JournalType
<1>2. /\ queue' \in Seq(Nat) /\ Len(queue') = Len(queue) - 1 /\ Len(queue) \in Nat \ {0}
      /\ \A i \in 1 .. Len(queue') : queue'[i] = queue[i + 1]
      /\ frame' \in Nat
  BY <1>1, HeadTailProperties, EmptySeq
<1>3. frame' = queue[1]
  BY <1>1, <1>2, SMT
<1>4. JournalType'
  BY <1>1, <1>2 DEF JournalInv, JournalType
<1>5. Hand = 0 /\ Hand' = 1 /\ Len(queue) <= enqueued
      /\ \A i \in 1 .. Len(queue) : queue[i] = (enqueued - Len(queue)) + i
  BY <1>1, <1>2, SMT DEF Hand, JournalInv, QueueInv
<1>6. QueueInv'
  <2>1. \A i \in 1 .. Len(queue') : queue'[i] = (enqueued - Len(queue')) + i
    BY <1>1, <1>2, <1>5, SMT
  <2>2. frame' = enqueued - Len(queue') /\ Len(queue') + 1 <= enqueued
    BY <1>1, <1>2, <1>3, <1>5, SMT
  <2> QED BY <1>1, <1>5, <2>1, <2>2 DEF QueueInv
<1>7. LogInv'
  <2>1. enqueued - Len(queue') - 1 = enqueued - Len(queue) - 0
    BY <1>1, <1>2, SMT
  <2> QED BY <1>1, <1>5, <2>1 DEF JournalInv, LogInv, Log, IsCut
<1>8. ReaderInv'
  BY <1>1 DEF JournalInv, ReaderInv
<1> QED BY <1>4, <1>6, <1>7, <1>8 DEF JournalInv

LEMMA AppendFrameStep == ASSUME JournalInv, AppendFrame PROVE JournalInv'
<1>1. /\ ~crashed /\ draining /\ draining' = FALSE
      /\ UNCHANGED <<queue, frame, crashed, enqueued, reader>>
  BY DEF AppendFrame
<1>2. /\ Hand = 1 /\ Hand' = 0 /\ Len(queue) \in Nat /\ enqueued \in Nat
      /\ Len(queue) + 1 <= enqueued /\ frame = enqueued - Len(queue)
      /\ enqueued \in 0 .. MaxEvents
  BY <1>1, Lengths, SMT DEF Hand, JournalInv, QueueInv
<1>3. QueueInv'
  BY <1>1, <1>2, SMT DEF JournalInv, QueueInv
<1>4. CASE bad /\ UNCHANGED <<buffer, file, bad>>
  <2>1. JournalType' /\ ReaderInv'
    BY <1>1, <1>4 DEF JournalInv, JournalType, ReaderInv
  <2>2. LogInv'
    BY <1>1, <1>4 DEF JournalInv, LogInv, Log, IsCut
  <2> QED BY <1>3, <2>1, <2>2 DEF JournalInv
<1>5. CASE ~bad /\ Stream(FrameOf(frame))
  <2>1. frame \in 1 .. enqueued /\ frame \in 1 .. MaxEvents
    BY <1>2, JournalAssumption, SMT
  <2>2. FrameOf(frame) \in Seq(Units) /\ Len(FrameOf(frame)) = 4
    BY <2>1, FrameUnits
  <2>3. Len(Log) = 2 + 4 * (frame - 1)
    BY <1>1, <1>2, <1>5, SMT DEF JournalInv, LogInv
  <2>4. IsCut(Log \o FrameOf(frame))
    BY <1>2, <2>1, <2>3, Lengths, CutGrows DEF JournalInv, LogInv
  <2>5. PICK k \in 0 .. Len(buffer \o FrameOf(frame)) :
          /\ file' = file \o SubSeq(buffer \o FrameOf(frame), 1, k)
          /\ \/ /\ buffer' = SubSeq(buffer \o FrameOf(frame), k + 1,
                                    Len(buffer \o FrameOf(frame)))
                /\ UNCHANGED bad
             \/ k < Len(buffer \o FrameOf(frame)) /\ buffer' = <<>> /\ bad' = TRUE
    BY <1>5, Zenon DEF Stream
  <2>6. file \in Seq(Units) /\ buffer \in Seq(Units)
    BY DEF JournalInv, JournalType
  <2>7. /\ file' \in Seq(Units) /\ buffer' \in Seq(Units) /\ Log' \in Seq(Units)
        /\ Len(file) <= Len(file') /\ Log \o FrameOf(frame) \in Seq(Units)
        /\ buffer' = SubSeq(buffer \o FrameOf(frame), k + 1, Len(buffer \o FrameOf(frame)))
             => Log' = Log \o FrameOf(frame)
        /\ Len(Log') <= Len(Log \o FrameOf(frame))
        /\ \A i \in 1 .. Len(Log') : Log'[i] = (Log \o FrameOf(frame))[i]
    BY <2>2, <2>5, <2>6, StreamMoves
  <2>8. JournalType'
    BY <1>1, <1>5, <2>5, <2>7 DEF JournalInv, JournalType
  <2>9. IsCut(Log')
    BY <1>2, <2>4, <2>7, CutOfFirstPart
  <2>10. ~bad' => Len(Log') = 2 + 4 * (enqueued' - Len(queue') - Hand')
    <3>1. ~bad' => Len(Log') = Len(Log \o FrameOf(frame))
      BY <2>5, <2>7
    <3>2. Len(Log \o FrameOf(frame)) = Len(Log) + Len(FrameOf(frame))
      BY <2>2, Lengths, ConcatProperties
    <3>3. Len(Log) + 4 = 2 + 4 * (enqueued - Len(queue) - 0)
      BY <1>2, <2>3, SMT
    <3> QED BY <1>1, <1>2, <2>2, <3>1, <3>2, <3>3
  <2>11. LogInv'
    BY <1>1, <2>9, <2>10 DEF LogInv, IsCut
  <2>12. ReaderInv'
    BY <1>1, <2>7, ReaderKeeps
  <2> QED BY <1>3, <2>8, <2>11, <2>12 DEF JournalInv
<1> QED BY <1>4, <1>5 DEF AppendFrame

LEMMA FlushKeepsInv == ASSUME JournalInv, Flush PROVE JournalInv'
<1>1. /\ ~crashed /\ ~draining /\ ~bad
      /\ UNCHANGED <<queue, frame, draining, crashed, enqueued, reader>>
      /\ file \in Seq(Units) /\ buffer \in Seq(Units) /\ enqueued \in Nat
  BY DEF Flush, JournalInv, JournalType
<1>2. Len(buffer) \in Nat /\ Log \in Seq(Units) /\ IsCut(Log)
  BY Lengths DEF JournalInv, LogInv
<1>3. CASE file' = file \o buffer /\ buffer' = <<>> /\ UNCHANGED bad
  <2>1. file' \in Seq(Units) /\ buffer' \in Seq(Units) /\ Log' = Log
    BY <1>2, <1>3, EmptySeq, ConcatEmptySeq DEF Log
  <2>2. Len(file) <= Len(file')
    <3>1. file' = Log /\ Len(Log) = Len(file) + Len(buffer) /\ Len(file) \in Nat
      BY <1>3, Lengths DEF Log
    <3> QED BY <1>2, <3>1, SMT
  <2>3. JournalType' /\ QueueInv'
    BY <1>1, <1>3, <2>1 DEF JournalInv, JournalType, QueueInv, Hand
  <2>4. LogInv'
    BY <1>1, <1>3, <2>1 DEF JournalInv, LogInv, IsCut, Hand
  <2>5. ReaderInv'
    BY <1>1, <2>1, <2>2, ReaderKeeps
  <2> QED BY <2>3, <2>4, <2>5 DEF JournalInv
<1>4. CASE /\ bad' = TRUE /\ buffer' = <<>>
           /\ \E k \in 0 .. Len(buffer) - 1 : file' = file \o SubSeq(buffer, 1, k)
  <2>1. PICK k \in 0 .. Len(buffer) - 1 : file' = file \o SubSeq(buffer, 1, k)
    BY <1>4
  <2>2. k \in 0 .. Len(buffer) /\ buffer \o <<>> = buffer /\ <<>> \in Seq(Units)
    BY <1>1, <1>2, EmptySeq, ConcatEmptySeq, SMT
  <2>3. /\ file' \in Seq(Units) /\ buffer' \in Seq(Units) /\ Log' \in Seq(Units)
        /\ Len(file) <= Len(file')
        /\ Len(Log') <= Len(Log \o <<>>)
        /\ \A i \in 1 .. Len(Log') : Log'[i] = (Log \o <<>>)[i]
    BY <1>1, <1>4, <2>1, <2>2, StreamMoves
  <2>4. Log \o <<>> = Log
    BY <1>2, ConcatEmptySeq
  <2>5. IsCut(Log')
    BY <1>1, <1>2, <2>3, <2>4, CutOfFirstPart
  <2>6. JournalType' /\ QueueInv'
    BY <1>1, <1>4, <2>3 DEF JournalInv, JournalType, QueueInv, Hand
  <2>7. LogInv'
    BY <1>1, <1>4, <2>5 DEF LogInv, IsCut
  <2>8. ReaderInv'
    BY <1>1, <2>3, ReaderKeeps
  <2> QED BY <2>6, <2>7, <2>8 DEF JournalInv
<1> QED BY <1>3, <1>4 DEF Flush

\* A crash leaves a first part of the log.
LEMMA CrashStep == ASSUME JournalInv, Crash PROVE JournalInv'
<1>1. /\ crashed' = TRUE /\ queue' = <<>> /\ buffer' = <<>> /\ draining' = FALSE
      /\ UNCHANGED <<frame, file, bad, enqueued, reader>>
      /\ file \in Seq(Units) /\ buffer \in Seq(Units) /\ enqueued \in Nat
  BY DEF Crash, JournalInv, JournalType
<1>2. JournalType'
  BY <1>1, EmptySeq DEF JournalInv, JournalType
<1>3. QueueInv'
  BY <1>1, SMT DEF QueueInv, Hand
<1>4. LogInv'
  <2>1. Log' = file /\ Len(file) \in Nat /\ Len(Log) = Len(file) + Len(buffer)
        /\ Len(buffer) \in Nat /\ Log \in Seq(Units)
    BY <1>1, Lengths, ConcatEmptySeq DEF Log
  <2>2. \A i \in 1 .. Len(file) : file[i] = Log[i]
    BY <1>1, <2>1, ConcatProperties, SMT DEF Log
  <2>3. Len(file) <= Len(Log)
    BY <2>1, SMT
  <2>4. IsCut(file)
    BY <1>1, <2>1, <2>2, <2>3, CutOfFirstPart DEF JournalInv, LogInv
  <2> QED BY <1>1, <2>1, <2>4 DEF LogInv, IsCut
<1>5. ReaderInv'
  BY <1>1 DEF JournalInv, ReaderInv
<1> QED BY <1>2, <1>3, <1>4, <1>5 DEF JournalInv

\* The file the reader sees is a cut too.
LEMMA FileIsCut == ASSUME JournalInv PROVE IsCut(file)
<1>1. file \in Seq(Units) /\ buffer \in Seq(Units) /\ enqueued \in Nat
  BY DEF JournalInv, JournalType
<1>2. /\ Len(file) \in Nat /\ Len(Log) = Len(file) + Len(buffer)
      /\ Len(buffer) \in Nat /\ Log \in Seq(Units)
  BY Lengths
<1>3. \A i \in 1 .. Len(file) : file[i] = Log[i]
  BY <1>1, <1>2, ConcatProperties, SMT DEF Log
<1>4. Len(file) <= Len(Log)
  BY <1>2, SMT
<1> QED BY <1>1, <1>2, <1>3, <1>4, CutOfFirstPart DEF JournalInv, LogInv

\* The unit at the reader's position, when it stands at the start of a frame.
LEMMA NextFrame ==
  ASSUME JournalInv, reader.valid, ~reader.eof, Left >= 2
  PROVE  /\ HeaderNext
         /\ Left >= 4 => /\ Len(reader.records) + 1 \in 1 .. enqueued
                         /\ file[reader.pos + 4].event = Len(reader.records) + 1
<1> DEFINE e == Len(reader.records) + 1
<1>1. /\ e \in Nat \ {0} /\ Len(file) \in Nat /\ enqueued \in 0 .. MaxEvents
      /\ reader.pos = 2 + 4 * (e - 1) /\ reader.pos + 2 <= Len(file)
  <2>1. reader.records \in Seq(Nat) /\ reader.pos = 2 + 4 * Len(reader.records)
    BY SMT DEF JournalInv, ReaderInv, Readers
  <2> QED BY <2>1, Lengths, LenProperties, SMT DEF Left
<1>2. IsCut(file)
  BY FileIsCut
<1> HIDE DEF e
<1>3. e \in 1 .. enqueued /\ e \in 1 .. MaxEvents
  <2>1. Len(file) <= 2 + 4 * enqueued
    BY <1>2 DEF IsCut
  <2> QED BY <1>1, <2>1, JournalAssumption, SMT
<1>4. \A i \in 1 .. 4 : reader.pos + i = Place(e, i)
  BY <1>1 DEF Place
<1>5. \A i \in 1 .. 2 : i \in 1 .. 4 /\ Place(e, i) <= Len(file)
  BY <1>1, <1>4, SMT
<1>6. \A i \in 1 .. 2 : file[reader.pos + i].part = "header"
  BY <1>2, <1>3, <1>4, <1>5, FrameUnits DEF IsCut
<1>7. Left >= 4 => file[reader.pos + 4].event = e
  <2> SUFFICES ASSUME Left >= 4 PROVE file[reader.pos + 4].event = e OBVIOUS
  <2>1. 4 \in 1 .. 4 /\ Place(e, 4) <= Len(file)
    BY <1>1, <1>4, SMT DEF Left
  <2> QED BY <1>2, <1>3, <1>4, <2>1, FrameUnits DEF IsCut
<1> QED BY <1>3, <1>6, <1>7 DEF e, HeaderNext

LEMMA OpenReaderStep == ASSUME JournalInv, OpenReader PROVE JournalInv'
<1>1. /\ UNCHANGED <<queue, frame, draining, buffer, file, bad, crashed, enqueued>>
      /\ reader' = NewReader(Len(file) >= Len(FileHeader))
  BY DEF OpenReader
<1>2. JournalType' /\ QueueInv' /\ LogInv'
  BY <1>1 DEF JournalInv, JournalType, QueueInv, LogInv, IsCut, Log, Hand
<1>3. ReaderInv'
  <2> DEFINE valid == Len(file) >= Len(FileHeader)
  <2>1. valid \in BOOLEAN /\ (valid => Len(file) >= 2) /\ Len(file) \in Nat
    BY HeaderUnits, Lengths
  <2>2. crashed \in BOOLEAN /\ reader' = NewReader(valid)
    BY <1>1 DEF JournalInv, JournalType
  <2> HIDE DEF valid
  <2>3. /\ reader' \in Readers /\ reader'.valid = valid
        /\ reader'.pos = IF valid THEN 2 ELSE 0
        /\ reader'.records = <<>> /\ reader'.status = "InvalidFile"
    BY <2>1, <2>2, NewReaderType
  <2> QED BY <1>1, <2>1, <2>3, SMT DEF ReaderInv
<1> QED BY <1>2, <1>3 DEF JournalInv

\* An answer without a record leaves the records and ends the reading, unless it is
\* Corrupt, which no cut makes it.
LEMMA ReadNextStep == ASSUME JournalInv, ReadNext PROVE JournalInv'
<1>1. UNCHANGED <<queue, frame, draining, buffer, file, bad, crashed, enqueued>>
  BY DEF ReadNext
<1>2. JournalType' /\ QueueInv' /\ LogInv'
  BY <1>1 DEF JournalInv, JournalType, QueueInv, LogInv, IsCut, Log, Hand
<1>3. /\ reader \in Readers /\ reader.pos \in Nat /\ Len(file) \in Nat
      /\ Len(reader.records) \in Nat /\ reader.pos <= Len(file)
  <2>1. reader \in Readers /\ reader.pos \in Nat /\ reader.records \in Seq(Nat)
    BY SMT DEF JournalInv, ReaderInv, Readers
  <2> QED BY <2>1, Lengths, LenProperties DEF JournalInv, ReaderInv
<1>4. ASSUME NEW st \in ReadStatuses \ {"Corrupt"}, NEW n \in Nat,
             reader.pos + n <= Len(file), Answer(st, n, TRUE)
      PROVE  ReaderInv'
  <2>1. /\ reader' \in Readers /\ reader'.records = reader.records
        /\ reader'.valid = reader.valid /\ reader'.eof = TRUE
        /\ reader'.pos = reader.pos + n /\ reader'.status = st
    BY <1>3, <1>4, AnswerFields
  <2> QED BY <1>1, <1>4, <2>1 DEF JournalInv, ReaderInv
<1>5. ASSUME ReadInvalid \/ ReadEnd PROVE ReaderInv'
  <2>1. reader.pos + 0 <= Len(file) /\ 0 \in Nat
    BY <1>3, SMT
  <2>2. /\ "InvalidFile" \in ReadStatuses \ {"Corrupt"}
        /\ "EndOfFile" \in ReadStatuses \ {"Corrupt"}
    BY DEF ReadStatuses
  <2>3. Answer("InvalidFile", 0, TRUE) \/ Answer("EndOfFile", 0, TRUE)
    BY <1>5 DEF ReadInvalid, ReadEnd
  <2> QED BY <1>4, <2>1, <2>2, <2>3
<1>6. ASSUME ReadTruncated PROVE ReaderInv'
  <2>1. Left \in Nat /\ reader.pos + Left <= Len(file)
    BY <1>3, SMT DEF Left
  <2>2. "TruncatedTail" \in ReadStatuses \ {"Corrupt"}
    BY DEF ReadStatuses
  <2>3. Answer("TruncatedTail", Left, TRUE)
    BY <1>6 DEF ReadTruncated
  <2> QED BY <1>4, <2>1, <2>2, <2>3
<1>7. ASSUME ReadRecord PROVE ReaderInv'
  <2>1. reader.valid /\ ~reader.eof /\ Left >= 2
    BY <1>7 DEF ReadRecord
  <2>2. HeaderNext /\ Left >= 4 /\ TakeRecord
    BY <1>7, <2>1, NextFrame DEF ReadRecord
  <2> DEFINE e == Len(reader.records) + 1
  <2>3. file[reader.pos + 4].event = e /\ e \in Nat
    BY <1>3, <2>1, <2>2, NextFrame
  <2>4. reader' = [reader EXCEPT !.status = "Record", !.pos = reader.pos + 4,
                     !.records = Append(reader.records, e)]
    BY <2>2, <2>3 DEF TakeRecord
  <2> HIDE DEF e
  <2>5. /\ reader' \in Readers /\ reader'.records = Append(reader.records, e)
        /\ reader'.valid = reader.valid /\ reader'.eof = reader.eof
        /\ reader'.pos = reader.pos + 4 /\ reader'.status = "Record"
    BY <1>3, <2>3, <2>4, TakeRecordFields
  <2>6. /\ Len(reader'.records) = e
        /\ \A i \in 1 .. Len(reader'.records) : reader'.records[i] = i
    <3>1. reader.records \in Seq(Nat)
      BY SMT DEF JournalInv, ReaderInv, Readers
    <3>2. \A i \in 1 .. Len(reader.records) : reader.records[i] = i
      BY DEF JournalInv, ReaderInv
    <3> QED BY <1>3, <2>3, <2>5, <3>1, <3>2, SMT DEF e
  <2>7. reader.pos = 2 + 4 * (e - 1) /\ reader.pos + 4 <= Len(file)
    BY <1>3, <2>1, <2>2, SMT DEF JournalInv, ReaderInv, Left, e
  <2>8. reader'.pos = 2 + 4 * e /\ 2 + 4 * e <= Len(file)
    BY <1>3, <2>3, <2>5, <2>7, SMT
  <2>9. file' = file /\ reader'.valid
    BY <1>1, <2>1, <2>5
  <2>10. reader'.pos <= Len(file') /\ 2 + 4 * Len(reader'.records) <= Len(file')
         /\ reader'.pos = 2 + 4 * Len(reader'.records)
    BY <1>3, <2>3, <2>6, <2>8, <2>9, SMT
  <2> QED BY <2>5, <2>6, <2>9, <2>10, Zenon DEF ReaderInv
<1> QED BY <1>2, <1>5, <1>6, <1>7 DEF ReadNext, JournalInv

LEMMA JournalNextInv == JournalInv /\ [Next]_vars => JournalInv'
<1> SUFFICES ASSUME JournalInv, [Next]_vars PROVE JournalInv' OBVIOUS
<1>1. CASE UNCHANGED vars
  BY <1>1 DEF vars, JournalInv, JournalType, QueueInv, LogInv, IsCut, Log, Hand, ReaderInv
<1> QED BY <1>1, EnqueueStep, DrainPopStep, AppendFrameStep, FlushKeepsInv, CrashStep,
          OpenReaderStep, ReadNextStep DEF Next

\* No step of the process shortens the file.
LEMMA FileGrows ==
  ASSUME JournalInv, TryEnqueue \/ DrainPop \/ AppendFrame \/ Flush \/ Crash
  PROVE  Len(file') \in Nat /\ Len(file) <= Len(file')
<1>1. file \in Seq(Units) /\ buffer \in Seq(Units) /\ Len(file) \in Nat
  BY Lengths DEF JournalInv, JournalType
<1>2. ASSUME NEW s \in Seq(Units), file' = file \o s
      PROVE  Len(file') \in Nat /\ Len(file) <= Len(file')
  <2>1. Len(file') = Len(file) + Len(s) /\ Len(s) \in Nat
    BY <1>1, <1>2, ConcatProperties, LenProperties
  <2> QED BY <1>1, <2>1, SMT
<1>3. ASSUME NEW s \in Seq(Units), NEW k \in 0 .. Len(s)
      PROVE  SubSeq(s, 1, k) \in Seq(Units)
  BY <1>3, SMT
<1>4. CASE TryEnqueue \/ DrainPop \/ Crash
  <2>1. file' = file
    BY <1>4 DEF TryEnqueue, DrainPop, Crash
  <2> QED BY <1>1, <2>1, SMT
<1>5. CASE AppendFrame
  <2>1. CASE file' = file
    BY <1>1, <2>1, SMT
  <2>2. CASE Stream(FrameOf(frame))
    <3>1. frame \in 1 .. MaxEvents
      <4>1. draining /\ Hand = 1 /\ frame = enqueued - Len(queue)
            /\ Len(queue) + Hand <= enqueued
        BY <1>5 DEF AppendFrame, JournalInv, QueueInv, Hand
      <4> QED BY <4>1, Lengths, JournalAssumption, SMT
    <3>2. buffer \o FrameOf(frame) \in Seq(Units)
      BY <1>1, <3>1, FrameUnits, ConcatProperties
    <3>3. PICK k \in 0 .. Len(buffer \o FrameOf(frame)) :
            file' = file \o SubSeq(buffer \o FrameOf(frame), 1, k)
      BY <2>2, Zenon DEF Stream
    <3>4. SubSeq(buffer \o FrameOf(frame), 1, k) \in Seq(Units)
      BY <1>3, <3>2
    <3> QED BY <1>2, <3>3, <3>4
  <2> QED BY <1>5, <2>1, <2>2 DEF AppendFrame
<1>6. CASE Flush
  <2>1. CASE file' = file \o buffer
    BY <1>1, <1>2, <2>1
  <2>2. CASE \E k \in 0 .. Len(buffer) - 1 : file' = file \o SubSeq(buffer, 1, k)
    <3>1. PICK k \in 0 .. Len(buffer) - 1 : file' = file \o SubSeq(buffer, 1, k)
      BY <2>2
    <3>2. k \in 0 .. Len(buffer)
      BY <1>1, LenProperties, SMT
    <3> QED BY <1>1, <1>2, <1>3, <3>1, <3>2
  <2> QED BY <1>6, <2>1, <2>2 DEF Flush
<1> QED BY <1>4, <1>5, <1>6

\* What one call of next() adds to the records.
LEMMA ReadNextRecords ==
  ASSUME JournalInv, ReadNext
  PROVE  \/ reader'.records = reader.records /\ reader'.status # "Record"
         \/ /\ reader'.records = Append(reader.records, Len(reader.records) + 1)
            /\ reader'.status = "Record"
<1>1. reader \in Readers /\ reader.records \in Seq(Nat) /\ Len(file) \in Nat
      /\ reader.pos \in Nat
  BY Lengths, SMT DEF JournalInv, ReaderInv, Readers
<1>2. ASSUME NEW st \in {"InvalidFile", "EndOfFile", "TruncatedTail"}, NEW n \in Nat,
             Answer(st, n, TRUE)
      PROVE  reader'.records = reader.records /\ reader'.status # "Record"
  <2>1. st \in ReadStatuses /\ st # "Record"
    BY DEF ReadStatuses
  <2> QED BY <1>1, <1>2, <2>1, AnswerFields
<1>3. CASE ReadInvalid \/ ReadEnd
  BY <1>2, <1>3 DEF ReadInvalid, ReadEnd
<1>4. CASE ReadTruncated
  <2>1. Left \in Nat /\ Answer("TruncatedTail", Left, TRUE)
    <3>1. Left = 1 \/ Left \in 2 .. 3
      BY <1>4 DEF ReadTruncated
    <3>2. Left \in Nat
      BY <3>1, SMT
    <3> QED BY <1>4, <3>2 DEF ReadTruncated
  <2> QED BY <1>2, <2>1
<1>5. CASE ReadRecord
  <2>1. reader.valid /\ ~reader.eof /\ Left >= 2
    BY <1>5 DEF ReadRecord
  <2>2. Left >= 4 /\ TakeRecord
    BY <1>5, <2>1, NextFrame DEF ReadRecord
  <2> DEFINE e == Len(reader.records) + 1
  <2>3. file[reader.pos + 4].event = e /\ e \in Nat
    BY <1>1, <2>1, <2>2, NextFrame, LenProperties
  <2>4. reader' = [reader EXCEPT !.status = "Record", !.pos = reader.pos + 4,
                     !.records = Append(reader.records, e)]
    BY <2>2, <2>3 DEF TakeRecord
  <2> HIDE DEF e
  <2>5. reader'.records = Append(reader.records, e) /\ reader'.status = "Record"
    BY <1>1, <2>3, <2>4, TakeRecordFields
  <2> QED BY <2>5 DEF e
<1> QED BY <1>3, <1>4, <1>5 DEF ReadNext

-----------------------------------------------------------------------------
(* A reader of what a crash has left.  The file does not change any more,   *)
(* and its first verdict comes together with the end of the stream.         *)

VerdictInv ==
  /\ VerdictIsExact
  /\ reader.verdict # "None" => reader.eof
  /\ reader.afterCrash =>
       /\ crashed
       /\ reader.valid <=> Len(file) >= 2
       /\ reader.valid /\ reader.eof => reader.verdict # "None"

LEMMA VerdictInitInv == Init => VerdictInv
<1> SUFFICES ASSUME Init PROVE VerdictInv OBVIOUS
<1> DEFINE new == NewReader(FALSE)
<1>1. new \in Readers /\ new.verdict = "None" /\ new.eof = TRUE
  BY NewReaderType DEF Init
<1>2. reader = [new EXCEPT !.afterCrash = FALSE]
  BY DEF Init
<1> HIDE DEF new
<1>3. reader.verdict = "None" /\ reader.eof = TRUE /\ reader.afterCrash = FALSE
  BY <1>1, <1>2, Zenon DEF Readers
<1> QED BY <1>3 DEF VerdictInv, VerdictIsExact

LEMMA VerdictReadStep ==
  ASSUME JournalInv, VerdictInv, ReadNext
  PROVE  VerdictInv'
<1>1. UNCHANGED <<file, crashed>> /\ reader \in Readers /\ Len(file) \in Nat
  BY Lengths DEF ReadNext, JournalInv, ReaderInv
<1>2. /\ reader.pos \in Nat /\ reader.records \in Seq(Nat) /\ reader.pos <= Len(file)
      /\ Len(reader.records) \in Nat
  <2>1. reader.pos \in Nat /\ reader.records \in Seq(Nat) /\ reader.pos <= Len(file)
    BY <1>1, SMT DEF JournalInv, ReaderInv, Readers
  <2> QED BY <2>1, LenProperties
<1> DEFINE next == Place(Len(reader.records) + 1, 0)
<1>3. next = 2 + 4 * Len(reader.records)
  BY <1>2, SMT DEF Place
<1>4. reader.valid /\ ~reader.eof => reader.pos = next
  BY <1>3 DEF JournalInv, ReaderInv
<1>5. \* an answer that is no record, and what has to be true when it is the first
  ASSUME NEW st \in {"InvalidFile", "EndOfFile", "TruncatedTail"}, NEW n \in Nat,
         Answer(st, n, TRUE),
         reader.afterCrash /\ reader.verdict = "None" =>
           \/ st = "InvalidFile" /\ Len(file) < 2 /\ reader.records = <<>>
           \/ st = "EndOfFile" /\ Len(file) = next
           \/ st = "TruncatedTail" /\ next < Len(file) /\ Len(file) < next + 4
  PROVE  VerdictInv'
  <2>1. st \in ReadStatuses /\ st # "Record" /\ st # "None"
    BY DEF ReadStatuses
  <2>2. /\ reader'.records = reader.records /\ reader'.valid = reader.valid
        /\ reader'.eof = TRUE /\ reader'.afterCrash = reader.afterCrash
        /\ reader.verdict = "None" => reader'.verdict = st
        /\ reader.verdict # "None" => reader'.verdict = reader.verdict
    BY <1>1, <1>5, <2>1, AnswerFields
  <2>3. VerdictIsExact'
    <3>1. CASE reader.verdict # "None"
      BY <1>1, <2>2, <3>1 DEF VerdictInv, VerdictIsExact
    <3>2. CASE reader.verdict = "None"
      BY <1>1, <1>5, <2>2, <3>2 DEF VerdictIsExact
    <3> QED BY <3>1, <3>2
  <2>4. reader'.verdict # "None"
    BY <2>1, <2>2
  <2> QED BY <1>1, <2>2, <2>3, <2>4 DEF VerdictInv
<1>6. ASSUME ReadInvalid PROVE VerdictInv'
  <2>1. reader.afterCrash => Len(file) < 2 /\ reader.records = <<>>
    <3>1. reader.afterCrash => Len(file) < 2
      BY <1>1, <1>6, SMT DEF ReadInvalid, VerdictInv
    <3>2. Len(reader.records) = 0
      BY <1>6 DEF ReadInvalid, JournalInv, ReaderInv
    <3> QED BY <1>2, <3>1, <3>2, EmptySeq
  <2>2. Answer("InvalidFile", 0, TRUE)
    BY <1>6 DEF ReadInvalid
  <2> QED BY <1>5, <2>1, <2>2
<1>7. ASSUME ReadEnd PROVE VerdictInv'
  <2>1. reader.valid /\ (reader.eof \/ Left = 0) /\ Answer("EndOfFile", 0, TRUE)
    BY <1>7 DEF ReadEnd
  <2>2. reader.afterCrash /\ reader.verdict = "None" => ~reader.eof
    BY <2>1 DEF VerdictInv
  <2>3. ~reader.eof => Len(file) = next
    BY <1>1, <1>2, <1>4, <2>1, SMT DEF Left
  <2> HIDE DEF next
  <2> QED BY <1>5, <2>1, <2>2, <2>3 DEF next
<1>8. ASSUME ReadTruncated PROVE VerdictInv'
  <2>1. /\ reader.valid /\ ~reader.eof /\ Answer("TruncatedTail", Left, TRUE)
        /\ Left \in 1 .. 3
    <3>1. Left = 1 \/ Left \in 2 .. 3
      BY <1>8 DEF ReadTruncated
    <3>2. Left \in 1 .. 3
      BY <3>1, SMT
    <3> QED BY <1>8, <3>2 DEF ReadTruncated
  <2>2. next < Len(file) /\ Len(file) < next + 4
    BY <1>1, <1>2, <1>4, <2>1, SMT DEF Left
  <2>3. Left \in Nat
    BY <2>1, SMT
  <2> HIDE DEF next
  <2> QED BY <1>5, <2>1, <2>2, <2>3 DEF next
<1>9. ASSUME ReadRecord PROVE VerdictInv'
  <2>1. reader.valid /\ ~reader.eof /\ Left >= 2
    BY <1>9 DEF ReadRecord
  <2>2. Left >= 4 /\ TakeRecord
    BY <1>9, <2>1, NextFrame DEF ReadRecord
  <2> DEFINE e == Len(reader.records) + 1
  <2>3. file[reader.pos + 4].event = e /\ e \in Nat
    BY <1>2, <2>1, <2>2, NextFrame
  <2>4. reader' = [reader EXCEPT !.status = "Record", !.pos = reader.pos + 4,
                     !.records = Append(reader.records, e)]
    BY <2>2, <2>3 DEF TakeRecord
  <2> HIDE DEF e
  <2>5. /\ reader'.valid = reader.valid /\ reader'.eof = reader.eof
        /\ reader'.afterCrash = reader.afterCrash /\ reader'.verdict = reader.verdict
    BY <1>1, <2>3, <2>4, TakeRecordFields
  <2>6. reader.verdict = "None"
    BY <2>1 DEF VerdictInv
  <2> QED BY <1>1, <2>1, <2>5, <2>6 DEF VerdictInv, VerdictIsExact
<1> QED BY <1>6, <1>7, <1>8, <1>9 DEF ReadNext

LEMMA VerdictNextInv == JournalInv /\ VerdictInv /\ [Next]_vars => VerdictInv'
<1> SUFFICES ASSUME JournalInv, VerdictInv, [Next]_vars PROVE VerdictInv' OBVIOUS
<1>1. CASE TryEnqueue \/ DrainPop \/ AppendFrame \/ Flush \/ Crash
  <2>1. UNCHANGED reader /\ ~reader.afterCrash
    BY <1>1 DEF TryEnqueue, DrainPop, AppendFrame, Flush, Crash, VerdictInv
  <2> QED BY <2>1 DEF VerdictInv, VerdictIsExact
<1>2. CASE OpenReader
  <2> DEFINE valid == Len(file) >= Len(FileHeader)
  <2>1. /\ UNCHANGED <<file, crashed>> /\ reader' = NewReader(valid)
        /\ crashed \in BOOLEAN /\ valid \in BOOLEAN /\ (valid <=> Len(file) >= 2)
    BY <1>2, HeaderUnits DEF OpenReader, JournalInv, JournalType
  <2> HIDE DEF valid
  <2>2. /\ reader'.valid = valid /\ reader'.eof = ~valid
        /\ reader'.afterCrash = crashed /\ reader'.verdict = "None"
    BY <2>1, NewReaderType
  <2> QED BY <2>1, <2>2 DEF VerdictInv, VerdictIsExact
<1>3. CASE ReadNext
  BY <1>3, VerdictReadStep
<1>4. CASE UNCHANGED vars
  BY <1>4 DEF vars, VerdictInv, VerdictIsExact
<1> QED BY <1>1, <1>2, <1>3, <1>4 DEF Next

\* The numbers from one on are a first part of what was queued.
LEMMA CountingPrefix ==
  ASSUME enqueued \in Nat, NEW s \in Seq(Nat), Len(s) <= enqueued,
         \A i \in 1 .. Len(s) : s[i] = i
  PROVE  IsPrefix(s, Enqueued)
<1> DEFINE n == Len(s)
           first == SubSeq(s, 1, n)
           numbers == SubSeq(Enqueued, 1, n)
<1>1. n \in Nat
  BY LenProperties
<1>2. Enqueued \in Seq(Nat) /\ Len(Enqueued) = enqueued
      /\ \A i \in 1 .. enqueued : Enqueued[i] = i
  BY SMT DEF Enqueued
<1>3. /\ \A i \in 1 .. n : s[i] \in Nat
      /\ \A i \in 1 .. n : Enqueued[i] \in Nat /\ Enqueued[i] = i
  BY <1>1, <1>2, SMT
<1>4. /\ first \in Seq(Nat) /\ numbers \in Seq(Nat) /\ Len(first) = n /\ Len(numbers) = n
      /\ \A i \in 1 .. n : first[i] = s[i] /\ numbers[i] = Enqueued[i]
  BY <1>1, <1>2, <1>3, SMT
<1>5. \A i \in 1 .. n : first[i] = numbers[i]
  BY <1>3, <1>4
<1> HIDE DEF first, numbers
<1>6. first = numbers
  BY <1>4, <1>5, SeqEqual
<1> QED BY <1>2, <1>6 DEF IsPrefix, first, numbers

\* What the stream was given by a good writer are the events taken out of the queue.
LEMMA EventsOfLog ==
  ASSUME JournalInv, NEW n \in Nat, n <= enqueued, Len(Log) = 2 + 4 * n
  PROVE  /\ EventsOf(Log) \in Seq(Nat) /\ Len(EventsOf(Log)) = n
         /\ \A i \in 1 .. n : EventsOf(Log)[i] = i
<1>1. (Len(Log) - 2) \div 4 = n
  BY Z3
<1>2. \A i \in 1 .. n : i \in 1 .. enqueued /\ i \in 1 .. MaxEvents
  BY Lengths, JournalAssumption, SMT
<1>3. \A i \in 1 .. n : Place(i, 4) <= Len(Log)
  BY SMT DEF Place
<1>4. 4 \in 1 .. 4
  BY SMT
<1>5. \A i \in 1 .. n : Log[Place(i, 4)].event = i
  BY <1>2, <1>3, <1>4, FrameUnits DEF JournalInv, LogInv, IsCut
<1>6. EventsOf(Log) = [i \in 1 .. n |-> Log[Place(i, 4)].event]
  BY <1>1 DEF EventsOf
<1> QED BY <1>5, <1>6, SMT

\* While the writer is good, everything that was queued is somewhere, in order.
LEMMA NothingLost ==
  ASSUME JournalInv, ~bad, ~crashed
  PROVE  Enqueued = EventsOf(Log) \o (IF draining THEN <<frame>> ELSE <<>>) \o queue
<1> DEFINE n == enqueued - Len(queue) - Hand
           hand == IF draining THEN <<frame>> ELSE <<>>
           events == EventsOf(Log)
           left == events \o hand
           all == left \o queue
<1>1. /\ enqueued \in Nat /\ Len(queue) \in Nat /\ Hand \in 0 .. 1 /\ queue \in Seq(Nat)
      /\ \A i \in 1 .. Len(queue) : queue[i] = (enqueued - Len(queue)) + i
  BY Lengths, SMT DEF JournalInv, JournalType, QueueInv
<1>2. n \in Nat /\ n <= enqueued /\ enqueued = n + Hand + Len(queue)
  BY <1>1, SMT DEF JournalInv, QueueInv
<1>3. Len(Log) = 2 + 4 * n
  BY DEF JournalInv, LogInv
<1>4. hand \in Seq(Nat) /\ Len(hand) = Hand /\ \A i \in 1 .. Hand : hand[i] = n + i
  <2>1. CASE draining
    <3>a. Hand = 1 /\ hand = <<frame>>
      BY <2>1 DEF Hand
    <3>b. frame \in Nat /\ frame = enqueued - Len(queue)
      BY <2>1 DEF JournalInv, JournalType, QueueInv
    <3>c. frame = n + 1
      BY <1>1, <3>a, <3>b, SMT
    <3> HIDE DEF hand
    <3>1. frame \in Nat /\ frame = n + 1 /\ Hand = 1 /\ hand = <<frame>>
      BY <3>a, <3>b, <3>c
    <3> HIDE DEF n
    <3> QED BY <3>1, SMT
  <2>2. CASE ~draining
    BY <2>2, SMT DEF Hand
  <2> QED BY <2>1, <2>2
<1> HIDE DEF n, hand
<1>5. events \in Seq(Nat) /\ Len(events) = n /\ \A i \in 1 .. n : events[i] = i
  BY <1>2, <1>3, EventsOfLog
<1> HIDE DEF events
<1>6. /\ left \in Seq(Nat) /\ Len(left) = n + Hand
      /\ \A i \in 1 .. n + Hand : left[i] = i
  <2>1. /\ left \in Seq(Nat) /\ Len(left) = n + Hand
        /\ \A i \in 1 .. n + Hand : left[i] = IF i <= n THEN events[i] ELSE hand[i - n]
    BY <1>4, <1>5, ConcatProperties
  <2> HIDE DEF left
  <2> QED BY <1>1, <1>2, <1>4, <1>5, <2>1, SMT
<1> HIDE DEF left
<1>7. /\ all \in Seq(Nat) /\ Len(all) = enqueued
      /\ \A i \in 1 .. enqueued : all[i] = i
  <2>1. /\ all \in Seq(Nat) /\ Len(all) = n + Hand + Len(queue)
        /\ \A i \in 1 .. n + Hand + Len(queue) :
             all[i] = IF i <= n + Hand THEN left[i] ELSE queue[i - (n + Hand)]
    BY <1>1, <1>2, <1>6, ConcatProperties, SMT
  <2> HIDE DEF all
  <2>2. ASSUME NEW i \in 1 .. enqueued PROVE all[i] = i
    <3>1. i \in 1 .. n + Hand + Len(queue) /\ n + Hand \in Nat
      BY <1>1, <1>2, SMT
    <3>2. CASE i <= n + Hand
      BY <1>6, <2>1, <3>1, <3>2, SMT
    <3>3. CASE ~(i <= n + Hand)
      <4> DEFINE j == i - (n + Hand)
      <4>1. j \in 1 .. Len(queue) /\ (enqueued - Len(queue)) + j = i
        BY <1>1, <1>2, <3>1, <3>3, SMT
      <4>2. all[i] = queue[j]
        BY <2>1, <3>1, <3>3
      <4> HIDE DEF j
      <4> QED BY <1>1, <4>1, <4>2
    <3> QED BY <3>2, <3>3
  <2> QED BY <1>2, <2>1, <2>2
<1> HIDE DEF all
<1>8. /\ Enqueued \in Seq(Nat) /\ Len(Enqueued) = enqueued
      /\ \A i \in 1 .. enqueued : Enqueued[i] = i
  BY <1>1, SMT DEF Enqueued
<1>9. \A i \in 1 .. enqueued : Enqueued[i] = all[i]
  BY <1>7, <1>8
<1>10. Enqueued = all
  BY <1>7, <1>8, <1>9, SeqEqual
<1> QED BY <1>10 DEF all, left, events, hand

-----------------------------------------------------------------------------
\* The invariant holds in every reachable state.
THEOREM JournalInvariance == Spec => []JournalInv
BY JournalInitInv, JournalNextInv, PTL DEF Spec

\* The journal has no hole, whatever failed and whenever the process died.
THEOREM NoHoleHolds == Spec => []JournalHasNoHole
<1>1. JournalInv => JournalHasNoHole
  BY FileIsCut DEF JournalHasNoHole
<1> QED BY <1>1, JournalInvariance, PTL

\* A writer whose stream is good has lost nothing it was given, for every capacity
\* of the queue and every interleaving of the two threads.
THEOREM GoodHolds == Spec => []GoodLosesNothing
<1>1. JournalInv => GoodLosesNothing
  BY NothingLost DEF GoodLosesNothing, Log
<1> QED BY <1>1, JournalInvariance, PTL

\* Every reader gets a first part of what was queued, and calls nothing corrupt.
THEOREM ReaderHolds == Spec => []ReaderSeesPrefix
<1>1. JournalInv => ReaderSeesPrefix
  <2> SUFFICES ASSUME JournalInv PROVE ReaderSeesPrefix OBVIOUS
  <2>1. /\ reader.records \in Seq(Nat) /\ reader.status # "Corrupt"
        /\ \A i \in 1 .. Len(reader.records) : reader.records[i] = i
    BY SMT DEF JournalInv, ReaderInv, Readers
  <2>2. Len(reader.records) \in Nat /\ enqueued \in Nat /\ Len(file) \in Nat
    BY <2>1, Lengths, LenProperties DEF JournalInv, JournalType
  <2>3. Len(reader.records) <= enqueued
    <3>1. Len(file) <= 2 + 4 * enqueued
      BY FileIsCut DEF IsCut
    <3> QED BY <2>2, <3>1, SMT DEF JournalInv, ReaderInv
  <2> QED BY <2>1, <2>2, <2>3, CountingPrefix DEF ReaderSeesPrefix
<1> QED BY <1>1, JournalInvariance, PTL

\* What a reader says of a file left by a crash is exact, wherever it was cut.
THEOREM VerdictHolds == Spec => []VerdictIsExact
<1>1. VerdictInv => VerdictIsExact
  BY DEF VerdictInv
<1> QED BY <1>1, JournalInvariance, VerdictInitInv, VerdictNextInv, PTL DEF Spec

-----------------------------------------------------------------------------
\* What the queue holds and what was taken out of it last.
HeldInv == Len(queue) <= Capacity /\ frame \in Events \cup {0}

LEMMA HeldInit == Init => HeldInv
<1> SUFFICES ASSUME Init PROVE HeldInv OBVIOUS
<1>1. queue = <<>> /\ frame = 0
  BY DEF Init, Queue!Init
<1>2. Len(queue) = 0
  BY <1>1
<1> QED BY <1>1, <1>2, JournalAssumption, SMT DEF HeldInv

LEMMA HeldStep ==
  ASSUME JournalInv, HeldInv, [Next]_vars
  PROVE  HeldInv'
<1>1. CASE TryEnqueue
  <2>1. Len(queue) < Capacity /\ queue' = Append(queue, enqueued + 1) /\ frame' = frame
    BY <1>1 DEF TryEnqueue, Queue!Push
  <2>2. Len(queue') = Len(queue) + 1 /\ Len(queue) \in Nat
    BY <2>1, Lengths, SMT DEF JournalInv, JournalType
  <2> QED BY <2>1, <2>2, JournalAssumption, SMT DEF HeldInv
<1>2. CASE DrainPop
  <2>1. queue # <<>> /\ queue' = Tail(queue) /\ frame' = Head(queue) /\ queue \in Seq(Nat)
    BY <1>2 DEF DrainPop, Queue!Pop, JournalInv, JournalType
  <2>2. Len(queue') = Len(queue) - 1 /\ Len(queue) >= 1 /\ Len(queue) \in Nat
        /\ frame' = queue[1]
    BY <2>1, Lengths, SMT
  <2>3. frame' = (enqueued - Len(queue)) + 1
    BY <2>2, SMT DEF JournalInv, QueueInv
  <2>4. Len(queue) <= enqueued
    BY <2>2, Lengths, SMT DEF JournalInv, QueueInv
  <2>5. frame' \in Events
    BY <2>2, <2>3, <2>4, Lengths, JournalAssumption, SMT DEF Events
  <2> QED BY <2>2, <2>5, JournalAssumption, SMT DEF HeldInv
<1>3. CASE Crash
  <2>1. queue' = <<>> /\ frame' = frame
    BY <1>3 DEF Crash
  <2>2. Len(queue') = 0
    BY <2>1
  <2> QED BY <2>1, <2>2, JournalAssumption, SMT DEF HeldInv
<1>4. CASE AppendFrame \/ Flush \/ OpenReader \/ ReadNext \/ UNCHANGED vars
  BY <1>4 DEF AppendFrame, Flush, OpenReader, ReadNext, vars, HeldInv
<1> QED BY <1>1, <1>2, <1>3, <1>4 DEF Next

\* A sequence of numbers is one of events if its numbers are.
LEMMA EventsOnly ==
  ASSUME NEW s \in Seq(Nat), \A i \in 1 .. Len(s) : s[i] \in Events
  PROVE  s \in Seq(Events)
<1>1. Len(s) \in Nat /\ s \in [1 .. Len(s) -> Nat]
  BY LenProperties
<1>2. PICK n \in Nat : s \in [1 .. n -> Events]
  BY <1>1
<1>3. s \in UNION {[1 .. k -> Events] : k \in Nat}
  BY <1>2
<1>4. Seq(Events) = UNION {[1 .. k -> Events] : k \in Nat}
  BY SeqDef
<1> QED BY <1>3, <1>4

\* The queue never holds more than its capacity, only events are in it, in the
\* frame and in what a reader returned, and no reader stands behind the end of its
\* file, also when the file ends inside a frame.
THEOREM JournalTypeCorrect == Spec => []TypeOK
<1>1. JournalInv /\ HeldInv => TypeOK
  <2> SUFFICES ASSUME JournalInv, HeldInv PROVE TypeOK OBVIOUS
  <2>1. /\ Len(queue) \in Nat /\ enqueued \in 0 .. MaxEvents /\ Len(queue) <= enqueued
        /\ Len(file) \in Nat
    BY Lengths, SMT DEF JournalInv, QueueInv
  <2>2. queue \in Seq(Events)
    <3>1. \A i \in 1 .. Len(queue) : queue[i] \in Events
      BY <2>1, JournalAssumption, SMT DEF JournalInv, QueueInv, Events
    <3> QED BY <3>1, EventsOnly DEF JournalInv, JournalType
  <2>3. reader.records \in Seq(Events)
    <3>1. reader.records \in Seq(Nat) /\ \A i \in 1 .. Len(reader.records) : reader.records[i] = i
      BY SMT DEF JournalInv, ReaderInv, Readers
    <3>2. Len(reader.records) <= enqueued /\ Len(reader.records) \in Nat
      <4>1. Len(file) <= 2 + 4 * enqueued
        BY FileIsCut DEF IsCut
      <4>2. Len(reader.records) \in Nat
        BY <3>1, LenProperties
      <4> QED BY <2>1, <4>1, <4>2, SMT DEF JournalInv, ReaderInv
    <3>3. \A i \in 1 .. Len(reader.records) : reader.records[i] \in Events
      BY <2>1, <3>1, <3>2, JournalAssumption, SMT DEF Events
    <3> QED BY <3>1, <3>3, EventsOnly
  <2>4. reader \in [valid : BOOLEAN, eof : BOOLEAN, pos : 0 .. Len(file),
                    records : Seq(Events), afterCrash : BOOLEAN,
                    status : ReadStatuses, verdict : ReadStatuses \cup {"None"}]
    <3>1. reader \in Readers /\ reader.pos <= Len(file)
      BY DEF JournalInv, ReaderInv
    <3>2. reader.pos \in 0 .. Len(file)
      BY <2>1, <3>1, SMT DEF Readers
    <3> QED BY <2>3, <3>1, <3>2, Zenon DEF Readers
  <2> QED BY <2>1, <2>2, <2>4 DEF JournalInv, JournalType, HeldInv, TypeOK
<1> QED BY <1>1, HeldInit, HeldStep, JournalInvariance, PTL DEF Spec

-----------------------------------------------------------------------------
(* The checkpoint and the replay.                                          *)


CheckpointType ==
  /\ committed \in [partition : Nat, applied : Nat, offset : Nat]
  /\ durable \in 0 .. enqueued
  /\ replayed \in Seq(Nat)

\* Only this partition is ever committed, and only what is durable.
CommittedInv ==
  /\ Valid => committed.partition = Own
  /\ committed.applied <= durable

DurableInv == durable # 0 => InFile(durable)

\* The recovery has passed over what was applied, and applied the rest of what it
\* has read.
ReplayedInv ==
  reader.afterCrash =>
    LET read == Len(reader.records) IN
      /\ Len(replayed) = IF read <= committed.applied THEN 0 ELSE read - committed.applied
      /\ \A i \in 1 .. Len(replayed) : replayed[i] = committed.applied + i

RecoveryInv ==
  /\ JournalInv /\ VerdictInv
  /\ CheckpointType /\ CommittedInv /\ DurableInv /\ ReplayedInv

-----------------------------------------------------------------------------
\* Every step of the recovery is a step of the journal, or none.
LEMMA RecoveryStepIsJournalStep == [RecoveryNext]_recoveryVars => [Next]_vars
<1> SUFFICES ASSUME [RecoveryNext]_recoveryVars PROVE [Next]_vars OBVIOUS
<1>1. CASE UNCHANGED recoveryVars
  BY <1>1, Zenon DEF recoveryVars
<1>2. CASE JournalStep \/ FlushStep \/ Recover \/ ReplayNext
  BY <1>2, Zenon DEF JournalStep, FlushStep, Recover, ReplayNext, Next
<1>3. CASE CommitCall
  BY <1>3, Zenon DEF CommitCall
<1> QED BY <1>1, <1>2, <1>3 DEF RecoveryNext

\* What is proved of EventJournal holds of the journal that is recovered from.
THEOREM RecoveryIsJournal == RecoverySpec => Spec
<1>1. RecoveryInit => Init
  BY DEF RecoveryInit
<1> QED BY <1>1, RecoveryStepIsJournalStep, PTL DEF RecoverySpec, Spec

LEMMA RecoveryInitInv == RecoveryInit => RecoveryInv
<1> SUFFICES ASSUME RecoveryInit PROVE RecoveryInv OBVIOUS
<1>1. JournalInv /\ VerdictInv
  BY JournalInitInv, VerdictInitInv DEF RecoveryInit
<1>2. committed = [partition |-> 0, applied |-> 0, offset |-> 0]
      /\ durable = 0 /\ replayed = <<>> /\ enqueued = 0 /\ ~crashed
  BY DEF RecoveryInit, Init
<1>3. CheckpointType
  BY <1>2, EmptySeq, SMT DEF CheckpointType
<1>4. CommittedInv /\ DurableInv
  BY <1>2, SMT DEF CommittedInv, DurableInv, Valid
<1>5. ReplayedInv
  BY <1>1, <1>2 DEF ReplayedInv, VerdictInv
<1> QED BY <1>1, <1>3, <1>4, <1>5 DEF RecoveryInv

\* Numbers every step needs.
LEMMA RecoveryNumbers ==
  ASSUME RecoveryInv
  PROVE  /\ committed.applied \in Nat /\ committed.partition \in Nat /\ committed.offset \in Nat
         /\ durable \in Nat /\ enqueued \in Nat /\ enqueued <= MaxEvents /\ durable <= enqueued
         /\ Len(file) \in Nat /\ Len(reader.records) \in Nat /\ reader.records \in Seq(Nat)
         /\ reader \in Readers
<1>1. reader \in Readers /\ Len(file) \in Nat /\ enqueued \in 0 .. MaxEvents
  BY Lengths DEF RecoveryInv, JournalInv, ReaderInv
<1>2. reader.records \in Seq(Nat)
  BY <1>1, SMT DEF Readers
<1>3. enqueued \in Nat /\ enqueued <= MaxEvents
  BY <1>1, JournalAssumption, SMT
<1>4. durable \in Nat /\ durable <= enqueued
  BY <1>3, SMT DEF RecoveryInv, CheckpointType
<1>5. committed.applied \in Nat /\ committed.partition \in Nat /\ committed.offset \in Nat
  BY SMT DEF RecoveryInv, CheckpointType
<1> QED BY <1>1, <1>2, <1>3, <1>4, <1>5, LenProperties

LEMMA JournalStepInv ==
  ASSUME RecoveryInv, JournalStep, JournalInv', VerdictInv'
  PROVE  RecoveryInv'
<1>1. UNCHANGED <<committed, durable, replayed, reader>> /\ ~crashed
  BY DEF JournalStep, TryEnqueue, DrainPop, AppendFrame, Crash
<1>2. ~reader.afterCrash /\ ~reader'.afterCrash
  BY <1>1 DEF RecoveryInv, VerdictInv
<1>3. ReplayedInv'
  BY <1>2 DEF ReplayedInv
<1>4. enqueued' \in Nat /\ enqueued <= enqueued'
  <2>1. enqueued' = enqueued \/ enqueued' = enqueued + 1
    BY DEF JournalStep, TryEnqueue, DrainPop, AppendFrame, Crash
  <2> QED BY <2>1, RecoveryNumbers, SMT
<1>5. CheckpointType' /\ CommittedInv'
  <2>1. durable \in 0 .. enqueued'
    BY <1>4, RecoveryNumbers, SMT
  <2> QED BY <1>1, <2>1 DEF RecoveryInv, CheckpointType, CommittedInv, Valid
<1>6. Len(file) <= Len(file') /\ Len(file') \in Nat
  BY FileGrows, RecoveryNumbers DEF RecoveryInv, JournalStep
<1>7. DurableInv'
  <2>1. Place(durable, 4) \in Int
    BY RecoveryNumbers, SMT DEF Place
  <2> QED BY <1>1, <1>6, <2>1, RecoveryNumbers, SMT DEF RecoveryInv, DurableInv, InFile
<1> QED BY <1>3, <1>5, <1>7 DEF RecoveryInv

\* A flush that leaves the stream good has put all that was appended into the file.
LEMMA FlushStepInv ==
  ASSUME RecoveryInv, FlushStep, JournalInv', VerdictInv'
  PROVE  RecoveryInv'
<1>1. /\ UNCHANGED <<committed, replayed, reader, queue, draining, enqueued, crashed>>
      /\ ~crashed /\ ~draining /\ buffer' = <<>>
      /\ durable' = IF bad' THEN durable ELSE enqueued - Len(queue)
  BY DEF FlushStep, Flush, Appended
<1>2. ~reader'.afterCrash
  BY <1>1 DEF RecoveryInv, VerdictInv
<1>3. ReplayedInv'
  BY <1>2 DEF ReplayedInv
<1>4. Len(file) <= Len(file') /\ Len(file') \in Nat
  BY FileGrows, RecoveryNumbers DEF RecoveryInv, FlushStep
<1>5. Len(queue) \in Nat /\ Len(queue) <= enqueued
  BY <1>1, Lengths, SMT DEF RecoveryInv, JournalInv, QueueInv, Hand
<1>6. ~bad' => Len(file') = 2 + 4 * (enqueued - Len(queue))
  <2>1. Log' = file'
    BY <1>1, ConcatEmptySeq DEF JournalInv, JournalType, Log
  <2>2. ~bad' => Len(file') = 2 + 4 * (enqueued' - Len(queue') - Hand')
    BY <1>1, <2>1 DEF JournalInv, LogInv
  <2>3. Hand' = 0
    BY <1>1 DEF Hand
  <2> QED BY <1>1, <1>5, <2>2, <2>3, RecoveryNumbers, SMT
<1>7. durable' \in 0 .. enqueued' /\ durable <= durable'
  <2>1. CASE bad'
    BY <1>1, <2>1, RecoveryNumbers, SMT
  <2>2. CASE ~bad'
    <3>1. durable # 0 => 2 + 4 * durable <= Len(file)
      BY RecoveryNumbers, SMT DEF RecoveryInv, DurableInv, InFile, Place
    <3>2. durable <= enqueued - Len(queue)
      BY <1>4, <1>5, <1>6, <2>2, <3>1, RecoveryNumbers, SMT
    <3> QED BY <1>1, <1>5, <2>2, <3>2, RecoveryNumbers, SMT
  <2> QED BY <2>1, <2>2
<1>8. CheckpointType' /\ CommittedInv'
  <2>1. committed.applied <= durable'
    BY <1>7, RecoveryNumbers, SMT DEF RecoveryInv, CommittedInv
  <2> QED BY <1>1, <1>7, <2>1 DEF RecoveryInv, CheckpointType, CommittedInv, Valid
<1>9. DurableInv'
  <2>1. CASE bad'
    <3>1. Place(durable, 4) \in Int
      BY RecoveryNumbers, SMT DEF Place
    <3> QED BY <1>1, <1>4, <2>1, <3>1, RecoveryNumbers, SMT
              DEF RecoveryInv, DurableInv, InFile
  <2>2. CASE ~bad'
    BY <1>1, <1>5, <1>6, <2>2, RecoveryNumbers, SMT DEF DurableInv, InFile, Place
  <2> QED BY <2>1, <2>2
<1> QED BY <1>3, <1>8, <1>9 DEF RecoveryInv

\* Late calls, and calls for another partition, change nothing.
LEMMA CommitCallInv ==
  ASSUME RecoveryInv, CommitCall, JournalInv', VerdictInv'
  PROVE  /\ RecoveryInv'
         /\ Valid => /\ committed'.partition = committed.partition
                     /\ committed'.applied >= committed.applied
                     /\ committed'.offset >= committed.offset
<1>1. UNCHANGED <<vars, durable, replayed>> /\ ~crashed
  BY DEF CommitCall
<1>2. PICK applied \in 1 .. durable, offset \in 1 .. durable :
        applied <= offset /\ Commit(Own, applied, offset)
  <2>1. ASSUME NEW p \in Partitions \ {Own}, NEW s \in Events, Valid, Commit(p, s, s)
        PROVE  FALSE
    BY <2>1 DEF Commit, RecoveryInv, CommittedInv
  <2> QED BY <2>1, Zenon DEF CommitCall
<1>3. applied \in Nat /\ offset \in Nat /\ applied <= durable /\ Own \in Nat
  BY RecoveryNumbers, SMT DEF Own
<1>4. committed' = [partition |-> Own, applied |-> applied, offset |-> offset]
  BY <1>2 DEF Commit
<1>5. /\ committed' \in [partition : Nat, applied : Nat, offset : Nat]
      /\ committed'.partition = Own /\ committed'.applied = applied
      /\ committed'.offset = offset
  BY <1>3, <1>4, SMT
<1>6. CheckpointType' /\ CommittedInv' /\ DurableInv'
  BY <1>1, <1>3, <1>5
    DEF RecoveryInv, CheckpointType, CommittedInv, DurableInv, InFile, vars
<1>7. ReplayedInv'
  <2>1. ~reader'.afterCrash
    BY <1>1 DEF RecoveryInv, VerdictInv, vars
  <2> QED BY <2>1 DEF ReplayedInv
<1>8. Valid => /\ committed'.partition = committed.partition
               /\ committed'.applied >= committed.applied
               /\ committed'.offset >= committed.offset
  <2>1. Valid => /\ Own = committed.partition /\ applied > committed.applied
                 /\ offset >= committed.offset
    BY <1>2 DEF Commit
  <2> QED BY <1>3, <1>5, <2>1, RecoveryNumbers, SMT
<1> QED BY <1>6, <1>7, <1>8 DEF RecoveryInv

\* A reader opened after the crash has read and applied nothing yet.
LEMMA RecoverInv ==
  ASSUME RecoveryInv, Recover, JournalInv', VerdictInv'
  PROVE  RecoveryInv'
<1>1. /\ UNCHANGED <<committed, durable, file, enqueued, crashed>> /\ replayed' = <<>>
      /\ reader' = NewReader(Len(file) >= Len(FileHeader))
  BY DEF Recover, OpenReader
<1>2. reader'.records = <<>>
  BY <1>1 DEF NewReader
<1>3. Len(reader'.records) = 0 /\ Len(replayed') = 0 /\ replayed' \in Seq(Nat)
  BY <1>1, <1>2, EmptySeq
<1>4. CheckpointType' /\ CommittedInv' /\ DurableInv'
  BY <1>1, <1>3 DEF RecoveryInv, CheckpointType, CommittedInv, Valid, DurableInv, InFile
<1>5. ReplayedInv'
  BY <1>1, <1>3, RecoveryNumbers, SMT DEF ReplayedInv
<1> QED BY <1>4, <1>5 DEF RecoveryInv

\* A record is applied when, and only when, it is the next one.
LEMMA ReplayNextInv ==
  ASSUME RecoveryInv, ReplayNext, JournalInv', VerdictInv'
  PROVE  RecoveryInv'
<1>1. /\ UNCHANGED <<committed, durable, file, enqueued>> /\ ReadNext /\ reader.afterCrash
      /\ replayed' = IF reader'.status = "Record" /\ Last(reader'.records) >= ReplayFrom
                       THEN Append(replayed, Last(reader'.records)) ELSE replayed
  BY DEF ReplayNext, ReadNext
<1>2. /\ replayed \in Seq(Nat) /\ Len(replayed) \in Nat
  BY LenProperties DEF RecoveryInv, CheckpointType
<1>3. CommittedInv' /\ DurableInv'
  BY <1>1 DEF RecoveryInv, CommittedInv, Valid, DurableInv, InFile
<1>4. ReplayFrom = committed.applied + 1
  <2>1. committed.applied <= MaxEvents
    BY RecoveryNumbers, JournalAssumption, SMT DEF RecoveryInv, CommittedInv
  <2>2. committed.applied # Top
    BY <2>1, RecoveryNumbers, TopAssumption, JournalAssumption, SMT
  <2> QED BY <2>2 DEF ReplayFrom
<1> DEFINE n == Len(reader.records)
           a == committed.applied
<1>5. n \in Nat /\ a \in Nat
  BY RecoveryNumbers
<1>6. /\ Len(replayed) = IF n <= a THEN 0 ELSE n - a
      /\ \A i \in 1 .. Len(replayed) : replayed[i] = a + i
  BY <1>1 DEF RecoveryInv, ReplayedInv
<1>7. CASE reader'.records = reader.records /\ reader'.status # "Record"
  <2>1. replayed' = replayed
    BY <1>1, <1>7
  <2> QED BY <1>1, <1>3, <1>6, <1>7, <2>1 DEF RecoveryInv, CheckpointType, ReplayedInv
<1>8. CASE reader'.records = Append(reader.records, n + 1) /\ reader'.status = "Record"
  <2>1. Len(reader'.records) = n + 1 /\ Last(reader'.records) = n + 1
    BY <1>5, <1>8, RecoveryNumbers, SMT DEF Last
  <2>2. CASE n + 1 <= a
    <3>1. replayed' = replayed
      BY <1>1, <1>4, <1>5, <2>1, <2>2, SMT
    <3>2. Len(replayed) = 0
      BY <1>5, <1>6, <2>2, SMT
    <3>3. ReplayedInv'
      BY <1>1, <1>5, <1>6, <2>1, <2>2, <3>1, <3>2 DEF ReplayedInv
    <3> QED BY <1>1, <1>3, <3>1, <3>3 DEF RecoveryInv, CheckpointType
  <2>3. CASE ~(n + 1 <= a)
    <3>1. replayed' = Append(replayed, n + 1)
      BY <1>1, <1>4, <1>5, <1>8, <2>1, <2>3, SMT
    <3>2. Len(replayed) = n - a
      BY <1>5, <1>6, <2>3, SMT
    <3>3. /\ replayed' \in Seq(Nat) /\ Len(replayed') = Len(replayed) + 1
          /\ \A i \in 1 .. Len(replayed) : replayed'[i] = replayed[i]
          /\ replayed'[Len(replayed) + 1] = n + 1
      <4> HIDE DEF n
      <4> QED BY <1>2, <1>5, <3>1, SMT
    <3>4. /\ Len(replayed') = n + 1 - a
          /\ \A i \in 1 .. Len(replayed') : i \in 1 .. Len(replayed) \/ i = Len(replayed) + 1
          /\ a + (Len(replayed) + 1) = n + 1
      <4> HIDE DEF n, a
      <4> QED BY <1>2, <1>5, <3>2, <3>3, SMT
    <3>5. \A i \in 1 .. Len(replayed') : replayed'[i] = a + i
      BY <1>6, <3>3, <3>4
    <3>6. ReplayedInv'
      <4>1. Len(reader'.records) = n + 1 /\ committed'.applied = a
        BY <1>1, <2>1
      <4> HIDE DEF n, a
      <4>2. /\ ~(Len(reader'.records) <= committed'.applied)
            /\ Len(replayed') = Len(reader'.records) - committed'.applied
        BY <1>5, <2>3, <3>4, <4>1, SMT
      <4>3. \A i \in 1 .. Len(replayed') : replayed'[i] = committed'.applied + i
        BY <3>5, <4>1
      <4> QED BY <4>2, <4>3 DEF ReplayedInv
    <3> QED BY <1>1, <1>3, <3>3, <3>6 DEF RecoveryInv, CheckpointType
  <2> QED BY <2>2, <2>3
<1> QED BY <1>1, <1>7, <1>8, ReadNextRecords DEF RecoveryInv

LEMMA RecoveryNextInv == RecoveryInv /\ [RecoveryNext]_recoveryVars => RecoveryInv'
<1> SUFFICES ASSUME RecoveryInv, [RecoveryNext]_recoveryVars PROVE RecoveryInv' OBVIOUS
<1>1. JournalInv' /\ VerdictInv'
  BY RecoveryStepIsJournalStep, JournalNextInv, VerdictNextInv DEF RecoveryInv
<1>2. CASE UNCHANGED recoveryVars
  BY <1>1, <1>2 DEF recoveryVars, vars, RecoveryInv, CheckpointType, CommittedInv, Valid,
     DurableInv, InFile, ReplayedInv
<1> QED BY <1>1, <1>2, JournalStepInv, FlushStepInv, CommitCallInv, RecoverInv, ReplayNextInv
          DEF RecoveryNext

\* The invariant holds in every reachable state.
THEOREM RecoveryInvariance == RecoverySpec => []RecoveryInv
BY RecoveryInitInv, RecoveryNextInv, PTL DEF RecoverySpec

\* What is committed is in the file whenever the process may die.
THEOREM DurableHolds == RecoverySpec => []CheckpointIsDurable
<1>1. RecoveryInv => CheckpointIsDurable
  <2> SUFFICES ASSUME RecoveryInv, NEW e \in 1 .. committed.applied PROVE InFile(e)
    BY DEF CheckpointIsDurable
  <2>1. e \in Nat \ {0} /\ e <= durable
    BY RecoveryNumbers, SMT DEF RecoveryInv, CommittedInv
  <2>2. durable # 0
    BY <2>1, RecoveryNumbers, SMT
  <2> QED BY <2>1, <2>2, RecoveryNumbers, SMT DEF RecoveryInv, DurableInv, InFile, Place
<1> QED BY <1>1, RecoveryInvariance, PTL

\* A checkpoint never goes back, whatever calls come late.
THEOREM AdvanceHolds == RecoverySpec => CheckpointAdvances
<1> DEFINE Advance == Valid => /\ committed'.partition = committed.partition
                               /\ committed'.applied >= committed.applied
                               /\ committed'.offset >= committed.offset
<1>1. RecoveryInv /\ [RecoveryNext]_recoveryVars => [Advance]_recoveryVars
  <2> SUFFICES ASSUME RecoveryInv, RecoveryNext PROVE Advance
    OBVIOUS
  <2>1. CASE CommitCall
    <3>1. JournalInv' /\ VerdictInv'
      BY RecoveryStepIsJournalStep, JournalNextInv, VerdictNextInv DEF RecoveryInv
    <3> QED BY <2>1, <3>1, CommitCallInv
  <2>2. CASE JournalStep \/ FlushStep \/ Recover \/ ReplayNext
    <3>1. UNCHANGED committed
      BY <2>2 DEF JournalStep, FlushStep, Recover, ReplayNext
    <3> QED BY <3>1, RecoveryNumbers, SMT
  <2> QED BY <2>1, <2>2 DEF RecoveryNext
<1> QED BY <1>1, RecoveryInvariance, PTL DEF RecoverySpec, CheckpointAdvances

\* Replay continues what was applied, without a gap and without a repetition, and
\* stops with everything the file holds.
THEOREM ReplayHolds == RecoverySpec => []ReplayContinues
<1>1. RecoveryInv => ReplayContinues
  <2> SUFFICES ASSUME RecoveryInv, reader.afterCrash
               PROVE  /\ IsPrefix(Restored, Enqueued)
                      /\ reader.verdict # "None" =>
                           \A e \in 1 .. enqueued : InFile(e) <=> e <= Len(Restored)
    BY DEF ReplayContinues
  <2> DEFINE n == Len(reader.records)
             a == committed.applied
             all == IF n <= a THEN a ELSE n
             done == [i \in 1 .. a |-> i]
  <2>1. /\ n \in Nat /\ a \in Nat /\ a <= durable /\ enqueued \in Nat /\ durable <= enqueued
        /\ replayed \in Seq(Nat) /\ Len(replayed) \in Nat
        /\ Len(replayed) = IF n <= a THEN 0 ELSE n - a
        /\ \A i \in 1 .. Len(replayed) : replayed[i] = a + i
    BY RecoveryNumbers, LenProperties
      DEF RecoveryInv, CommittedInv, ReplayedInv, CheckpointType
  <2>2. n <= enqueued /\ (reader.valid => 2 + 4 * n <= Len(file)) /\ (~reader.valid => n = 0)
    <3>1. (reader.valid => 2 + 4 * n <= Len(file)) /\ (~reader.valid => n = 0)
      BY DEF RecoveryInv, JournalInv, ReaderInv
    <3>2. Len(file) <= 2 + 4 * enqueued
      BY FileIsCut DEF RecoveryInv, IsCut
    <3> QED BY <2>1, <3>1, <3>2, RecoveryNumbers, SMT
  <2>3. a # 0 => 2 + 4 * a <= Len(file)
    BY <2>1, RecoveryNumbers, SMT DEF RecoveryInv, DurableInv, InFile, Place
  <2> HIDE DEF n, a
  <2>4. all \in Nat /\ all <= enqueued /\ all = a + Len(replayed)
    <3>1. CASE n <= a
      BY <2>1, <2>2, <3>1, RecoveryNumbers, SMT
    <3>2. CASE ~(n <= a)
      BY <2>1, <2>2, <3>2, SMT
    <3> QED BY <3>1, <3>2
  <2>5. done \in Seq(Nat) /\ Len(done) = a /\ \A i \in 1 .. a : done[i] = i
    BY <2>1, SMT
  <2> HIDE DEF all, done
  <2>6. /\ Restored \in Seq(Nat) /\ Len(Restored) = all
        /\ \A i \in 1 .. all : Restored[i] = i
    <3>1. Restored = done \o replayed
      BY DEF Restored, done, a
    <3>2. /\ done \o replayed \in Seq(Nat)
          /\ Len(done \o replayed) = Len(done) + Len(replayed)
          /\ \A i \in 1 .. Len(done) + Len(replayed) :
               (done \o replayed)[i] = IF i <= Len(done) THEN done[i]
                                      ELSE replayed[i - Len(done)]
      <4>1. done \in Seq(Nat) /\ replayed \in Seq(Nat)
        BY <2>1, <2>5
      <4> QED BY ONLY <4>1, ConcatProperties
    <3>3. \A i \in 1 .. all : (done \o replayed)[i] = i
      <4> SUFFICES ASSUME NEW i \in 1 .. all PROVE (done \o replayed)[i] = i OBVIOUS
      <4>1. CASE i <= a
        BY <2>1, <2>4, <2>5, <3>2, <4>1, SMT
      <4>2. CASE ~(i <= a)
        <5>1. i - a \in 1 .. Len(replayed) /\ a + (i - a) = i
          BY <2>1, <2>4, <4>2, SMT
        <5>2. (done \o replayed)[i] = replayed[i - a]
          <6>1. i \in 1 .. Len(done) + Len(replayed) /\ ~(i <= Len(done))
            BY <2>1, <2>4, <2>5, <4>2, SMT
          <6> QED BY <2>5, <3>2, <6>1
        <5> QED BY <2>1, <5>1, <5>2
      <4> QED BY <4>1, <4>2
    <3> QED BY <2>4, <2>5, <3>1, <3>2, <3>3
  <2>7. IsPrefix(Restored, Enqueued)
    BY <2>1, <2>4, <2>6, CountingPrefix
  <2>8. ASSUME reader.verdict # "None", NEW e \in 1 .. enqueued
        PROVE  InFile(e) <=> e <= Len(Restored)
    <3>1. e \in Nat \ {0} /\ Place(e, 4) = 2 + 4 * e
      BY <2>1, SMT DEF Place
    <3>2. reader.verdict \in {"InvalidFile", "EndOfFile", "TruncatedTail"}
          /\ Len(file) < 6 + 4 * n
      <4>1. Place(n + 1, 0) = 2 + 4 * n
        BY <2>1, SMT DEF Place
      <4>2. /\ reader.verdict = "InvalidFile" => Len(file) < 2
            /\ reader.verdict = "EndOfFile" => Len(file) = Place(n + 1, 0)
            /\ reader.verdict = "TruncatedTail" => Len(file) < Place(n + 1, 0) + 4
            /\ reader.verdict \in {"InvalidFile", "EndOfFile", "TruncatedTail"}
        BY <2>8 DEF RecoveryInv, VerdictInv, VerdictIsExact, n
      <4> QED BY <2>1, <4>1, <4>2, RecoveryNumbers, SMT
    <3>3. n # 0 => 2 + 4 * n <= Len(file)
      BY <2>2
    <3>4. 2 + 4 * e <= Len(file) <=> e <= all
      BY <2>1, <2>3, <3>1, <3>2, <3>3, RecoveryNumbers, SMT DEF all
    <3> QED BY <2>6, <3>1, <3>4 DEF InFile
  <2> QED BY <2>7, <2>8
<1> QED BY <1>1, RecoveryInvariance, PTL

=============================================================================
