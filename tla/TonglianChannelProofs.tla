----------------------- MODULE TonglianChannelProofs -----------------------
(***************************************************************************)
(* For every number of rows, every stream and every sequence of            *)
(* recoveries: the channel uses its gate as the gate allows, and the book  *)
(* of a live service is exactly what the rows up to the cursor amount to.  *)
(***************************************************************************)
EXTENDS TonglianChannel, SequenceGateProofs, SequenceTheorems

ChannelType ==
  /\ mode = "Contiguous"
  /\ rows \in [1 .. MaxRow -> {"maps", "fails"}]
  /\ produced \in 0 .. MaxRow
  /\ replayedTo \in 0 .. MaxRow
  /\ book \in Seq(1 .. MaxRow)

\* Where a service that is not live has its book, and why its gate accepts nothing.
BookInv ==
  /\ BookIsExact
  /\ service = "rebuilt" => IsBookAt(book, replayedTo)
  /\ service \in {"stopped", "replaying", "rebuilt"} => state # "Healthy"

-----------------------------------------------------------------------------
(* The gate's part of a step.                                              *)

\* The rows are numbers a gate takes.
LEMMA RowNumbers ==
  /\ Channel \in PartitionIds /\ MaxRow \in Nat
  /\ \A s \in 0 .. MaxRow : s \in Sequences0
  /\ \A s \in 1 .. MaxRow : s \in Sequences0 /\ s \in 0 .. MaxRow
  BY ChannelAssumption, GateAssumption, SMT DEF Sequences0

\* The books a replay may give are sequences of rows.
LEMMA BooksAreSequences == \A b \in SeqOf(1 .. MaxRow, MaxRow) : b \in Seq(1 .. MaxRow)
  <1> SUFFICES ASSUME NEW m \in 0 .. MaxRow, NEW b \in [1 .. m -> 1 .. MaxRow]
               PROVE  b \in Seq(1 .. MaxRow)
    BY DEF SeqOf
  <1>1. m \in Nat
    BY RowNumbers
  <1>2. QED BY <1>1, SeqDef, Zenon

\* The channel calls nothing but methods of the gate, with arguments they take.
LEMMA ChannelStepIsGateStep ==
  ASSUME ChannelType, [ChannelNext]_channelVars
  PROVE  [Next]_gateVars
  <1>1. ASSUME NEW p \in PartitionIds, NEW s \in 1 .. MaxRow, LiveRow(p, s)
        PROVE  Next
    BY <1>1, RowNumbers DEF LiveRow, MapRow, Next
  <1>2. CASE Produce \/ UNCHANGED channelVars
    BY <1>2 DEF Produce, channelVars, gateVars
  <1>3. ASSUME NEW s \in 0 .. MaxRow, Establish(s)
        PROVE  Next
    BY <1>3, RowNumbers DEF Establish, Next
  <1>4. ASSUME NEW s \in 0 .. MaxRow, Replay(s)
        PROVE  UNCHANGED gateVars
    BY <1>4 DEF Replay
  <1>5. CASE StartRecovery \/ StartOver
    BY <1>5 DEF StartRecovery, StartOver, Next
  <1>6. CASE FinishRecovery
    BY <1>6, RowNumbers DEF FinishRecovery, ChannelType, Next
  <1>7. QED
    BY <1>1, <1>2, <1>3, <1>4, <1>5, <1>6 DEF ChannelNext, Service

-----------------------------------------------------------------------------
(* The types of the channel.                                               *)

LEMMA ChannelInitType == ChannelInit => ChannelType
  BY RowNumbers, SMT DEF ChannelInit, ChannelType

LEMMA ChannelStepType ==
  ASSUME ChannelType, [ChannelNext]_channelVars
  PROVE  ChannelType'
  <1> USE DEF ChannelType
  <1>1. ASSUME NEW p \in PartitionIds, NEW s \in 1 .. MaxRow, LiveRow(p, s)
        PROVE  ChannelType'
    <2>1. mode' = mode
      BY <1>1, RowNumbers, ObserveMoves DEF LiveRow, MapRow
    <2>2. book' = Append(book, s) \/ book' = book
      BY <1>1 DEF LiveRow, MapRow
    <2>3. UNCHANGED <<rows, produced, replayedTo>>
      BY <1>1 DEF LiveRow, MapRow
    <2>4. Append(book, s) \in Seq(1 .. MaxRow)
      OBVIOUS
    <2>5. book' \in Seq(1 .. MaxRow)
      BY <2>2, <2>4
    <2>6. QED BY <2>1, <2>3, <2>5
  <1>2. CASE Produce
    BY <1>2, RowNumbers, SMT DEF Produce, gateVars
  <1>3. ASSUME NEW s \in 0 .. MaxRow, Establish(s)
        PROVE  ChannelType'
    BY <1>3, BooksAreSequences DEF Establish, CompleteRecovery
  <1>4. ASSUME NEW s \in 0 .. MaxRow, Replay(s)
        PROVE  ChannelType'
    BY <1>4, BooksAreSequences DEF Replay, gateVars
  <1>5. CASE StartRecovery \/ StartOver
    BY <1>5 DEF StartRecovery, StartOver, BeginRecovery, Reset
  <1>6. CASE FinishRecovery
    BY <1>6 DEF FinishRecovery, CompleteRecovery, gateVars
  <1>7. CASE UNCHANGED channelVars
    BY <1>7 DEF channelVars, gateVars
  <1>8. QED
    BY <1>1, <1>2, <1>3, <1>4, <1>5, <1>6, <1>7 DEF ChannelNext, Service

-----------------------------------------------------------------------------
(* The book.                                                               *)

\* A row behind the last one makes the book of one row more.
LEMMA BookGrows ==
  ASSUME NEW n \in Nat, NEW b \in Seq(1 .. MaxRow), IsBookAt(b, n)
  PROVE  IsBookAt(IF Maps(n + 1) THEN Append(b, n + 1) ELSE b, n + 1)
  <1>1. {s \in 1 .. n + 1 : Maps(s)} =
          {s \in 1 .. n : Maps(s)} \cup (IF Maps(n + 1) THEN {n + 1} ELSE {})
    <2>1. 1 .. n + 1 = (1 .. n) \cup {n + 1}
      BY SMT
    <2>2. QED BY <2>1
  <1>2. CASE ~Maps(n + 1)
    BY <1>1, <1>2 DEF IsBookAt
  <1>3. CASE Maps(n + 1)
    <2> DEFINE c == Append(b, n + 1)
    <2>1. /\ Len(b) \in Nat /\ DOMAIN b = 1 .. Len(b)
          /\ DOMAIN c = 1 .. Len(b) + 1
          /\ c[Len(b) + 1] = n + 1
          /\ \A i \in 1 .. Len(b) : c[i] = b[i]
      BY SMT
    <2>2. \A i \in 1 .. Len(b) : b[i] \in Nat /\ b[i] <= n
      BY <2>1, SMT DEF IsBookAt
    <2> HIDE DEF c
    <2>3. \A i, j \in DOMAIN c : i < j => c[i] < c[j]
      <3> SUFFICES ASSUME NEW i \in DOMAIN c, NEW j \in DOMAIN c, i < j
                   PROVE  c[i] < c[j]
        OBVIOUS
      <3>1. i \in 1 .. Len(b) /\ (j \in 1 .. Len(b) \/ j = Len(b) + 1)
        BY <2>1, SMT
      <3>2. CASE j \in 1 .. Len(b)
        BY <2>1, <3>1, <3>2 DEF IsBookAt
      <3>3. CASE j = Len(b) + 1
        BY <2>1, <2>2, <3>1, <3>3, SMT
      <3>4. QED BY <3>1, <3>2, <3>3
    <2>4. {c[i] : i \in DOMAIN c} = {b[i] : i \in DOMAIN b} \cup {n + 1}
      <3>1. DOMAIN c = DOMAIN b \cup {Len(b) + 1}
        BY <2>1, SMT
      <3>2. QED BY <2>1, <3>1
    <2>5. IsBookAt(c, n + 1)
      BY <1>1, <1>3, <2>3, <2>4 DEF IsBookAt
    <2>6. QED BY <1>3, <2>5 DEF c
  <1>4. QED BY <1>2, <1>3

\* The row a live contiguous gate accepts is the next one.
LEMMA NextRow ==
  ASSUME TypeOK, ChannelType, NEW s \in 1 .. MaxRow, Follows(s, lastAccepted)
  PROVE  lastAccepted \in Nat /\ s = lastAccepted + 1
  <1>1. s = Succ(lastAccepted)
    BY DEF Follows, ChannelType
  <1>2. lastAccepted \in Nat /\ s # 0
    BY RowNumbers, GateAssumption, SMT DEF TypeOK, Sequences0
  <1>3. QED BY <1>1, <1>2 DEF Succ

\* Other steps than a row keep what is said of the book.
LEMMA SameBook ==
  ASSUME BookInv, UNCHANGED <<state, lastAccepted, rows, book, service, replayedTo>>
  PROVE  BookInv'
  BY DEF BookInv, BookIsExact, IsBookAt, Maps

\* A row of the stream: accepted, it is the next one and the book has it; not
\* accepted, the book stays and the service stops if the gate has.
LEMMA LiveRowBook ==
  ASSUME TypeOK, ChannelType, BookInv,
         NEW p \in PartitionIds, NEW s \in 1 .. MaxRow, LiveRow(p, s)
  PROVE  BookInv'
  <1>1. /\ Observe(p, s) /\ UNCHANGED <<rows, replayedTo>>
        /\ book' = IF obs'.event = "Accepted" /\ Maps(s) THEN Append(book, s) ELSE book
        /\ service' = IF service = "live" /\ state' # "Healthy" THEN "stopped" ELSE service
    BY DEF LiveRow, MapRow
  <1>2. CASE obs'.event = "Accepted"
    <2>1. /\ state = "Healthy" /\ state' = "Healthy" /\ lastAccepted' = s
          /\ Follows(s, lastAccepted)
      BY <1>1, <1>2, RowNumbers, ObserveMoves
    <2>2. lastAccepted \in Nat /\ s = lastAccepted + 1
      BY <2>1, NextRow
    <2>3. service' = service /\ service \notin {"stopped", "replaying", "rebuilt"}
      BY <1>1, <2>1 DEF BookInv
    <2>4. service = "live" => IsBookAt(book', s)
      BY <1>1, <1>2, <2>2, BookGrows DEF BookInv, BookIsExact, ChannelType
    <2>5. service = "live" => IsBookAt(book, lastAccepted)'
      BY <1>1, <2>1, <2>4 DEF IsBookAt, Maps
    <2>6. QED BY <2>1, <2>3, <2>5 DEF BookInv, BookIsExact
  <1>3. CASE obs'.event # "Accepted"
    <2>1. lastAccepted' = lastAccepted /\ (state # "Healthy" => state' # "Healthy")
      BY <1>1, <1>3, RowNumbers, ObserveMoves
    <2>2. UNCHANGED <<rows, replayedTo, book, lastAccepted>>
      BY <1>1, <1>3, <2>1
    <2>3. CASE service = "live" /\ state' # "Healthy"
      BY <1>1, <2>3 DEF BookInv, BookIsExact
    <2>4. CASE service = "live" /\ state' = "Healthy"
      BY <1>1, <2>2, <2>4 DEF BookInv, BookIsExact, IsBookAt, Maps
    <2>5. CASE service # "live"
      BY <1>1, <2>1, <2>2, <2>5 DEF BookInv, BookIsExact, IsBookAt, Maps
    <2>6. QED BY <2>3, <2>4, <2>5
  <1>4. QED BY <1>2, <1>3

LEMMA ChannelStepBook ==
  ASSUME TypeOK, ChannelType, BookInv, [ChannelNext]_channelVars
  PROVE  BookInv'
  <1>1. ASSUME NEW p \in PartitionIds, NEW s \in 1 .. MaxRow, LiveRow(p, s)
        PROVE  BookInv'
    BY <1>1, LiveRowBook
  <1>2. CASE Produce \/ UNCHANGED channelVars
    BY <1>2, SameBook DEF Produce, channelVars, gateVars
  <1>3. ASSUME NEW s \in 0 .. MaxRow, Establish(s)
        PROVE  BookInv'
    BY <1>3 DEF Establish, CompleteRecovery, BookInv, BookIsExact, IsBookAt, Maps
  <1>4. ASSUME NEW n \in 0 .. MaxRow, Replay(n)
        PROVE  BookInv'
    BY <1>4 DEF Replay, gateVars, BookInv, BookIsExact, IsBookAt, Maps
  <1>5. CASE StartRecovery
    BY <1>5 DEF StartRecovery, BeginRecovery, BookInv, BookIsExact
  <1>6. CASE StartOver
    BY <1>6 DEF StartOver, BookInv, BookIsExact
  <1>7. CASE FinishRecovery
    <2>1. CASE CompleteRecovery(Channel, replayedTo) /\ service' = "live"
      BY <1>7, <2>1
      DEF FinishRecovery, CompleteRecovery, BookInv, BookIsExact, IsBookAt, Maps
    <2>2. CASE service' = "refused"
      BY <2>2 DEF BookInv, BookIsExact
    <2>3. QED BY <1>7, <2>1, <2>2 DEF FinishRecovery
  <1>8. QED
    BY <1>1, <1>2, <1>3, <1>4, <1>5, <1>6, <1>7 DEF ChannelNext, Service

-----------------------------------------------------------------------------
LEMMA ChannelTyped == ChannelSpec => []ChannelType
  BY ChannelInitType, ChannelStepType, PTL DEF ChannelSpec

\* The mapper, and the service behind it, use the gate as the gate allows: every
\* behaviour of the channel is one of SequenceGate, and what is proved of the gate
\* holds of it.
THEOREM ChannelIsGate == ChannelSpec => Spec
  <1>1. ChannelInit => Init
    BY DEF ChannelInit
  <1>2. QED BY <1>1, ChannelStepIsGateStep, ChannelTyped, PTL DEF ChannelSpec, Spec

\* While the service is live its book is exactly the rows up to the cursor that
\* map, for every stream, every length of it and any number of recoveries.
THEOREM BookHolds == ChannelSpec => []BookIsExact
  <1>1. ChannelInit => BookInv
    BY DEF ChannelInit, BookInv, BookIsExact
  <1>2. TypeOK /\ ChannelType /\ BookInv /\ [ChannelNext]_channelVars => BookInv'
    BY ChannelStepBook
  <1>3. BookInv => BookIsExact
    BY DEF BookInv
  <1>4. QED
    BY <1>1, <1>2, <1>3, ChannelIsGate, TypeCorrect, ChannelTyped, PTL DEF ChannelSpec

-----------------------------------------------------------------------------
(* How far a service is from repairing a break.  That it goes on is         *)
(* fairness, and left to TLC; what is proved is that it always can, and that *)
(* nothing takes it back.                                                   *)

HasBook(n) == \E b \in SeqOf(1 .. MaxRow, MaxRow) : IsBookAt(b, n)

\* Where the service waits for something, there is what it waits for.
CanGoOn ==
  /\ service = "down" => \E s \in 0 .. produced : CompletesAt(Channel, s) /\ HasBook(s)
  /\ service = "replaying" => \E n \in lastAccepted .. produced : HasBook(n)

\* The most steps a service that is not live has left.
RepairLeft ==
  CASE service = "live" -> 0
    [] service = "down" -> 1
    [] service = "refused" -> 2
    [] service = "rebuilt" -> 3
    [] service = "replaying" -> 4
    [] service = "stopped" -> 5

RepairNears ==
  [][service # "live" =>
       RepairLeft' <= RepairLeft /\ (Service => RepairLeft' < RepairLeft)]_channelVars

\* The cursor is behind the vendor, whose rows have a book up to each of them.
RepairInv ==
  /\ service \in ServiceStates
  /\ lastAccepted <= produced /\ replayedTo <= produced
  /\ service = "down" => state = "Uninitialized"
  /\ \A n \in 0 .. produced :
       \E b \in Seq(1 .. MaxRow) : Len(b) <= n /\ IsBookAt(b, n)

LEMMA ShortBook ==
  ASSUME NEW n \in 0 .. MaxRow, NEW b \in Seq(1 .. MaxRow), Len(b) <= n, IsBookAt(b, n)
  PROVE  HasBook(n)
  <1>1. Len(b) \in 0 .. MaxRow /\ b \in [1 .. Len(b) -> 1 .. MaxRow]
    BY RowNumbers, LenProperties, SMT
  <1>2. b \in SeqOf(1 .. MaxRow, MaxRow)
    BY <1>1 DEF SeqOf
  <1>3. QED BY <1>2 DEF HasBook

\* A row more, and there is a book with it.
LEMMA ProduceRepair ==
  ASSUME TypeOK, ChannelType, RepairInv, Produce
  PROVE  RepairInv'
  <1>1. /\ produced \in Nat /\ produced' = produced + 1
        /\ UNCHANGED <<state, lastAccepted, rows, service, replayedTo>>
    BY RowNumbers, SMT DEF Produce, gateVars, ChannelType
  <1>2. ASSUME NEW n \in 0 .. produced', NEW b \in Seq(1 .. MaxRow), IsBookAt(b, n)
        PROVE  IsBookAt(b, n)'
    BY <1>1, <1>2 DEF IsBookAt, Maps
  <1>3. PICK b \in Seq(1 .. MaxRow) : Len(b) <= produced /\ IsBookAt(b, produced)
    BY <1>1 DEF RepairInv
  <1> DEFINE c == IF Maps(produced + 1) THEN Append(b, produced + 1) ELSE b
  <1>4. IsBookAt(c, produced + 1)
    BY <1>1, <1>3, BookGrows
  <1>5. c \in Seq(1 .. MaxRow) /\ Len(c) <= produced + 1
    <2>1. produced + 1 \in 1 .. MaxRow
      BY <1>1, RowNumbers, SMT DEF Produce, ChannelType
    <2>2. /\ Append(b, produced + 1) \in Seq(1 .. MaxRow)
          /\ Len(Append(b, produced + 1)) = Len(b) + 1 /\ Len(b) \in Nat
      BY <2>1, AppendProperties, LenProperties
    <2>3. Len(b) + 1 <= produced + 1 /\ Len(b) <= produced + 1
      BY <1>1, <1>3, <2>2, SMT
    <2>4. QED BY <1>3, <2>2, <2>3, Zenon DEF c
  <1> HIDE DEF c
  <1>6. \A n \in 0 .. produced' :
          \E d \in Seq(1 .. MaxRow) : Len(d) <= n /\ IsBookAt(d, n)'
    <2> SUFFICES ASSUME NEW n \in 0 .. produced'
                 PROVE  \E d \in Seq(1 .. MaxRow) : Len(d) <= n /\ IsBookAt(d, n)'
      OBVIOUS
    <2>1. CASE n = produced + 1
      BY <1>2, <1>4, <1>5, <2>1
    <2>2. CASE n # produced + 1
      <3>1. n \in 0 .. produced
        BY <1>1, <2>2, SMT
      <3>2. QED BY <1>2, <3>1 DEF RepairInv
    <2>3. QED BY <2>1, <2>2
  <1>7. lastAccepted <= produced' /\ replayedTo <= produced'
    <2>1. /\ lastAccepted <= produced /\ replayedTo <= produced
          /\ lastAccepted \in Nat /\ replayedTo \in Nat
      BY GateAssumption, RowNumbers, SMT DEF RepairInv, TypeOK, Sequences0, ChannelType
    <2>2. QED BY <1>1, <2>1, SMT
  <1>8. QED BY <1>1, <1>6, <1>7 DEF RepairInv

\* A gate without a baseline learns nothing from a row.
LEMMA AwaitingStays ==
  ASSUME NEW p \in PartitionIds, NEW s \in Sequences0, Observe(p, s),
         state = "Uninitialized"
  PROVE  state' = "Uninitialized"
  BY DEF Observe, ObserveInvalid, ObserveAwaitingBaseline, ObserveWrongPartition,
         ObserveWhileStale, ObserveAccepted, ObserveDuplicate, ObserveBreak

\* Steps that change neither what was produced nor its rows keep the books.
LEMMA OldBooks ==
  ASSUME RepairInv, UNCHANGED <<rows, produced>>
  PROVE  \A n \in 0 .. produced' :
           \E b \in Seq(1 .. MaxRow) : Len(b) <= n /\ IsBookAt(b, n)'
  BY DEF RepairInv, IsBookAt, Maps

LEMMA RepairStep ==
  ASSUME TypeOK, ChannelType, RepairInv, [ChannelNext]_channelVars
  PROVE  RepairInv'
  <1>1. ASSUME NEW p \in PartitionIds, NEW s \in 1 .. MaxRow, LiveRow(p, s)
        PROVE  RepairInv'
    <2>1. s <= produced /\ Observe(p, s) /\ UNCHANGED <<rows, produced, replayedTo>>
      BY <1>1 DEF LiveRow, MapRow
    <2>2. lastAccepted' = lastAccepted \/ lastAccepted' = s
      BY <2>1, RowNumbers, ObserveMoves
    <2>3. service' = service \/ service' = "stopped"
      BY <1>1 DEF LiveRow
    <2>4. state = "Uninitialized" => state' = "Uninitialized"
      BY <2>1, RowNumbers, AwaitingStays
    <2>5. QED BY <2>1, <2>2, <2>3, <2>4, OldBooks DEF RepairInv, ServiceStates
  <1>2. CASE Produce
    BY <1>2, ProduceRepair
  <1>3. ASSUME NEW s \in 0 .. MaxRow, Establish(s)
        PROVE  RepairInv'
    BY <1>3, OldBooks DEF Establish, CompleteRecovery, RepairInv, ServiceStates
  <1>4. ASSUME NEW n \in 0 .. MaxRow, Replay(n)
        PROVE  RepairInv'
    <2>1. n <= produced
      BY <1>4, RowNumbers, SMT DEF Replay, ChannelType
    <2>2. QED BY <1>4, <2>1, OldBooks DEF Replay, gateVars, RepairInv, ServiceStates
  <1>5. CASE StartRecovery
    BY <1>5, OldBooks DEF StartRecovery, BeginRecovery, RepairInv, ServiceStates
  <1>6. CASE StartOver
    <2>1. 0 <= produced
      BY RowNumbers, SMT DEF ChannelType
    <2>2. QED BY <1>6, <2>1, OldBooks DEF StartOver, Reset, RepairInv, ServiceStates
  <1>7. CASE FinishRecovery
    <2>1. CASE CompleteRecovery(Channel, replayedTo) /\ service' = "live"
      BY <1>7, <2>1, OldBooks DEF FinishRecovery, CompleteRecovery, RepairInv, ServiceStates
    <2>2. CASE service' = "refused" /\ UNCHANGED gateVars
      BY <1>7, <2>2, OldBooks DEF FinishRecovery, gateVars, RepairInv, ServiceStates
    <2>3. QED BY <1>7, <2>1, <2>2 DEF FinishRecovery
  <1>8. CASE UNCHANGED channelVars
    BY <1>8, OldBooks DEF channelVars, gateVars, RepairInv
  <1>9. QED
    BY <1>1, <1>2, <1>3, <1>4, <1>5, <1>6, <1>7, <1>8 DEF ChannelNext, Service

LEMMA RepairInit == ChannelInit => RepairInv
  <1> SUFFICES ASSUME ChannelInit PROVE RepairInv
    OBVIOUS
  <1>1. /\ produced = 0 /\ lastAccepted = 0 /\ replayedTo = 0
        /\ service = "down" /\ state = "Uninitialized"
    BY DEF ChannelInit, Init
  <1> DEFINE none == <<>>
  <1>2. none \in Seq(1 .. MaxRow) /\ Len(none) = 0 /\ DOMAIN none = {}
    BY EmptySeq
  <1> HIDE DEF none
  <1>3. {s \in 1 .. 0 : Maps(s)} = {} /\ {none[i] : i \in DOMAIN none} = {}
    BY <1>2
  <1>4. IsBookAt(none, 0)
    BY <1>2, <1>3 DEF IsBookAt
  <1>5. \A n \in 0 .. produced :
          \E b \in Seq(1 .. MaxRow) : Len(b) <= n /\ IsBookAt(b, n)
    <2>1. \A n \in 0 .. produced : n = 0
      BY <1>1
    <2>2. \E b \in Seq(1 .. MaxRow) : Len(b) <= 0 /\ IsBookAt(b, 0)
      <3>1. Len(none) <= 0
        BY <1>2
      <3>2. QED BY <1>2, <1>4, <3>1, Zenon
    <2>3. QED BY <2>1, <2>2
  <1>6. QED BY <1>1, <1>5 DEF RepairInv, ServiceStates

\* The service can always take its next step: a book can be rebuilt up to every
\* row there is, among them one at or behind the cursor, and a gate that was reset
\* takes the baseline.
LEMMA RepairGoesOn == ASSUME ChannelType, RepairInv PROVE CanGoOn
  <1>1. \A n \in 0 .. produced : n \in 0 .. MaxRow
    BY RowNumbers, SMT DEF ChannelType
  <1>2. \A n \in 0 .. produced : HasBook(n)
    BY <1>1, ShortBook DEF RepairInv
  <1>3. 0 \in 0 .. produced /\ produced \in 0 .. produced /\ produced \in lastAccepted .. produced
    BY RowNumbers, SMT DEF ChannelType, RepairInv
  <1>4. service = "down" => CompletesAt(Channel, 0)
    BY ChannelAssumption DEF CompletesAt, RepairInv
  <1>5. QED BY <1>2, <1>3, <1>4 DEF CanGoOn

LEMMA RepairMoves ==
  ASSUME RepairInv, ChannelNext, service # "live"
  PROVE  RepairLeft' <= RepairLeft /\ (Service => RepairLeft' < RepairLeft)
  <1>1. CASE Service
    <2>1. \/ service = "down" /\ service' = "live"
          \/ service = "refused" /\ service' = "down"
          \/ service = "rebuilt" /\ service' \in {"live", "refused"}
          \/ service = "replaying" /\ service' = "rebuilt"
          \/ service = "stopped" /\ service' = "replaying"
      BY <1>1 DEF Service, Establish, Replay, StartRecovery, FinishRecovery, StartOver
    <2>2. QED BY <2>1, SMT DEF RepairLeft
  <1>2. CASE ~Service
    <2>1. service' = service
      BY <1>2 DEF ChannelNext, LiveRow, Produce
    <2>2. RepairLeft' = RepairLeft /\ RepairLeft \in Nat
      BY <2>1, SMT DEF RepairLeft, RepairInv, ServiceStates
    <2>3. QED BY <1>2, <2>2, SMT
  <1>3. QED BY <1>1, <1>2

\* A break is at most five steps of the service from its repair: every step of it
\* goes one nearer, no row takes it back, and wherever it waits it can go on.
THEOREM RepairNearsEnd == ChannelSpec => []CanGoOn /\ RepairNears
  <1>1. ChannelInit => ChannelType /\ RepairInv
    BY ChannelInitType, RepairInit
  <1>2. TypeOK /\ ChannelType /\ RepairInv /\ [ChannelNext]_channelVars
          => ChannelType' /\ RepairInv'
    BY ChannelStepType, RepairStep
  <1>3. ChannelType /\ RepairInv => CanGoOn
    BY RepairGoesOn
  <1>4. RepairInv /\ [ChannelNext]_channelVars =>
        [service # "live" =>
           RepairLeft' <= RepairLeft /\ (Service => RepairLeft' < RepairLeft)]_channelVars
    BY RepairMoves
  <1>5. QED
    BY <1>1, <1>2, <1>3, <1>4, ChannelIsGate, TypeCorrect, PTL DEF ChannelSpec, RepairNears

=============================================================================
