--------------------------- MODULE SpscRingProofs ---------------------------
(***************************************************************************)
(* What holds of the ring for every capacity, every width of the indices   *)
(* that is a multiple of it, every stale load and every interleaving: the  *)
(* threads never race for a slot, and the ring implements BoundedFifo.     *)
(* Initial states map to the empty queue, Publish to a push, Release to a  *)
(* pop and every other step of the two threads to a stutter.               *)
(***************************************************************************)
EXTENDS SpscRing, Integers, SequenceTheorems, TLAPS

-----------------------------------------------------------------------------
(* Arithmetic: the slot of the next index is the next slot.                *)

\* Division with remainder by the capacity.
LEMMA SlotDivision ==
  \A i \in Nat : /\ i = Capacity * (i \div Capacity) + (i % Capacity)
                 /\ i \div Capacity \in Int
                 /\ i % Capacity \in Slots
  BY RingAssumption, Z3 DEF Slots

\* A multiple of the capacity between -Capacity and 2 * Capacity, both excluded,
\* is 0 or 1 times it.
LEMMA SmallMultiple ==
  ASSUME NEW d \in Int, Capacity * d > -Capacity, Capacity * d < 2 * Capacity
  PROVE  d \in {0, 1}
  <1>1. CASE d >= 2
    <2>1. Capacity * d >= Capacity * 2
      BY <1>1, RingAssumption, Z3
    <2>2. QED BY <2>1, RingAssumption
  <1>2. CASE d <= -1
    <2>1. Capacity * d <= -Capacity
      BY <1>2, RingAssumption, Z3
    <2>2. QED BY <2>1, RingAssumption
  <1>3. QED BY <1>1, <1>2

\* n slots further around the ring from slot s.
Around(s, n) == IF s + n >= Capacity THEN s + n - Capacity ELSE s + n

\* The slot k indices further is the slot k places around the ring, also across
\* the wrap of the index, whose width is a multiple of the capacity.
LEMMA SlotOfPlus ==
  ASSUME NEW i \in Indices, NEW k \in 0 .. Capacity
  PROVE  SlotOf(Plus(i, k)) = Around(SlotOf(i), k) /\ Plus(i, k) \in Indices
  <1> DEFINE n == Plus(i, k)
             q == i \div Capacity
             r == i % Capacity
             q1 == n \div Capacity
             r1 == n % Capacity
             m == IndexSpan \div Capacity
  <1>1. i \in Nat /\ k \in Nat /\ n \in Nat /\ n \in Indices
    BY RingAssumption DEF Indices, Plus
  <1>2. i = Capacity * q + r /\ q \in Int /\ r \in Slots
    BY <1>1, SlotDivision
  <1>3. n = Capacity * q1 + r1 /\ q1 \in Int /\ r1 \in Slots
    BY <1>1, SlotDivision
  <1>4. IndexSpan = Capacity * m /\ m \in Int
    BY SlotDivision, RingAssumption
  <1>5. n = i + k \/ n = i + k - IndexSpan
    BY DEF Plus
  <1> HIDE DEF n, q, r, q1, r1, m
  <1>6. \E d \in Int : Capacity * d = r + k - r1
    <2>1. CASE n = i + k
      <3>1. Capacity * (q1 - q) = Capacity * q1 - Capacity * q
        BY <1>2, <1>3, RingAssumption, Z3
      <3>2. Capacity * q \in Int /\ Capacity * q1 \in Int
        BY <1>2, <1>3, RingAssumption
      <3>3. Capacity * (q1 - q) = r + k - r1
        BY <1>1, <1>2, <1>3, <2>1, <3>1, <3>2, RingAssumption DEF Slots
      <3>4. QED BY <1>2, <1>3, <3>3
    <2>2. CASE n = i + k - IndexSpan
      <3>1. Capacity * (q1 - q + m) = Capacity * q1 - Capacity * q + Capacity * m
        BY <1>2, <1>3, <1>4, RingAssumption, Z3
      <3>2. /\ Capacity * q \in Int /\ Capacity * q1 \in Int
            /\ Capacity * m \in Int
        BY <1>2, <1>3, <1>4, RingAssumption
      <3>3. Capacity * (q1 - q + m) = r + k - r1
        BY <1>1, <1>2, <1>3, <1>4, <2>2, <3>1, <3>2, RingAssumption DEF Slots
      <3>4. q1 - q + m \in Int
        BY <1>2, <1>3, <1>4
      <3>5. QED BY <3>3, <3>4
    <2>3. QED BY <1>5, <2>1, <2>2
  <1>7. PICK d \in Int : Capacity * d = r + k - r1
    BY <1>6
  <1>8. d \in {0, 1}
    <2>1. Capacity * d > -Capacity /\ Capacity * d < 2 * Capacity
      BY <1>1, <1>2, <1>3, <1>7, RingAssumption DEF Slots
    <2>2. QED BY <2>1, SmallMultiple
  <1>9. r1 = r + k \/ r1 = r + k - Capacity
    <2>1. CASE d = 0
      <3>1. Capacity * d = 0 BY <2>1, RingAssumption
      <3>2. QED BY <3>1, <1>1, <1>2, <1>3, <1>7, RingAssumption DEF Slots
    <2>2. CASE d = 1
      <3>1. Capacity * d = Capacity BY <2>2, RingAssumption
      <3>2. QED BY <3>1, <1>1, <1>2, <1>3, <1>7, RingAssumption DEF Slots
    <2>3. QED BY <1>8, <2>1, <2>2
  <1>10. r1 = Around(r, k)
    BY <1>1, <1>2, <1>3, <1>9, RingAssumption DEF Around, Slots
  <1>11. QED BY <1>1, <1>10 DEF SlotOf, n, r, r1

\* An index names a slot, and stays an index.
LEMMA IndexType ==
  \A i \in Indices : SlotOf(i) \in Slots /\ Inc(i) \in Indices
  BY SlotDivision, RingAssumption DEF Indices, SlotOf, Inc

-----------------------------------------------------------------------------
(* The inductive invariant: where the two threads' views of the indices    *)
(* stand.  The producer's view of the read index lags behind it and the    *)
(* consumer's view of the write index lies between the two indices, and    *)
(* both bounds leave room for what a thread has already decided.           *)

ProducerWindow ==
  /\ Size + Distance(readIndex, pSeen) <= Capacity
  /\ pPc # "idle" => Size + Distance(readIndex, pSeen) < Capacity

ConsumerWindow ==
  /\ Distance(cSeen, readIndex) <= Size
  /\ cPc # "idle" => cSeen # readIndex

IInv == TypeOK /\ ProducerWindow /\ ConsumerWindow

LEMMA InitIInv == Init => IInv
  BY RingAssumption
  DEF Init, IInv, TypeOK, Indices, ProducerWindow, ConsumerWindow, Size, Distance

\* A step that moves neither index nor a view keeps the windows.
LEMMA SameViews ==
  ASSUME ProducerWindow, ConsumerWindow,
         UNCHANGED <<writeIndex, readIndex, pSeen, cSeen>>,
         pPc' = pPc \/ pPc # "idle", cPc' = cPc \/ cPc # "idle"
  PROVE  ProducerWindow' /\ ConsumerWindow'
  BY DEF ProducerWindow, ConsumerWindow, Size, Distance

\* Every step of the producer keeps the invariant.
LEMMA ProducerKeeps == IInv /\ Producer => IInv'
  <1> SUFFICES ASSUME IInv, Producer PROVE IInv'
    OBVIOUS
  <1> USE DEF IInv
  <1>1. ASSUME NEW v \in Values, PushCheck(v) PROVE IInv'
    <2>1. PICK read \in Visible(readIndex, pSeen) :
            /\ pSeen' = read
            /\ \/ HasRoom(read) /\ pPc' = "checked" /\ pValue' = v
               \/ ~HasRoom(read) /\ UNCHANGED <<pPc, pValue>>
      BY <1>1 DEF PushCheck
    <2>2. /\ pPc = "idle"
          /\ UNCHANGED <<writeIndex, readIndex, buffer, cPc, cSeen, out, popped>>
      BY <1>1 DEF PushCheck, consumerVars
    <2>3. read \in Indices /\ Distance(read, pSeen) <= Distance(readIndex, pSeen)
      BY <2>1 DEF Visible
    <2>4. TypeOK'
      BY <2>1, <2>2, <2>3 DEF TypeOK
    <2>5. ProducerWindow'
      <3>1. Size + Distance(readIndex, read) <= Capacity
        BY <2>2, <2>3, RingAssumption
        DEF ProducerWindow, TypeOK, Indices, Size, Distance
      <3>2. HasRoom(read) => Size + Distance(readIndex, read) < Capacity
        BY <2>2, <2>3, RingAssumption
        DEF ProducerWindow, HasRoom, TypeOK, Indices, Size, Distance
      <3>3. QED
        BY <2>1, <2>2, <3>1, <3>2 DEF ProducerWindow, Size, Distance
    <2>6. ConsumerWindow'
      BY <2>2 DEF ConsumerWindow, Size, Distance
    <2>7. QED BY <2>4, <2>5, <2>6
  <1>2. ASSUME WriteSlot PROVE IInv'
    <2>1. TypeOK'
      BY <1>2, IndexType DEF WriteSlot, TypeOK, consumerVars
    <2>2. QED
      BY <1>2, <2>1, SameViews DEF WriteSlot, consumerVars
  <1>3. ASSUME Publish PROVE IInv'
    <2>1. /\ pPc = "written" /\ writeIndex' = Inc(writeIndex)
          /\ pPc' = "idle" /\ pValue' = NoValue
          /\ UNCHANGED <<readIndex, buffer, pSeen, cPc, cSeen, out, popped>>
      BY <1>3 DEF Publish, consumerVars
    <2>2. TypeOK'
      BY <2>1, IndexType DEF TypeOK
    <2>3. Size < Capacity
      BY <2>1, RingAssumption DEF ProducerWindow, TypeOK, Indices, Size, Distance
    <2>4. Size' = Size + 1
      BY <2>1, <2>3, RingAssumption DEF TypeOK, Indices, Size, Distance, Inc
    <2>5. ProducerWindow' /\ ConsumerWindow'
      BY <2>1, <2>4, RingAssumption
      DEF ProducerWindow, ConsumerWindow, TypeOK, Indices, Size, Distance
    <2>6. QED BY <2>2, <2>5
  <1>4. QED BY <1>1, <1>2, <1>3 DEF Producer

\* Every step of the consumer keeps the invariant.
LEMMA ConsumerKeeps == IInv /\ Consumer => IInv'
  <1> SUFFICES ASSUME IInv, Consumer PROVE IInv'
    OBVIOUS
  <1> USE DEF IInv
  <1>1. ASSUME NEW write \in Visible(writeIndex, cSeen), PopCheck(write)
        PROVE  IInv'
    <2>1. /\ cPc = "idle" /\ cSeen' = write
          /\ cPc' = IF write = readIndex THEN "idle" ELSE "checked"
          /\ UNCHANGED <<writeIndex, readIndex, buffer, out, popped,
                         pPc, pValue, pSeen>>
      BY <1>1 DEF PopCheck, producerVars
    <2>2. write \in Indices /\ Distance(write, cSeen) <= Distance(writeIndex, cSeen)
      BY DEF Visible
    <2>3. TypeOK'
      BY <2>1, <2>2 DEF TypeOK
    <2>4. Size <= Capacity
      BY RingAssumption DEF ProducerWindow, TypeOK, Indices, Size, Distance
    <2>5. Distance(write, readIndex) <= Size
      BY <2>2, <2>4, RingAssumption
      DEF ConsumerWindow, TypeOK, Indices, Size, Distance
    <2>6. ConsumerWindow'
      BY <2>1, <2>5 DEF ConsumerWindow, Size, Distance
    <2>7. ProducerWindow'
      BY <2>1 DEF ProducerWindow, Size, Distance
    <2>8. QED BY <2>3, <2>6, <2>7
  <1>2. ASSUME MoveOut PROVE IInv'
    <2>1. TypeOK'
      BY <1>2, IndexType DEF MoveOut, TypeOK, producerVars
    <2>2. QED
      BY <1>2, <2>1, SameViews DEF MoveOut, producerVars
  <1>3. ASSUME ClearSlot PROVE IInv'
    <2>1. TypeOK'
      BY <1>3, IndexType DEF ClearSlot, TypeOK, producerVars
    <2>2. QED
      BY <1>3, <2>1, SameViews DEF ClearSlot, producerVars
  <1>4. ASSUME Release PROVE IInv'
    <2>1. /\ cPc = "cleared" /\ readIndex' = Inc(readIndex)
          /\ cPc' = "idle" /\ popped' = out
          /\ UNCHANGED <<writeIndex, buffer, cSeen, out, pPc, pValue, pSeen>>
      BY <1>4 DEF Release, producerVars
    <2>2. TypeOK'
      BY <2>1, IndexType DEF TypeOK
    <2>3. Size > 0 /\ Size <= Capacity
      BY <2>1, RingAssumption
      DEF ProducerWindow, ConsumerWindow, TypeOK, Indices, Size, Distance
    <2>4. Size' = Size - 1
      BY <2>1, <2>3, RingAssumption DEF TypeOK, Indices, Size, Distance, Inc
    <2>5. Distance(readIndex', pSeen) = Distance(readIndex, pSeen) + 1
      BY <2>1, <2>3, RingAssumption
      DEF ProducerWindow, TypeOK, Indices, Size, Distance, Inc
    <2>6. ProducerWindow'
      <3>1. Size \in Int /\ Distance(readIndex, pSeen) \in Int
        BY RingAssumption DEF TypeOK, Indices, Size, Distance
      <3>2. Distance(readIndex, pSeen)' = Distance(readIndex, pSeen) + 1
        BY <2>1, <2>5 DEF Distance
      <3>3. QED
        BY <2>1, <2>4, <3>1, <3>2, RingAssumption DEF ProducerWindow
    <2>7. ConsumerWindow'
      BY <2>1, <2>3, <2>4, RingAssumption
      DEF ConsumerWindow, TypeOK, Indices, Size, Distance, Inc
    <2>8. QED BY <2>2, <2>6, <2>7
  <1>5. QED BY <1>1, <1>2, <1>3, <1>4 DEF Consumer

\* The invariant holds in every reachable state.
THEOREM Invariance == Spec => []IInv
  <1>1. IInv /\ [Next]_ringVars => IInv'
    <2> SUFFICES ASSUME IInv, [Next]_ringVars PROVE IInv'
      OBVIOUS
    <2>1. CASE UNCHANGED ringVars
      BY <2>1
      DEF ringVars, producerVars, consumerVars, IInv, TypeOK, ProducerWindow,
          ConsumerWindow, Size, Distance
    <2>2. QED
      BY <2>1, ProducerKeeps, ConsumerKeeps DEF Next
  <1>2. QED BY InitIInv, <1>1, PTL DEF Spec

\* The indices, the slots and both threads' locals keep their types.
THEOREM TypeCorrect == Spec => []TypeOK
  <1>1. IInv => TypeOK
    BY DEF IInv
  <1>2. QED BY <1>1, Invariance, PTL

\* While the ring holds some but not all of Capacity values, the two indices
\* name different slots.
LEMMA IndicesApart ==
  ASSUME IInv, Size > 0, Size < Capacity
  PROVE  SlotOf(writeIndex) # SlotOf(readIndex)
  <1>1. Size \in 0 .. Capacity /\ writeIndex = Plus(readIndex, Size)
    BY RingAssumption DEF IInv, TypeOK, Indices, Size, Distance, Plus
  <1>2. SlotOf(writeIndex) = Around(SlotOf(readIndex), Size)
    BY <1>1, SlotOfPlus DEF IInv, TypeOK
  <1>3. SlotOf(readIndex) \in Slots
    BY IndexType DEF IInv, TypeOK
  <1>4. QED BY <1>1, <1>2, <1>3, RingAssumption DEF Around, Slots

\* No slot is ever touched by both threads at once (property NoSlotRace).
THEOREM RaceFreedom == Spec => []NoSlotRace
  <1>1. IInv => NoSlotRace
    <2> SUFFICES ASSUME IInv, pPc = "checked", cPc \in {"checked", "moved"}
                 PROVE  SlotOf(writeIndex) # SlotOf(readIndex)
      BY DEF NoSlotRace
    <2>1. Size > 0 /\ Size < Capacity
      BY RingAssumption
      DEF IInv, ProducerWindow, ConsumerWindow, TypeOK, Indices, Size, Distance
    <2>2. QED BY <2>1, IndicesApart
  <1>2. QED BY <1>1, Invariance, PTL

-----------------------------------------------------------------------------
(* What the slots hold, on top of where the indices stand.                 *)

Contents ==
  /\ pPc # "idle" => pValue \in Values
  /\ pPc = "written" => buffer[SlotOf(writeIndex)] = pValue
  /\ cPc = "cleared" => buffer[SlotOf(readIndex)] = NoValue

RingInv == IInv /\ Contents

\* Places less than a full turn apart around the ring differ.
LEMMA AroundInjective ==
  ASSUME NEW s \in Slots, NEW j \in 0 .. Capacity - 1, NEW k \in 0 .. Capacity - 1,
         Around(s, j) = Around(s, k)
  PROVE  j = k
  BY RingAssumption DEF Around, Slots

\* The size the windows allow, and the slots it spans.
LEMMA QueueShape ==
  ASSUME IInv
  PROVE  /\ Size \in 0 .. Capacity
         /\ pPc # "idle" => Size < Capacity
         /\ cPc # "idle" => Size > 0
         /\ SlotOf(readIndex) \in Slots /\ SlotOf(writeIndex) \in Slots
         /\ SlotOf(writeIndex) = Around(SlotOf(readIndex), Size)
         /\ \A k \in 0 .. Capacity :
              SlotOf(Plus(readIndex, k)) = Around(SlotOf(readIndex), k)
  <1>1. /\ Size \in 0 .. Capacity
        /\ pPc # "idle" => Size < Capacity
        /\ cPc # "idle" => Size > 0
        /\ writeIndex = Plus(readIndex, Size)
    BY RingAssumption
    DEF IInv, ProducerWindow, ConsumerWindow, TypeOK, Indices, Size, Distance, Plus
  <1>2. readIndex \in Indices /\ writeIndex \in Indices
    BY DEF IInv, TypeOK
  <1>3. \A k \in 0 .. Capacity :
          SlotOf(Plus(readIndex, k)) = Around(SlotOf(readIndex), k)
    BY <1>2, SlotOfPlus
  <1>4. SlotOf(readIndex) \in Slots /\ SlotOf(writeIndex) \in Slots
    BY <1>2, IndexType
  <1>5. SlotOf(writeIndex) = Around(SlotOf(readIndex), Size)
    BY <1>1, <1>3
  <1>6. QED BY <1>1, <1>3, <1>4, <1>5

\* A slot that holds a queued value is not the one the producer fills.
LEMMA QueuedSlotsApart ==
  ASSUME IInv, Size < Capacity, NEW k \in 0 .. Size - 1
  PROVE  SlotOf(Plus(readIndex, k)) # SlotOf(writeIndex)
  <1>1. k \in 0 .. Capacity - 1 /\ Size \in 0 .. Capacity - 1 /\ k # Size
    BY QueueShape, RingAssumption
  <1>2. k \in 0 .. Capacity
    BY <1>1, RingAssumption
  <1>3. QED BY <1>1, <1>2, QueueShape, AroundInjective

\* Two queued values lie in different slots.
LEMMA QueuedSlotsDiffer ==
  ASSUME IInv, NEW k \in 0 .. Size - 1, k # 0
  PROVE  SlotOf(Plus(readIndex, k)) # SlotOf(readIndex)
  <1>1. /\ k \in 0 .. Capacity - 1 /\ 0 \in 0 .. Capacity - 1
        /\ k \in 0 .. Capacity
    BY QueueShape, RingAssumption
  <1>2. Around(SlotOf(readIndex), 0) = SlotOf(readIndex)
    BY QueueShape, RingAssumption DEF Around, Slots
  <1>3. QED BY <1>1, <1>2, QueueShape, AroundInjective

\* What the slots hold is kept by every step.
LEMMA ContentsKeep == RingInv /\ Next => Contents'
  <1> SUFFICES ASSUME RingInv, Next PROVE Contents'
    OBVIOUS
  <1>0. IInv /\ TypeOK /\ Contents
    BY DEF RingInv, IInv
  <1>1. ASSUME NEW v \in Values, PushCheck(v) PROVE Contents'
    BY <1>0, <1>1 DEF PushCheck, Contents, consumerVars
  <1>2. CASE WriteSlot
    <2>1. /\ pPc = "checked" /\ pPc' = "written"
          /\ buffer' = [buffer EXCEPT ![SlotOf(writeIndex)] = pValue]
          /\ UNCHANGED <<writeIndex, readIndex, pValue, cPc>>
      BY <1>2 DEF WriteSlot, consumerVars
    <2>2. buffer'[SlotOf(writeIndex)] = pValue
      BY <1>0, <2>1, QueueShape DEF TypeOK
    <2>3. cPc = "cleared" => buffer'[SlotOf(readIndex)] = buffer[SlotOf(readIndex)]
      BY <1>0, <2>1, QueueShape, IndicesApart DEF TypeOK
    <2>4. SlotOf(writeIndex') = SlotOf(writeIndex) /\ SlotOf(readIndex') = SlotOf(readIndex)
      BY <2>1
    <2>5. QED BY <1>0, <2>1, <2>2, <2>3, <2>4 DEF Contents
  <1>3. CASE Publish
    BY <1>0, <1>3 DEF Publish, Contents, consumerVars
  <1>4. ASSUME NEW write \in Visible(writeIndex, cSeen), PopCheck(write)
        PROVE  Contents'
    BY <1>0, <1>4 DEF PopCheck, Contents, producerVars
  <1>5. CASE MoveOut
    BY <1>0, <1>5 DEF MoveOut, Contents, producerVars
  <1>6. CASE ClearSlot
    <2>1. /\ cPc = "moved" /\ cPc' = "cleared"
          /\ buffer' = [buffer EXCEPT ![SlotOf(readIndex)] = NoValue]
          /\ UNCHANGED <<writeIndex, readIndex, pValue, pPc>>
      BY <1>6 DEF ClearSlot, producerVars
    <2>2. buffer'[SlotOf(readIndex)] = NoValue
      BY <1>0, <2>1, QueueShape DEF TypeOK
    <2>3. pPc = "written" => buffer'[SlotOf(writeIndex)] = buffer[SlotOf(writeIndex)]
      BY <1>0, <2>1, QueueShape, IndicesApart DEF TypeOK
    <2>4. SlotOf(writeIndex') = SlotOf(writeIndex) /\ SlotOf(readIndex') = SlotOf(readIndex)
      BY <2>1
    <2>5. QED BY <1>0, <2>1, <2>2, <2>3, <2>4 DEF Contents
  <1>7. CASE Release
    BY <1>0, <1>7 DEF Release, Contents, producerVars
  <1>8. QED
    BY <1>1, <1>2, <1>3, <1>4, <1>5, <1>6, <1>7 DEF Next, Producer, Consumer

\* Positions of the indices and contents of the slots, in every reachable state.
THEOREM RingInvariance == Spec => []RingInv
  <1>1. Init => Contents
    BY DEF Init, Contents
  <1>2. Contents /\ UNCHANGED ringVars => Contents'
    BY DEF Contents, ringVars, producerVars, consumerVars
  <1>3. IInv /\ Contents /\ [Next]_ringVars => Contents'
    BY <1>2, ContentsKeep DEF RingInv
  <1>4. QED
    BY <1>1, <1>3, Invariance, PTL DEF Spec, RingInv

-----------------------------------------------------------------------------
(* The refinement mapping.                                                 *)

Cells == Values \cup {NoValue}

ItemsShape ==
  /\ Items \in Seq(Cells) /\ Len(Items) = Size
  /\ \A k \in 1 .. Size : Items[k] = Item(k)

\* The mapped queue is a sequence of Size values.
LEMMA ItemsSeq == IInv => ItemsShape
  <1> SUFFICES ASSUME IInv PROVE ItemsShape
    OBVIOUS
  <1>1. Size \in Nat /\ Size <= Capacity
    BY QueueShape, RingAssumption
  <1>2. ASSUME NEW k \in 1 .. Size PROVE Item(k) \in Cells
    <2>1. k - 1 \in 0 .. Capacity
      BY <1>1, RingAssumption
    <2>2. SlotOf(Plus(readIndex, k - 1)) \in Slots
      BY <2>1, SlotOfPlus, IndexType DEF IInv, TypeOK
    <2>3. QED BY <2>2 DEF Item, Cells, IInv, TypeOK
  <1>3. Items \in [1 .. Size -> Cells]
    BY <1>2 DEF Items
  <1>4. Items \in Seq(Cells) /\ Len(Items) = Size
    BY <1>1, <1>3, SeqDef
  <1>5. QED BY <1>4 DEF Items, ItemsShape

\* A step that keeps the indices and every queued item keeps the queue.
LEMMA SameItems ==
  ASSUME Size' = Size, \A k \in 1 .. Size : Item(k)' = Item(k)
  PROVE  Items' = Items
  BY DEF Items

\* The steps inside a call leave the queue alone: the slots they touch hold no
\* queued value, or hold the head whose value the consumer already has.
LEMMA InnerSteps ==
  ASSUME RingInv,
         \/ \E v \in Values : PushCheck(v)
         \/ WriteSlot
         \/ \E write \in Visible(writeIndex, cSeen) : PopCheck(write)
         \/ MoveOut
         \/ ClearSlot
  PROVE  Items' = Items /\ popped' = popped
  <1>0. IInv /\ TypeOK /\ Contents
    BY DEF RingInv, IInv
  <1>1. Size' = Size /\ readIndex' = readIndex /\ popped' = popped
    BY DEF PushCheck, WriteSlot, PopCheck, MoveOut, ClearSlot, consumerVars,
           producerVars, Size, Distance
  <1>2. ASSUME NEW k \in 1 .. Size PROVE Item(k)' = Item(k)
    <2>0. SlotOf(Plus(readIndex, k - 1))' = SlotOf(Plus(readIndex, k - 1))
      BY <1>1 DEF Plus, SlotOf
    <2>1. CASE \E v \in Values : PushCheck(v)
      BY <2>0, <2>1 DEF PushCheck, consumerVars, Item
    <2>2. CASE WriteSlot
      <3>1. /\ Size < Capacity /\ k - 1 \in 0 .. Size - 1
            /\ UNCHANGED <<cPc, out>>
            /\ buffer' = [buffer EXCEPT ![SlotOf(writeIndex)] = pValue]
        BY <1>0, <2>2, QueueShape, RingAssumption DEF WriteSlot, consumerVars
      <3>2. SlotOf(Plus(readIndex, k - 1)) # SlotOf(writeIndex)
        BY <1>0, <3>1, QueuedSlotsApart
      <3>3. buffer'[SlotOf(Plus(readIndex, k - 1))] = buffer[SlotOf(Plus(readIndex, k - 1))]
        BY <1>0, <3>1, <3>2 DEF TypeOK
      <3>4. QED BY <2>0, <3>1, <3>3 DEF Item
    <2>3. CASE \E write \in Visible(writeIndex, cSeen) : PopCheck(write)
      BY <2>0, <2>3 DEF PopCheck, producerVars, Item
    <2>4. CASE MoveOut
      <3>1. /\ cPc = "checked" /\ cPc' = "moved" /\ buffer' = buffer
            /\ out' = buffer[SlotOf(readIndex)]
        BY <2>4 DEF MoveOut
      <3>2. Plus(readIndex, 0) = readIndex
        BY <1>0, RingAssumption DEF Plus, TypeOK, Indices
      <3>3. QED BY <2>0, <3>1, <3>2 DEF Item
    <2>5. CASE ClearSlot
      <3>1. /\ cPc = "moved" /\ cPc' = "cleared" /\ out' = out
            /\ buffer' = [buffer EXCEPT ![SlotOf(readIndex)] = NoValue]
        BY <2>5 DEF ClearSlot
      <3>2. CASE k = 1
        BY <3>1, <3>2 DEF Item
      <3>3. CASE k # 1
        <4>1. k - 1 \in 0 .. Size - 1 /\ k - 1 # 0
          BY <1>0, <3>3, QueueShape, RingAssumption
        <4>2. SlotOf(Plus(readIndex, k - 1)) # SlotOf(readIndex)
          BY <1>0, <4>1, QueuedSlotsDiffer
        <4>3. buffer'[SlotOf(Plus(readIndex, k - 1))] = buffer[SlotOf(Plus(readIndex, k - 1))]
          BY <1>0, <3>1, <4>2 DEF TypeOK
        <4>4. QED BY <2>0, <3>3, <4>3 DEF Item
      <3>4. QED BY <3>2, <3>3
    <2>6. QED BY <2>1, <2>2, <2>3, <2>4, <2>5
  <1>3. QED BY <1>1, <1>2, SameItems

\* The release store of the write index is the push.
LEMMA PublishPushes ==
  ASSUME RingInv, RingInv', Publish
  PROVE  Fifo!Push(pValue) /\ pValue \in Values
  <1>0. IInv /\ IInv' /\ TypeOK /\ Contents
    BY DEF RingInv, IInv
  <1>1. /\ pPc = "written" /\ writeIndex' = Inc(writeIndex)
        /\ UNCHANGED <<readIndex, buffer, cPc, cSeen, out, popped>>
    BY DEF Publish, consumerVars
  <1>2. pValue \in Values /\ buffer[SlotOf(writeIndex)] = pValue
    BY <1>0, <1>1 DEF Contents
  <1>3. Size \in 0 .. Capacity - 1 /\ (cPc # "idle" => Size > 0)
    BY <1>0, <1>1, QueueShape, RingAssumption
  <1>4. Size' = Size + 1
    BY <1>0, <1>1, <1>3, RingAssumption DEF TypeOK, Indices, Size, Distance, Inc
  <1>5. /\ Items \in Seq(Cells) /\ Len(Items) = Size
        /\ \A k \in 1 .. Size : Items[k] = Item(k)
    BY <1>0, ItemsSeq DEF ItemsShape
  <1>6. /\ Items' \in Seq(Cells) /\ Len(Items') = Size + 1
        /\ \A k \in 1 .. Size + 1 : Items'[k] = Item(k)'
    <2>1. ItemsShape'
      BY <1>0, ItemsSeq, PTL
    <2>2. QED BY <1>4, <2>1 DEF ItemsShape
  <1>7. ASSUME NEW k \in 1 .. Size + 1
        PROVE  Items'[k] = Append(Items, pValue)[k]
    <2>0. Item(k)' = Item(k)
      BY <1>1 DEF Item, Plus, SlotOf
    <2>1. CASE k <= Size
      BY <1>3, <1>5, <1>6, <2>0, <2>1
    <2>2. CASE k = Size + 1
      <3>1. Plus(readIndex, k - 1) = writeIndex
        BY <1>0, <1>3, <2>2, RingAssumption DEF Plus, Size, Distance, TypeOK, Indices
      <3>2. ~(k = 1 /\ cPc \in {"moved", "cleared"})
        BY <1>3, <2>2
      <3>3. Item(k) = pValue
        BY <1>2, <3>1, <3>2 DEF Item
      <3>4. QED BY <1>3, <1>5, <1>6, <2>0, <2>2, <3>3
    <2>3. k <= Size \/ k = Size + 1
      BY <1>3
    <2>4. QED BY <2>1, <2>2, <2>3
  <1>8. Items' = Append(Items, pValue)
    <2>1. /\ Append(Items, pValue) \in Seq(Cells)
          /\ Len(Append(Items, pValue)) = Size + 1
      BY <1>2, <1>5 DEF Cells
    <2>2. QED BY <1>6, <1>7, <2>1, SeqEqual
  <1>9. QED BY <1>1, <1>2, <1>3, <1>5, <1>8, RingAssumption DEF Fifo!Push

\* The release store of the read index is the pop.
LEMMA ReleasePops ==
  ASSUME RingInv, RingInv', Release
  PROVE  Fifo!Pop
  <1>0. IInv /\ IInv' /\ TypeOK /\ Contents
    BY DEF RingInv, IInv
  <1>1. /\ cPc = "cleared" /\ cPc' = "idle" /\ readIndex' = Inc(readIndex)
        /\ popped' = out
        /\ UNCHANGED <<writeIndex, buffer, out>>
    BY DEF Release
  <1>2. Size \in 1 .. Capacity
    BY <1>0, <1>1, QueueShape, RingAssumption
  <1>3. Size' = Size - 1
    BY <1>0, <1>1, <1>2, RingAssumption DEF TypeOK, Indices, Size, Distance, Inc
  <1>4. /\ Items \in Seq(Cells) /\ Len(Items) = Size
        /\ \A k \in 1 .. Size : Items[k] = Item(k)
    BY <1>0, ItemsSeq DEF ItemsShape
  <1>5. /\ Items' \in Seq(Cells) /\ Len(Items') = Size - 1
        /\ \A k \in 1 .. Size - 1 : Items'[k] = Item(k)'
    <2>1. ItemsShape'
      BY <1>0, ItemsSeq, PTL
    <2>2. QED BY <1>3, <2>1 DEF ItemsShape
  <1>6. Items # <<>> /\ Head(Items) = out
    <2>1. Items[1] = out
      BY <1>1, <1>2, <1>4, RingAssumption DEF Item
    <2>2. QED BY <1>2, <1>4, <2>1, RingAssumption
  <1>7. /\ Tail(Items) \in Seq(Cells) /\ Len(Tail(Items)) = Size - 1
        /\ \A k \in 1 .. Size - 1 : Tail(Items)[k] = Items[k + 1]
    BY <1>4, <1>6, HeadTailProperties
  <1>8. ASSUME NEW k \in 1 .. Size - 1
        PROVE  Items'[k] = Tail(Items)[k]
    <2>1. k + 1 \in 1 .. Size /\ k + 1 # 1
      BY <1>2
    <2>2. Plus(Inc(readIndex), k - 1) = Plus(readIndex, k)
      BY <1>0, <1>2, RingAssumption DEF Plus, Inc, TypeOK, Indices
    <2>3. Item(k)' = buffer[SlotOf(Plus(readIndex, k))]
      BY <1>1, <2>2 DEF Item, Plus, SlotOf
    <2>4. Item(k + 1) = buffer[SlotOf(Plus(readIndex, k))]
      <3>1. (k + 1) - 1 = k
        BY <1>2
      <3>2. QED BY <2>1, <3>1 DEF Item
    <2>5. QED BY <1>4, <1>5, <1>7, <2>1, <2>3, <2>4
  <1>9. Items' = Tail(Items)
    BY <1>5, <1>7, <1>8, SeqEqual
  <1>10. QED BY <1>1, <1>6, <1>9 DEF Fifo!Pop

\* The ring implements the bounded FIFO queue (property ImplementsFifo).
THEOREM Refinement == Spec => ImplementsFifo
  <1>1. Init => Fifo!Init
    <2> SUFFICES ASSUME Init PROVE Fifo!Init
      OBVIOUS
    <2>1. Size = 0 /\ popped = NoValue
      BY DEF Init, Size, Distance
    <2>2. Items = <<>>
      BY <2>1 DEF Items
    <2>3. QED BY <2>1, <2>2 DEF Fifo!Init
  <1>2. RingInv /\ RingInv' /\ [Next]_ringVars => [Fifo!Next]_(Fifo!fifoVars)
    <2> SUFFICES ASSUME RingInv, RingInv', [Next]_ringVars
                 PROVE  Fifo!Next \/ (Items' = Items /\ popped' = popped)
      BY DEF Fifo!fifoVars
    <2>1. CASE UNCHANGED ringVars
      BY <2>1
      DEF ringVars, producerVars, consumerVars, Items, Item, Size, Distance,
          Plus, SlotOf
    <2>2. CASE Publish
      BY <2>2, PublishPushes DEF Fifo!Next
    <2>3. CASE Release
      BY <2>3, ReleasePops DEF Fifo!Next
    <2>4. CASE \/ \E v \in Values : PushCheck(v)
               \/ WriteSlot
               \/ \E write \in Visible(writeIndex, cSeen) : PopCheck(write)
               \/ MoveOut
               \/ ClearSlot
      BY <2>4, InnerSteps
    <2>5. QED
      BY <2>1, <2>2, <2>3, <2>4 DEF Next, Producer, Consumer
  <1>3. QED
    BY <1>1, <1>2, RingInvariance, PTL DEF Spec, Fifo!Spec, ImplementsFifo

-----------------------------------------------------------------------------
\* A slot outside the queued range holds T{} (property FreeSlotsAreClear).
THEOREM FreeSlots == Spec => []FreeSlotsAreClear
  <1>1. Init => FreeSlotsAreClear
    BY DEF Init, FreeSlotsAreClear
  <1>2. RingInv /\ FreeSlotsAreClear /\ [Next]_ringVars => FreeSlotsAreClear'
    <2> SUFFICES ASSUME RingInv, FreeSlotsAreClear, [Next]_ringVars,
                        NEW s \in Slots, s \notin Queued'
                 PROVE  buffer'[s] = NoValue \/ (pPc' = "written" /\ s = SlotOf(writeIndex'))
      BY DEF FreeSlotsAreClear, SlotOf
    <2>0. IInv /\ TypeOK /\ Contents
      BY DEF RingInv, IInv
    <2>1. CASE \/ UNCHANGED ringVars
               \/ \E v \in Values : PushCheck(v)
               \/ \E write \in Visible(writeIndex, cSeen) : PopCheck(write)
               \/ MoveOut
      <3>1. UNCHANGED <<writeIndex, readIndex, buffer>> /\ (pPc' = pPc \/ pPc = "idle")
        BY <2>1 DEF ringVars, producerVars, PushCheck, PopCheck, MoveOut
      <3>2. s \notin Queued
        BY <3>1 DEF Queued, Size, Distance, Plus, SlotOf
      <3>3. buffer[s] = NoValue \/ (pPc = "written" /\ s = SlotOf(writeIndex))
        BY <3>2 DEF FreeSlotsAreClear
      <3>4. QED BY <3>1, <3>3
    <2>2. CASE WriteSlot
      <3>1. /\ pPc = "checked" /\ pPc' = "written"
            /\ buffer' = [buffer EXCEPT ![SlotOf(writeIndex)] = pValue]
            /\ UNCHANGED <<writeIndex, readIndex>>
        BY <2>2 DEF WriteSlot
      <3>2. s \notin Queued
        BY <3>1 DEF Queued, Size, Distance, Plus, SlotOf
      <3>3. buffer[s] = NoValue
        BY <3>1, <3>2 DEF FreeSlotsAreClear
      <3>4. QED BY <2>0, <3>1, <3>3 DEF TypeOK
    <2>3. CASE Publish
      <3>1. /\ writeIndex' = Inc(writeIndex) /\ UNCHANGED <<readIndex, buffer>>
            /\ pPc = "written"
        BY <2>3 DEF Publish
      <3>2. Size \in 0 .. Capacity - 1 /\ Plus(readIndex, Size) = writeIndex
        BY <2>0, <3>1, QueueShape, RingAssumption
        DEF Plus, Size, Distance, TypeOK, Indices
      <3>3. Size' = Size + 1
        BY <2>0, <3>1, <3>2, RingAssumption DEF TypeOK, Indices, Size, Distance, Inc
      <3>4. Queued' = {SlotOf(Plus(readIndex, k)) : k \in 0 .. Size' - 1}
        BY <3>1 DEF Queued, Plus, SlotOf
      <3>5. \A k \in 0 .. Size : SlotOf(Plus(readIndex, k)) \in Queued'
        BY <3>2, <3>3, <3>4
      <3>6. s # SlotOf(writeIndex)
        BY <3>2, <3>5
      <3>7. s \notin Queued
        BY <3>2, <3>5 DEF Queued
      <3>8. QED BY <3>1, <3>6, <3>7 DEF FreeSlotsAreClear
    <2>4. CASE ClearSlot
      <3>1. /\ buffer' = [buffer EXCEPT ![SlotOf(readIndex)] = NoValue]
            /\ UNCHANGED <<writeIndex, readIndex, pPc>>
        BY <2>4 DEF ClearSlot, producerVars
      <3>2. s \notin Queued
        BY <3>1 DEF Queued, Size, Distance, Plus, SlotOf
      <3>3. buffer[s] = NoValue \/ (pPc = "written" /\ s = SlotOf(writeIndex))
        BY <3>2 DEF FreeSlotsAreClear
      <3>4. QED BY <2>0, <3>1, <3>3 DEF TypeOK
    <2>5. CASE Release
      <3>1. /\ cPc = "cleared" /\ readIndex' = Inc(readIndex)
            /\ UNCHANGED <<writeIndex, buffer, pPc>>
        BY <2>5 DEF Release, producerVars
      <3>2. Size \in 1 .. Capacity
        BY <2>0, <3>1, QueueShape, RingAssumption
      <3>3. Size' = Size - 1
        BY <2>0, <3>1, <3>2, RingAssumption DEF TypeOK, Indices, Size, Distance, Inc
      <3>4. Queued' = {SlotOf(Plus(Inc(readIndex), k)) : k \in 0 .. Size' - 1}
        BY <3>1 DEF Queued, Plus, SlotOf
      <3>5. ASSUME NEW k \in 1 .. Size - 1
            PROVE  SlotOf(Plus(readIndex, k)) \in Queued'
        <4>1. Plus(Inc(readIndex), k - 1) = Plus(readIndex, k)
          BY <2>0, <3>2, RingAssumption DEF Plus, Inc, TypeOK, Indices
        <4>2. k - 1 \in 0 .. Size' - 1
          BY <3>2, <3>3
        <4>3. QED BY <3>4, <4>1, <4>2
      <3>6. Plus(readIndex, 0) = readIndex
        BY <2>0, RingAssumption DEF Plus, TypeOK, Indices
      <3>7. CASE s \in Queued
        <4>1. PICK k \in 0 .. Size - 1 : s = SlotOf(Plus(readIndex, k))
          BY <3>7 DEF Queued
        <4>2. k = 0
          BY <3>2, <3>5, <4>1
        <4>3. s = SlotOf(readIndex)
          BY <3>6, <4>1, <4>2
        <4>4. QED BY <2>0, <3>1, <4>3 DEF Contents
      <3>8. CASE s \notin Queued
        BY <3>1, <3>8 DEF FreeSlotsAreClear
      <3>9. QED BY <3>7, <3>8
    <2>6. QED
      BY <2>1, <2>2, <2>3, <2>4, <2>5 DEF Next, Producer, Consumer
  <1>3. QED
    BY <1>1, <1>2, RingInvariance, PTL DEF Spec

-----------------------------------------------------------------------------
(* How far the consumer is from taking the head.  That it polls, and that  *)
(* stores become visible to it, is fairness, and left to TLC.               *)

\* The steps of the consumer until it releases the head, once it has seen one.
PopLeft ==
  CASE cPc = "idle" -> 4
    [] cPc = "checked" -> 3
    [] cPc = "moved" -> 2
    [] cPc = "cleared" -> 1

HeadNears ==
  [][cSeen # readIndex /\ readIndex' = readIndex =>
       /\ cSeen' # readIndex
       /\ PopLeft' <= PopLeft /\ (Consumer => PopLeft' < PopLeft)]_ringVars

\* No load of the write index, however stale, falls back to where the queue would
\* look empty again.
LEMMA NoFalseEmpty ==
  ASSUME IInv, NEW write \in Visible(writeIndex, cSeen), cSeen # readIndex
  PROVE  write # readIndex
  <1>1. write \in Indices /\ Distance(write, cSeen) <= Distance(writeIndex, cSeen)
    BY DEF Visible
  <1>2. Size <= Capacity
    BY RingAssumption DEF IInv, ProducerWindow, TypeOK, Indices, Size, Distance
  <1>3. QED
    BY <1>1, <1>2, RingAssumption
    DEF IInv, ConsumerWindow, TypeOK, Indices, Size, Distance

LEMMA PopMoves ==
  ASSUME IInv, Next, cSeen # readIndex, readIndex' = readIndex
  PROVE  /\ cSeen' # readIndex
         /\ PopLeft' <= PopLeft /\ (Consumer => PopLeft' < PopLeft)
  <1>1. CASE Consumer
    <2>1. ASSUME NEW write \in Visible(writeIndex, cSeen), PopCheck(write)
          PROVE  cSeen' # readIndex /\ PopLeft' < PopLeft /\ PopLeft' <= PopLeft
      <3>1. cPc = "idle" /\ cPc' = "checked" /\ cSeen' = write /\ write # readIndex
        BY <2>1, NoFalseEmpty DEF PopCheck
      <3>2. QED BY <3>1, SMT DEF PopLeft
    <2>2. CASE MoveOut
      BY <2>2, SMT DEF MoveOut, PopLeft
    <2>3. CASE ClearSlot
      BY <2>3, SMT DEF ClearSlot, PopLeft
    <2>4. CASE Release
      BY <2>4, RingAssumption DEF Release, Inc, IInv, TypeOK, Indices
    <2>5. QED BY <1>1, <2>1, <2>2, <2>3, <2>4 DEF Consumer
  <1>2. CASE ~Consumer
    <2>1. cPc' = cPc /\ cSeen' = cSeen
      BY <1>2 DEF Next, Producer, PushCheck, WriteSlot, Publish, consumerVars
    <2>2. PopLeft' = PopLeft /\ PopLeft \in Nat
      BY <2>1, SMT DEF PopLeft, IInv, TypeOK
    <2>3. QED BY <1>2, <2>1, <2>2, SMT
  <1>3. QED BY <1>1, <1>2

\* A consumer that has once seen that there is an item never answers empty again
\* before it has it, and is at most four steps from releasing it; the producer
\* cannot take it back.
THEOREM HeadNearsRelease == Spec => HeadNears
  <1>1. IInv /\ [Next]_ringVars =>
        [cSeen # readIndex /\ readIndex' = readIndex =>
           /\ cSeen' # readIndex
           /\ PopLeft' <= PopLeft /\ (Consumer => PopLeft' < PopLeft)]_ringVars
    BY PopMoves
  <1>2. QED BY <1>1, Invariance, PTL DEF Spec, HeadNears

=============================================================================
