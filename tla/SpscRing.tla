------------------------------ MODULE SpscRing ------------------------------
(***************************************************************************)
(* md::runtime::SpscRing: a ring of Capacity slots between one thread that *)
(* pushes and one that pops, with two atomic indices and no lock.  The   *)
(* observers empty(), full() and size_estimate() are left out: they only   *)
(* read the indices.                                                       *)
(*                                                                         *)
(* Every access to shared memory is a step of its own.  The indices are    *)
(* uint64 and wrap: here at IndexSpan, a multiple of Capacity as 2^64 is.  *)
(* An acquire load may return an older value than the current one, though  *)
(* never one older than the same thread has already seen.                  *)
(***************************************************************************)
EXTENDS Naturals, Sequences

CONSTANTS
  Values,     \* what is pushed
  NoValue,    \* T{}, the content of a cleared slot
  Capacity,   \* number of slots
  IndexSpan   \* number of values of an index

ASSUME RingAssumption ==
  /\ Capacity \in Nat /\ Capacity >= 2
  /\ IndexSpan \in Nat /\ IndexSpan > Capacity
  /\ IndexSpan % Capacity = 0
  /\ NoValue \notin Values

VARIABLES
  writeIndex, readIndex, buffer,
  pPc,        \* producer: "idle", "checked" (room found), "written"
  pValue,     \* the argument of the push in progress
  pSeen,      \* the read index the producer loaded last
  cPc,        \* consumer: "idle", "checked" (item found), "moved", "cleared"
  cSeen,      \* the write index the consumer loaded last
  out,        \* the consumer's output argument
  popped      \* history: the value the last successful try_pop returned

producerVars == <<pPc, pValue, pSeen>>
consumerVars == <<cPc, cSeen, out, popped>>
ringVars == <<writeIndex, readIndex, buffer, producerVars, consumerVars>>

Indices == 0 .. IndexSpan - 1
Slots == 0 .. Capacity - 1

TypeOK ==
  /\ writeIndex \in Indices /\ readIndex \in Indices
  /\ buffer \in [Slots -> Values \cup {NoValue}]
  /\ pPc \in {"idle", "checked", "written"}
  /\ pValue \in Values \cup {NoValue}
  /\ pSeen \in Indices
  /\ cPc \in {"idle", "checked", "moved", "cleared"}
  /\ cSeen \in Indices
  /\ out \in Values \cup {NoValue}
  /\ popped \in Values \cup {NoValue}

(***************************************************************************)
(* Unsigned index arithmetic.                                              *)
(***************************************************************************)
SlipIncWide(i) == i + 1   \* slip: a wider type than the other index
SlipInc(i) == IF i + 1 = IndexSpan THEN 1 ELSE i + 1  \* slip: 0 is skipped

Inc(i) == IF i + 1 = IndexSpan THEN 0 ELSE i + 1

Plus(i, k) == IF i + k >= IndexSpan THEN i + k - IndexSpan ELSE i + k

Distance(a, b) == IF a >= b THEN a - b ELSE a + IndexSpan - b

SlotOf(i) == i % Capacity

Size == Distance(writeIndex, readIndex)

\* What an acquire load of an index may return to a thread that has seen `seen`.
Visible(current, seen) ==
  {i \in Indices : Distance(i, seen) <= Distance(current, seen)}

-----------------------------------------------------------------------------
(* try_push: the loads and the check, the slot, the release store.         *)

SlipHasRoom(read) == Distance(writeIndex, read) <= Capacity  \* slip: off by one
HasRoom(read) == Distance(writeIndex, read) < Capacity

PushCheck(v) ==
  /\ pPc = "idle"
  /\ \E read \in Visible(readIndex, pSeen) :
       /\ pSeen' = read
       /\ \/ /\ HasRoom(read)
             /\ pPc' = "checked" /\ pValue' = v
          \/ ~HasRoom(read) /\ UNCHANGED <<pPc, pValue>>
  /\ UNCHANGED <<writeIndex, readIndex, buffer, consumerVars>>

WriteSlot ==
  /\ pPc = "checked"
  /\ buffer' = [buffer EXCEPT ![SlotOf(writeIndex)] = pValue]
  /\ pPc' = "written"
  /\ UNCHANGED <<writeIndex, readIndex, pValue, pSeen, consumerVars>>

Publish ==
  /\ pPc = "written"
  /\ writeIndex' = Inc(writeIndex)
  /\ pPc' = "idle" /\ pValue' = NoValue
  /\ UNCHANGED <<readIndex, buffer, pSeen, consumerVars>>

-----------------------------------------------------------------------------
(* try_pop: the loads and the check, the move, the reset, the release store. *)

SlipPopCheck(write) ==   \* slip: a single item is taken for none
  /\ cPc = "idle"
  /\ cSeen' = write
  /\ cPc' = IF Distance(write, readIndex) <= 1 THEN "idle" ELSE "checked"
  /\ UNCHANGED <<writeIndex, readIndex, buffer, out, popped, producerVars>>

PopCheck(write) ==
  /\ cPc = "idle"
  /\ cSeen' = write
  /\ cPc' = IF write = readIndex THEN "idle" ELSE "checked"
  /\ UNCHANGED <<writeIndex, readIndex, buffer, out, popped, producerVars>>

MoveOut ==
  /\ cPc = "checked"
  /\ out' = buffer[SlotOf(readIndex)]
  /\ cPc' = "moved"
  /\ UNCHANGED <<writeIndex, readIndex, buffer, cSeen, popped, producerVars>>

SlipClearSlot ==   \* slip: the slot keeps the value that was moved out
  /\ cPc = "moved"
  /\ cPc' = "cleared"
  /\ UNCHANGED <<writeIndex, readIndex, buffer, cSeen, out, popped, producerVars>>

ClearSlot ==
  /\ cPc = "moved"
  /\ buffer' = [buffer EXCEPT ![SlotOf(readIndex)] = NoValue]
  /\ cPc' = "cleared"
  /\ UNCHANGED <<writeIndex, readIndex, cSeen, out, popped, producerVars>>

Release ==
  /\ cPc = "cleared"
  /\ readIndex' = Inc(readIndex)
  /\ cPc' = "idle"
  /\ popped' = out
  /\ UNCHANGED <<writeIndex, buffer, cSeen, out, producerVars>>

-----------------------------------------------------------------------------
Init ==
  /\ writeIndex = 0 /\ readIndex = 0
  /\ buffer = [s \in Slots |-> NoValue]
  /\ pPc = "idle" /\ pValue = NoValue /\ pSeen = 0
  /\ cPc = "idle" /\ cSeen = 0 /\ out = NoValue /\ popped = NoValue

Producer == (\E v \in Values : PushCheck(v)) \/ WriteSlot \/ Publish

Consumer ==
  \/ \E write \in Visible(writeIndex, cSeen) : PopCheck(write)
  \/ MoveOut \/ ClearSlot \/ Release

Next == Producer \/ Consumer

Spec == Init /\ [][Next]_ringVars

\* The consumer thread keeps polling, and the stores of the producer become
\* visible to it in finite time.
ConsumerFairness ==
  /\ WF_ringVars(PopCheck(writeIndex))
  /\ WF_ringVars(MoveOut) /\ WF_ringVars(ClearSlot) /\ WF_ringVars(Release)

ProducerFairness == WF_ringVars(WriteSlot) /\ WF_ringVars(Publish)

FairSpec == Spec /\ ConsumerFairness /\ ProducerFairness

-----------------------------------------------------------------------------
(* Properties.                                                             *)

\* The two threads never stand at the same slot, the one about to assign it and
\* the other about to move its value out or to reset it: the ring has no data
\* race, however stale the index either side decided on.
NoSlotRace ==
  pPc = "checked" /\ cPc \in {"checked", "moved"} =>
    SlotOf(writeIndex) # SlotOf(readIndex)

\* Between calls a slot outside the queued range holds T{}: a popped value is
\* not kept alive by the ring, and a slot about to be assigned is free.
Queued == {SlotOf(Plus(readIndex, k)) : k \in 0 .. Size - 1}

FreeSlotsAreClear ==
  \A s \in Slots \ Queued :
    buffer[s] = NoValue \/ (pPc = "written" /\ s = SlotOf(writeIndex))

\* The queue a caller sees: the slots from the read to the write index, where a
\* value that is being moved out counts until its index is released.
Item(k) ==
  IF k = 1 /\ cPc \in {"moved", "cleared"} THEN out
  ELSE buffer[SlotOf(Plus(readIndex, k - 1))]

Items == [k \in 1 .. Size |-> Item(k)]

Fifo == INSTANCE BoundedFifo WITH items <- Items

\* The ring implements a bounded FIFO: a push takes effect at the release store
\* of the write index and a pop at that of the read index, nothing is lost,
\* repeated, reordered or torn, and no more than Capacity values are queued,
\* across the wrap of both indices.
ImplementsFifo == Fifo!Spec

\* A queued value is eventually handed out: whatever the head of the queue is,
\* the read index moves past it, even if the consumer first sees stale indices.
HeadIsConsumed ==
  \A i \in Indices : (readIndex = i /\ Size > 0) ~> (readIndex # i)

=============================================================================
