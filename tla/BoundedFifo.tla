----------------------------- MODULE BoundedFifo -----------------------------
(***************************************************************************)
(* What SpscRing promises its two callers: a bounded first-in first-out    *)
(* queue whose push and pop each happen at one instant.  A push that finds *)
(* no room and a pop that finds nothing leave the queue as it is.          *)
(***************************************************************************)
EXTENDS Naturals, Sequences

CONSTANTS Values, NoValue, Capacity

VARIABLES
  items,   \* the queued values, oldest first
  popped   \* the value the last successful pop handed out

fifoVars == <<items, popped>>

Init == items = <<>> /\ popped = NoValue

Push(v) ==
  /\ Len(items) < Capacity
  /\ items' = Append(items, v)
  /\ UNCHANGED popped

Pop ==
  /\ items # <<>>
  /\ popped' = Head(items)
  /\ items' = Tail(items)

Next == (\E v \in Values : Push(v)) \/ Pop

Spec == Init /\ [][Next]_fifoVars

=============================================================================
