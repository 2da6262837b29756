--------------------------- MODULE TonglianChannel ---------------------------
(***************************************************************************)
(* One Tonglian channel from the vendor's stream to the order book: rows   *)
(* that are lost, repeated, reordered or misrouted, the TonglianMapper     *)
(* that asks its SequenceGate about each of them before it maps it, and a  *)
(* service that publishes into a book, stops at a break, rebuilds the book *)
(* from a replay and tells the mapper so.                                  *)
(*                                                                         *)
(* The mapper's interface is narrower than the gate's: it has              *)
(* begin_recovery, complete_recovery and reset, but no observe_recovery.   *)
(* The service and the vendor are not code of this repository: their       *)
(* actions are what its mapper is written for.                             *)
(***************************************************************************)
EXTENDS SequenceGate, SequencesExt

CONSTANTS
  Channel,   \* the channel this mapper serves
  MaxRow     \* bound on the number of rows the vendor produces

ASSUME ChannelAssumption ==
  /\ Channel \in PartitionIds \ {0}
  /\ MaxRow \in 1 .. MaxSeq

VARIABLES
  rows,       \* whether the fields of row s can be mapped
  produced,   \* how many rows the vendor has produced
  book,       \* the rows the order book has applied, oldest first
  service,    \* what the service is doing
  replayedTo  \* the last row of the service's latest replay

channelVars == <<gateVars, rows, produced, book, service, replayedTo>>

ServiceStates == {"down", "live", "stopped", "replaying", "rebuilt", "refused"}

ChannelTypeOK ==
  /\ TypeOK
  /\ rows \in [1 .. MaxRow -> {"maps", "fails"}]
  /\ produced \in 0 .. MaxRow
  /\ book \in Seq(1 .. MaxRow)
  /\ service \in ServiceStates
  /\ replayedTo \in 0 .. MaxRow

Maps(s) == rows[s] = "maps"

\* A book of every row up to the n-th that maps, each once and in order.
IsBookAt(b, n) ==
  /\ \A i, j \in DOMAIN b : i < j => b[i] < b[j]
  /\ {b[i] : i \in DOMAIN b} = {s \in 1 .. n : Maps(s)}

-----------------------------------------------------------------------------
SlipMapRow(p, s) ==   \* slip: the row is published without asking publishable()
  /\ Observe(p, s)
  /\ book' = IF Maps(s) /\ service = "live" THEN Append(book, s) ELSE book
  /\ UNCHANGED <<rows, produced, replayedTo>>

\* TonglianMapper::map.  Every row is observed once, whatever its type, and its
\* fields are mapped only if it was accepted; an accepted row that does not map
\* is passed over.  The outcome is publishable when both succeeded.
MapRow(p, s) ==
  /\ Observe(p, s)
  /\ book' = IF obs'.event = "Accepted" /\ Maps(s) THEN Append(book, s) ELSE book
  /\ UNCHANGED <<rows, produced, replayedTo>>

\* The vendor delivers any row again, late, never, or on a foreign channel; the
\* service stops publishing when the outcome is not trusted.
LiveRow(p, s) ==
  /\ s <= produced
  /\ MapRow(p, s)
  /\ service' = IF service = "live" /\ state' # "Healthy" THEN "stopped" ELSE service

Produce ==
  /\ produced < MaxRow
  /\ produced' = produced + 1
  /\ UNCHANGED <<gateVars, rows, book, service, replayedTo>>

-----------------------------------------------------------------------------
(* The service.                                                            *)

\* Sequence 0 at the start of the day, or what a checkpoint and a replay gave.
Establish(s) ==
  /\ service = "down" /\ s <= produced
  /\ CompleteRecovery(Channel, s)
  /\ service' = "live"
  /\ book' \in SeqOf(1 .. MaxRow, MaxRow) /\ IsBookAt(book', s)
  /\ UNCHANGED <<rows, produced, replayedTo>>

StartRecovery ==
  /\ service = "stopped" /\ service' = "replaying"
  /\ BeginRecovery
  /\ UNCHANGED <<rows, produced, book, replayedTo>>

Replay(n) ==
  /\ service = "replaying" /\ service' = "rebuilt"
  /\ n \in lastAccepted .. produced
  /\ replayedTo' = n
  /\ book' \in SeqOf(1 .. MaxRow, MaxRow) /\ IsBookAt(book', n)
  /\ UNCHANGED <<gateVars, rows, produced>>

FinishRecovery ==
  /\ service = "rebuilt"
  /\ \/ CompleteRecovery(Channel, replayedTo) /\ service' = "live"
     \/ /\ ~CompletesAt(Channel, replayedTo)
        /\ service' = "refused" /\ UNCHANGED gateVars
  /\ UNCHANGED <<rows, produced, book, replayedTo>>

StartOver ==
  /\ service = "refused" /\ service' = "down"
  /\ Reset
  /\ UNCHANGED <<rows, produced, book, replayedTo>>

Service ==
  \/ \E s \in 0 .. MaxRow : Establish(s) \/ Replay(s)
  \/ StartRecovery
  \/ FinishRecovery
  \/ StartOver

ChannelInit ==
  /\ Init /\ mode = "Contiguous"
  /\ rows \in [1 .. MaxRow -> {"maps", "fails"}]
  /\ produced = 0
  /\ book = <<>>
  /\ service = "down"
  /\ replayedTo = 0

ChannelNext ==
  \/ \E p \in PartitionIds, s \in 1 .. MaxRow : LiveRow(p, s)
  \/ Produce
  \/ Service

ChannelSpec == ChannelInit /\ [][ChannelNext]_channelVars

FairChannelSpec == ChannelSpec /\ WF_channelVars(Service)

-----------------------------------------------------------------------------
(* Properties.                                                             *)

\* While the service is live its book is exactly what the vendor's rows up to
\* the gate's cursor amount to: none missing, none twice, none out of order,
\* whatever the stream did and however many recoveries there were.
BookIsExact ==
  service = "live" => state = "Healthy" /\ IsBookAt(book, lastAccepted)

\* Every break is recovered from, if the service starts over with a reset when
\* the mapper refuses the end of its recovery.
BreakIsRepaired == service = "stopped" ~> service = "live"

\* docs/components/service.md:30-31: once everything is replayed and the book is
\* rebuilt, the service tells the gate that the recovery is complete.  So the
\* mapper would refuse only if the recovery had been aborted in the meantime.
ReplayEndsRecovery == service = "refused" => state # "Recovering"

=============================================================================
