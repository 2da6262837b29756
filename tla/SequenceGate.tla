---------------------------- MODULE SequenceGate ----------------------------
(***************************************************************************)
(* md::mappers::SequenceGate, the continuity gate a provider mapper asks   *)
(* about every raw record before it maps it.  One gate follows the         *)
(* sequence numbers of one partition; its caller may call its methods in   *)
(* any order with any arguments.                                           *)
(*                                                                         *)
(* Sequence numbers are uint64 in the code: here 0 .. MaxSeq, and the      *)
(* successor of MaxSeq is 0.  The statistics counters wrap at StatsModulus *)
(* (StatsModulus = 1 abstracts them away in a composition).                *)
(***************************************************************************)
EXTENDS Naturals, Sequences

CONSTANTS
  PartitionIds,  \* the partition numbers a caller passes; 0 is "none"
  MaxSeq,        \* the largest sequence number of the integer type
  StatsModulus,  \* the width of a statistics counter
  MaxFeed        \* bound on the length of the history variable feed

ASSUME GateAssumption ==
  /\ PartitionIds \subseteq Nat
  /\ 0 \in PartitionIds
  /\ MaxSeq \in Nat \ {0}
  /\ StatsModulus \in Nat \ {0}
  /\ MaxFeed \in Nat \ {0}

VARIABLES
  state,         \* ContinuityState
  mode,          \* SequenceMode, fixed by the constructor
  partition,     \* partition_
  lastAccepted,  \* last_accepted_
  lastReceived,  \* last_received_
  stats,         \* SequenceStats
  obs,           \* the last ContinuityObservation returned
  feed,          \* history: the baseline, then every sequence accepted after it
  observed       \* history: how often observe was called, modulo StatsModulus

gateVars == <<state, mode, partition, lastAccepted, lastReceived, stats, obs,
              feed, observed>>

Sequences0 == 0 .. MaxSeq
States == {"Uninitialized", "Healthy", "Stale", "Recovering"}
Modes == {"Contiguous", "Monotonic"}
Events == {"Accepted", "Duplicate", "Gap", "Regression", "WrongPartition",
           "AwaitingBaseline", "RejectedWhileStale", "Invalid"}
Counters == {"accepted", "duplicates", "gaps", "regressions",
             "wrong_partition", "rejected_while_stale", "invalid"}

TypeOK ==
  /\ state \in States
  /\ mode \in Modes
  /\ partition \in PartitionIds
  /\ lastAccepted \in Sequences0
  /\ lastReceived \in Sequences0
  /\ stats \in [Counters -> 0 .. StatsModulus - 1]
  /\ obs \in [event : Events, expected : Sequences0]
  /\ feed \in Seq(Sequences0)
  /\ observed \in 0 .. StatsModulus - 1

(***************************************************************************)
(* Unsigned arithmetic, and the acceptance rule both observe and           *)
(* observe_recovery apply.                                                 *)
(***************************************************************************)
SlipSucc(s) == s + 1   \* slip: a wider type than the field it is stored in
Succ(s) == IF s = MaxSeq THEN 0 ELSE s + 1

Bump(c) == IF c + 1 = StatsModulus THEN 0 ELSE c + 1

Follows(s, last) == s = Succ(last) \/ (mode = "Monotonic" /\ s > last)

\* result(): what the method returns, built from the fields as just updated.
Result(event, expected) ==
  obs' = [event |-> event,
          expected |-> IF expected = 0 /\ lastAccepted' # 0
                         THEN Succ(lastAccepted') ELSE expected]

Count(counter) ==
  /\ stats' = [stats EXCEPT ![counter] = Bump(@)]
  /\ observed' = Bump(observed)

Accept(s) ==
  /\ Len(feed) < MaxFeed
  /\ lastAccepted' = s
  /\ feed' = Append(feed, s)
  /\ Result("Accepted", 0)

Reject(event, expected) ==
  /\ UNCHANGED <<lastAccepted, feed>>
  /\ Result(event, expected)

-----------------------------------------------------------------------------
(* The outcomes of observe(p, s), in the order the code tests them.        *)

ObserveInvalid(p, s) ==
  /\ p = 0 \/ s = 0
  /\ Count("invalid")
  /\ Reject("Invalid", 0)
  /\ UNCHANGED <<state, mode, partition, lastReceived>>

Received(p, s) ==
  /\ p # 0 /\ s # 0
  /\ lastReceived' = s
  /\ UNCHANGED <<mode, partition>>

ObserveAwaitingBaseline(p, s) ==
  /\ Received(p, s)
  /\ state = "Uninitialized"
  /\ Count("rejected_while_stale")
  /\ Reject("AwaitingBaseline", 0)
  /\ UNCHANGED state

ObserveWrongPartition(p, s) ==
  /\ Received(p, s)
  /\ state # "Uninitialized" /\ p # partition
  /\ state' = "Stale"
  /\ Count("wrong_partition")
  /\ Reject("WrongPartition", 0)

ObserveWhileStale(p, s) ==
  /\ Received(p, s)
  /\ state \in {"Stale", "Recovering"} /\ p = partition
  /\ Count("rejected_while_stale")
  /\ Reject("RejectedWhileStale", 0)
  /\ UNCHANGED state

ObserveAccepted(p, s) ==
  /\ Received(p, s)
  /\ state = "Healthy" /\ p = partition
  /\ Follows(s, lastAccepted)
  /\ Count("accepted")
  /\ Accept(s)
  /\ UNCHANGED state

SlipObserveDuplicate(p, s) ==   \* slip: a duplicate is answered but not counted
  /\ Received(p, s)
  /\ state = "Healthy" /\ p = partition
  /\ s = lastAccepted
  /\ observed' = Bump(observed) /\ UNCHANGED <<stats, state>>
  /\ Reject("Duplicate", 0)

ObserveDuplicate(p, s) ==
  /\ Received(p, s)
  /\ state = "Healthy" /\ p = partition
  /\ s = lastAccepted
  /\ Count("duplicates")
  /\ Reject("Duplicate", 0)
  /\ UNCHANGED state

ObserveBreak(p, s) ==
  /\ Received(p, s)
  /\ state = "Healthy" /\ p = partition
  /\ ~Follows(s, lastAccepted) /\ s # lastAccepted
  /\ state' = "Stale"
  /\ \/ /\ s > Succ(lastAccepted)
        /\ Count("gaps")
        /\ Reject("Gap", Succ(lastAccepted))
     \/ /\ s < Succ(lastAccepted)
        /\ Count("regressions")
        /\ Reject("Regression", Succ(lastAccepted))

Observe(p, s) ==
  \/ ObserveInvalid(p, s)
  \/ ObserveAwaitingBaseline(p, s)
  \/ ObserveWrongPartition(p, s)
  \/ ObserveWhileStale(p, s)
  \/ ObserveAccepted(p, s)
  \/ ObserveDuplicate(p, s)
  \/ ObserveBreak(p, s)

-----------------------------------------------------------------------------
(* Recovery and reset.                                                     *)

BeginRecovery ==
  /\ state' = "Recovering"
  /\ UNCHANGED <<mode, partition, lastAccepted, lastReceived, stats, obs,
                 feed, observed>>

ObserveRecovery(p, s) ==
  /\ UNCHANGED <<state, mode, partition, lastReceived, stats, observed>>
  /\ LET replayed == state = "Recovering" /\ p # 0 /\ p = partition
         next == Succ(lastAccepted)
     IN \/ ~replayed /\ Reject("Invalid", 0)
        \/ replayed /\ Follows(s, lastAccepted) /\ Accept(s)
        \/ /\ replayed /\ ~Follows(s, lastAccepted)
           /\ Reject(IF s < next THEN "Regression" ELSE "Gap", next)

SlipAnySequence(p, s) ==   \* slip: the replayed position is not compared
  p # 0 /\ (state = "Uninitialized" \/ (state = "Recovering" /\ p = partition))

SlipAnyPartition(p, s) ==  \* slip: the partition is not compared
  p # 0 /\ (state = "Uninitialized" \/ (state = "Recovering" /\ s = lastAccepted))

SlipFromStale(p, s) ==     \* slip: begin_recovery is not required first
  /\ p # 0
  /\ \/ state = "Uninitialized"
     \/ state \in {"Stale", "Recovering"} /\ p = partition /\ s = lastAccepted

\* The condition under which complete_recovery(p, s) returns true.
CompletesAt(p, s) ==
  /\ p # 0
  /\ \/ state = "Uninitialized"
     \/ state = "Recovering" /\ p = partition /\ s = lastAccepted

\* A call that returns false changes nothing, so only the true one is a step.
CompleteRecovery(p, s) ==
  /\ CompletesAt(p, s)
  /\ state' = "Healthy"
  /\ partition' = p
  /\ lastAccepted' = s
  /\ lastReceived' = s
  /\ feed' = IF state = "Uninitialized" THEN <<s>> ELSE feed
  /\ UNCHANGED <<mode, stats, obs, observed>>

SlipReset ==   \* slip: the state survives a reset
  /\ partition' = 0 /\ lastAccepted' = 0 /\ lastReceived' = 0
  /\ feed' = <<>>
  /\ UNCHANGED <<state, mode, stats, obs, observed>>

Reset ==
  /\ state' = "Uninitialized"
  /\ partition' = 0 /\ lastAccepted' = 0 /\ lastReceived' = 0
  /\ feed' = <<>>
  /\ UNCHANGED <<mode, stats, obs, observed>>

-----------------------------------------------------------------------------
Init ==
  /\ state = "Uninitialized"
  /\ mode \in Modes
  /\ partition = 0 /\ lastAccepted = 0 /\ lastReceived = 0
  /\ stats = [c \in Counters |-> 0]
  /\ obs = [event |-> "Invalid", expected |-> 0]
  /\ feed = <<>>
  /\ observed = 0

Next ==
  \/ \E p \in PartitionIds, s \in Sequences0 :
       \/ Observe(p, s)
       \/ ObserveRecovery(p, s)
       \/ CompleteRecovery(p, s)
  \/ BeginRecovery
  \/ Reset

Spec == Init /\ [][Next]_gateVars

-----------------------------------------------------------------------------
(* Properties.                                                             *)

\* What follows a baseline is accepted without a hole: in Contiguous mode every
\* accepted sequence is the successor of the one before it, in Monotonic mode
\* it is at least greater, whether it came live or from a replay, and over any
\* number of recoveries.  The cursor last_accepted_ is the end of that run, so
\* a completed recovery never moves it past a hole.
FeedEndsAtCursor ==
  partition # 0 => feed # <<>> /\ feed[Len(feed)] = lastAccepted

FeedUnbroken ==
  \A i \in 1 .. Len(feed) - 1 : Follows(feed[i + 1], feed[i])

Continuity == FeedEndsAtCursor /\ FeedUnbroken

\* Once a break was seen (Stale), nothing is accepted and no step leads straight
\* back to Healthy: the gate leaves Stale for Recovering or by a reset only,
\* and in both cases with its cursor where the break found it, or cleared.
StaleIsSticky ==
  [][state = "Stale" =>
       /\ state' \in {"Stale", "Recovering", "Uninitialized"}
       /\ state' # "Uninitialized" => feed' = feed]_gateVars

\* A gate that entered a recovery without ever having had a baseline can finish
\* none: as long as it is not reset it has no partition, accepts nothing and is
\* never trusted.  The method sequence begin_recovery, observe, begin_recovery,
\* complete_recovery reaches it from a fresh gate.
WithoutBaseline == partition = 0 /\ state # "Uninitialized"

DeadEndNeedsReset ==
  [][WithoutBaseline => WithoutBaseline' \/ state' = "Uninitialized"]_gateVars

\* Every observe is counted by exactly one statistic, and nothing else is: the
\* counters of SequenceStats add up to the number of calls (modulo their width),
\* over recoveries and resets, which keep them.
StatsSum ==
  stats["accepted"] + stats["duplicates"] + stats["gaps"] +
  stats["regressions"] + stats["wrong_partition"] +
  stats["rejected_while_stale"] + stats["invalid"]

StatsAccount == StatsSum % StatsModulus = observed

=============================================================================
