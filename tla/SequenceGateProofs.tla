------------------------- MODULE SequenceGateProofs -------------------------
(***************************************************************************)
(* What holds of the gate for every set of partitions, every width of the  *)
(* sequence numbers and counters, and calls in every order.                *)
(***************************************************************************)
EXTENDS SequenceGate, Integers, TLAPS

\* Succ stays inside the integer type.
LEMMA SuccType == \A s \in Sequences0 : Succ(s) \in Sequences0
  BY GateAssumption DEF Sequences0, Succ

\* The zero value of the type is a sequence number.
LEMMA ZeroType == 0 \in Sequences0
  BY GateAssumption DEF Sequences0

\* A counter that is bumped keeps its width.
LEMMA BumpType == \A c \in 0 .. StatsModulus - 1 : Bump(c) \in 0 .. StatsModulus - 1
  BY GateAssumption DEF Bump

\* The observation every method returns is well formed.
LEMMA ResultType ==
  ASSUME NEW event \in Events, NEW expected \in Sequences0,
         lastAccepted' \in Sequences0, Result(event, expected)
  PROVE  obs' \in [event : Events, expected : Sequences0]
  BY SuccType DEF Result

\* Counting a call keeps the counters typed.
LEMMA CountType ==
  ASSUME TypeOK, NEW counter \in Counters, Count(counter)
  PROVE  /\ stats' \in [Counters -> 0 .. StatsModulus - 1]
         /\ observed' \in 0 .. StatsModulus - 1
  BY BumpType DEF TypeOK, Count

\* Accepting a sequence keeps the cursor, the run and the answer typed.
LEMMA AcceptType ==
  ASSUME TypeOK, NEW s \in Sequences0, Accept(s)
  PROVE  /\ lastAccepted' \in Sequences0
         /\ feed' \in Seq(Sequences0)
         /\ obs' \in [event : Events, expected : Sequences0]
  <1>1. lastAccepted' \in Sequences0 /\ Result("Accepted", 0)
    BY DEF Accept
  <1>2. 0 \in Sequences0 /\ "Accepted" \in Events
    BY ZeroType DEF Events
  <1>3. obs' \in [event : Events, expected : Sequences0]
    BY <1>1, <1>2, ResultType
  <1>4. feed' \in Seq(Sequences0)
    BY DEF Accept, TypeOK
  <1>5. QED BY <1>1, <1>3, <1>4

\* Rejecting one leaves the cursor and the run alone and answers well.
LEMMA RejectType ==
  ASSUME TypeOK, NEW event \in Events, NEW expected \in Sequences0,
         Reject(event, expected)
  PROVE  /\ lastAccepted' = lastAccepted /\ feed' = feed
         /\ obs' \in [event : Events, expected : Sequences0]
  <1>1. lastAccepted' = lastAccepted /\ feed' = feed /\ Result(event, expected)
    BY DEF Reject
  <1>2. lastAccepted' \in Sequences0
    BY <1>1 DEF TypeOK
  <1>3. QED BY <1>1, <1>2, ResultType

\* The first state is typed.
LEMMA InitType == Init => TypeOK
  BY GateAssumption
  DEF Init, TypeOK, States, Modes, Sequences0, Counters, Events

\* Every outcome of observe keeps the types.
LEMMA ObserveType ==
  ASSUME TypeOK, NEW p \in PartitionIds, NEW s \in Sequences0, Observe(p, s)
  PROVE  TypeOK'
  <1> USE DEF TypeOK
  <1>1. 0 \in Sequences0 /\ Succ(lastAccepted) \in Sequences0
    BY SuccType, ZeroType
  <1>2. CASE ObserveInvalid(p, s)
    BY <1>1, <1>2, CountType, RejectType DEF ObserveInvalid, Counters, Events
  <1>3. CASE ObserveAwaitingBaseline(p, s)
    BY <1>1, <1>3, CountType, RejectType
    DEF ObserveAwaitingBaseline, Received, Counters, Events
  <1>4. CASE ObserveWrongPartition(p, s)
    BY <1>1, <1>4, CountType, RejectType
    DEF ObserveWrongPartition, Received, Counters, Events, States
  <1>5. CASE ObserveWhileStale(p, s)
    BY <1>1, <1>5, CountType, RejectType
    DEF ObserveWhileStale, Received, Counters, Events
  <1>6. CASE ObserveAccepted(p, s)
    BY <1>6, CountType, AcceptType DEF ObserveAccepted, Received, Counters
  <1>7. CASE ObserveDuplicate(p, s)
    BY <1>1, <1>7, CountType, RejectType
    DEF ObserveDuplicate, Received, Counters, Events
  <1>8. CASE ObserveBreak(p, s)
    BY <1>1, <1>8, CountType, RejectType
    DEF ObserveBreak, Received, Counters, Events, States
  <1>9. QED
    BY <1>2, <1>3, <1>4, <1>5, <1>6, <1>7, <1>8 DEF Observe

\* What a call of observe does: the sequence is accepted behind the cursor, or the
\* cursor stays, a gate that is not healthy does not become so, and one that stays
\* healthy was only called with what it had accepted last, or with nothing.
LEMMA ObserveMoves ==
  ASSUME NEW p \in PartitionIds, NEW s \in Sequences0, Observe(p, s)
  PROVE  /\ mode' = mode
         /\ \/ /\ obs'.event = "Accepted" /\ state = "Healthy" /\ state' = "Healthy"
               /\ s # 0 /\ p = partition /\ partition' = partition
               /\ Follows(s, lastAccepted) /\ lastAccepted' = s
            \/ /\ obs'.event # "Accepted" /\ lastAccepted' = lastAccepted
               /\ partition' = partition /\ state' \in {state, "Stale"}
               /\ state # "Healthy" => state' # "Healthy"
               /\ state' = "Healthy" => p = 0 \/ s = 0 \/ s = lastAccepted
  <1>1. CASE ObserveAccepted(p, s)
    BY <1>1 DEF ObserveAccepted, Received, Accept, Result
  <1>2. CASE ObserveInvalid(p, s)
    BY <1>2 DEF ObserveInvalid, Reject, Result
  <1>3. CASE ObserveAwaitingBaseline(p, s) \/ ObserveWrongPartition(p, s)
    BY <1>3 DEF ObserveAwaitingBaseline, ObserveWrongPartition, Received, Reject, Result
  <1>4. CASE ObserveWhileStale(p, s) \/ ObserveDuplicate(p, s)
    BY <1>4 DEF ObserveWhileStale, ObserveDuplicate, Received, Reject, Result
  <1>5. CASE ObserveBreak(p, s)
    BY <1>5 DEF ObserveBreak, Received, Reject, Result
  <1>6. QED BY <1>1, <1>2, <1>3, <1>4, <1>5 DEF Observe

\* What follows the cursor is above it, and in Contiguous mode right behind it.
LEMMA FollowsIsAbove ==
  ASSUME TypeOK, NEW s \in Sequences0, s # 0, Follows(s, lastAccepted)
  PROVE  s > lastAccepted /\ (mode = "Contiguous" => s = lastAccepted + 1)
  BY GateAssumption, SMT DEF TypeOK, Follows, Succ, Sequences0

\* Every other method keeps the types.
LEMMA OtherTypes ==
  ASSUME TypeOK,
         BeginRecovery \/ Reset
         \/ \E p \in PartitionIds, s \in Sequences0 :
              ObserveRecovery(p, s) \/ CompleteRecovery(p, s)
  PROVE  TypeOK'
  <1>1. CASE BeginRecovery
    BY <1>1 DEF BeginRecovery, TypeOK, States
  <1>2. CASE Reset
    BY <1>2, GateAssumption DEF Reset, TypeOK, States, Sequences0
  <1>3. ASSUME NEW p \in PartitionIds, NEW s \in Sequences0, ObserveRecovery(p, s)
        PROVE  TypeOK'
    <2>1. 0 \in Sequences0 /\ Succ(lastAccepted) \in Sequences0
      BY SuccType, ZeroType DEF TypeOK
    <2>2. \/ Accept(s)
          \/ \E e \in Events, x \in Sequences0 : Reject(e, x)
      BY <1>3, <2>1 DEF ObserveRecovery, Events
    <2>3. /\ lastAccepted' \in Sequences0
          /\ feed' \in Seq(Sequences0)
          /\ obs' \in [event : Events, expected : Sequences0]
      BY <2>2, AcceptType, RejectType DEF TypeOK
    <2>4. QED BY <1>3, <2>3 DEF ObserveRecovery, TypeOK
  <1>4. ASSUME NEW p \in PartitionIds, NEW s \in Sequences0, CompleteRecovery(p, s)
        PROVE  TypeOK'
    BY <1>4 DEF CompleteRecovery, TypeOK, States
  <1>5. QED BY <1>1, <1>2, <1>3, <1>4

\* Every variable of the gate keeps its type (the uint64 fields never leave
\* their range), whatever is called.
THEOREM TypeCorrect == Spec => []TypeOK
  <1>1. TypeOK /\ [Next]_gateVars => TypeOK'
    <2> SUFFICES ASSUME TypeOK, [Next]_gateVars PROVE TypeOK'
      OBVIOUS
    <2>1. CASE UNCHANGED gateVars
      BY <2>1 DEF gateVars, TypeOK
    <2>2. CASE Next
      BY <2>2, ObserveType, OtherTypes DEF Next
    <2>3. QED BY <2>1, <2>2
  <1>2. QED BY InitType, <1>1, PTL DEF Spec

-----------------------------------------------------------------------------
(* Continuity is inductive once the types are known.                       *)

\* Accepting a sequence that follows the cursor extends an unbroken run.
LEMMA AcceptContinuity ==
  ASSUME TypeOK, Continuity, partition # 0, NEW s \in Sequences0,
         Follows(s, lastAccepted), Accept(s), mode' = mode
  PROVE  Continuity'
  <1>1. /\ feed' = Append(feed, s) /\ lastAccepted' = s
        /\ feed \in Seq(Sequences0) /\ Len(feed) \in Nat
        /\ Len(feed) > 0 /\ feed[Len(feed)] = lastAccepted
    BY DEF Accept, TypeOK, Continuity, FeedEndsAtCursor
  <1>2. Len(feed') = Len(feed) + 1 /\ feed'[Len(feed')] = s
    BY <1>1
  <1>3. ASSUME NEW i \in 1 .. Len(feed') - 1
        PROVE  Follows(feed'[i + 1], feed'[i])
    <2>1. CASE i = Len(feed)
      BY <1>1, <1>2, <2>1
    <2>2. CASE i # Len(feed)
      <3>1. i \in 1 .. Len(feed) - 1
        BY <1>1, <1>2, <2>2
      <3>2. feed'[i] = feed[i] /\ feed'[i + 1] = feed[i + 1]
        BY <1>1, <3>1
      <3>3. Follows(feed[i + 1], feed[i])
        BY <3>1 DEF Continuity, FeedUnbroken
      <3>4. QED BY <3>2, <3>3
    <2>3. QED BY <2>1, <2>2
  <1>4. FeedUnbroken'
    BY <1>3 DEF FeedUnbroken, Follows
  <1>5. FeedEndsAtCursor'
    BY <1>1, <1>2 DEF FeedEndsAtCursor
  <1>6. QED BY <1>4, <1>5 DEF Continuity

\* A method that moves neither cursor, partition nor run keeps it.
LEMMA SameRunContinuity ==
  ASSUME Continuity, UNCHANGED <<mode, partition, lastAccepted, feed>>
  PROVE  Continuity'
  BY DEF Continuity, FeedEndsAtCursor, FeedUnbroken, Follows

\* The run of accepted sequences has no hole, under any calls and any number
\* of recoveries (property Continuity).
THEOREM ContinuityHolds == Spec => []Continuity
  <1>1. Init => Continuity
    BY DEF Init, Continuity, FeedEndsAtCursor, FeedUnbroken
  <1>2. TypeOK /\ Continuity /\ [Next]_gateVars => Continuity'
    <2> SUFFICES ASSUME TypeOK, Continuity, [Next]_gateVars PROVE Continuity'
      OBVIOUS
    <2>1. CASE UNCHANGED gateVars
      BY <2>1, SameRunContinuity DEF gateVars
    <2>2. CASE BeginRecovery
      BY <2>2, SameRunContinuity DEF BeginRecovery
    <2>3. CASE Reset
      BY <2>3 DEF Reset, Continuity, FeedEndsAtCursor, FeedUnbroken
    <2>4. ASSUME NEW p \in PartitionIds, NEW s \in Sequences0, Observe(p, s)
          PROVE  Continuity'
      <3>1. CASE ObserveAccepted(p, s)
        BY <2>4, <3>1, AcceptContinuity DEF ObserveAccepted, Received
      <3>2. CASE ~ObserveAccepted(p, s)
        <4>1. UNCHANGED <<mode, partition, lastAccepted, feed>>
          BY <2>4, <3>2
          DEF Observe, ObserveInvalid, ObserveAwaitingBaseline,
              ObserveWrongPartition, ObserveWhileStale, ObserveDuplicate,
              ObserveBreak, Received, Reject
        <4>2. QED BY <4>1, SameRunContinuity
      <3>3. QED BY <3>1, <3>2
    <2>5. ASSUME NEW p \in PartitionIds, NEW s \in Sequences0, ObserveRecovery(p, s)
          PROVE  Continuity'
      <3>1. CASE partition # 0 /\ Follows(s, lastAccepted) /\ Accept(s)
        BY <2>5, <3>1, AcceptContinuity DEF ObserveRecovery
      <3>2. CASE ~(partition # 0 /\ Follows(s, lastAccepted) /\ Accept(s))
        <4>1. UNCHANGED <<mode, partition, lastAccepted, feed>>
          BY <2>5, <3>2 DEF ObserveRecovery, Reject
        <4>2. QED BY <4>1, SameRunContinuity
      <3>3. QED BY <3>1, <3>2
    <2>6. ASSUME NEW p \in PartitionIds, NEW s \in Sequences0, CompleteRecovery(p, s)
          PROVE  Continuity'
      <3>1. CASE state = "Uninitialized"
        <4>1. feed' = <<s>> /\ lastAccepted' = s /\ s \in Sequences0
          BY <2>6, <3>1 DEF CompleteRecovery
        <4>2. Len(feed') = 1 /\ feed'[1] = s
          BY <4>1
        <4>3. QED
          BY <4>1, <4>2 DEF Continuity, FeedEndsAtCursor, FeedUnbroken
      <3>2. CASE state # "Uninitialized"
        <4>1. UNCHANGED <<mode, partition, lastAccepted, feed>>
          BY <2>6, <3>2 DEF CompleteRecovery, CompletesAt
        <4>2. QED BY <4>1, SameRunContinuity
      <3>3. QED BY <3>1, <3>2
    <2>7. QED
      BY <2>1, <2>2, <2>3, <2>4, <2>5, <2>6 DEF Next
  <1>3. QED BY <1>1, <1>2, TypeCorrect, PTL DEF Spec

-----------------------------------------------------------------------------
\* After a break only begin_recovery or reset leads on, and nothing is accepted
\* before (property StaleIsSticky).
THEOREM StaleStepsHold == Spec => StaleIsSticky
  <1>1. ASSUME Next, state = "Stale"
        PROVE  /\ state' \in {"Stale", "Recovering", "Uninitialized"}
               /\ state' # "Uninitialized" => feed' = feed
    <2>1. CASE BeginRecovery
      BY <1>1, <2>1 DEF BeginRecovery
    <2>2. CASE Reset
      BY <2>2 DEF Reset
    <2>3. ASSUME NEW p \in PartitionIds, NEW s \in Sequences0, Observe(p, s)
          PROVE  state' \in {"Stale", "Uninitialized"} /\ feed' = feed
      BY <1>1, <2>3
      DEF Observe, ObserveInvalid, ObserveAwaitingBaseline,
          ObserveWrongPartition, ObserveWhileStale, ObserveAccepted,
          ObserveDuplicate, ObserveBreak, Reject
    <2>4. ASSUME NEW p \in PartitionIds, NEW s \in Sequences0, ObserveRecovery(p, s)
          PROVE  state' = state /\ feed' = feed
      BY <1>1, <2>4 DEF ObserveRecovery, Reject
    <2>5. ASSUME NEW p \in PartitionIds, NEW s \in Sequences0, CompleteRecovery(p, s)
          PROVE  FALSE
      BY <1>1, <2>5 DEF CompleteRecovery, CompletesAt
    <2>6. QED BY <1>1, <2>1, <2>2, <2>3, <2>4, <2>5 DEF Next
  <1>2. [Next]_gateVars =>
          [state = "Stale" =>
             /\ state' \in {"Stale", "Recovering", "Uninitialized"}
             /\ state' # "Uninitialized" => feed' = feed]_gateVars
    BY <1>1
  <1>3. QED BY <1>2, PTL DEF Spec, StaleIsSticky

\* A recovery entered without a baseline is left by a reset only (property
\* DeadEndNeedsReset).
THEOREM DeadEndStepsHold == Spec => DeadEndNeedsReset
  <1>1. ASSUME Next, WithoutBaseline
        PROVE  WithoutBaseline' \/ state' = "Uninitialized"
    <2>1. CASE BeginRecovery
      BY <1>1, <2>1 DEF BeginRecovery, WithoutBaseline
    <2>2. CASE Reset
      BY <2>2 DEF Reset
    <2>3. ASSUME NEW p \in PartitionIds, NEW s \in Sequences0, Observe(p, s)
          PROVE  WithoutBaseline'
      BY <1>1, <2>3
      DEF Observe, ObserveInvalid, ObserveAwaitingBaseline,
          ObserveWrongPartition, ObserveWhileStale, ObserveAccepted,
          ObserveDuplicate, ObserveBreak, Received, WithoutBaseline
    <2>4. ASSUME NEW p \in PartitionIds, NEW s \in Sequences0, ObserveRecovery(p, s)
          PROVE  WithoutBaseline'
      BY <1>1, <2>4 DEF ObserveRecovery, WithoutBaseline
    <2>5. ASSUME NEW p \in PartitionIds, NEW s \in Sequences0, CompleteRecovery(p, s)
          PROVE  FALSE
      BY <1>1, <2>5 DEF CompleteRecovery, CompletesAt, WithoutBaseline
    <2>6. QED BY <1>1, <2>1, <2>2, <2>3, <2>4, <2>5 DEF Next
  <1>2. [Next]_gateVars =>
          [WithoutBaseline => WithoutBaseline' \/ state' = "Uninitialized"]_gateVars
    BY <1>1
  <1>3. QED BY <1>2, PTL DEF Spec, DeadEndNeedsReset

-----------------------------------------------------------------------------
(* The statistics.  A remainder is awkward to add to, so what is inductive *)
(* says how many turns the counters have made more than the history.       *)

Turns == \E k \in Int : StatsSum = observed + k * StatsModulus

\* A counter goes on by one, or back to 0 and so makes a turn.
LEMMA BumpMoves ==
  ASSUME NEW c \in 0 .. StatsModulus - 1
  PROVE  Bump(c) = c + 1 \/ Bump(c) = c + 1 - StatsModulus
  BY GateAssumption DEF Bump

\* Counting changes the sum by what it changes the one counter.
LEMMA CountMovesSum ==
  ASSUME TypeOK, NEW counter \in Counters, Count(counter)
  PROVE  /\ StatsSum \in Int /\ StatsSum' \in Int
         /\ \/ StatsSum' = StatsSum + 1
            \/ StatsSum' = StatsSum + 1 - StatsModulus
  <1>1. StatsModulus \in Nat
    BY GateAssumption
  <1>2. \A c \in Counters : stats[c] \in 0 .. StatsModulus - 1
    BY DEF TypeOK
  <1>3. \A c \in Counters : stats[c] \in Int
    BY <1>1, <1>2
  <1>4. \A c \in Counters : stats'[c] = IF c = counter THEN Bump(stats[c]) ELSE stats[c]
    BY DEF Count, TypeOK
  <1>5. \/ stats'[counter] = stats[counter] + 1
        \/ stats'[counter] = stats[counter] + 1 - StatsModulus
    BY <1>2, <1>4, BumpMoves
  <1>6. \A c \in Counters : c # counter => stats'[c] = stats[c]
    BY <1>4
  <1>7. QED BY <1>1, <1>3, <1>5, <1>6, SMT DEF StatsSum, Counters

\* A call that is counted once, by one counter, keeps the account.
LEMMA CountKeepsTurns ==
  ASSUME TypeOK, Turns, NEW counter \in Counters, Count(counter)
  PROVE  Turns'
  <1>1. PICK k \in Int : StatsSum = observed + k * StatsModulus
    BY DEF Turns
  <1>2. StatsModulus \in Int /\ observed \in Int
    BY GateAssumption DEF TypeOK
  <1>3. observed' = observed + 1 \/ observed' = observed + 1 - StatsModulus
    BY BumpMoves DEF Count, TypeOK
  <1> DEFINE turned == k * StatsModulus
  <1>4. /\ turned \in Int
        /\ (k + 1) * StatsModulus = turned + StatsModulus
        /\ (k - 1) * StatsModulus = turned - StatsModulus
    BY <1>2, SMT
  <1>5. StatsSum = observed + turned
    BY <1>1
  <1> HIDE DEF turned
  <1>6. \/ StatsSum' = observed' + turned
        \/ StatsSum' = observed' + (k + 1) * StatsModulus
        \/ StatsSum' = observed' + (k - 1) * StatsModulus
    BY <1>2, <1>3, <1>4, <1>5, CountMovesSum, SMT
  <1>7. k + 1 \in Int /\ k - 1 \in Int
    OBVIOUS
  <1>8. QED BY <1>6, <1>7 DEF Turns, turned

\* Every exit of observe counts once; no other method counts.
LEMMA StepCounts ==
  ASSUME [Next]_gateVars
  PROVE  UNCHANGED <<stats, observed>> \/ \E counter \in Counters : Count(counter)
  <1>1. ASSUME NEW p \in PartitionIds, NEW s \in Sequences0, Observe(p, s)
        PROVE  \E counter \in Counters : Count(counter)
    <2>1. \/ Count("invalid") \/ Count("rejected_while_stale")
          \/ Count("wrong_partition") \/ Count("accepted")
          \/ Count("duplicates") \/ Count("gaps") \/ Count("regressions")
      BY <1>1, Zenon
      DEF Observe, ObserveInvalid, ObserveAwaitingBaseline, ObserveWrongPartition,
          ObserveWhileStale, ObserveAccepted, ObserveDuplicate, ObserveBreak
    <2>2. /\ "invalid" \in Counters /\ "rejected_while_stale" \in Counters
          /\ "wrong_partition" \in Counters /\ "accepted" \in Counters
          /\ "duplicates" \in Counters /\ "gaps" \in Counters
          /\ "regressions" \in Counters
      BY DEF Counters
    <2>3. QED BY <2>1, <2>2, Zenon
  <1>2. ASSUME NEW p \in PartitionIds, NEW s \in Sequences0,
               ObserveRecovery(p, s) \/ CompleteRecovery(p, s)
        PROVE  UNCHANGED <<stats, observed>>
    BY <1>2 DEF ObserveRecovery, CompleteRecovery
  <1>3. CASE BeginRecovery \/ Reset \/ UNCHANGED gateVars
    BY <1>3 DEF BeginRecovery, Reset, gateVars
  <1>4. QED BY <1>1, <1>2, <1>3 DEF Next

\* A sum that is whole turns away from a number below the modulus leaves that
\* number as its remainder.
LEMMA Remainder ==
  ASSUME NEW m \in Nat \ {0}, NEW r \in 0 .. m - 1, NEW k \in Int, NEW n \in Int,
         n = r + k * m
  PROVE  n % m = r
  <1> DEFINE q == n \div m
             t == n % m
  <1>1. n = m * q + t /\ q \in Int /\ t \in 0 .. m - 1
    BY Z3
  <1> HIDE DEF q, t
  <1>2. m * (q - k) = r - t
    BY <1>1, Z3
  <1>3. q - k = 0
    <2> DEFINE d == q - k
    <2>1. d \in Int /\ m * d < m /\ m * d > -m
      BY <1>1, <1>2
    <2> HIDE DEF d
    <2>2. CASE d >= 1
      <3>1. m * d >= m * 1
        BY <2>1, <2>2, Z3
      <3>2. QED BY <2>1, <3>1
    <2>3. CASE d <= -1
      <3>1. m * d <= -m
        BY <2>1, <2>3, Z3
      <3>2. QED BY <2>1, <3>1
    <2>4. d = 0
      BY <2>1, <2>2, <2>3
    <2>5. QED BY <2>4 DEF d
  <1>4. r - t = 0
    BY <1>2, <1>3, SMT
  <1>5. QED BY <1>1, <1>4 DEF t

\* The seven counters of SequenceStats add up to the number of calls of observe,
\* for every width of the counters (property StatsAccount).
THEOREM StatsHold == Spec => []StatsAccount
  <1>1. Init => Turns
    <2> SUFFICES ASSUME Init PROVE StatsSum = observed + 0 * StatsModulus
      BY DEF Turns
    <2>1. StatsSum = 0 /\ observed = 0
      BY DEF Init, StatsSum, Counters
    <2>2. QED BY <2>1, GateAssumption
  <1>2. TypeOK /\ Turns /\ [Next]_gateVars => Turns'
    <2> SUFFICES ASSUME TypeOK, Turns, [Next]_gateVars PROVE Turns'
      OBVIOUS
    <2>1. CASE UNCHANGED <<stats, observed>>
      BY <2>1 DEF Turns, StatsSum
    <2>2. CASE \E counter \in Counters : Count(counter)
      BY <2>2, CountKeepsTurns
    <2>3. QED BY <2>1, <2>2, StepCounts
  <1>3. TypeOK /\ Turns => StatsAccount
    <2> SUFFICES ASSUME TypeOK, Turns PROVE StatsAccount
      OBVIOUS
    <2>1. PICK k \in Int : StatsSum = observed + k * StatsModulus
      BY DEF Turns
    <2>2. StatsModulus \in Nat \ {0} /\ observed \in 0 .. StatsModulus - 1
      BY GateAssumption DEF TypeOK
    <2>3. StatsSum \in Int
      BY <2>1, <2>2, SMT
    <2>4. QED BY <2>1, <2>2, <2>3, Remainder DEF StatsAccount
  <1>4. QED BY <1>1, <1>2, <1>3, TypeCorrect, PTL DEF Spec
=============================================================================
