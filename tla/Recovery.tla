------------------------------ MODULE Recovery ------------------------------
(***************************************************************************)
(* The journal with a CheckpointCoordinator beside it, and the recovery    *)
(* after a crash: downstream state is restored as of the last committed    *)
(* sequence, and the journal's records from the next one on are applied.   *)
(*                                                                         *)
(* Who calls the coordinator is not in this repository; it follows         *)
(* docs/components/replay.md: an event is applied before it is queued, and *)
(* its sequence is committed once the journal holds it, which the writer's *)
(* thread learns from a flush() that leaves the stream good.  Calls may    *)
(* come late, in another order than they were due, or for a partition the  *)
(* coordinator is not about.                                               *)
(***************************************************************************)
EXTENDS EventJournal

CONSTANT Top   \* the largest sequence, UINT64_MAX

ASSUME TopAssumption == Top \in Nat /\ MaxEvents < Top

VARIABLES
  committed,   \* committed_
  durable,     \* the last event known to be in the file
  replayed     \* what the recovery has applied

recoveryVars == <<vars, committed, durable, replayed>>

Partitions == 0 .. 2
Own == 1

Valid == committed.partition # 0 /\ committed.applied # 0

SlipReplayFrom == committed.applied   \* slip: replays the last applied event too
ReplayFrom == IF committed.applied = Top THEN Top ELSE committed.applied + 1

SlipCommit(partition, applied, offset) ==   \* slip: a late call moves it back
  /\ partition # 0 /\ applied # 0
  /\ Valid => partition = committed.partition
  /\ committed' = [partition |-> partition, applied |-> applied, offset |-> offset]

\* commit answers true; the calls it refuses change nothing.
Commit(partition, applied, offset) ==
  /\ partition # 0 /\ applied # 0
  /\ Valid => /\ partition = committed.partition
              /\ applied > committed.applied
              /\ offset >= committed.offset
  /\ committed' = [partition |-> partition, applied |-> applied, offset |-> offset]

\* The calls: of this partition, for anything that has become durable, or of
\* another one.
CommitCall ==
  /\ ~crashed
  /\ \/ \E applied \in 1 .. durable, offset \in 1 .. durable :
          applied <= offset /\ Commit(Own, applied, offset)
     \/ Valid /\ \E p \in Partitions \ {Own}, s \in Events : Commit(p, s, s)
  /\ UNCHANGED <<vars, durable, replayed>>

JournalStep ==
  /\ TryEnqueue \/ DrainPop \/ AppendFrame \/ Crash
  /\ UNCHANGED <<committed, durable, replayed>>

\* The events drain_one has appended so far, when none was lost.
Appended == enqueued - Len(queue)

SlipFlushStep ==   \* slip: good() is asked without a flush before
  /\ ~crashed /\ ~draining /\ ~bad /\ durable' = Appended
  /\ UNCHANGED <<vars, committed, replayed>>

\* After flush(), good() tells that all that was appended is in the file.
FlushStep ==
  /\ Flush
  /\ durable' = IF bad' THEN durable ELSE Appended
  /\ UNCHANGED <<committed, replayed>>

-----------------------------------------------------------------------------
(* Recovery.                                                               *)

Recover ==
  /\ crashed /\ OpenReader
  /\ replayed' = <<>>
  /\ UNCHANGED <<committed, durable>>

\* Records are read from the first; those before ReplayFrom are passed over.
ReplayNext ==
  /\ crashed /\ reader.afterCrash /\ ReadNext
  /\ replayed' = IF reader'.status = "Record" /\ Last(reader'.records) >= ReplayFrom
                   THEN Append(replayed, Last(reader'.records)) ELSE replayed
  /\ UNCHANGED <<committed, durable>>

RecoveryInit ==
  /\ Init
  /\ committed = [partition |-> 0, applied |-> 0, offset |-> 0]
  /\ durable = 0
  /\ replayed = <<>>

RecoveryNext ==
  \/ JournalStep
  \/ FlushStep
  \/ CommitCall
  \/ Recover
  \/ ReplayNext

RecoverySpec == RecoveryInit /\ [][RecoveryNext]_recoveryVars

-----------------------------------------------------------------------------
(* Properties.                                                             *)

\* What downstream has applied when the recovery has applied replayed.
Restored == [i \in 1 .. committed.applied |-> i] \o replayed

\* The whole frame of an event is in the file.
InFile(e) == Place(e, 4) <= Len(file)

\* Replay continues what was applied: wherever the crash came, no event is skipped
\* and none is applied twice, and when the journal ends downstream has everything
\* the file holds, and nothing more.  A checkpoint ahead of the file would leave a
\* hole here.
ReplayContinues ==
  reader.afterCrash =>
    /\ IsPrefix(Restored, Enqueued)
    /\ reader.verdict # "None" =>
         \A e \in 1 .. enqueued : InFile(e) <=> e <= Len(Restored)

\* The committed sequence is in the file at every moment at which a crash may come.
CheckpointIsDurable == \A e \in 1 .. committed.applied : InFile(e)

\* A checkpoint never goes back, neither in the sequence nor in the journal, and
\* stays with its partition, whatever calls come late.
CheckpointAdvances ==
  [][Valid => /\ committed'.partition = committed.partition
              /\ committed'.applied >= committed.applied
              /\ committed'.offset >= committed.offset]_recoveryVars

=============================================================================
