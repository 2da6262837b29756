SPECIFICATION RecoverySpec
CONSTANTS
  Capacity = 2
  MaxEvents = 5
  Top = 9
INVARIANTS
  ReplayContinues
  CheckpointIsDurable
PROPERTIES
  CheckpointAdvances
