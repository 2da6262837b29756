CONSTANTS
  PartitionIds <- MCPartitionIds
  MaxSeq = 3
  StatsModulus = 2
  MaxFeed = 3
SPECIFICATION Spec
INVARIANTS
  TypeOK
  Continuity
  StatsAccount
PROPERTIES
  StaleIsSticky
  DeadEndNeedsReset
