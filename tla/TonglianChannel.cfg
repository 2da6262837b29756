SPECIFICATION FairChannelSpec
CONSTANTS
  PartitionIds <- MCPartitionIds
  MaxSeq = 3
  StatsModulus = 1
  MaxFeed = 6
  Channel = 1
  MaxRow = 3
INVARIANTS
  BookIsExact
PROPERTIES
  BreakIsRepaired
