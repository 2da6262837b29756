SPECIFICATION DaySpec
CONSTANTS
  PartitionIds <- MCPartitionIds
  MaxSeq = 60
  StatsModulus = 1
  MaxFeed = 60
  MaxOrders = 3
  Quantities = {1, 2}
  DamagedUpTo = 2
  RowsAfter = 1
CHECK_DEADLOCK FALSE
INVARIANTS
  BookFollowsExchange
  PhaseFollowsExchange
  AggressorIsIncoming
  CursorIsOfChannel
  DamageIsContained
