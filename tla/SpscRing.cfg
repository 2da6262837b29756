CONSTANTS
  Values = {a, b}
  NoValue = none
  Capacity = 4
  IndexSpan = 8
SPECIFICATION FairSpec
INVARIANTS
  TypeOK
  NoSlotRace
  FreeSlotsAreClear
PROPERTIES
  ImplementsFifo
  HeadIsConsumed
