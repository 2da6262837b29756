SPECIFICATION Spec
CONSTANTS
  Capacity = 2
  MaxEvents = 5
INVARIANTS
  JournalHasNoHole
  GoodLosesNothing
  ReaderSeesPrefix
  VerdictIsExact
