SPECIFICATION FairSpec
CONSTANTS
  MessageLimits = {0, 2}
  AttemptLimits = {0, 1, 2}
  Backoffs = {0, 1, 5}
  BackoffCaps = {0, 3}
  Multiplier = 2
  PollInterval = 2
  MessageCap = 3
  AttemptCap = 3
INVARIANTS
  TypeOK
  MessageBudget
  ReasonIsHonest
  LateBound
PROPERTIES
  BackoffDiscipline
  StopHonoured
  BoundedWorkEnds
