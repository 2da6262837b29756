SPECIFICATION GatewaySpec
CONSTANTS
  CommandLines <- MCCommandLines
  DefaultMessages = 2
  DefaultBackoff = 1
  DefaultBackoffCap = 2
  U32 = 8
  U64 = 16
  MessageLimits = {0, 2}
  AttemptLimits = {0, 1, 2}
  Backoffs = {0, 1}
  BackoffCaps = {0, 2}
  Multiplier = 2
  PollInterval = 2
  MessageCap = 3
  AttemptCap = 3
INVARIANTS
  CountersAgree
  LogsAreTheFirst
PROPERTIES
  RefusalEndsSession
