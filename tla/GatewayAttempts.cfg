SPECIFICATION GatewaySpec
CONSTANTS
  CommandLines <- MCWideLines
  DefaultMessages = 2
  DefaultBackoff = 1
  DefaultBackoffCap = 2
  U32 = 4
  U64 = 16
  MessageLimits = {0, 2}
  AttemptLimits = {0, 1, 2, 3}
  Backoffs = {1}
  BackoffCaps = {2}
  Multiplier = 2
  PollInterval = 2
  MessageCap = 3
  AttemptCap = 6
INVARIANTS
  AttemptsAsAsked
