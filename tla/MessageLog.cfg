SPECIFICATION Spec
CONSTANTS
  MaxMessages = 3
  PayloadSizes = {0, 1, 3, 9}
  MaxFrameSize = 8
  Limits = {0, 1, 8}
  ReadLimit = 2
INVARIANTS
  WithinLimit
  LogIsWhatWasWritten
  RefusalsAreFinal
  ReaderVerdictIsExact
  InventsOnlyPastTooLarge
