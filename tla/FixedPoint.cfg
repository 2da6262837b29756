SPECIFICATION Spec
CONSTANTS
  Largest = 127
  MaxScale = 2
  Digits = {0, 1, 2, 7, 8}
  MaxLength = 5
CHECK_DEADLOCK FALSE
INVARIANTS
  ParseIsExact
