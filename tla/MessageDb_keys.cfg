SPECIFICATION DbSpec
CONSTANTS
  Seconds = 1
  MaxRuns = 1
CHECK_DEADLOCK FALSE
INVARIANT
  KeysHold
