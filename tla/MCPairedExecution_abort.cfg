SPECIFICATION Spec
CONSTANTS
  AllowHost = FALSE
  Limit = 3
  MaxInt64 = 4
  Charges = {0, 1, 5}
  MaxExecutions = 1
  MaxAttempt = 2
  MaxRunSeq = 4
  MaxCrashes = 1
INVARIANT
  ActiveIsInterrupted
CHECK_DEADLOCK FALSE
