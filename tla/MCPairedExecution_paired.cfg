SPECIFICATION FairSpec
CONSTANTS
  AllowHost = TRUE
  Limit = 3
  MaxInt64 = 4
  Charges = {0, 1, 5}
  MaxExecutions = 3
  MaxAttempt = 2
  MaxRunSeq = 9
  MaxCrashes = 2
INVARIANTS
  LedgersAgree
  ContainerUnderReceipt
  RefusedOnlyAfterAbort
PROPERTY
  InterruptedIsSettled
CHECK_DEADLOCK FALSE
