SPECIFICATION FairSpec
CONSTANTS
  Actions = {"write", "write again", "read"}
  KeyOf <- MCKeyOf
  Grants = {1, 2, 3}
  Covers <- MCCovers
  NeedsApproval = {3}
  MaxToolCalls = 1
  GrantTTL = 1
  NoAction = "no action"
  MaxHead = 11
  MaxCrashes = 2
  MaxTime = 1
INVARIANTS
  AtMostOnce
  HonestLedger
  UsesWithinLimit
PROPERTY
  InterruptedIsClosed
CHECK_DEADLOCK FALSE
