SPECIFICATION Spec
CONSTANTS
  Actions = {"write", "write again", "read"}
  KeyOf <- MCKeyOf
  Grants = {1, 2}
  Covers <- MCCovers
  NeedsApproval = {}
  MaxToolCalls = 1
  GrantTTL = 1
  NoAction = "no action"
  MaxHead = 8
  MaxCrashes = 1
  MaxTime = 1
INVARIANT
  InterruptedBecomeUnknown
CHECK_DEADLOCK FALSE
