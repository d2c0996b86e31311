SPECIFICATION Spec
CONSTANTS
  Paths <- MCPaths
  Order <- MCOrder
  Entries <- MCEntries
  BaseTrees <- MCBaseTrees
  MaxChangedFiles = 3
  MaxFileBytes = 2
  MaxTotalChangedBytes = 8
  MaxEdits = 2
  MaxTroubles = 1
  MaxAttempts = 2
INVARIANT
  LinksRecorded
CHECK_DEADLOCK FALSE
