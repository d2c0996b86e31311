SPECIFICATION Spec
CONSTANTS
  Paths <- MCPaths
  Order <- MCOrder
  Entries <- MCEntries
  BaseTrees <- MCBaseTrees
  MaxChangedFiles = 2
  MaxFileBytes = 2
  MaxTotalChangedBytes = 3
  MaxEdits = 2
  MaxTroubles = 1
  MaxAttempts = 2
INVARIANTS
  SnapshotInv
  BoundWorktreeComplete
  FrozenThroughout
CHECK_DEADLOCK FALSE
