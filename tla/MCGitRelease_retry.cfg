SPECIFICATION ReleaseSpec
CONSTANTS
  t1 = t1
  t2 = t2
  Tx <- MCTx
  BaseRevision = "base"
  Foreign = {"foreign"}
  MaxInterrupts = 1
  MaxForeign = 1
INVARIANT
  RetryIsSafe
