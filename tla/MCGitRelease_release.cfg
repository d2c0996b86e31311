SPECIFICATION FairSpec
CONSTANTS
  t1 = t1
  t2 = t2
  Tx <- MCTx
  BaseRevision = "base"
  Foreign = {"foreign"}
  MaxInterrupts = 2
  MaxForeign = 2
INVARIANTS
  OnReviewedBase
  FailureIsUnpublished
PROPERTIES
  NoLostUpdate
  KeepsPromise
  EventuallyConcluded
