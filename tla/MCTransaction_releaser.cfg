SPECIFICATION Spec
CONSTANTS
  Trees <- GuardedTrees
  BaseTree = "base"
  NoTree = "none"
  EffectIDs = {"e1", "e2"}
  EffectsOf <- MCEffectsOf
  Decision <- MCDecision
  MaxPolicy = 2
  Verifiers = {"unit"}
  Profiles = {"unit"}
  ExternalVerification = FALSE
  Principals = {"sponsor", "alice"}
  Sponsor = "sponsor"
  Approvers = {"sponsor", "alice"}
  NoOne = "noone"
  EvidenceTTL = 1
  DecisionTTL = 1
  MaxAttempt = 1
  MaxExecutions = 0
  MaxPrepared = 2
  MaxSigned = 2
  MaxTime = 1
INVARIANT
  ReleaserDistinctFromApprovers
