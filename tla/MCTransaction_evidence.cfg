SPECIFICATION Spec
CONSTANTS
  Trees <- PlainTrees
  BaseTree = "base"
  NoTree = "none"
  EffectIDs = {"e1", "e2"}
  EffectsOf <- MCEffectsOf
  Decision <- MCDecision
  MaxPolicy = 1
  Verifiers = {"unit", "lint"}
  Profiles = {"unit"}
  ExternalVerification = TRUE
  Principals = {"sponsor"}
  Sponsor = "sponsor"
  Approvers = {}
  NoOne = "noone"
  EvidenceTTL = 1
  DecisionTTL = 1
  MaxAttempt = 1
  MaxExecutions = 0
  MaxPrepared = 2
  MaxSigned = 0
  MaxTime = 1
INVARIANTS
  EffectsFollowState
  EvidenceBeforeRelease
