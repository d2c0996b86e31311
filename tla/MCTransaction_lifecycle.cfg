SPECIFICATION Spec
CONSTANTS
  Trees <- AllTrees
  BaseTree = "base"
  NoTree = "none"
  EffectIDs = {"e1", "e2"}
  EffectsOf <- MCEffectsOf
  Decision <- MCDecision
  MaxPolicy = 3
  Verifiers = {"unit"}
  Profiles = {"unit"}
  ExternalVerification = FALSE
  Principals = {"sponsor"}
  Sponsor = "sponsor"
  Approvers = {}
  NoOne = "noone"
  EvidenceTTL = 1
  DecisionTTL = 1
  MaxAttempt = 3
  MaxExecutions = 2
  MaxPrepared = 2
  MaxSigned = 0
  MaxTime = 0
INVARIANTS
  ProjectionAlwaysValid
  ActiveExecutionPinsAttempt
PROPERTY
  FrozenIsImmutable
