SPECIFICATION ModelSpec
CONSTANTS
  c1 = c1
  c2 = c2
  c3 = c3
  Calls <- MCCalls
  MaxRequests = 2
  MaxTotalInputTokens = 4
  MaxTotalOutputTokens = 3
  MaxOutputTokensPerRequest = 2
  Sizes <- MCSizes
  MaxInt64 = 7
  MaxTroubles = 2
INVARIANTS
  ConservativeCharge
CHECK_DEADLOCK FALSE
