SPECIFICATION MCSpec
CONSTANTS
  c1 = c1
  c2 = c2
  Clients <- MCClients
  Requests <- MCRequests
  Assignments <- MCAssignments
  NoOne = NoOne
  MaxTroubles = 1
  MaxWorkloads = 1
  MaxAttempts = 2
INVARIANTS
  AdmissionInv
  OneSuccessPerAttempt
  SlotsAccounted
PROPERTY
  EventuallyConcluded
