SPECIFICATION MCSpec
CONSTANTS
  p1 = p1
  p2 = p2
  p3 = p3
  a = a
  b = b
  Initializers <- MCInitializers
  Profiles <- MCProfiles
  ProfileOf <- MCProfileOf
  NoProfile = NoProfile
  NoFile = NoFile
  Partial = Partial
  MaxInitCrashes = 1
  Daemons <- MCDaemons
  Placements <- MCPlacements
  SocketOf <- MCSocketOf
  Home = "home"
  OtherID = OtherID
  MaxStarts = 1
INVARIANTS
  RuntimeInv
  HistoryOfOneRuntime
  SocketsServe
  RootStaysPrivate
PROPERTY
  ForeignLedgerUntouched
CHECK_DEADLOCK FALSE
