SPECIFICATION FairReleaseSpec
CONSTANTS
  Platforms <- MCPlatforms
  Windows <- MCWindows
  Commands = 1
  Concurrency = 2
  MaxEdits = 1
  MaxRuns = 2
INVARIANTS
  TypeOK
  SlotsAreHeld
  NoErrorLost
  ReleasedIsCurrent
PROPERTY
  ReleaseAllReturns
CHECK_DEADLOCK FALSE
