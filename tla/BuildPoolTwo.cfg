SPECIFICATION FairSpec
CONSTANTS
  Platforms <- MCPlatforms
  Windows <- MCWindows
  Commands = 1
  Concurrency = 2
PROPERTY
  ReleaseAllReturns
CHECK_DEADLOCK FALSE
