\* A commit or watcher under each wrapper, two builds, a failure, an edit, an older list,
\* a new leader
SPECIFICATION MCSpec
CONSTANTS
  MaxBuilds = 2
  MaxFaults = 1
  MaxEdits = 1
  MaxRelists = 1
  MaxTakeovers = 1
INVARIANTS
  StatusTypeInv
  CacheIsServerState
  FailedCallsRunAgain
  NoHalfStatusStored
  NoStateUnposted
PROPERTIES
  GitHubFollows
  HandlersSettle
CHECK_DEADLOCK FALSE
