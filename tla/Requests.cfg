SPECIFICATION RequestsSpec
CONSTANTS
  Indexes <- MCIndexes
  Active = 1
  Limits = {0, 1, 2, 3}
  MaxLimit = 2
  RawMultiplier = 2
  RawCap = 3
  NoLocation = NoLocation
  RootDirs <- MCRootDirs
  DisplayDirs <- MCDisplayDirs
  StoredPaths <- MCStoredPaths
  Docs = {1, 2}
  Unplanned = {1}
  StaleJobAge = 1
  FailedLockout = 1
  RecentWindow = 1
  RetryDelays = {0, 1}
  MaxTime = 2
  MaxCommits = 2
INVARIANTS
  PageIsBest ShortPageExhaustsRawLimit LocationIsNearestContent
  ShownPathNamesFile
  LockedIsUnclaimable RemainingNotDoubleCounted QuietStatsAgree
