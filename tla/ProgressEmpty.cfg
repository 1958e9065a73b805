SPECIFICATION Spec
CONSTANTS
  Docs = {1}
  Unplanned = {}
  StaleJobAge = 1
  FailedLockout = 1
  RecentWindow = 1
  RetryDelays = {0, 1}
  MaxTime = 2
  MaxCommits = 2
INVARIANT StatsAnswered
