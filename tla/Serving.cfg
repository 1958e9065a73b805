SPECIFICATION ServingSpec
CONSTANTS
  w1 = w1
  r1 = r1
  s1 = s1
  s2 = s2
  Nobody = Nobody
  Workers = {w1}
  Requests = {r1, s1, s2}
  PageTasks = {s1, s2}
  PoolSize = 2
INVARIANTS NoRequestBehindWorkers WaitersHaveRunner
PROPERTIES PageFollowsServer PollingGoesOn
