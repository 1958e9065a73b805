SPECIFICATION Spec
CONSTANTS
  Workers = {w1, w2}
  Payloads = {p1, p2}
  NULL = NULL
  Stale = 2
  MaxRun = 2
  ClockLag = 1
  RetryDelays = {0, 1, 3}
  MaxTime = 6
  MaxId = 3
SYMMETRY Symmetry
INVARIANTS ExclusiveWork RetryWindow
PROPERTIES OnlyOwnRowDeleted ImplementsWorkSet
