SPECIFICATION JourneySpec
CONSTANTS
  Files <- MCFiles
  Budgets = {2, 7, 20}
  Chunkings <- SmallChunkings
  Probe = 2
  BatchSizes = {1, 2, 4}
  MaxInputs = 5
  MaxAttempts = 2
  Dirs <- MCDirs
  HiddenNames = {".h"}
  MaxFailing = 1
  MaxJobs = 2
INVARIANTS
  PrefixIsExact RangesWellFormed RangesCoverContent PlanSurvivesReread
  ChunkGetsOwnVector StoredWholeFromOneAttempt BatchesTileInputs
  SelectionIsExact OneRoutePerFile
PROPERTIES LoopsAdvance
CHECK_DEADLOCK FALSE
