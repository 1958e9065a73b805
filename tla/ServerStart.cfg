SPECIFICATION ServerSpec
CHECK_DEADLOCK FALSE
CONSTANTS
  Docs = {1, 2}
  OldDocs = {1}
  Models = {1, 2}
  OldModel = 1
  Dims <- MCDims
  Chunks = {0, 1}
  Workers = 1
  MaxCrashes = 2
  Corpora <- MCCorpora
INVARIANTS IndexSound CleanIndexComplete BackfillCoversCorpus RecordedMeansApplied MigratingLosesNothing
PROPERTIES QueuedWhenServingStarts StartupCompletes
