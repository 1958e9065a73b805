SPECIFICATION Spec
CHECK_DEADLOCK FALSE
CONSTANTS
  Docs = {1, 2}
  OldDocs = {1}
  Models = {1, 2}
  OldModel = 1
  Dims <- MCDims
  Chunks = {0, 1}
  Workers = 2
  MaxCrashes = 3
INVARIANT ServingModelSeesCorpus
