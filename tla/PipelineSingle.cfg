SPECIFICATION FairSpec
CONSTANTS
  Workers = {w1}
  Paths = {p1}
  Models = {1, 2}
  FirstModel = 1
  Dims <- MCDims
  ContentChunks <- MCContentChunks
  MaxVersion = 3
  MaxEvents = 5
INVARIANTS EmbeddingNotOlder
PROPERTIES QueueDrains QueuedWorkIsDone
