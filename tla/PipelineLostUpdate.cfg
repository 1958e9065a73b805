SPECIFICATION Spec
CONSTANTS
  Workers = {w1, w2}
  Paths = {p1}
  Models = {1}
  FirstModel = 1
  Dims <- MCSameDims
  ContentChunks <- MCContentChunks
  MaxVersion = 3
  MaxEvents = 6
SYMMETRY Symmetry
INVARIANT EmbeddingNotOlder
