SPECIFICATION Spec
CONSTANTS
  Workers = {w1}
  Paths = {p1}
  Models = {1}
  FirstModel = 1
  Dims <- MCSameDims
  ContentChunks <- MCContentChunks
  MaxVersion = 3
  MaxEvents = 2
INVARIANT WorkHasJobAtRest
