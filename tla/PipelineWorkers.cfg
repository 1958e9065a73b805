SPECIFICATION Spec
CONSTANTS
  Workers = {w1, w2}
  Paths = {"a"}
  Models = {1, 2}
  FirstModel = 1
  Dims <- MCSameDims
  MaxVersion = 2
  MaxEvents = 4
  ContentChunks <- MCShrinkingChunks
SYMMETRY Symmetry
INVARIANTS TypeOK OneDocPerPath RowsHaveDocument WholePlanPerPair IndexMatchesRows
