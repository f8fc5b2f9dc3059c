\* Option<Vec<Option<Vec<Option<N>>>>> with a conversion that can fail.
SPECIFICATION Spec
CONSTANTS
  None = None
  Failed = Failed
  Default = Default
  Node <- MCNode
  Encode <- MCEncode
  Inputs <- MCInputs
  Depth = 2
  LeafKind = "numeric"
  Values = {v, bad}
  BadValues = {bad}
  TrueValues = {}
  OptionalLayers = {1, 2, 3}
  MaxItems = 2
  MaxLists = 2
  MaxLeaves = 1
  MaxOffset = 3
  MaxIdx = 9
INVARIANTS TypeOK BuffersInStep PrecountExact PrecountRetraced
PROPERTY ImplementsListColumn
