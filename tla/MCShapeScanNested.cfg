\* Vec<Option<Vec<Vec<Option<Struct>>>>> with at most two gather indices.
SPECIFICATION Spec
CONSTANTS
  None = None
  Failed = Failed
  Default = Default
  Node <- MCNode
  Encode <- MCEncode
  Inputs <- MCInputs
  Depth = 3
  LeafKind = "nested"
  Values = {a, b}
  BadValues = {}
  TrueValues = {}
  OptionalLayers = {2, 4}
  MaxItems = 1
  MaxLists = 2
  MaxLeaves = 1
  MaxOffset = 9
  MaxIdx = 1
PROPERTY ImplementsListColumn
