\* Vec<Option<bool>>: both leaf bitmaps are prefilled.
SPECIFICATION Spec
CONSTANTS
  None = None
  Failed = Failed
  Default = Default
  Node <- MCNode
  Encode <- MCEncode
  Inputs <- MCInputs
  Depth = 1
  LeafKind = "bool"
  Values = {yes, no}
  BadValues = {}
  TrueValues = {yes}
  OptionalLayers = {2}
  MaxItems = 3
  MaxLists = 2
  MaxLeaves = 2
  MaxOffset = 9
  MaxIdx = 9
INVARIANTS NeverPanics
PROPERTY ImplementsListColumn
