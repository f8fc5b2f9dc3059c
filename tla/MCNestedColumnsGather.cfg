\* Lists of Option<Struct>: all four branches, and two gather indices.
SPECIFICATION Spec
CONSTANTS
  None = None
  Failed = Failed
  x = x
  y = y
  num = num
  str = str
  cat = cat
  Names <- MCNames
  Dtypes <- MCDtypes
  Cells <- MCCells
  Inputs <- MCInputs
  Frames <- MCFrames
  Schemas <- MCSchemas
  Unlisted <- MCUnlisted
  Unfillable <- MCUnfillable
  OutputName <- MCOutputName
  Structs = {a, b}
  MaxLeaves = 3
  Shape = "vecInnerOption"
  MaxIdx = 1
INVARIANT NeverPanics
PROPERTY ImplementsNestedField
