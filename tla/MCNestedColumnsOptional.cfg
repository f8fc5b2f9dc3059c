\* Option<Struct>: the three branches of a field without lists.
SPECIFICATION Spec
CONSTANTS
  None = None
  Failed = Failed
  x = x
  y = y
  num = num
  str = str
  cat = cat
  Names <- MCNames
  Dtypes <- MCDtypes
  Cells <- MCCells
  Inputs <- MCInputs
  Frames <- MCFrames
  Schemas <- MCSchemas
  Unlisted <- MCUnlisted
  Unfillable <- MCUnfillable
  OutputName <- MCOutputName
  Structs = {a, b}
  MaxLeaves = 3
  Shape = "leafOptional"
  MaxIdx = 9
INVARIANT TypeOK
PROPERTY ImplementsNestedField
