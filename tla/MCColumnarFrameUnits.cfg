\* Structs without columns.
SPECIFICATION Spec
CONSTANTS
  None = None
  Failed = Failed
  Default = Default
  p = p
  q = q
  bad = bad
  yes = yes
  no = no
  Values <- MCValues
  Encode <- MCEncode
  Fields <- UnitFields
  Inputs <- UnitInputs
  Inner <- UnitInner
  Fragile = {}
  MaxItems = 4
PROPERTY ImplementsTable
