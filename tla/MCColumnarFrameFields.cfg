\* Structs and a list named after their fields; one of each may fail.
SPECIFICATION Spec
CONSTANTS
  None = None
  Failed = Failed
  Default = Default
  p = p
  q = q
  bad = bad
  yes = yes
  no = no
  Values <- MCValues
  Encode <- MCEncode
  Fields <- FieldFields
  Inputs <- FieldInputs
  Inner <- FieldInner
  Fragile = {2, 4}
  MaxItems = 3
INVARIANT UniqueSchema
PROPERTY ImplementsTable
