\* A flattened struct that has a column named as a field.
SPECIFICATION Spec
CONSTANTS
  None = None
  Failed = Failed
  Default = Default
  p = p
  q = q
  bad = bad
  yes = yes
  no = no
  Values <- MCValues
  Encode <- MCEncode
  Fields <- ClashFields
  Inputs <- ClashInputs
  Inner <- ClashInner
  Fragile = {}
  MaxItems = 3
INVARIANT UniqueSchema
PROPERTY ImplementsTable
