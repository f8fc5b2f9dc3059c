\* One leaf field of each storage, one in a loop of its own, and two structs.
SPECIFICATION Spec
CONSTANTS
  None = None
  Failed = Failed
  Default = Default
  p = p
  q = q
  bad = bad
  yes = yes
  no = no
  Values <- MCValues
  Encode <- MCEncode
  Fields <- LeafFields
  Inputs <- LeafInputs
  Inner <- LeafInner
  Fragile = {1, 3}
  MaxItems = 2
INVARIANTS TypeOK NeverPanics
PROPERTY ImplementsTable
