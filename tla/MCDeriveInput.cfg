SPECIFICATION Spec
CONSTANTS
  Inputs <- MCInputs
INVARIANTS
  TypeOK
  DerivesExactly
  ConflictExplained
  ColumnPerLeaf
  ShapeMatchesPath
  ColumnsConsistent
  NestedTuplesBare
  ProjectionsReachable
  RuntimesNotMixed
  OnePolars
PROPERTY
  DeriveEnds
CHECK_DEADLOCK FALSE
