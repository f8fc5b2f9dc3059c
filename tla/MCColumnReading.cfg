SPECIFICATION Spec
CONSTANTS
  Types <- MCTypes
  ValuesOf <- MCValuesOf
INVARIANTS
  ColumnsReadRow
CHECK_DEADLOCK FALSE
