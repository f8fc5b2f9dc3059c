SPECIFICATION Spec
CONSTANTS
  Base = 10
  MaxScale = 3
  IntMax = 1023
  WordMax = 127
  Kilo = 2
  EpochDay = 5
  Columns <- MCColumns
  RowsOf <- MCRowsOf
INVARIANTS
  DecimalsNearest
  RefusedRightly
  CellsOrdered
CHECK_DEADLOCK FALSE
