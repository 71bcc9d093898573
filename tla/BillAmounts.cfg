SPECIFICATION Spec
CONSTANTS
  Inputs <- MCInputs
  Scale = 4
  MaxUnits = 12
  MaxItems = 8
INVARIANTS
  TypeOK
  OpenRowIsItems
  DriftIsBounded
  StorableIsExact
CHECK_DEADLOCK FALSE
