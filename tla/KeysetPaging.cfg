SPECIFICATION Spec
CONSTANTS
  Rows = {1, 2, 3, 4}
  Clients = {c1}
  DefaultLimit = 2
  MaxLimit = 3
  Limits <- MCLimits
  MaxTime = 2
  Second = 2
INVARIANTS
  TypeOK
  PagesAdvance
  NothingSkipped
CHECK_DEADLOCK FALSE
