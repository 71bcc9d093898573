SPECIFICATION Spec
CONSTANTS
  Lookups = {l1, l2}
  Refreshes = {r1, r2}
  Codes = {"USD", "GEL", "JPY"}
  Seed = {"USD"}
INVARIANTS
  TypeOK
  RefreshStays
  KnowsOnlyRegistered
  OneReadPerExpiry
