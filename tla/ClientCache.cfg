SPECIFICATION FairSpec
CONSTANTS
  Requests = {q1, q2}
  Accounts = {a1, a2}
  TTL = 2
  LoadTicks = 1
  CacheSize = 1
INVARIANTS
  TypeOK
  NoLoadWhileCached
PROPERTIES
  StalenessBounded
  LookupReturns
