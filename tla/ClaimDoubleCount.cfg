SPECIFICATION Spec
CONSTANTS
  b1 = b1
  b2 = b2
  i1 = i1
  i2 = i2
  Accounts <- MCAccounts
  Owner <- MCOwner
  Amounts <- MCAmounts
  Currencies <- MCCurrencies
  Registered <- MCRegistered
  Bills = {b1}
  Items = {i1}
  UuidItems = {i1}
  Periods <- AnyPeriod
  Updates = {u1, u2}
  Requests <- Good
  Threshold = 2
  MaxAttempts = 1
  Faults = FALSE
  KeyedBills = {}
  MaxStarts = 1
INVARIANTS
  NeverDoubleCounted
CHECK_DEADLOCK FALSE
