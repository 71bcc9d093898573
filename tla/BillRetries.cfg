SPECIFICATION Spec
CONSTANTS
  b1 = b1
  b2 = b2
  i1 = i1
  i2 = i2
  Accounts <- MCAccounts
  Owner <- MCOwner
  Amounts <- MCAmounts
  Currencies <- MCCurrencies
  Registered <- MCRegistered
  Bills = {b1}
  Items = {i1, i2}
  UuidItems = {i1, i2}
  Periods <- AnyPeriod
  Updates = {u1, u2}
  Requests <- Tried
  Threshold = 2
  MaxAttempts = 2
  Faults = TRUE
  KeyedBills = {}
  MaxStarts = 1
SYMMETRY MCSymmetry
INVARIANTS
  TypeOK
  OpenTotalIsItems
  ClosedTotalExact
  AckedIsPersisted
  AuditMirrorsItems
  LogReplaysToRow
  CloseAttribution
  OneCurrency
  ItemsWereRequested
PROPERTIES
  LedgerSpec
  ClosedIsFrozen
CHECK_DEADLOCK FALSE
