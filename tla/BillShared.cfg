SPECIFICATION FairSpec
CONSTANTS
  b1 = b1
  b2 = b2
  i1 = i1
  i2 = i2
  Accounts <- MCAccounts
  Owner <- MCOwner
  Amounts <- MCAmounts
  Currencies <- MCCurrencies
  Registered = {"USD"}
  Bills = {b1, b2}
  Items = {i1, i2}
  UuidItems = {i1}
  Periods <- PeriodOfB1
  Updates = {u1, u2}
  Requests <- Shared
  Threshold = 1
  MaxAttempts = 2
  Faults = FALSE
  KeyedBills = {}
  MaxStarts = 1
INVARIANTS
  IInv
PROPERTIES
  LedgerSpec
  HandOverKeepsItems
  UpdateIsAnswered
  CloseIsReached
CHECK_DEADLOCK FALSE
