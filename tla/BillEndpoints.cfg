SPECIFICATION EFairSpec
CONSTANTS
  b1 = b1
  b2 = b2
  i1 = i1
  i2 = i2
  Accounts <- MCAccounts
  Owner <- MCOwner
  Amounts <- MCAmounts
  Currencies <- MCCurrencies
  Registered = {"USD"}
  Bills = {b1}
  Items = {i1}
  UuidItems = {i1}
  Periods <- NoPeriod
  Updates = {u1}
  Readers = {q1}
  Requests <- Good
  Threshold = 2
  MaxAttempts = 1
  Faults = TRUE
  KeyedBills = {b1}
  MaxStarts = 2
INVARIANTS
  EndpointsTypeOK
  ReadYourWrites
  ItemsCoverTotal
  MonotonicReads
  CloseAnswersClosed
  NotFoundIsTrue
  LogReplaysToRow
PROPERTIES
  CallReturns
CHECK_DEADLOCK FALSE
