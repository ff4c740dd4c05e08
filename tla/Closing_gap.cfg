SPECIFICATION Spec
CONSTANTS
  None = None
  Local = Local
  Failed = Failed
  Workers = {w1}
  Events = {e1}
  Baskets <- MCBaskets
  Deposits <- MCDeposits
  Extras <- MCExtras
  MaxRequests = 3
  MaxCrashes = 0
  MaxOrders = 1
  MaxPayments = 2
  MaxClosings = 2
  MaxTss = 1
  MaxTime = 2
  ArchiveAge = 1
CHECK_DEADLOCK FALSE
INVARIANTS EverythingIsClosed
