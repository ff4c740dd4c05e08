SPECIFICATION Spec
CONSTANTS
  None = None
  Local = Local
  Failed = Failed
  Workers = {w1, w2}
  Events = {e1}
  Baskets <- MCBaskets
  Deposits <- MCDeposits
  Extras <- MCExtras
  MaxRequests = 3
  MaxCrashes = 1
  MaxOrders = 1
  MaxPayments = 2
  MaxClosings = 2
  MaxTss = 1
  MaxTime = 1
  ArchiveAge = 1
INVARIANTS
  SignedOrMarked
  SplitsFoot
  ClosedOnce
  
SYMMETRY WorkerSymmetry
CHECK_DEADLOCK FALSE
