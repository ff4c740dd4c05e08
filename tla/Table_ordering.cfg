SPECIFICATION Spec
CONSTANTS
  None = None
  Workers = {w1, w2}
  Products = {p1, p2}
  MaxQuantity = 1
  MaxRequests = 5
  MaxCrashes = 1
  MaxCodes = 1
  MaxSessions = 1
  MaxOrders = 2
  MaxPayments = 2
SYMMETRY Symmetry
CHECK_DEADLOCK FALSE
INVARIANTS MoneyIsBooked PaidIsWhatWasOrdered
