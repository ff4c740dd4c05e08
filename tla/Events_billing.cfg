SPECIFICATION FairBilling
CONSTANTS
  fair = fair
  party = party
  Null = Null
  MaxWorkers = 2
  Events <- MCEvents
  MaxDays = 2
  MaxRequests = 3
  MaxSessions = 2
  MaxCrashes = 1
CHECK_DEADLOCK FALSE
INVARIANTS ActiveIsUnlocked PaidHasProof PaidNotExtended
PROPERTIES PaidUnlocks
