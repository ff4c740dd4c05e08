SPECIFICATION FairFaultSpec
CONSTANTS
  c1 = c1
  Checkouts <- MCCheckouts
  Workers = {w1, w2, w3}
  TestOrderLimit = 2
  MaxFailures = 3
INVARIANTS OrdersBoundedByFailures OrderOnlyWhenPaid LinkedOrderComplete
  ClaimExclusive
PROPERTY SettledDespiteOneFailure
