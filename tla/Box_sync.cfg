SPECIFICATION FairSpec
CONSTANTS
  order = order
  job = job
  Rows <- MCRows
  MaxWorkers = 2
  BatchSize = 2
  MaxSaves = 3
  MaxBypasses = 1
  MaxFailures = 1
CHECK_DEADLOCK FALSE
INVARIANTS PushedIsReceived NewestIsCurrent
PROPERTIES PromiseKept
