SPECIFICATION FairPlanning
CONSTANTS
  w1 = w1
  w2 = w2
  early = early
  late = late
  bar = bar
  anna = anna
  None = None
  Hourly = Hourly
  Daily = Daily
  Workers <- MCWorkers
  Jobs = {bar}
  Shifts <- MCShifts
  FirstShifts = {early}
  Emails = {anna}
  Needs = {1, 2}
  MaxPerPerson = 2
  ReminderCap = 2
  MaxProposals = 1
  MaxRequests = 2
  MaxCrashes = 1
  MaxLostMails = 1
CHECK_DEADLOCK FALSE
INVARIANTS ConfirmedIsProven NothingDangles
PROPERTIES PendingGetsLink
