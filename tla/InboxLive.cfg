SPECIFICATION FairSpec
CONSTANTS
  Last = 2
  Limit = 2
  MaxAttempts = 2
  Unreadable <- SecondUnreadable
  MaxFaults = 2
  DatabaseFails = FALSE
  RunnerRestarts = TRUE
PROPERTIES EveryUpdateFinishes
