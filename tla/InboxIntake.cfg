SPECIFICATION Spec
CONSTANTS
  Last = 3
  Limit = 2
  MaxAttempts = 2
  Unreadable <- SecondUnreadable
  MaxFaults = 2
  DatabaseFails = TRUE
  RunnerRestarts = FALSE
INVARIANTS TypeOK AcknowledgedIsStored HandledOnce
PROPERTIES HandledInTurn
