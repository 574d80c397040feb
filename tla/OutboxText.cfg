SPECIFICATION Spec
CONSTANTS
  h1 = h1
  h2 = h2
  Worker = Worker
  Handlers <- TwoHandlers
  Kinds <- OwnersOwn
  MaxJobs = 2
  MaxParts = 2
  MaxAttempts = 2
  MaxFaults = 1
  MaxTaps = 1
  TimeToLive = FALSE
  LeaseOutlivesAttempt = TRUE
  CoroutinesDie = FALSE
  OwnerWaits = TRUE
INVARIANTS TextInTurn
SYMMETRY Interchangeable
