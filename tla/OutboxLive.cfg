SPECIFICATION FairSpec
CONSTANTS
  h1 = h1
  h2 = h2
  Worker = Worker
  Handlers <- OneHandler
  Kinds <- Messages
  MaxJobs = 2
  MaxParts = 1
  MaxAttempts = 2
  MaxFaults = 1
  MaxTaps = 0
  TimeToLive = TRUE
  LeaseOutlivesAttempt = TRUE
  CoroutinesDie = TRUE
  OwnerWaits = TRUE
PROPERTIES EveryJobSettles
