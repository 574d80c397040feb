SPECIFICATION Spec
CONSTANTS
  h1 = h1
  h2 = h2
  Worker = Worker
  Handlers <- OneHandler
  Kinds <- FromMax
  MaxJobs = 2
  MaxParts = 1
  MaxAttempts = 2
  MaxFaults = 1
  MaxTaps = 1
  TimeToLive = FALSE
  LeaseOutlivesAttempt = TRUE
  CoroutinesDie = TRUE
  OwnerWaits = TRUE
INVARIANTS
  TypeOK
  NoUnchosenDuplicate
  OneAttempt
  LandedIsNeverUnsent
  InTurn
PROPERTIES
  KeepsPromise
