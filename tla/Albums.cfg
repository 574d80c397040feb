SPECIFICATION FairSpec
CONSTANTS
    NParts = 2
    MaxTimers = 2
    MaxRetries = 1
    MaxFaults = 1
INVARIANTS
    TypeOK
    CarriedWhole
    BoundAsOne
 
CHECK_DEADLOCK FALSE
