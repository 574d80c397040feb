SPECIFICATION Spec
CONSTANTS
    NParts = 2
    MaxTimers = 1
    MaxRetries = 1
    MaxFaults = 1
INVARIANT FinishedIsCarried
CHECK_DEADLOCK FALSE
