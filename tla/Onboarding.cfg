SPECIFICATION FairSpec
CONSTANTS
    MaxTasks = 2
    MaxFaults = 2
    MaxSlips = 2
INVARIANTS
    TypeOK
    
    
    AnswerFits

    
CHECK_DEADLOCK FALSE
