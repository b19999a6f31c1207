SPECIFICATION FairSpec
CONSTANTS
    MaxCalls = 1
    MaxEvents = 1
    MaxRetry = 1
    Faults <- RefusedFaults
    Apart = FALSE
PROPERTY
    QuitCompletes
CHECK_DEADLOCK FALSE
