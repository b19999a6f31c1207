SPECIFICATION PhoneFairSpec
CONSTANTS
    MaxCalls = 1
    MaxEvents = 1
    MaxRetry = 1
    Faults <- NoFaults
    Apart = FALSE
    RingFile = TRUE
PROPERTIES
    QuitEndsPhone
    RequestsReturn
CHECK_DEADLOCK FALSE
