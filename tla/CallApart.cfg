SPECIFICATION Spec
CONSTANTS
    MaxCalls = 2
    MaxEvents = 2
    MaxRetry = 0
    Faults <- AllFaults
    Apart = TRUE
INVARIANTS
    
    EstablishedIsOnScreen
PROPERTIES
    
    MediaStopsWithCall
CHECK_DEADLOCK FALSE
