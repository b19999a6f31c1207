SPECIFICATION PhoneSpec
CONSTANTS
    MaxCalls = 2
    MaxEvents = 1
    MaxRetry = 0
    Faults <- NoFaults
    Apart = FALSE
    RingFile = TRUE
INVARIANTS
    AudioIffAnswered
    HandshakeExact
    AnswersTheCallOnScreen
    RingingIffIncoming

    
CHECK_DEADLOCK FALSE
