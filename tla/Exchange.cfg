SPECIFICATION Spec
CONSTANTS
    T2 = 2
    T4 = 2
    Timeout = 5
    Reliable = FALSE
    Kinds = {"INVITE", "OTHER"}
    Delay = 1
    MaxFaults = 2
    RetryWait = 2
    RetryMax = 2
    Patience = 6
    AnswerStatus = 200
PROPERTIES Implements QuietAfterOutcome 
INVARIANT ServedOnce

CHECK_DEADLOCK FALSE
