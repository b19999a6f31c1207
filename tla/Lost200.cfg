SPECIFICATION FairSpec
CONSTANTS
    T2 = 2
    T4 = 2
    Timeout = 5
    Reliable = FALSE
    Kinds = {"INVITE"}
    Delay = 0
    MaxFaults = 2
    RetryWait = 2
    RetryMax = 2
    Patience = 6
    AnswerStatus = 0
PROPERTIES AnswerSettles

CHECK_DEADLOCK FALSE
