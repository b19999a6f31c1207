SPECIFICATION FairSpec
CONSTANTS
    T2 = 2
    T4 = 2
    Timeout = 5
    Reliable = FALSE
    Kinds = {"INVITE", "OTHER"}
    Delay = 0
    MaxFaults = 2
    RetryWait = 2
    RetryMax = 2
    Patience = 6
    AnswerStatus = 200
PROPERTIES LeavesTheList Decided AnswerSettles

CHECK_DEADLOCK FALSE
