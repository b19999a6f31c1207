SPECIFICATION Spec
CONSTANTS
    Calls = {"call"}
    Slots = 2
    MaxNonce = 7
    MaxRefresh = 1
    MaxTrouble = 2
INVARIANTS NoReplay TableIsBounded
PROPERTY Admitted
CHECK_DEADLOCK FALSE
