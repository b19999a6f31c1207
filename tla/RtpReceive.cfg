SPECIFICATION Spec
CONSTANTS
    SeqWrap = 16
    TsWrap = 48
    First = 30
    Final = 34
    Sources = {1, 2}
    PacketLen = 3
    BufLen = 2
    Comp = 1
    MaxSlide = 1
    MaxJitter = 2
    Window = 3
    MaxQ = 3
    MaxTs = 14
INVARIANT Sorted
 
CHECK_DEADLOCK FALSE
