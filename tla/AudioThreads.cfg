SPECIFICATION FairSpec
CONSTANTS
    Interval = 2
    MaxLag = 2
    MaxResets = 1
INVARIANT ThreadsSafe
PROPERTIES StopReturns PacketsFlow
