SPECIFICATION Spec
CONSTANTS
    Payloads = {0, 8}
    SampleStep = 1
    MaxCalls = 3
    MaxLines = 4
    MaxTokens = 3
    MaxValue = 6
    MaxHeaders = 3
    MaxEdits = 4
    MaxItems = 4
    MaxFlight = 1
    Routes <- SomeWays
    Nats = {"Open", "SymFirewall", "Blocked", "ConeNat", "RestrictedNat", "PortRestrictedNat", "SymNat"}
    MaxCount = 3
    MaxTicks = 6
    MaxLost = 1
    MaxSubscribes = 1
    MaxRequests = 3
    MaxTroubles = 1
    MaxRetry = 2
    Kinds = {"ict", "nist"}
    Delays = {21}
    Second = 10
    Cap = 1
    PipeSize = 1
    MaxTold = 1
INVARIANTS
    HeardAsSaid
    SdpKept
    HeadersKept
    MessageKept
    OneDialog
    
    NatFound
    WatcherUpToDate
    WakesInTime
CHECK_DEADLOCK FALSE
