SPECIFICATION FairSpec
CONSTANTS
    s1 = s1
    s2 = s2
    s3 = s3
    tA = tA
    Traders = {tA}
    Sessions = {s1, s2}
    CN <- OneTrader
    NoSession = NoSession
    HeartbeatTimeout = 1
    MaxAttempts = 2
    MaxTime = 2
    MaxFaults = 2
    MaxCrashes = 0
PROPERTIES
    SlotSpec
    HandlerReturns
CHECK_DEADLOCK FALSE
