SPECIFICATION Spec
CONSTANTS
    s1 = s1
    s2 = s2
    tA = tA
    Sessions = {s1}
    TraderOf <- OneTrader
    NoSession = NoSession
    Second = 5
    Interval = 2
    LatencyCheckInterval = 3
    HealthyWindow = 5
    AssignmentDedupWindow = 0
    AssignmentEpoch = 0
    AssignmentMaxRetries = 1
    RetryInitial = 1
    RetryMaxDelay = 2
    RetryMult = 2
    DeadLetterMaxSize = 2
    MaxTime = 11
INVARIANT AssignedOncePerEpoch
CHECK_DEADLOCK FALSE
