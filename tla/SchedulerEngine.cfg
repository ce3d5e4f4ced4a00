SPECIFICATION FairSpec
CONSTANTS
    s1 = s1
    s2 = s2
    tA = tA
    Sessions = {s1, s2}
    TraderOf <- OneTrader
    NoSession = NoSession
    Second = 2
    Interval = 2
    LatencyCheckInterval = 3
    HealthyWindow = 2
    AssignmentDedupWindow = 0
    AssignmentEpoch = 0
    AssignmentMaxRetries = 1
    RetryInitial = 1
    RetryMaxDelay = 2
    RetryMult = 2
    DeadLetterMaxSize = 2
    MaxTime = 7
INVARIANTS
    TypeOK
    AssignedOncePerEpoch
    DeadLettersAreLatest
    OneOutcomePerCycle
PROPERTIES
    SkippedWasAssigned
    StopReturns
CHECK_DEADLOCK FALSE
