CONSTANTS
    s1 = s1
    s2 = s2
    Absent = Absent
    Sessions = {s1, s2}
    TraderID <- MCTraderID
    TraderDBID <- MCTraderDBID
    Exchanges = {1, 2}
    TaskTypes = {"", "monitor"}
    HealthyWindow = 0
    Unit = 4
    HardLimit = 3
    SoftLimit = 1
    SoftPenaltyMs = 600
    Catalog = {1, 2}
    Registrations <- MCRegistrations
    Heartbeats <- MCHeartbeats
    TestResults <- MCTestResults
    TradeExchanges = {{1, 2}}
    MonitoredExchanges = {{1}}
    InitialRows <- MCInitialRows
    UsageRows <- MCUsageRows
    MaxTime = 2
    MaxEvents = 4
    MaxUsage = 1
    MaxFailures = 1
    MaxCycles = 1

SPECIFICATION Spec
INVARIANTS
    LimitRespected
    IdleHasReason
    NoBetterLeftOut
CHECK_DEADLOCK FALSE
