SPECIFICATION Spec
CONSTANTS
    s1 = s1
    s2 = s2
    s3 = s3
    tA = tA
    Traders = {tA}
    Sessions = {s1, s2, s3}
    CN <- OneTrader
    NoSession = NoSession
    HeartbeatTimeout = 2
    MaxAttempts = 2
    MaxTime = 3
    MaxFaults = 1
    MaxCrashes = 1
SYMMETRY Symmetry
INVARIANTS
    TypeOK
    SingleActiveSession
    CleanDisconnectEndsRow
    SnapshotOnlyWhileServed
    SnapshotNotAheadOfRow
PROPERTIES
    EndedRowIsFinal
    TakenOverStaysSilent
CHECK_DEADLOCK FALSE
