SPECIFICATION FairSpec
CONSTANTS
    Conns = {c1, c2}
    None = None
    MaxAttempts = 2
    Failures = {"close 1000"}
    MaxClients = 2
    SavedCounts <- MCSavedCounts

INVARIANTS
    CopiesConsistent
    ClosedMeansFinished
    VerdictEarned
PROPERTIES
    EverythingEnds
\* the process ends
CHECK_DEADLOCK FALSE
