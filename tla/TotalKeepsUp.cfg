SPECIFICATION Spec
CONSTANTS
    Conns = {c1, c2}
    None = None
    MaxAttempts = 1
    Failures = {"close 1000", "i/o timeout"}
    MaxClients = 2
    SavedCounts = {}

INVARIANTS
    TotalKeepsUp
CHECK_DEADLOCK FALSE
