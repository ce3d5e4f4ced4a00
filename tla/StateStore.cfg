SPECIFICATION FairSpec
CONSTANTS
    None = None
    Partial = Partial
    MaxBackups = 1
    MaxSets = 1
    MaxStarts = 2
    MaxFaults = 1
    MaxTime = 1
INVARIANTS
    TypeOK
    CleanExitSaved
    RotationKeepsNewest
PROPERTIES
    FileMovesForward
    ShutdownEnds
CHECK_DEADLOCK FALSE
