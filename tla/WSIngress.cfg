SPECIFICATION Spec
CONSTANTS
    RequestIds = {r1, r2}
    NoId = NoId
    Second = 2
    MaxMessagesPerSec = 2
    DedupWindow = 1
    UnknownWindow = 2
    MaxUnknownActions = 2
    MaxSeq = 2
    MaxFrames = 5
    MaxTime = 4
SYMMETRY Symmetry
INVARIANTS
    TypeOK
    HandledInOrder
    RequestsApart
    RateBounded
    GapHasCause
CHECK_DEADLOCK FALSE
