SPECIFICATION FairSpec
CONSTANTS
    MaxReceived = 3
    MaxDispatches = 2
INVARIANTS
    TypeOK
    NoConcurrentWrite
    SeqUsedOnce
    NoSeqSkipped
    OneOvertaken
    AckFollowsSeq
    UnnumberedIsLast
PROPERTIES
    SendReturns
CHECK_DEADLOCK FALSE
