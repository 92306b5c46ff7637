SPECIFICATION FairSpec
CONSTANTS
    MaxMessages = 2
    MaxBody = 2
    MaxBuffer = 4
INVARIANTS
    ReadsAsSent
PROPERTIES
    EveryMessageRead
CHECK_DEADLOCK FALSE
