SPECIFICATION FairSpec
CONSTANTS
    MaxUnanswered = 1
    BufferCap = 1
PROPERTY GroupGoesWithSession
CHECK_DEADLOCK FALSE
