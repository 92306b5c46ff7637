SPECIFICATION FairSpec
CONSTANTS
    MaxUnanswered = 3
    BufferCap = 2
INVARIANTS
    MiracastTypeOK
    AgreedBeforeReady
PROPERTIES
    EndsForCause
    StopEndsMiracast
    VanishedSinkEndsCast
    SessionEndsWithTask
    GroupReleased
CHECK_DEADLOCK FALSE
