SPECIFICATION FairSpec
CONSTANTS
    MaxCasts = 2
    FrameCap = 1
    CmdCap = 1
    Encoded <- AnyThenDelta
INVARIANTS
    CodecFirst
    PacketsWhole
PROPERTIES
    CastEndsForCause
    StopEndsAirPlay
    ReleasedAtEnd
CHECK_DEADLOCK FALSE
