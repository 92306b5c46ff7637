SPECIFICATION FairAppSpec
CONSTANTS
  Sinks = {lan, direct, infra}
  Direct = {direct}
  Nameless = {infra}
  NoSink = NoSink
  StatusCap = 2
  MaxCasts = 2
  DBusFails = TRUE
INVARIANTS
  AppTypeOK
  CastUnderControl
  PauseEndsWithCast
  SelectionIsListed
PROPERTY EndIsNoticed
