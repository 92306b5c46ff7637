SPECIFICATION CastSpec
CONSTANTS
  Connections = {c1, c2}
  Names = {n1, n2}
  NoConn = NoConn
  NoName = NoName
  Sendable = {"SessionRequest", "SdpOffer", "IceCandidate", "SessionEnd", "Other"}
  InboxCap = 1
  MaxEvents = 1
  MaxClicks = 1
  ReplyCap = 1
  UpCap = 1
  Lossy = TRUE
INVARIANTS
  CastNeedsAllow
  CasterOwnsSession
SYMMETRY Symmetry
