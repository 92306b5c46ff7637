SPECIFICATION Spec
CONSTANTS
  Connections = {c1, c2}
  Names = {n1}
  NoConn = NoConn
  NoName = NoName
  Sendable = {"SessionRequest", "OtherVersion", "NoH264", "SdpOffer", "IceCandidate", "Ping", "SessionEnd", "Other"}
  InboxCap = 1
  MaxEvents = 1
  MaxClicks = 2
PROPERTY EventEndsOwnSession
