SPECIFICATION FairCastSpec
CONSTANTS
  Connections = {c1}
  Names = {n1}
  NoConn = NoConn
  NoName = NoName
  Sendable = {"SessionRequest", "SdpOffer", "IceCandidate", "SessionEnd", "Other"}
  InboxCap = 1
  MaxEvents = 1
  MaxClicks = 1
  ReplyCap = 1
  UpCap = 1
  Lossy = TRUE
PROPERTIES
  StopEndsCast
  EndedCastForgotten
  LostSessionNoticed
