SPECIFICATION FairSpec
CONSTANTS
  Connections = {c1, c2}
  Names = {n1}
  NoConn = NoConn
  NoName = NoName
  Sendable = {"SessionRequest", "SdpOffer", "SessionEnd"}
  InboxCap = 1
  MaxEvents = 1
  MaxClicks = 1
PROPERTIES
  DeadSenderForgotten
  StalePromptLeaves
