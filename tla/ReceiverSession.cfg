SPECIFICATION Spec
CONSTANTS
  Connections = {c1, c2}
  Names = {n1, n2}
  NoConn = NoConn
  NoName = NoName
  Sendable = {"SessionRequest", "OtherVersion", "NoH264", "SdpOffer", "IceCandidate", "Ping", "SessionEnd", "Other"}
  InboxCap = 1
  MaxEvents = 1
  MaxClicks = 2
INVARIANTS
  TypeOK
  OneAtATime
  ConsentBeforeSession
  OnlyOwnerOnScreen
  ConnectedPagesAreTrue
PROPERTIES
  PromptNotReplaced
  ImplementsConsentScreen
SYMMETRY Symmetry
