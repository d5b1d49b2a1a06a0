SPECIFICATION FairSpec
CONSTANTS
  ServerIds <- TwoIds
  ClientMaps <- TwoMaps
  Targets = {"classic", "ping", "custom"}
  TypeSets <- WithPing
  OnMissing = {"closeconnection", "ignore"}
  MaxCalls <- OneAndTwo
INVARIANTS
  TypeOK
  ReasonArrives
PROPERTIES
  ImplementsLink
  HandshakeEnds
  PingAnswered
  EndReaches
  MarkedEnds
CHECK_DEADLOCK FALSE
