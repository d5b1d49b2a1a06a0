SPECIFICATION FairSpec
CONSTANTS
  a1 = a1
  a2 = a2
  Apps <- TwoApps
  Senders <- OneApp
  AppOps = {"send", "close", "stop", "waitconn", "waitclose", "timeout"}
  HandlerOps = {}
  SrvOps = {"hello", "handshake", "closeconn", "leave"}
  MaxCalls = 3
  MaxUser = 0
  IrqCap = 8
  PartialSend = FALSE
  PacketSize = 2
  WaitFirst = TRUE
INVARIANTS
  OneWriter
  AcceptBeforeUser
PROPERTIES
  EofIsNoticed
  ConnectedReturns
  StopEnds
CHECK_DEADLOCK FALSE
