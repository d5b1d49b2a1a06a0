SPECIFICATION FairSpec
CONSTANTS
  c1 = c1
  c2 = c2
  a1 = a1
  a2 = a2
  NoConn = NoConn
  Conns <- OneConn
  Apps <- OneApp
  AppOps = {"send", "close"}
  HandlerOps = {"reply", "close"}
  PeerOps = {}
  MaxCalls = 1
  MaxUser = 0
  IrqCap = 8
  SendMayBlock = FALSE
  LiveSelector = TRUE
  JoinTimesOut = FALSE
PROPERTIES
  QueuedIsSent
CHECK_DEADLOCK FALSE
