SPECIFICATION Spec
CONSTANTS
  c1 = c1
  c2 = c2
  a1 = a1
  a2 = a2
  NoConn = NoConn
  Conns <- OneConn
  Apps <- OneApp
  AppOps = {"send", "close"}
  HandlerOps = {"reply", "close"}
  PeerOps = {"settype", "accept", "user", "closeconn", "leave"}
  MaxCalls = 1
  MaxUser = 1
  IrqCap = 8
  SendMayBlock = FALSE
  LiveSelector = TRUE
  JoinTimesOut = FALSE
INVARIANTS
  TypeOK
  InOrder
  ReasonBeforeClose
  WatchedIsLive
  ForgottenWasNotified
PROPERTIES
  ImplementsOutbox
CHECK_DEADLOCK FALSE
