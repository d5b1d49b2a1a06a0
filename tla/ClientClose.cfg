SPECIFICATION Spec
CONSTANTS
  a1 = a1
  a2 = a2
  Apps <- OneApp
  Senders <- OneApp
  AppOps = {"send", "close", "waitconn"}
  HandlerOps = {"reply", "close", "raise"}
  SrvOps = {"hello", "handshake", "user", "closeconn", "leave", "badhello", "badhandshake"}
  MaxCalls = 2
  MaxUser = 1
  IrqCap = 8
  PartialSend = TRUE
  PacketSize = 2
  WaitFirst = TRUE
INVARIANTS
  TypeOK
  ClosedWasNotified
  SentInOrder
  RestIsWatched
PROPERTIES
  ImplementsUpstream
CHECK_DEADLOCK FALSE
