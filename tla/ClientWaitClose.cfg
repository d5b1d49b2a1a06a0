SPECIFICATION FairSpec
CONSTANTS
  a1 = a1
  a2 = a2
  Apps <- OneApp
  Senders <- OneApp
  AppOps = {"waitclose"}
  HandlerOps = {}
  SrvOps = {"hello", "leave"}
  MaxCalls = 1
  MaxUser = 0
  IrqCap = 8
  PartialSend = FALSE
  PacketSize = 2
  WaitFirst = FALSE
PROPERTIES
  CloseReturns
CHECK_DEADLOCK FALSE
