SPECIFICATION FairSpec
CONSTANTS
  Byte <- Bits
  Bodies <- SomeBodies
  PrefixLen = 2
  Prefix <- BigEndian
  MaxPackets = 2
  MaxRead = 4
PROPERTIES
  ReceiveReturns
CHECK_DEADLOCK FALSE
