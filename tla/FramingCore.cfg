SPECIFICATION Spec
CONSTANTS
  Byte <- Bits
  Bodies <- SomeBodies
  PrefixLen = 2
  Prefix <- BigEndian
  MaxPackets = 3
  MaxRead = 4
INVARIANTS
  TypeOK
  PrefixReceived
  AllReceived
CHECK_DEADLOCK FALSE
