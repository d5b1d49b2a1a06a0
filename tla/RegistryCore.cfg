SPECIFICATION Spec
CONSTANTS
  n1 = n1
  n2 = n2
  n3 = n3
  o1 = o1
  o2 = o2
  o3 = o3
  Names <- ThreeNames
  Objs <- ThreeObjs
  FirstId = 2
  MaxId = 3
  FixedIds = {1}
  MissingPacket = {"closeconnection", "ignore"}
  NamesTwice = TRUE
  Clashes = FALSE
SYMMETRY Symmetry
INVARIANTS
  TypeOK
  OneToOne
  NamedHasObject
PROPERTIES
  SyncedAgree
CHECK_DEADLOCK FALSE
