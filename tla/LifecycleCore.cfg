SPECIFICATION FairSpec
CONSTANTS
  a1 = a1
  a2 = a2
  w1 = w1
  w2 = w2
  w3 = w3
  h = h
  g = g
  NoAddr = NoAddr
  NaN = NaN
  None = None
  Apps <- TwoApps
  Workers <- TwoWorkers
  Ops = {"initialize", "open", "run", "runAsync", "processAsync", "stop", "interrupt", "join", "joinfor"}
  Args <- SomeArgs
  Configs <- SomeConfigs
  MaxCalls = 3
  AsyncOnce = TRUE
INVARIANTS
  TypeOK
  OpenedOnce
  LoopIsReady
  JoinWaits
PROPERTIES
  AddressAsDocumented
  StopEnds
  JoinReturns
CHECK_DEADLOCK FALSE
