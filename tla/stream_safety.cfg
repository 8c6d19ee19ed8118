SPECIFICATION Spec
CONSTANTS
  Conns = {c1, c2}
  NoConn = NoConn
  HistorySize = 2
  QueueSize = 2
  MaxClients = 1
  WireSize = 1
  LineCap = 1
  MaxSeq = 4
  MaxBoot = 2
  MaxFaults = 1
SYMMETRY ConnSymmetry
INVARIANTS
  TypeOK
  InOrder
  NoSilentGap
  ClientsAreServed
PROPERTIES
  ImplementsFeed
CHECK_DEADLOCK FALSE
