SPECIFICATION FairSpec
CONSTANTS
  Conns = {c1, c2}
  NoConn = NoConn
  HistorySize = 2
  QueueSize = 2
  MaxClients = 1
  WireSize = 1
  LineCap = 1
  MaxSeq = 3
  MaxBoot = 1
  MaxFaults = 1
PROPERTIES
  KeepsUp
  DeadClientsLeave
  CancelStops
CHECK_DEADLOCK FALSE
