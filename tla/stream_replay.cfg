SPECIFICATION ReplaySpec
CONSTANTS
  Conns = {c1, c2}
  NoConn = NoConn
  HistorySize = 3
  QueueSize = 3
  MaxClients = 2
  WireSize = 1
  LineCap = 1
  MaxSeq = 3
  MaxBoot = 1
  MaxFaults = 1
INVARIANTS
  MissedEventsReplayed
CHECK_DEADLOCK FALSE
