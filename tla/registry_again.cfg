SPECIFICATION Spec
CONSTANTS
  Containers = {n1}
  WithPassword = {n1}
  Titles = {}
  OwnName = OwnName
  NoRoom = NoRoom
  MaxConnects = 2
  MaxDisconnects = 0
  MaxChanges = 0
  MaxFaults = 0
  Contested = {}
INVARIANTS
  ConnectStartsFresh
CHECK_DEADLOCK FALSE
