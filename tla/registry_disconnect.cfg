SPECIFICATION Spec
CONSTANTS
  Containers = {n1}
  WithPassword = {n1}
  Titles = {}
  OwnName = OwnName
  NoRoom = NoRoom
  MaxConnects = 1
  MaxDisconnects = 1
  MaxChanges = 0
  MaxFaults = 0
  Contested = {}
INVARIANTS
  DisconnectStops
CHECK_DEADLOCK FALSE
