SPECIFICATION Spec
CONSTANTS
  Containers = {n1}
  WithPassword = {n1}
  Titles = {}
  OwnName = OwnName
  NoRoom = NoRoom
  MaxConnects = 1
  MaxDisconnects = 0
  MaxChanges = 1
  MaxFaults = 0
  Contested = {}
INVARIANTS
  TracksRunning
CHECK_DEADLOCK FALSE
