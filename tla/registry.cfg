SPECIFICATION BoundedSpec
CONSTANTS
  Containers = {n1, n2}
  WithPassword = {n1}
  Titles = {a}
  OwnName = OwnName
  NoRoom = NoRoom
  MaxConnects = 2
  MaxDisconnects = 1
  MaxChanges = 3
  MaxFaults = 1
  Contested = {n1}
INVARIANTS
  TypeOK
  NoStrayReceiver
  RoomHasName
PROPERTIES
  CallsEnd
  StartIsServed
  StopIsSeen
CHECK_DEADLOCK FALSE
