SPECIFICATION FairSpec
CONSTANTS
  Callers = {h1, h2, h3}
  NoOne = NoOne
  MaxAttempts = 2
  MaxFaults = 2
INVARIANTS
  TypeOK
  CommandOwnsConnection
  ConnIsOpen
  DeliveredIsShown
PROPERTIES
  CallsReturn
CHECK_DEADLOCK FALSE
