SPECIFICATION FairSpec
CONSTANTS
  LineCap = 1
  MaxLines = 3
  MaxStreams = 2
  MaxFaults = 2
INVARIANTS
  TypeOK
  TailedInOrder
PROPERTIES
  CancelEndsOrSticks
  Retries
  ImplementsFeed
CHECK_DEADLOCK FALSE
