SPECIFICATION FairSpec
CONSTANTS
  LineCap = 1
  MaxLines = 3
  MaxStreams = 1
  MaxFaults = 0
PROPERTIES
  CancelEnds
CHECK_DEADLOCK FALSE
