SPECIFICATION FairSpec
CONSTANTS
  Requests = {r1}
  Capacity = 1
  MaxEvents = 3
  MaxOutbound = 1
CHECK_DEADLOCK FALSE
PROPERTY ShutdownReturns
