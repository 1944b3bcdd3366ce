SPECIFICATION FairSpec
CONSTANTS
  Requests = {r1}
  Capacity = 2
  MaxEvents = 4
  MaxOutbound = 1
INVARIANT TypeOK
PROPERTY ImplementsLossyStream
 
PROPERTY CrashNoticed
CHECK_DEADLOCK FALSE
