SPECIFICATION Spec
CONSTANTS
  MaxRecords = 3
  MaxQueue = 2
  Limit = 1
CHECK_DEADLOCK FALSE
PROPERTY
  StaysLoadable
