SPECIFICATION Spec
CONSTANTS
  Callers = {s1, s2}
  Scopes = {k1}
  ScopeOf <- MCScopeOf
  Workers = {w1, w2}
  NoWorker = NoWorker
  MaxQueue = 1
CHECK_DEADLOCK FALSE
PROPERTY
  RecycledWorkerIsIdle
