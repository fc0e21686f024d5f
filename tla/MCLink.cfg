SPECIFICATION Spec
CONSTANTS
  A = A
  B = B
  IOTimeout = 12
  keepaliveInterval = 8
  keepaliveMisses = 3
  MaxDelay = 1
  MaxSkew = 2
  MaxChats = 1
CHECK_DEADLOCK FALSE
INVARIANTS
  HealthyStays
  DarkEnds
