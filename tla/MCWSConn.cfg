SPECIFICATION WSFairSpec
CONSTANTS
  Senders = {s1}
  pinger = pinger
  reader = reader
  closer = closer
  MaskSize = 2
  Sizes = {2}
  Buffers = {1}
  BufCap = 1
  MaxSends = 2
  None = None
CHECK_DEADLOCK FALSE
INVARIANTS
  StreamIntact
PROPERTIES
  CallsReturn
