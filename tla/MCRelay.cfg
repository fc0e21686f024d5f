SPECIFICATION Spec
CONSTANTS
  a1 = a1
  a2 = a2
  nil = nil
  Handlers = {h1, h2, h3}
  Codes = {c1}
  Circuits = {k1, k2}
  IPs = {a1}
  ip <- OneAddress
  MaxPendingCodes = 2
  MaxCircuits = 1
  MaxConnsPerIP = 2
  PublishesPerIPPerMin = 2
SYMMETRY MCSymmetry
CHECK_DEADLOCK FALSE
INVARIANTS
  SlotsAccounted
  PendingHasOwner
  OneConnPerSide
  ConnsAccounted
  AttachedIsReleased
PROPERTY
  OnlyOwnerDrops
