SPECIFICATION Spec
CONSTANTS
  Initiator = A
  Responder = B
  repl = repl
  loop = loop
  peerRepl = peerRepl
  Senders <- TwoAndOne
  rotationInterval = 2
  windowSize = 3
  EpochMod = 6
  QueueCap = 1
  PipeCap = 2
  MaxSeq <- ThreeAndSeven
  MaxFaults = 1
  None = None
SYMMETRY MCSymmetry
CHECK_DEADLOCK FALSE
INVARIANTS
  AdmittedMeansSameKey
  DeliveredAtMostOnce
  NextFrameAccepted
