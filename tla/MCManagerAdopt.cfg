SPECIFICATION FairSpec
CONSTANTS
  c1 = c1
  c2 = c2
  c3 = c3
  p1 = p1
  p2 = p2
  n1 = n1
  n2 = n2
  nil = nil
  Conns = {c1, c2}
  Fingerprints = {p1}
  Names = {n1}
  fp <- OnePeer
  name <- OneName
  SessionID <- Descending
  Adopted = {c2}
  keepaliveMisses = 1
  Darkable = {c1}
CHECK_DEADLOCK FALSE
PROPERTY
  AdoptReturns
