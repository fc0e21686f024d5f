SPECIFICATION FairSpec
CONSTANTS
  c1 = c1
  c2 = c2
  alice = alice
  bob = bob
  k1 = k1
  k2 = k2
  nil = nil
  Conns = {c1, c2}
  Nodes = {alice, bob}
  Keys = {k1, k2}
  Setups <- SomeSetups
  Breakable = {c1, c2}
  Probing <- SomeProbing
CHECK_DEADLOCK FALSE
INVARIANTS
  Agreement
PROPERTIES
  HalfOpenEnds
  SettlesOnSmallest
