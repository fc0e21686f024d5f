SPECIFICATION PunchSpec
CONSTANTS
  p1 = p1
  p2 = p2
  p3 = p3
  a1 = a1
  a2 = a2
  c1 = c1
  c2 = c2
  c3 = c3
  nil = nil
  Punches = {p1, p2, p3}
  Addrs = {a1, a2}
  Conns = {c1, c2, c3}
  target <- Targets
  source <- Sources
  HasFallback = TRUE
CHECK_DEADLOCK FALSE
INVARIANTS
  PunchTypeOK
  OneHolder
  ResultIsFromTarget
  RouteFindsLive
