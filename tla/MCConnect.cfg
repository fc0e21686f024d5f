SPECIFICATION FairSpec
CONSTANTS
  r1 = r1
  r2 = r2
  lan = lan
  wan = wan
  loop = loop
  host = host
  n1 = n1
  nil = nil
  Hosts = {lan, wan, loop, host}
  class <- Class
  MaxCandidates = 3
  MaxPrivateCandidates = 1
  Rendezvous = {r1, r2}
  Inviting = {r1}
  offered <- Offered
  observed <- Observed
  HasPunch = FALSE
  Inbound = {n1}
CHECK_DEADLOCK FALSE
INVARIANTS
  DialledKeyIntact
  ExpectationHolds
PROPERTIES
  FailureIsTrue
  RaceReleases
