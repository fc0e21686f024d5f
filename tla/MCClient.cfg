SPECIFICATION FairSpec
CONSTANTS
  w1 = w1
  w2 = w2
  r1 = r1
  nil = nil
  Supervisor = Supervisor
  Calls = {w1, w2}
  Codes = {r1}
  rid <- OneCode
  Claims = {w2}
  MaxConns = 2
  RungTimeout = 2
  NoRung = NoRung
  Answers = {"published", "paired", "error"}
CHECK_DEADLOCK FALSE
INVARIANTS
  TypeOK
  OutstandingIsAsked
  CodesLeadToCalls
PROPERTY
  SuperviseStops
