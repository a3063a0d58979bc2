SPECIFICATION Spec
CONSTANTS
  Servers = {s1, s2, s3}
  NoPort = none
  MaxEvents = 3
SYMMETRY PortSymmetry
INVARIANTS
  TypeOK
  LeaderIsFirst
  FirstLeads
  GroupIsKnown
CHECK_DEADLOCK FALSE
