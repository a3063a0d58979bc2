SPECIFICATION Spec
CONSTANTS
  Servers = {a, b, c}
  NoPort = NoPort
  Keys = {k}
  MaxPosts = 2
  MaxEvents = 3
SYMMETRY PortSymmetry
INVARIANTS
  TypeOK
  
CHECK_DEADLOCK FALSE
