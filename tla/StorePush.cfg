SPECIFICATION Spec
CONSTANTS
  Servers = {a, b}
  NoPort = NoPort
  Keys = {k}
  MaxPosts = 1
  MaxEvents = 1
SYMMETRY PortSymmetry
INVARIANTS
  UpdatesArePushed
CHECK_DEADLOCK FALSE
