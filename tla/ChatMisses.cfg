SPECIFICATION Spec
CONSTANTS
  ClientIds <- TwoIds
  Strangers = {}
  Fds = {f1, f2}
  SayKinds = {"DATA"}
  Conduct = {"quit"}
  MaxConns = 2
  MaxSays = 1
INVARIANTS
  MissesNothing
CHECK_DEADLOCK FALSE
