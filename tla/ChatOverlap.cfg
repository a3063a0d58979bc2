SPECIFICATION Spec
CONSTANTS
  ClientIds <- TwoIds
  Strangers = {}
  Fds = {f1, f2}
  SayKinds = {"DATA"}
  Conduct = {"quit", "vanish", "partial", "reset"}
  MaxConns = 2
  MaxSays = 0
SYMMETRY FdSymmetry
INVARIANTS
  SocketsAreLive
  SentInLogOrder
  TwiceOnlyAtTheSeam
  OnlyTheWindowIsMissed
PROPERTIES
  LastReadAdvances
CHECK_DEADLOCK FALSE
