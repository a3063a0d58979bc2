SPECIFICATION FairSpec
CONSTANTS
  ClientIds <- TwoIds
  Strangers = {}
  Fds = {f1, f2}
  SayKinds = {"DATA"}
  Conduct = {"stall"}
  MaxConns = 2
  MaxSays = 1
PROPERTIES
  BroadcastReaches
CHECK_DEADLOCK FALSE
