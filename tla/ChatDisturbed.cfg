SPECIFICATION FairSpec
CONSTANTS
  ClientIds <- TwoIds
  Strangers = {3}
  Fds = {f1}
  SayKinds = {"DATA", "CONN"}
  Conduct = {"quit", "vanish", "partial", "reset", "stall"}
  MaxConns = 2
  MaxSays = 1
INVARIANTS
  TypeOK
  SpeaksWhileConnected

  
CHECK_DEADLOCK FALSE
