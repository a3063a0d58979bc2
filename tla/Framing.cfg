SPECIFICATION FairSpec
CONSTANTS
  MaxLen = 3
  DiscardLen = 2
  Typist = 258
  Oversize = {6}
  Faults = {"close", "reset"}
  LineLens = {0, 3}
  Pieces = {5}
  MaxLines = 2
  MaxFailed = 1
INVARIANTS
  TypeOK
  Aligned
  
PROPERTIES
  ImplementsChannel
  EverythingArrives
CHECK_DEADLOCK FALSE
