SPECIFICATION FairSpec
CONSTANTS
  Addresses = 2
  Lines = {"hi"}
  Conduct = {"goodbye", "close", "part", "reset"}
  MaxTyped = 3
  MaxSaid = 3
INVARIANTS
  TypeOK
  SpeaksInOrder
  CrashHasCause
  TeardownIsLast
PROPERTIES
  StopsTogether
CHECK_DEADLOCK FALSE
