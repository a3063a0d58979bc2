SPECIFICATION Spec
CONSTANTS
  MaxClients = 6
  InitialBuckets = 1
  Threshold = 1
  IdLists <- Lists
  Ports <- SomePorts
  HashValues = {0, 1, 2, 3}
  MaxArgs = 2
INVARIANTS
  TypeOK
  LookupIsExact
  WalkIsComplete
  ServesLastList
  
CHECK_DEADLOCK FALSE
