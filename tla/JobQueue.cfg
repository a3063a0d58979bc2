SPECIFICATION FairSpec
CONSTANTS
  Producers = {p1, p2}
  Consumers = {c1, c2}
  Nodes = {n1, n2, n3}
  Jobs = {j1, j2}
  Null = null
  NoJob = nojob
  Broadcast = FALSE
  MaxJobs = 4
INVARIANTS
  TypeOK
  ListIsChain
  SomebodyComes
PROPERTIES
  ImplementsFifo
  QueueDrains
CHECK_DEADLOCK FALSE
