SPECIFICATION Spec
CONSTANTS
  Nodes = {n1, n2, n3}
  Values = {v1, v2}
  Null = null
  NoValue = novalue
SYMMETRY Symmetry
INVARIANTS
  TypeOK
  ListIsChain
  NothingDangles
PROPERTIES
  ImplementsList
CHECK_DEADLOCK FALSE
