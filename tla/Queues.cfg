CONSTANTS
  Producers = {p1, p2}
  Consumers = {c1, c2}
  Size = 2
  Nodes = {n1, n2, n3}
  BUCKETS = 2
  Loops = 2
  MaxWeak = 1
SPECIFICATION RunSpec
INVARIANTS MemorySafe
PROPERTIES ImplementContainers DequeueReturns
CHECK_DEADLOCK FALSE
