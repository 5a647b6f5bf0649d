CONSTANTS
  Producers = {p1, p2}
  Consumers = {c1}
  Size = 2
  Loops = 1
  MaxWeak = 0
SPECIFICATION FairSpec
PROPERTIES EnqueueReturns
CHECK_DEADLOCK FALSE
