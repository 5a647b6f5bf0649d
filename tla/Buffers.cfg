CONSTANTS
  p1 = p1
  p2 = p2
  c1 = c1
  c2 = c2
  Producers = {p1, p2}
  Consumers = {c1, c2}
  Loops = 3
  MaxSpurious = 1
  Programs <- CVPrograms
SPECIFICATION RunSpec
INVARIANTS NoLostWakeup AssertsNeedSignals
PROPERTIES ImplementsFifo Termination
CHECK_DEADLOCK FALSE
