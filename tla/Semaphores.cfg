CONSTANTS
  Procs = {p1, p2, p3, p4}
  Script <- ThrottleScript
  InitVal = 2
  MaxSpurious = 2
  Callers = {p1, p2, p3}
  Calls = 5
SPECIFICATION RunSpec
INVARIANTS NoLostWakeup BarrierHolds CountersExact NeverThree Room1Exact
PROPERTIES ImplementsSemaphore EntersUnlessLost Termination
CHECK_DEADLOCK FALSE
