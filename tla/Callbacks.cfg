CONSTANTS
  Workers = {w1, w2, w3}
  Ops = 4
  MaxSpurious = 1
  Posters = {p1, p2}
  Subscribers = {s1, s2}
  Posts = 2
  MaxSleeps = 1
SPECIFICATION RunSpec
INVARIANTS StartedInOrder NothingRunsAfter CalledBackOnce
PROPERTIES CallbacksRun DestructorReturns
CHECK_DEADLOCK FALSE
