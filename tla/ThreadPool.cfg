CONSTANTS
  Workers = {w1, w2}
  Clients = {c1, c2, c3}
  m_max_que_size = 1
  MaxSpurious = 1
SPECIFICATION FairSpec
INVARIANTS JobsConserved
PROPERTIES JobsRun CallsReturn
CHECK_DEADLOCK FALSE
