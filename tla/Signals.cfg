CONSTANTS
  countlimit = 6
  MaxSpurious = 2
  Rounds = 5
  Clients = {c1, c2, c3}
  MaxFaults = 3
SPECIFICATION RunSpec
INVARIANTS WaitsForWork StuckIsMissed ReplyIsAnswer
PROPERTIES Termination
CHECK_DEADLOCK FALSE
