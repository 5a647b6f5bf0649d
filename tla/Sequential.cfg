CONSTANTS
  capacity_ = 5
  intervalMS_ = 3
  tokensPerPeriod_ = 3
  Wrap = 8
  TimeWrap = 32
  Epoch = 4
  MaxTime = 12
  Latest = 10
  MaxSets = 2
  Tickets = {1, 2, 4}
  MaxJobs = 4
  RandomValues = 32
  MaxLoops = 2
  Max = 3
  MaxPushes = 5
  MaxPops = 5
  MaxKills = 2
SPECIFICATION RunSpec
INVARIANTS RateLimited RefusedOnlyWithinPeriod DrawIsFair PersistsUnlessKilled
CHECK_DEADLOCK FALSE
