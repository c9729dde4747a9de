CONSTANTS
  w1 = w1  w2 = w2
  Worker = {w1, w2}
  Task = {"metrics", "config", "short"}
  None = None
  MaxQueue = 2
  MaxPosting = 1
  Config = {1, 2}
  MaxClock = 2
SPECIFICATION FairSpec
INVARIANTS NoSleepOnWork OneCheck
PROPERTIES EditApplied 
CHECK_DEADLOCK FALSE
