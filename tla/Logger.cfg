CONSTANTS
  p1 = p1  p2 = p2  w1 = w1  w2 = w2
  Producer = {p1, p2}
  Worker = {w1, w2}
  Main = Main
  MaxQueue = 2
  MaxLines = 3
SPECIFICATION FairSpec
INVARIANTS NoStrandedLine OneDrainWaiting StopFlushes
PROPERTIES StopReturns
CHECK_DEADLOCK FALSE
