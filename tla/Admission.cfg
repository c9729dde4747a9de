CONSTANTS
  a1 = a1  a2 = a2
  Ip = {a1, a2}
  Allowed = {a1}
  MaxGlobal = 2
  RateMax = 3
  Window = 1
  QueueMax = 2
  MaxWait = 2
  MaxTime = 3
  MaxArrivals = 5
SPECIFICATION Spec
INVARIANTS SlidingWindow QueueIsFifo 
 
