CONSTANTS
  n1 = n1  n2 = n2  n3 = n3  k1 = k1
  Node = {n1, n2, n3}
  Weight <- Weights
  Cap = 2
  Key = {k1}
  None = None
  Ttl = 1
  MaxRetry = 1
  Algorithms = {"round_robin", "least_connections"}
  CounterMod = 4
  MaxLoad = 2
  MaxTime = 1
SPECIFICATION Spec
 
PROPERTIES SkipsUnusable  PicksLeastLoaded
