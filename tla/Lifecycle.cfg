CONSTANTS
  n1 = n1  n2 = n2  a1 = a1
  Node = {n1, n2}
  Addr = {a1}
  AddrOf <- MCAddrOf
  Configs <- MCConfigs
  None = None
  CheckerOn = TRUE
  FailureThreshold = 2
  SuccessThreshold = 2
  MaxLoad = 1
  MaxCount = 2
SPECIFICATION FairSpec
INVARIANT ListsAgree
PROPERTIES DrainingKept  Recovers ShutdownCompletes DrainCompletes
CHECK_DEADLOCK FALSE
