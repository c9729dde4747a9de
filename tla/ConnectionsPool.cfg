CONSTANTS
  f1 = f1  f2 = f2  f3 = f3  f4 = f4
  n1 = n1  n2 = n2  a1 = a1  a2 = a2
  Fd = {f1, f2, f3}
  Node = {n1, n2}
  Addr = {a1}
  AddrOf <- MCSameAddr
  None = None
  MaxGlobal = 1
  MaxPerBackend = 1
  MaxRetry = 1
  Tls = TRUE
  HttpErrors = TRUE
  PoolEnabled = TRUE
  PoolMin = 0
  PoolMax = 1
SPECIFICATION Spec
SYMMETRY Symmetry
INVARIANT OneOwner
PROPERTIES DrainedBeforeRemoval
