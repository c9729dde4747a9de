CONSTANTS
  f1 = f1  f2 = f2  f3 = f3  f4 = f4
  n1 = n1  n2 = n2  a1 = a1  a2 = a2
  Fd = {f1, f2, f3, f4}
  Node = {n1}
  Addr = {a1}
  AddrOf <- MCAddrOf
  None = None
  MaxGlobal = 2
  MaxPerBackend = 1
  MaxRetry = 1
  Tls = FALSE
  HttpErrors = FALSE
  PoolEnabled = FALSE
  PoolMin = 0
  PoolMax = 1
SPECIFICATION Spec
SYMMETRY Symmetry
INVARIANT BackendCap
