CONSTANTS
  s1 = s1  s2 = s2  s3 = s3
  Sock = {s1, s2, s3}
  MinIdle = 1
  MaxActive = 2
  MaxIdleTime = 1
  MaxTime = 5
SPECIFICATION Spec
SYMMETRY Sockets
INVARIANT OneHolder
PROPERTIES  EvictsOldest
