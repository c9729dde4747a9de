CONSTANTS
  Buf = 2
  Kernel = 1
  PipeSize = 2
  UseSplice = FALSE
  Limits = {3}
  MaxSent <- MCMaxSent
  MaxPairs = 2
SPECIFICATION FairSpec
INVARIANT Budget
PROPERTIES ByteStreams  Resumes
