CONSTANTS
  Buf = 2
  Kernel = 1
  PipeSize = 2
  UseSplice = TRUE
  Limits = {3}
  MaxSent <- MCMaxSent
  MaxPairs = 1
SPECIFICATION Spec
PROPERTY ByteStreams
