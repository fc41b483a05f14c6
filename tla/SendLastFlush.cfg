SPECIFICATION Spec
CONSTANTS
  a = a
  b = b
  s1 = s1
  s2 = s2
  None = None
  Conns = {a}
  Senders = {s1}
  FrameSizes = {1, 2}
  MaxQueued = 2
  SockBuf = 1
  MayPause = {}
  MayClose = {}
  MayStop = TRUE
  MaxUnits = 2
CHECK_DEADLOCK FALSE
PROPERTIES
  LastFlushIsWritten
