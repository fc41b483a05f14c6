SPECIFICATION Spec
CONSTANTS
  a = a
  b = b
  s1 = s1
  s2 = s2
  None = None
  Conns = {a}
  Senders = {s1}
  FrameSizes = {2}
  MaxQueued = 2
  SockBuf = 1
  MayPause = {a}
  MayClose = {a}
  MayStop = TRUE
  MaxUnits = 4
CHECK_DEADLOCK FALSE
INVARIANTS
  AccountIsExact
  QueuedIsRevisited
PROPERTIES
  IsOrderedStream
  AcceptedIsWritten
  StopEnds
