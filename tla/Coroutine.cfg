SPECIFICATION MCSpec
CONSTANTS
  x = x
  y = y
  w1 = w1
  w2 = w2
  q1 = q1
  q2 = q2
  None = None
  Businesses = {x, y}
  Queries <- MoreOfOne
  Workers = {w1, w2}
  DbWorkers = {q1, q2}
  WorkHigh = 1
  DbHigh = 1
  DbConns = 1
  MayStop = TRUE
CHECK_DEADLOCK FALSE
INVARIANTS
  OneThreadUnlessUnguarded
  ResumedOnce
  SuspendedIsAnswered
  CountsAreExact
  SleeperHasReason
PROPERTIES
  BusinessEnds
  
