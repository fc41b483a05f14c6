SPECIFICATION Spec
CONSTANTS
  x = x
  y = y
  w1 = w1
  w2 = w2
  q1 = q1
  q2 = q2
  None = None
  Businesses = {x, y}
  Queries <- EachOne
  Workers = {w1}
  DbWorkers = {q1}
  WorkHigh = 1
  DbHigh = 1
  DbConns = 1
  MayStop = FALSE
CHECK_DEADLOCK FALSE
PROPERTY
  ResumptionsAreQueued
