SPECIFICATION Spec
CONSTANTS
  m1 = m1
  m2 = m2
  m3 = m3
  r1 = r1
  r2 = r2
  w1 = w1
  None = None
  Msgs = {m1, m2, m3}
  Fast = {m3}
  Reactors = {r1, r2}
  Workers = {w1}
  CreditLimit = 1
  High = 1
  MayThrow = {m2}
  MayStop = TRUE
CHECK_DEADLOCK FALSE
INVARIANTS
  NothingIsLost
  DrainIsTold
PROPERTY
  StopEnds
