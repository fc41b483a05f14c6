SPECIFICATION FairSpec
CONSTANTS
  a = a
  b = b
  d1 = d1
  w1 = w1
  q1 = q1
  None = None
  Conns = {a, b}
  Script <- MixedScript
  Window = 1
  CreditLimit = 1
  DivideHigh = 1
  WorkHigh = 4
  DbHigh = 2
  MayClose = {a, b}
  DivideMayThrow = TRUE
  DivideWorkers = {d1}
  WorkWorkers = {w1}
  DbWorkers = {q1}
CHECK_DEADLOCK FALSE
INVARIANTS
  SlotsConserved
  CreditsConserved
  WindowSound
  PausedIsRevisited
  BucketsAreAnnounced
PROPERTY
  EveryMessageServed
