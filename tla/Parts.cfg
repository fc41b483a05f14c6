SPECIFICATION PartsSpec
CONSTANTS
  w1 = w1
  w2 = w2
  FewRequests = 2
  Workers = {w1, w2}
  Upper <- TwoBounds
  Latencies = {0, 7000}
  MaxRequests = 3
  MaxWindows = 1
  Base = 2
  Width = 2
  MaxFrame = 3
  MaxBuffer = 8
  Chunk = 3
  MaxStream = 8
  Talks <- ShortTalks
CHECK_DEADLOCK FALSE
INVARIANTS
  P99IsBracketed
  WindowsAreDisjoint
  TypeOK
  DeliveredAsSent
PROPERTY
  IsOrderedLog
