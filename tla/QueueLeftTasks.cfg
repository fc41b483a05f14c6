SPECIFICATION FairSpec
CONSTANTS
  p1 = p1
  p2 = p2
  c1 = c1
  w = w
  x = x
  y = y
  Threads <- MCThreads
  Pushers <- MCPushers
  Poppers <- MCPoppers
  Tasks = {x, y}
  High = 4
PROPERTY
  ClosedQueueKeepsItsTasks
