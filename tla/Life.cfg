SPECIFICATION Spec
CONSTANTS
  MaxConns = 3
  Socks = {5}
  NReactors = 2
  MayIdle = {1}
  MayClose = {1}
  MayStop = TRUE
CHECK_DEADLOCK FALSE
INVARIANTS
  EventReachesItsConnection
  RegistryFollows
  HandlerOutlivesOnConnect
PROPERTIES
  DeadClientIsReleased
  StopLeavesNothing
