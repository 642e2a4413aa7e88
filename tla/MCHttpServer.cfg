CONSTANTS
  c1 = c1
  c2 = c2
  Connections = {c1, c2}
  ErrorHandlers = {"unavailable", "error"}
  MaxKeepAlive = 2
  Grace = 2
  SocketWait = 1
  WaitsForClients = FALSE
  MaxRequests = 2
SPECIFICATION FairSpec
INVARIANTS
    StopsAfterRoutes
    CloseFunctionCalled
PROPERTIES
    StopEndsKeepAlive
    StopTerminates
CHECK_DEADLOCK FALSE
