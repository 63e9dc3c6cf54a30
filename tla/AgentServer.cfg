SPECIFICATION AgentSpec
CONSTANTS
  c1 = c1
  NoConn = NoConn
  Conns <- OneConn
  OutCap = 1
  Calls = {"stop", "broadcast"}
  AcceptErrors = TRUE
INVARIANTS LeavesNothing
PROPERTIES StopReturns BroadcastEndsOnceStopped ShutdownRequestEnds
