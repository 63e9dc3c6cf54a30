SPECIFICATION Spec
CONSTANTS
  c1 = c1
  c2 = c2
  k1 = k1
  u1 = u1
  Conns <- TwoConns
  NoConn = NoConn
  Callbacks <- OneCallback
  Users <- OneUser
  AcceptErrors = TRUE
INVARIANTS CountBounded DrainedOnReturn LeftServerIsReady
PROPERTIES ShutdownCompletes ShutdownSignalled ClientAnswered ServesItsClients
