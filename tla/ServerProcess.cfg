SPECIFICATION ProcSpec
CONSTANTS
  c1 = c1
  c2 = c2
  k1 = k1
  Conns <- TwoConns
  NoConn = NoConn
  Callbacks <- OneCallback
  Users = {}
  AcceptErrors = FALSE
INVARIANTS OrderlyExit
PROPERTIES ProcessEnds
