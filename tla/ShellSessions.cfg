SPECIFICATION Spec
CONSTANTS
  o1 = o1
  o2 = o2
  o3 = o3
  s1 = s1
  s2 = s2
  Ops <- ThreeOps
  Sessions <- TwoSessions
  Nobody = Nobody
  Chunks = 1
  Handlers <- OneTidies
  OutCap = 1
INVARIANTS TableIsOpen HandedToOne
PROPERTIES EveryOpReturns
