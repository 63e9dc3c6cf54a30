SPECIFICATION Spec
CONSTANTS
  k1 = k1
  k2 = k2
  Calls <- TwoCalls
  NoCall = NoCall
  MaxFaults = 1
SYMMETRY CallSymmetry
INVARIANT EnsuredClient
