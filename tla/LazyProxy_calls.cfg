SPECIFICATION Spec
CONSTANTS
  k1 = k1
  k2 = k2
  Calls <- TwoCalls
  NoCall = NoCall
  MaxFaults = 2
INVARIANTS ConnectedMeansClient LaunchedOncePerFault RetryElsewhere
PROPERTIES EveryCallReturns
