SPECIFICATION Spec
CONSTANTS
  k1 = k1
  k2 = k2
  Callers <- TwoCallers
  Nobody = Nobody
  MaxCalls = 3
  MaxNotes = 1
PROPERTIES OwnResponse EveryOperationReturns
