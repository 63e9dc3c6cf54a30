SPECIFICATION Spec
CONSTANTS
  c1 = c1
  c2 = c2
  A = A
  B = B
  Calls <- TwoCalls
  Apps <- TwoApps
  NoApp = NoApp
  Batches <- SomeBatches
  TextLen = 2
INVARIANTS InputHasTarget TargetIsNearestFocus NothingRunsUnvalidated 
