SPECIFICATION Spec
CONSTANTS
  c1 = c1
  c2 = c2
  c3 = c3
  Calls <- ThreeCalls
  None = None
  Torn = Torn
  Kind <- Kinds
  Prefix <- OnePrefix
  MaxSecond = 1
INVARIANTS SeesItsOwnShot ShotIsClean
PROPERTIES BalloonStays BalloonCloses
