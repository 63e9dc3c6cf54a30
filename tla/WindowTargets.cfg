SPECIFICATION TargetsSpec
CONSTANTS
  Desktops <- AllDesktops
  Displays <- Screen
  Queries <- Anything
  Titles <- Sought
  NoName = ""
  Within <- Substrings
  Pixels <- Corner
  NewSizes <- Large
  Spots <- Places
  Nobody = Nobody
  MaxCalls = 2
  MaxUser = 1
INVARIANTS TargetsTypeOK
PROPERTIES FindIsBest ActsOnFound
