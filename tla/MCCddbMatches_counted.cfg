\* Walking a result set with a count of its matches.
SPECIFICATION Spec
CONSTANTS
  Cells = {c1, c2, c3}
  Null = Null
  Titles = {a, b}
  Artists = {x}
  None = None
  Data <- MCData
  Nothing = Nothing
  Indices = {}
  MaxCalls = 5
  Careful = TRUE
INVARIANTS
  MatchesInOrder
  NextOnLive
SYMMETRY Symmetry
CHECK_DEADLOCK FALSE
