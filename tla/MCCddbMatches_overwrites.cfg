\* Does cddb_query_next overwrite what the disc has of the match before?
SPECIFICATION Spec
CONSTANTS
  Cells = {c1, c2}
  Null = Null
  Titles = {a, b}
  Artists = {x}
  None = None
  Data <- MCData
  Nothing = Nothing
  Indices = {}
  MaxCalls = 3
  Careful = TRUE
INVARIANTS
  NextOverwrites
CHECK_DEADLOCK FALSE
