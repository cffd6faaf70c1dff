\* Does cddb_query_next return FALSE after the last match?
SPECIFICATION Spec
CONSTANTS
  Cells = {c1, c2}
  Null = Null
  Titles = {a}
  Artists = {x}
  None = None
  Data <- MCData
  Nothing = Nothing
  Indices = {}
  MaxCalls = 4
  Careful = FALSE
INVARIANTS
  NoMoreIsFalse
CHECK_DEADLOCK FALSE
