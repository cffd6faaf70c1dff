\* The linked list of ll.c implements a sequence with a cursor.
SPECIFICATION FairRuledSpec
CONSTANTS
  Cells = {c1, c2, c3}
  Null = Null
  Data = {a, b}
  Nothing = Nothing
  Indices <- MCIndices
INVARIANTS
  ListInv
  NoFreedRead
PROPERTIES
  ImplementsSpec
  LoopsEnd
