\* Two discs and their tracks.
SPECIFICATION Spec
CONSTANTS
  Discs = {d1, d2}
  Tracks = {t1,t2,t3,t4}
  Null = Null
  ByteBits = 2
  Indices <- MCIndices
  DiscValues <- MCDiscValues
  TrackValues <- MCTrackValues
  MaxWords = 2
  MaxCalls = 3
SYMMETRY MCSymmetry
INVARIANTS
  DiscTypeOK
  Chained
  LengthFresh
PROPERTIES
  ImplementsDiscs
CHECK_DEADLOCK FALSE
