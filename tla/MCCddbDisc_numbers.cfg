\* Numbers below 0.
SPECIFICATION Spec
CONSTANTS
  Discs = {d1}
  Tracks = {t1}
  Null = Null
  ByteBits = 2
  Indices <- MCAnyIndices
  DiscValues <- MCDiscValues
  TrackValues <- MCTrackValues
  MaxWords = 2
  MaxCalls = 3
SYMMETRY MCSymmetry
INVARIANT
  TrackOfNumber
CHECK_DEADLOCK FALSE
