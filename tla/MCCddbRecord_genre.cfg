\* A genre that is split in two.
SPECIFICATION Spec
CONSTANTS
  Null = Null
  Charset = TRUE
  Ascii = {"/", "misc"}
  Vocabulary <- MCVocabulary
  Contents <- MCContents
  Faults = {"iconv", "comment", "track", "cut"}
  MaxEvents = 2
  MaxCalls = 2
INVARIANTS
  GenreReadBack
CHECK_DEADLOCK FALSE
