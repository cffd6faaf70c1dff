\* Discs that are written, split over lines, queried and read again.
SPECIFICATION Spec
CONSTANTS
  Null = Null
  Charset = TRUE
  Ascii = {"/", "misc"}
  Vocabulary <- MCVocabulary
  Contents <- MCContents
  Faults = {"iconv", "comment", "track", "cut"}
  MaxEvents = 2
  MaxCalls = 2
INVARIANTS
  RecordTypeOK
  ReadTells
  EndsWithDot
CHECK_DEADLOCK FALSE
