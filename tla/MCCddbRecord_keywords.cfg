\* A disc of a year with three digits.
SPECIFICATION Spec
CONSTANTS
  Null = Null
  Charset = TRUE
  Ascii = {"/", "misc"}
  Vocabulary <- MCVocabulary
  Contents <- MCContents
  Faults = {"iconv", "comment", "track", "cut"}
  MaxEvents = 2
  MaxCalls = 2
INVARIANTS
  KeywordsPresent
CHECK_DEADLOCK FALSE
