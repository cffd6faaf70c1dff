\* Does an entry go only to a CDDBP server that has asked for it?
SPECIFICATION Spec
CONSTANTS
  Sites = {"freedb", "web"}
  HttpSites = {"web"}
  Calls = {"read", "write"}
  MaxCalls = 2
  MaxLines = 1
  ReplyCodes <- MCReplyCodes
INVARIANTS
  EntryAsked
CHECK_DEADLOCK FALSE
