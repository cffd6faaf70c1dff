\* Does cached data only mean that no server is contacted?
SPECIFICATION Spec
CONSTANTS
  Sites = {"freedb"}
  HttpSites = {}
  Calls = {"read", "sites"}
  MaxCalls = 2
  MaxLines = 1
  ReplyCodes <- MCReplyCodes
PROPERTIES
  NeverContacts
CHECK_DEADLOCK FALSE
