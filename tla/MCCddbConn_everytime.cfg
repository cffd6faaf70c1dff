\* Does every HTTP connection carry one command?
SPECIFICATION Spec
CONSTANTS
  Sites = {"freedb", "web"}
  HttpSites = {"web"}
  Calls = {"read"}
  MaxCalls = 2
  MaxLines = 1
  ReplyCodes <- MCReplyCodes
INVARIANTS
  HttpClosedEveryTime
CHECK_DEADLOCK FALSE
