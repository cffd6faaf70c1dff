\* Does the handshake come before every other command?
SPECIFICATION Spec
CONSTANTS
  Sites = {"freedb"}
  HttpSites = {}
  Calls = {"read"}
  MaxCalls = 2
  MaxLines = 1
  ReplyCodes <- MCReplyCodes
INVARIANTS
  HandshakeFirst
CHECK_DEADLOCK FALSE
