\* Every command over both protocols, with the server changed between calls,
\* and whether every call returns.
SPECIFICATION FairSpec
CONSTANTS
  Sites = {"freedb", "web"}
  HttpSites = {"web"}
  Calls = {"read", "query", "album", "write", "sites"}
  MaxCalls = 3
  MaxLines = 1
  ReplyCodes <- MCReplyCodes
INVARIANTS
  TypeOK
  InSync
  SyncInv
  OwnAnswer
  ShakenFirst
  EntryWanted
  ErrorsTell
  OneHttpCommand
PROPERTIES
  CacheOnlyStaysLocal
  CallReturns
CHECK_DEADLOCK FALSE
