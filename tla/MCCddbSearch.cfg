\* Searches of two connections whose settings change, over the connection they share.
SPECIFICATION SearchSpec
CONSTANTS
  Null = Null
  ByteBits = 1
  Srch = Srch
  c1 = c1
  c2 = c2
  Conns = {c1, c2}
  x1 = x1
  x2 = x2
  x3 = x3
  x4 = x4
  Handles = {x1, x2, x3, x4}
  Profiles <- MCProfiles
  Hosts <- MCHosts
  Paths <- MCPaths
  Users <- MCUsers
  SiteLines <- MCSiteLines
  Matches <- MCMatches
  Pages <- MCPages
  MaxSets = 2
  MaxSearches = 2
SYMMETRY MCSymmetry
INVARIANTS
  SearchTypeOK
  HandlesLive
  SearchVia
  SearchInOrder
CHECK_DEADLOCK FALSE
