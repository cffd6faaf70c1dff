\* One connection whose records may be cut short, rejected or lost in a crash, and
\* that changes its directory between two calls.
SPECIFICATION Spec
CONSTANTS
  Conns = {c1}
  Process <- MCOwnProcess
  Dirs = {home, other}
  Cats <- MCOneCat
  Discs = {d1}
  Lines = 2
  MaxVersion = 2
  MaxCrashes = 1
  Faults = {"cut", "track", "charset"}
  Hash <- MCHash
  Absent = Absent
INVARIANTS
  OneVersion
  WholeEntries
PROPERTIES
  CachedWhatWasRead
  OffTouchesNothing
CHECK_DEADLOCK FALSE
