\* An entry cut short in the cache.
SPECIFICATION Spec
CONSTANTS
  Conns = {c1}
  Process <- MCOwnProcess
  Dirs = {home}
  Cats <- MCOneCat
  Discs = {d1}
  Lines = 2
  MaxVersion = 2
  MaxCrashes = 0
  Faults = {"cut"}
  Hash <- MCHash
  Absent = Absent
PROPERTIES
  InvalidEntryRemoved
CHECK_DEADLOCK FALSE
