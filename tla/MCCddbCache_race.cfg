\* Two processes that miss the same entry.
SPECIFICATION Spec
CONSTANTS
  Conns = {c1, c2}
  Process <- MCOwnProcess
  Dirs = {home}
  Cats <- MCOneCat
  Discs = {d1}
  Lines = 2
  MaxVersion = 1
  MaxCrashes = 0
  Faults = {}
  Hash <- MCHash
  Absent = Absent
PROPERTIES
  ReadKeepsEntries
CHECK_DEADLOCK FALSE
