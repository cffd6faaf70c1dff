\* Two processes on one directory, and what each remembers of two discs.
SPECIFICATION Spec
CONSTANTS
  Conns = {c1, c2}
  Process <- MCOwnProcess
  Dirs = {home}
  Cats <- MCOneCat
  Discs = {d1, d2}
  Lines = 1
  MaxVersion = 1
  MaxCrashes = 0
  Faults = {}
  Hash <- MCHash
  Absent = Absent
INVARIANTS
  QueryHitIsCached
CHECK_DEADLOCK FALSE
