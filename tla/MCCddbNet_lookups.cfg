\* One look-up after another that timed out.
SPECIFICATION Spec
CONSTANTS
  Bytes = {b}
  LF = LF
  Timeout = 1
  BufSize = 3
  Ticks = 2
  MaxStream = 3
  MaxMessage = 3
  MaxRefused = 1
INVARIANT
  LookupsInTime
