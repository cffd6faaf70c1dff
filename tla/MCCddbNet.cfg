\* Lines and messages on a socket that stalls, look-ups and connecting.
SPECIFICATION FairSpec
CONSTANTS
  Bytes = {b}
  LF = LF
  Timeout = 1
  BufSize = 3
  Ticks = 2
  MaxStream = 3
  MaxMessage = 3
  MaxRefused = 1
INVARIANTS
  NetTypeOK
  InTime
  WireAccounts
  NoStrayJump
  ConnectTells
PROPERTIES
  ImplementsStream
  IoReturns
