SPECIFICATION FairSpec
CONSTANTS
  a1 = a1
  a2 = a2
  a3 = a3
  i1 = i1
  i2 = i2
  Addr = {a1, a2}
  NoAddr = NoAddr
  Id = {i1}
  MaxSockets = 2
  MaxThreads = 1
  MaxQueued = 2
PROPERTIES HandshakeCompletes
CHECK_DEADLOCK FALSE
