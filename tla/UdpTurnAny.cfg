SPECIFICATION Spec
CONSTANTS
  a1 = a1
  a2 = a2
  a3 = a3
  i1 = i1
  i2 = i2
  Addr = {a1, a2, a3}
  NoAddr = NoAddr
  Id = {i1, i2}
  MaxSockets = 3
  MaxThreads = 1
  MaxQueued = 1
SYMMETRY ClientSymmetry
INVARIANTS RelayedWithinPair SocketsAccounted WaitersServePairs
PROPERTIES RendezvousSpec
CHECK_DEADLOCK FALSE
