SPECIFICATION ClientSpec
CONSTANTS
  a1 = a1
  a2 = a2
  a3 = a3
  i1 = i1
  i2 = i2
  Addr = {a1, a2, a3}
  NoAddr = NoAddr
  Id = {i1, i2}
  MaxSockets = 4
  MaxThreads = 2
  MaxQueued = 2
SYMMETRY ClientSymmetry
INVARIANTS RoutesArePairs AnsweredHaveRoute
CHECK_DEADLOCK FALSE
