SPECIFICATION Spec
CONSTANTS
  c1 = c1
  c2 = c2
  c3 = c3
  c4 = c4
  a1 = a1
  a2 = a2
  a3 = a3
  id = id
  data = data
  Conn = {c1, c2, c3, c4}
  Addr = {a1, a2, a3}
  NoConn = NoConn
  NoAddr = NoAddr
  NoLogin = NoLogin
  HasLogin = HasLogin
  Streams <- MCStreams
SYMMETRY ConnSymmetry
INVARIANTS RoutesLeadToConnections OneIdPerAddress DataStaysWithinId
           OneWayOnlyIfDisplaced StreamFidelity
CHECK_DEADLOCK FALSE
