SPECIFICATION Spec
CONSTANTS
  MaxComps = 2
  UPorts = {80, 1223, 1400, 65525}
  PPorts = {1000, 1150, 3000}
  Ids = {5}
INVARIANTS RoleSymmetric OnlyPeerAddresses WindowsReachPeer RelayIdsShared
CHECK_DEADLOCK FALSE
