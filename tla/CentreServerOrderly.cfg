SPECIFICATION OrderlySpec
CONSTANTS
  c1 = c1
  c2 = c2
  c3 = c3
  Conn = {c1, c2, c3}
  NoConn = NoConn
  Name = {1, 2}
  NoLogin = 3
  NoSession = NoSession
  Answers <- OrderlyAnswers
  Comps = 1
  InitialBeats = {0}
  BeatLimit = 0
  SilentCap = 1
  MaxLogins = 1
  MaxAnswers = 2
  MaxIds = 8
SYMMETRY ConnSymmetry
INVARIANTS RegistryExact SessionsOwned NoCrash RightClientsTold
