SPECIFICATION Spec
CONSTANTS
  c1 = c1
  c2 = c2
  c3 = c3
  Conn = {c1, c2}
  NoConn = NoConn
  Name = {1, 2}
  NoLogin = 3
  NoSession = NoSession
  Answers <- NoAnswers
  Comps = 1
  InitialBeats = {0, 3}
  BeatLimit = 5
  SilentCap = 6
  MaxLogins = 2
  MaxAnswers = 0
  MaxIds = 0
SYMMETRY ConnSymmetry
PROPERTIES RegistrySpec LossExplained
