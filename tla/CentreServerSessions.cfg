SPECIFICATION Spec
CONSTANTS
  c1 = c1
  c2 = c2
  c3 = c3
  Conn = {c1, c2}
  NoConn = NoConn
  Name = {1, 2}
  NoLogin = 3
  NoSession = NoSession
  Answers <- MixedAnswers
  Comps = 1
  InitialBeats = {0}
  BeatLimit = 0
  SilentCap = 1
  MaxLogins = 1
  MaxAnswers = 1
  MaxIds = 3
SYMMETRY ConnSymmetry
PROPERTIES NoOneSidedForgetting
CHECK_DEADLOCK FALSE
