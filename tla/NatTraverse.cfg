SPECIFICATION Spec
CONSTANTS
  a = a
  b = b
  c = c
  Client = {a, b, c}
  NoClient = NoClient
  Time = {1, 2, 3}
  MaxIds = 3
  MaxRound = 2
  MaxRounds = 2
  MaxStarts = 2
  Decimal <- MCDecimal
SYMMETRY Clients
INVARIANTS PairsAreTraverses
CHECK_DEADLOCK FALSE
