SPECIFICATION Spec
CONSTANTS
  p1 = p1
  p2 = p2
  p3 = p3
  c1 = c1
  c2 = c2
  c3 = c3
  o = o
  t1 = t1
  t2 = t2
  x = x
  Producer = {p1, p2, p3}
  Consumer = {c1, c2, c3}
  Observer = {o}
  NoThread = NoThread
  Capacity = 2
  MaxItems = 5
  Worker = {t1, t2}
  Object = {p1, p2, p3, x}
  Null = Null
  MaxRounds = 2
  Counter = {c1, c2, c3}
  Size = 2
  MaxCalls = 4
  Owner = {p1, p2, p3}
  Caller = {c1, c2, c3}
SYMMETRY Symmetry
INVARIANTS HolderIsOwner NobodyStuck ObjectsAccounted TicketsDistinct RunsOnLiveObject
PROPERTIES FifoSpec
CHECK_DEADLOCK FALSE
