CONSTANTS
  r1 = r1  r2 = r2
  w1 = w1  w2 = w2
  None = None
  Requests <- MCRequests
  Workers <- MCWorkers
  Phones = {p1}
  Window = 1
  MaxTime = 1
  Nodes = {n1}
  Slots = {c1}
  Prefetch = 1
  Failing = {}
  MaxCrashes = 1
SYMMETRY Symmetric
SPECIFICATION FaultySpec
PROPERTY KeepsWindows
CHECK_DEADLOCK FALSE
