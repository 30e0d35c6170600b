CONSTANTS
  r1 = r1  r2 = r2
  w1 = w1  w2 = w2
  None = None
  Requests <- MCRequests
  Workers <- MCWorkers
  Phones = {p1}
  Window = 1
  MaxTime = 1
  Nodes = {n1}
  Slots = {c1, c2}
  Prefetch = 2
  Failing = {"log"}
  MaxCrashes = 0
SPECIFICATION Spec
PROPERTIES
  KeepsPromise
  RepliesComeTrue
CHECK_DEADLOCK FALSE
