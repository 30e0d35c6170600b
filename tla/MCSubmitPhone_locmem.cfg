CONSTANTS
  r1 = r1  r2 = r2  r3 = r3
  p1 = p1  p2 = p2
  w1 = w1  w2 = w2
  None = None
  Requests <- MCRequests
  Phones <- MCPhones
  Workers <- MCWorkers
  Window = 2
  MaxTime = 3
  LocMem = TRUE
SYMMETRY Symmetric
SPECIFICATION Spec
INVARIANT DedupWindow
CHECK_DEADLOCK FALSE
