CONSTANTS
  r1 = r1  r2 = r2  r3 = r3
  p1 = p1  p2 = p2
  w1 = w1  w2 = w2
  None = None
  Requests <- MCRequests
  Phones = {p1}
  Workers = {w1}
  Window = 2
  MaxTime = 2
  LocMem = FALSE
SPECIFICATION PublishFaultySpec
INVARIANT DuplicateMeansQueued
CHECK_DEADLOCK FALSE
