CONSTANTS
  r1 = r1  r2 = r2  r3 = r3
  p1 = p1  p2 = p2
  w1 = w1  w2 = w2
  None = None
  Requests <- MCRequests
  Phones <- MCPhones
  Workers <- MCWorkers
  Window = 2
  MaxTime = 3
  LocMem = FALSE
SYMMETRY Symmetric
SPECIFICATION Spec
INVARIANTS
  TypeOK
  DedupWindow
  DuplicateMeansQueued
  QueuedMeansOneSave
  AnswersAreTimed
CHECK_DEADLOCK FALSE
