CONSTANTS
  r1 = r1  r2 = r2
  n1 = n1  n2 = n2
  c1 = c1  c2 = c2
  Requests <- MCRequests
  Messages <- MCMessages
  Backlog <- MCBacklog
  Nodes = {n1, n2}
  Slots = {c1}
  Prefetch = 2
  Failing = {"save", "log"}
  MaxCrashes = 2
SPECIFICATION FairSpec
INVARIANTS
  TypeOK
  DeathsCostOnlyBegunTasks
  OneMoreWritePerDeath
PROPERTY EveryTaskEnds
CHECK_DEADLOCK FALSE
