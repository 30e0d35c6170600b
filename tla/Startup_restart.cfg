CONSTANTS
  Limit = 2
  OldSaves = 1
  NewSaves = 1
SPECIFICATION Spec
INVARIANT NoSaveFails
CHECK_DEADLOCK FALSE
