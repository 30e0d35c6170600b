CONSTANTS
  Limit = 2
  OldSaves = 0
  NewSaves = 2
SPECIFICATION Spec
INVARIANTS
  TypeOK
  SiteIsComplete
  NoSaveFails
PROPERTIES
  ExitsForAReason
  ScriptsEnd
CHECK_DEADLOCK FALSE
