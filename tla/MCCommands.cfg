SPECIFICATION Spec
CONSTANTS
  c1 = c1
  c2 = c2
  c3 = c3
  db = db
  None = None
  Targets = {db}
  NumPhases = 2
  IdsWithin <- MCIdsWithin
  Procs <- MCProcs
  Command <- MCCommand
  Creates = {1}
CHECK_DEADLOCK FALSE
INVARIANTS
  HandlersExclusive
PROPERTIES
  OnlyOutdatedCopiesUndo
