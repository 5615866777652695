SPECIFICATION Spec
CONSTANTS
  c1 = c1
  c2 = c2
  c3 = c3
  None = None
  Procs <- MCProcs
  Command <- MCCommand
  NumActions = 2
  Operator = {2}
  MaxPackets = 2
  MayLapse = TRUE
CHECK_DEADLOCK FALSE
INVARIANTS
  CompleteMeansAccepted
  HandoffAnswerable
