CONSTANTS
  cdb = cdb
  pdb = pdb
  adb = adb
  ext = ext
  audit = audit
  None = None
  Targets <- MCTargets
  Kind <- MCKind
  Parent <- MCParent
  Selections <- MCSelections
  Services <- MCServices
  Sources = {audit}
  Known <- MCKnown
  Lacks <- MCLacks
  Tenant <- MCTenant
  Facts <- MCFacts
  Starts <- MCStarts
  Flows = {"lifecycle", "expert"}
  MaxPolls = 2
  CreateAttempts = 2
  MaxFaults = 1
  MaxForeign = 1
  MaxReentries = 1
  MaxCommands = 1
SPECIFICATION FairSpec
INVARIANTS LeaksAreInterruptions EnabledMeansAttached
PROPERTIES ImplementsLedger WorkersSettle
CHECK_DEADLOCK FALSE
