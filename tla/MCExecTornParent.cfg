SPECIFICATION Spec
CONSTANTS
  cdb = cdb
  pdb = pdb
  alone = alone
  ring1 = ring1
  ring2 = ring2
  Targets <- Pair
  Deps <- MCDeps
  NumPhases = 2
  IdsWithin <- MCIdsWithin
  RegionOf <- OneRegion
  ServiceOf <- OneService
  RegionLimit <- Two
  ServiceLimit <- One
  Concurrency = 2
  Retries = 0
  Handled = {1, 2}
  Optional = {}
  Creates = {}
  Verdicts <- ValidationVerdicts
  Errors = {"fatal"}
  MaxCrashes = 1
  MaxFaults = 0
  NoOne = NoOne
CHECK_DEADLOCK FALSE
INVARIANTS
  ParentsComplete
