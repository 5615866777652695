SPECIFICATION FairSpec
CONSTANTS
  cdb = cdb
  pdb = pdb
  alone = alone
  ring1 = ring1
  ring2 = ring2
  Targets <- Fleet
  Deps <- MCDeps
  NumPhases = 2
  IdsWithin <- MCIdsWithin
  RegionOf <- OneRegion
  ServiceOf <- OneService
  RegionLimit <- Two
  ServiceLimit <- One
  Concurrency = 2
  Retries = 1
  Handled = {1}
  Optional = {2}
  Creates = {}
  Verdicts <- CollectingVerdicts
  Errors = {"auth", "transient"}
  MaxCrashes = 0
  MaxFaults = 0
  NoOne = NoOne
CHECK_DEADLOCK FALSE
INVARIANTS
  ParentsComplete
PROPERTIES
  CircuitStopsNewCalls
  RunTerminates
