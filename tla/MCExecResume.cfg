SPECIFICATION Spec
CONSTANTS
  cdb = cdb
  pdb = pdb
  alone = alone
  ring1 = ring1
  ring2 = ring2
  Targets <- Pair
  Deps <- MCDeps
  NumPhases = 2
  IdsWithin <- MCIdsWithin
  RegionOf <- OneRegion
  ServiceOf <- OneService
  RegionLimit <- Two
  ServiceLimit <- One
  Concurrency = 2
  Retries = 1
  Handled = {1, 2}
  Optional = {}
  Creates = {1}
  Verdicts <- ValidationVerdicts
  Errors = {"auth", "conflict", "transient", "fatal", "interrupt"}
  MaxCrashes = 1
  MaxFaults = 1
  NoOne = NoOne
CHECK_DEADLOCK FALSE
INVARIANTS
  RefusedOnlyAfterRaisedSave
  ParentsCompleteOrTorn
  RetryReopensFailures
PROPERTIES
  CompletedNeverReplayed
  RecordsKept
  AuthorizationBlockPermanent
  RunSettles
