CONSTANTS
  cdb = cdb
  pdb = pdb
  adb = adb
  managed = managed
  east = east
  west = west
  prod = prod
  ref1 = ref1
  ref2 = ref2
  None = None
  Databases <- MCDatabases
  Region <- MCRegion
  Compartment <- MCCompartment
  Role <- MCRole
  Family <- MCFamily
  ParentOf <- MCParentOf
  Linked <- MCLinked
  RegionOrder <- MCRegionOrder
  HomeRegion = east
  NotOnboarded = {west}
  AnswerFiles <- MCAnswerFiles
  BindingFiles <- MCBindingFiles
  MaxFaults = 1
  MaxChanges = 2
  MaxCommands = 2
SPECIFICATION Spec
INVARIANTS NothingMissed PlanClosed RunIsReviewed
CHECK_DEADLOCK FALSE
