SPECIFICATION FairLeaseSpec
CONSTANTS
  a1 = a1
  a2 = a2
  a3 = a3
  NoOwner = NoOwner
  Actors <- MCActors
  PlanOf <- MCPlanOf
  TTL = 4
  Interval = 2
  Delay = 3
  RenewRaises = TRUE
INVARIANTS
  OneWriter
  PunctualWriterOwnsLease
PROPERTIES
  NeverStolen
  StaleActorFenced
  DeadLeaseExpires
