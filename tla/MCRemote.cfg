CONSTANTS
  Commands = {"a", "b", "p"}
  Targets <- MCTargets
  Host <- MCHost
  Label <- MCLabel
  Production = {"p"}
  Misnamed = {"b"}
  HasScripts = {"t1", "t3"}
  WantsSafe = {"t1"}
  Hosts = {"h1", "h2"}
  Ports = {1, 2}
  Locked = {"h1"}
  Echo = FALSE
  TTL = 0
  MaxTime = 2
  MaxSessions = 4
  MaxFaults = 1
  MaxTrouble = 2
SPECIFICATION Spec
CONSTRAINT Bounded
INVARIANTS ExecutedMeansPrepared OwnHostOnly LeftoversExplained
 
CHECK_DEADLOCK FALSE
