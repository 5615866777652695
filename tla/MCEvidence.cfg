CONSTANTS
  Services = {"dbm", "logan"}
  Facade = {"dbm"}
  Attempts = 2
  MaxAge = 1
  Skew = 1
  MaxTime = 4
  MaxPackets = 2
  MaxEnvelopes = 2
  MaxEvents = 2
SPECIFICATION Spec
INVARIANTS ReadyMeansCollected ReadyMeansConfigured NoFalseNotFound
CHECK_DEADLOCK FALSE
