SPECIFICATION ConfigSpec
CONSTANTS
  Processes = {c1, c2}
  Calls <- AllCalls
  Files = {"base", "chicago"}
  Unique = {"secret"}
  MaxAttempts = 2
  MaxStarts = 3
  MaxFailures = 1
  MaxMade = 2
INVARIANTS PreparedOnce RecordedIdsWereMade IdsKept
CHECK_DEADLOCK FALSE
