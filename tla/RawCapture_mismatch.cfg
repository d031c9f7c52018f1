SPECIFICATION Spec
CONSTANTS
  Clients = {"pc1"}
  Requests <- SomeRequests
  Faults = {"last"}
  MaxCaptures = 1
CHECK_DEADLOCK FALSE
INVARIANTS
  MismatchAnswered
