SPECIFICATION Spec
CONSTANTS
  Clients = {"pc1", "pc2"}
  Requests <- SomeRequests
  Faults = {"device", "frame", "early"}
  MaxCaptures = 2
CHECK_DEADLOCK FALSE
INVARIANTS
  Released
  FramesDelivered
  BusyIsTrue
