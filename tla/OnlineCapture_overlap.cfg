SPECIFICATION FairSpec
CONSTANTS
  Clients = {"pc1", "pc2"}
  Counts = {0, 2}
  MaxRequests = 4
  MaxStops = 1
CHECK_DEADLOCK FALSE
INVARIANTS
  AloneIsComplete
  OnlyGivenUpLeaks
PROPERTIES
  
  Served
