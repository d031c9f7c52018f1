SPECIFICATION FairSpec
CONSTANTS
  c1 = c1
  c2 = c2
  Clients = {c1, c2}
  Signals = {"INT", "TERM"}
  MaxSignals = 3
CHECK_DEADLOCK FALSE
INVARIANTS
  NothingLeft
  ListenerClosedOnce
  NeverAborts
PROPERTIES
  Stops
