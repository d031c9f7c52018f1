SPECIFICATION FairSpec
CONSTANTS
  c1 = c1
  c2 = c2
  f1 = f1
  f2 = f2
  Clients = {c1, c2}
  Forwarders = {f1, f2}
  NoFile = NoFile
  MaxFd = 3
  MaxConns = 1
  MaxMsgs <- TwoFromOne
  MaxExits = 0
  Leavers = {}
  AiqAtStart = {TRUE}
  MayQuit = FALSE
CHECK_DEADLOCK FALSE
INVARIANTS
  InOrder
  OwnDescriptor
PROPERTIES
  Answered
