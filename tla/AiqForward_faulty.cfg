SPECIFICATION Spec
CONSTANTS
  c1 = c1
  c2 = c2
  f1 = f1
  f2 = f2
  Clients = {c1, c2}
  Forwarders = {f1, f2}
  NoFile = NoFile
  MaxFd = 3
  MaxConns = 2
  MaxMsgs <- OneEach
  MaxExits = 1
  Leavers = {c1}
  AiqAtStart = {TRUE, FALSE}
  MayQuit = TRUE
SYMMETRY ThreadSymmetry
CHECK_DEADLOCK FALSE
INVARIANTS
  FlagHasForwarder
  NoDuplicate
