SPECIFICATION FairSpec
CONSTANTS
  p1 = p1
  p2 = p2
  Producers = {p1, p2}
  NumSlots = 2
  Target <- SharedSlot
  MaxCache = 1
  InputModes <- AllModes
  NoBuffer = NoBuffer
  MaxSend = 2
  MayDisable = TRUE
  MayStop = TRUE
CHECK_DEADLOCK FALSE
INVARIANTS
  PopFindsBuffer
PROPERTIES
  ImplementsQueue
  Drained
  Unblocked
