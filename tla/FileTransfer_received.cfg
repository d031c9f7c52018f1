SPECIFICATION FairSpec
CONSTANTS
  PacketSize = 8
  SizeEnd = 2
  Header = 3
  Stale = {0, 5, 11}
  Extra = 2
  MaxPacket = 3
  U64 = 16
  Interval = 2
  Limit = 4
  Margin = 3
CHECK_DEADLOCK FALSE
INVARIANTS
  InBounds
  SavedIsSent
PROPERTIES
  Answered
