SPECIFICATION FairSpec
CONSTANTS
  Main = Main
  p1 = p1
  p2 = p2
  Receivers = {p1, p2}
  Requests <- AllRequests
  ArgMode = "INIT"
  RtspArg = TRUE
  StreamDev = TRUE
  MaxRequests = 4
  None = None
INVARIANTS
  ModeMatchesLink
PROPERTIES
  CaptureStopsRtsp
  Served
