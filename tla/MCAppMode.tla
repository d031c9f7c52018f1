----------------------------- MODULE MCAppMode -----------------------------
(* Instances of AppMode for TLC.                                            *)
EXTENDS AppMode

AllRequests ==
  {"TUNRING", "CAPTURE", "STREAMING", "START_RTSP", "STOP_RTSP", "FORWARD"}
============================================================================
