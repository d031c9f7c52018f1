--------------------------- MODULE MCOnlineCapture ---------------------------
(* An instance of OnlineCapture for TLC.                                   *)
EXTENDS OnlineCapture
=============================================================================
