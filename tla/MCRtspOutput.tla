---------------------------- MODULE MCRtspOutput ----------------------------
(* Instances of RtspOutput for TLC.                                        *)
EXTENDS RtspOutput
=============================================================================
