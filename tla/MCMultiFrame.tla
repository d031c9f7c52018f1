---------------------------- MODULE MCMultiFrame ----------------------------
(* Instances of MultiFrame for TLC.                                        *)
EXTENDS MultiFrame
=============================================================================
