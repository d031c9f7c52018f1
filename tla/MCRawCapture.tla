---------------------------- MODULE MCRawCapture ----------------------------
(* Instances of RawCapture for TLC.                                        *)
EXTENDS RawCapture

\* Every path through the frame counters: the default single frame, several,
\* and averages of one and of two frames per half.
SomeRequests == {<<"normal", 1>>, <<"normal", 2>>, <<"average", 2>>,
                 <<"average", 4>>}
=============================================================================
