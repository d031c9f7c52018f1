----------------------------- MODULE MCFlowGraph -----------------------------
(* An instance of FlowGraph for TLC.                                       *)
EXTENDS FlowGraph

\* Two frames in every session but the last, which only has to start.
LastIsSilent == [s \in 1 .. MaxStarts |-> IF s < MaxStarts THEN 2 ELSE 0]
=============================================================================
