----------------------------- MODULE MCFlowInput -----------------------------
(* Instances of FlowInput for TLC.                                         *)
EXTENDS FlowInput

CONSTANTS p1, p2

\* Both producers feed the first slot; nothing ever comes to the second.
SharedSlot == [p \in Producers |-> 1]

AllModes == {"BLOCKING", "DROPFRONT", "DROPCURRENT"}
=============================================================================
