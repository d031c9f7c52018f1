---------------------------- MODULE MCAiqForward ----------------------------
(* Instances of AiqForward for TLC.                                        *)
EXTENDS AiqForward, TLC

CONSTANTS c1, c2

OneEach    == [c \in Clients |-> 1]
TwoFromOne == [c \in Clients |-> IF c = c1 THEN 2 ELSE 1]

\* Thread names are interchangeable.
ThreadSymmetry == Permutations(Forwarders)
=============================================================================
