------------------------- MODULE MCSignalingClient -------------------------
(* The clients of one process, which share its timer.                       *)
EXTENDS SignalingClient, TLC

CONSTANT p1
OneProcess == [c \in Clients |-> p1]

Symmetry == Permutations(Clients)

=============================================================================
