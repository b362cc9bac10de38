------------------------- MODULE MCSignalingServer -------------------------
(* Two users share a key, and two more connections let each of them come    *)
(* back while the other one stays.                                          *)
EXTENDS SignalingServer, TLC

Symmetry == Permutations(Conns) \cup Permutations(Tokens)

=============================================================================
