------------------------------ MODULE MCSession ------------------------------
(* Sessions of one user, with an account for every attempt to join.         *)
EXTENDS Session, TLC

Symmetry == Permutations(Members)

=============================================================================
