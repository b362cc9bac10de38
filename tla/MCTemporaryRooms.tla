-------------------------- MODULE MCTemporaryRooms --------------------------
(* Three accounts that ask for one name, and a room for each of them.       *)
EXTENDS TemporaryRooms, TLC

Symmetry == Permutations(Users) \cup Permutations(Rooms)

=============================================================================
