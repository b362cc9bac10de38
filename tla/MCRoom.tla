-------------------------------- MODULE MCRoom --------------------------------
(* What members know, hear and see of a room - the matrix rooms, the volume  *)
(* of the tracks, the wall of pictures - and the signals by which each part  *)
(* is told: they share nothing, and each is checked alone.                   *)
EXTENDS MatrixRooms, Audio, VideoWall, Signals, TLC

VARIABLE part

MCInit ==
    /\ MatrixInit /\ AudioInit /\ WallInit /\ SignalsInit
    /\ part \in {"matrix", "audio", "wall", "signals"}

MCNext ==
    \/ part = "matrix" /\ MatrixNext /\ UNCHANGED <<part, audioVars, wallVars, signalsVars>>
    \/ part = "audio" /\ AudioNext /\ UNCHANGED <<part, matrixVars, wallVars, signalsVars>>
    \/ part = "wall" /\ WallNext /\ UNCHANGED <<part, matrixVars, audioVars, signalsVars>>
    \/ part = "signals" /\ SignalsNext /\ UNCHANGED <<part, matrixVars, audioVars, wallVars>>

MCSpec == MCInit /\ [][MCNext]_<<part, matrixVars, audioVars, wallVars, signalsVars>>

\* What a member believes of the room is true of some moment, and of the last
\* one when nothing is under way.
ViewsSettle == ViewsAreSound /\ SettledIsHeard

\* The list of slots is sound, and an emission calls those it has to.
SignalsHold == SlotsAreSound /\ EffectHolds

Symmetry == Permutations(Users) \cup Permutations(Slots \ (Tracked \cup Blockable))

=============================================================================
