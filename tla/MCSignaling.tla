---------------------------- MODULE MCSignaling ----------------------------
(* Two users; connections, cuts, changes and candidates as the run bounds    *)
(* them.                                                                      *)
EXTENDS Signaling

\* out and sent are what a step hands to the network in that step: no step
\* reads the ones of the step before.
WithoutOutput ==
    <<conn, slot, regKey, regToken, live, partner, wants, active, offers,
      answers, cands, failed, delegate, connects, registered, stopped,
      offerCache, answerCache, wantCache, candidates, callback, waiting,
      expired, faults, net, signals, peerConnection>>

=============================================================================
