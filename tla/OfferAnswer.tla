---------------------------- MODULE OfferAnswer ----------------------------
(***************************************************************************)
(* What the signaling between two peers promises to their rtc connections: *)
(* offers and answers alternate.  A peer may make its next offer while its *)
(* answer to the other one's offer is still under way, but an offer        *)
(* arrives only at a peer that has none of its own outstanding.            *)
(***************************************************************************)
CONSTANT Users

VARIABLE exchange   \* how far the exchange a peer's offer began has come

Exchanges == {"none", "offered", "received", "answered"}

Others(u) == Users \ {u}

Init == exchange = [u \in Users |-> "none"]

Step(u, from, to) ==
    /\ exchange[u] = from
    /\ exchange' = [exchange EXCEPT ![u] = to]

Offer(u) ==
    /\ \A v \in Others(u) : exchange[v] \in {"none", "answered"}
    /\ Step(u, "none", "offered")

\* The offer of u is set as remote description of its peer.
Receive(u) ==
    /\ \A v \in Others(u) : exchange[v] = "none"
    /\ Step(u, "offered", "received")

Answer(u) == Step(u, "received", "answered")

Complete(u) == Step(u, "answered", "none")

Next == \E u \in Users : Offer(u) \/ Receive(u) \/ Answer(u) \/ Complete(u)

Spec == Init /\ [][Next]_exchange

=============================================================================
