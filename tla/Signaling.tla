----------------------------- MODULE Signaling -----------------------------
(***************************************************************************)
(* Two fubble processes that negotiate their peer connection through the   *)
(* signaling server: SignalingClient at each end, SignalingServer between  *)
(* them, a FIFO channel each way on every websocket connection, and above  *)
(* the client the p2p layer, offer_answer and ice_candidates, on the       *)
(* PeerConnection of the webrtc library.                                   *)
(*                                                                         *)
(* A connection can be cut at any time.  What is in flight is then         *)
(* delivered up to an arbitrary point, at either end, before that end      *)
(* notices, and the ends notice in any order: a client may be back on a    *)
(* new connection before the server sees the old one close.                *)
(***************************************************************************)
EXTENDS Naturals, Sequences, FiniteSets

CONSTANTS
    Users,        \* the two users
    None,         \* the null pointer
    MaxConnects,  \* bound: connections a client tries to make
    MaxDrops,     \* bound: connections that are cut
    MaxChanges,   \* bound: times a user adds or removes tracks
    MaxIce,       \* bound: ice candidates a user gathers
    Asserts       \* BOOST_ASSERT compiled in (Debug) or not (Release)


VARIABLES
    conn, slot, regKey, regToken, live, partner, wants, active, offers,
    answers, cands, out, failed,                         \* SignalingServer
    delegate, connects, registered, stopped, offerCache, answerCache,
    wantCache, candidates, callback, waiting, expired, sent,
    faults,                                              \* SignalingClient
    toServer,     \* messages under way to the server, per connection
    toClient,     \* messages under way to the client, per connection
    cut,          \* connections that broke
    p2pConnected, \* offer_answer::connected
    p2pWants,     \* offer_answer::wants_to_negotiate
    p2pFaults,    \* users whose on_offer_set got an error (offer_answer.cpp:83)
    rtc,          \* signaling state of the PeerConnection
    making,       \* descriptions being created and set, in the order asked for
    changed,      \* users with changes no offer of theirs covers
    needed,       \* [[NegotiationNeeded]] of the PeerConnection
    changes,      \* changes made so far
    local,        \* users that have set a local description
    gathered      \* ice candidates gathered so far

Conns == Users \X (1..MaxConnects)

ASSUME TwoUsers == IsFiniteSet(Users) /\ Cardinality(Users) = 2
ASSUME SignalingAssumption ==
    /\ None \notin Users \cup Conns
    /\ {MaxConnects, MaxIce, MaxChanges} \subseteq Nat /\ MaxConnects # 0
    /\ Asserts \in BOOLEAN

S == INSTANCE SignalingServer
        WITH Keys <- {Users}, Tokens <- Users, MaxCandidates <- MaxIce
C == INSTANCE SignalingClient
        WITH Clients <- Users, Processes <- Users,
             ProcessOf <- [u \in Users |-> u], MaxCandidates <- MaxIce

server == <<conn, slot, regKey, regToken, live, partner, wants, active, offers,
            answers, cands, out, failed>>
clients == <<delegate, connects, registered, stopped, offerCache, answerCache,
             wantCache, candidates, callback, waiting, expired, sent, faults>>
net == <<toServer, toClient, cut>>
signals == <<p2pConnected, p2pWants, p2pFaults>>
peerConnection == <<rtc, making, changed, needed, changes, local, gathered>>
vars == <<server, clients, net, signals, peerConnection>>

Link(u) == <<u, connects[u]>>
HasLink(u) == connects[u] > 0
Peer(u) == CHOOSE v \in Users : v # u

\* An end is gone for good, or its connection is.
Down(c) == c \in cut \/ ~C!Alive(c[1]) \/ ~S!Running

Lives(u) == C!Runs(u) /\ (~Asserts \/ u \notin p2pFaults)

-----------------------------------------------------------------------------
(* What a step of one end gives the network.                               *)

Upload ==
    toServer' = [c \in Conns |->
        IF c = <<c[1], connects'[c[1]]>> /\ c \notin cut /\ conn[c] # "closed"
          THEN toServer[c] \o sent'[c[1]] ELSE toServer[c]]

Download ==
    toClient' = [c \in Conns |->
        IF c \in cut THEN toClient[c] ELSE toClient[c] \o out'[c]]

-----------------------------------------------------------------------------
(* Making, losing and replacing connections                                *)

Connect(u) ==
    /\ C!Connect(u)
    /\ UNCHANGED <<server, net, signals, peerConnection>>

\* The server's half of the handshake comes first.
Accept(u) ==
    /\ HasLink(u) /\ ~Down(Link(u))
    /\ delegate[u] = "connecting"
    /\ S!Accept(Link(u))
    /\ UNCHANGED <<clients, net, signals, peerConnection>>

\* offer_answer::on_connected hears the first registration only.
Connected(u) ==
    /\ Lives(u)
    /\ HasLink(u) /\ conn[Link(u)] # "idle" /\ ~Down(Link(u))
    /\ C!Connected(u, u \in p2pWants)
    /\ Upload
    /\ p2pConnected' = p2pConnected \cup {u}
    /\ p2pWants' = IF u \in registered THEN p2pWants ELSE p2pWants \ {u}
    /\ UNCHANGED <<server, toClient, cut, p2pFaults, peerConnection>>

ConnectFailed(u) ==
    /\ Lives(u)
    /\ HasLink(u) /\ Down(Link(u))
    /\ C!ConnectFailed(u)
    /\ UNCHANGED <<server, net, signals, peerConnection>>

CutLink(u) ==
    /\ Cardinality(cut) < MaxDrops
    /\ delegate[u] \in {"connecting", "open"}
    /\ cut' = cut \cup {Link(u)}
    /\ UNCHANGED <<server, clients, toServer, toClient, signals, peerConnection>>

ClientLoses(u) ==
    /\ Lives(u)
    /\ delegate[u] = "open"
    /\ Down(Link(u)) \/ conn[Link(u)] = "closed"
    /\ C!Closed(u)
    /\ toClient' = [toClient EXCEPT ![Link(u)] = <<>>]
    /\ UNCHANGED <<server, toServer, cut, signals, peerConnection>>

ServerLoses(c) ==
    /\ Down(c)
    /\ S!OnClosed(c)
    /\ toServer' = [toServer EXCEPT ![c] = <<>>]
    /\ UNCHANGED <<clients, toClient, cut, signals, peerConnection>>

Timer(u) ==
    /\ C!Expire(u) \/ C!OnTimeout(u)
    /\ UNCHANGED <<server, net, signals, peerConnection>>

-----------------------------------------------------------------------------
(* server::connection::run: one message of one connection                  *)

ServerReceives(c) ==
    /\ conn[c] = "open"
    /\ toServer[c] # <<>>
    /\ CASE Head(toServer[c]) = "registration"      -> S!Register(c, Users, c[1])
         [] Head(toServer[c]) = "want_to_negotiate" -> S!OnWantToNegotiate(c)
         [] Head(toServer[c]) = "offer"             -> S!OnOffer(c)
         [] Head(toServer[c]) = "answer"            -> S!OnAnswer(c)
         [] Head(toServer[c]) = "ice_candidate"     -> S!OnIceCandidate(c)
    /\ toServer' = [toServer EXCEPT ![c] = Tail(@)]
    /\ Download
    /\ UNCHANGED <<clients, cut, signals, peerConnection>>

-----------------------------------------------------------------------------
(* The PeerConnection is stable again: it forgets that a negotiation is    *)
(* needed, and says so anew when changes are left.  offer_answer then      *)
(* sends a wish, or keeps it for the first registration.                   *)

NegotiationNeeded(s, u) ==
    IF u \in p2pConnected THEN C!SendWantToNegotiate(s, u) ELSE s

StableAgain(s, u) == IF u \in changed THEN NegotiationNeeded(s, u) ELSE s

BecomesStable(u) ==
    /\ rtc' = [rtc EXCEPT ![u] = "stable"]
    /\ needed' = IF u \in changed THEN needed \cup {u} ELSE needed \ {u}
    /\ p2pWants' = IF u \in changed \ p2pConnected THEN p2pWants \cup {u} ELSE p2pWants

Sends(u, s) ==
    /\ C!SendBy(u, s)
    /\ UNCHANGED <<connects, registered, stopped, callback, waiting, expired>>
    /\ Upload

\* Tracks are added or removed.
Change(u) ==
    LET tells == rtc[u] = "stable" /\ u \notin needed IN
    /\ Lives(u)
    /\ changes[u] < MaxChanges
    /\ changes' = [changes EXCEPT ![u] = @ + 1]
    /\ changed' = changed \cup {u}
    /\ needed' = IF tells THEN needed \cup {u} ELSE needed
    /\ p2pWants' = IF tells /\ u \notin p2pConnected THEN p2pWants \cup {u} ELSE p2pWants
    /\ Sends(u, IF tells THEN NegotiationNeeded(C!Client, u) ELSE C!Client)
    /\ UNCHANGED <<server, toClient, cut, p2pConnected, p2pFaults,
                   rtc, making, local, gathered>>

-----------------------------------------------------------------------------
(* client::connection::did_read: one message from the server               *)

NextMessage(u, m) ==
    /\ Lives(u)
    /\ delegate[u] = "open"
    /\ toClient[Link(u)] # <<>> /\ Head(toClient[Link(u)]) = m
    /\ toClient' = [toClient EXCEPT ![Link(u)] = Tail(@)]
    /\ UNCHANGED <<server, cut>>

\* offer_answer::on_create_offer
OnCreateOffer(u) ==
    /\ NextMessage(u, "create_offer")
    /\ making' = [making EXCEPT ![u] = Append(@, "offer")]
    /\ UNCHANGED <<clients, toServer, signals, rtc, changed, needed, changes,
                   local, gathered>>

\* offer_answer::on_offer.  A remote offer is refused while an own one is
\* outstanding, which on_offer_set asserts not to happen.
OnOffer(u) ==
    /\ NextMessage(u, "offer")
    /\ IF rtc[u] = "have-local-offer"
       THEN /\ p2pFaults' = p2pFaults \cup {u}
            /\ UNCHANGED <<rtc, making>>
       ELSE /\ rtc' = [rtc EXCEPT ![u] = "have-remote-offer"]
            /\ making' = [making EXCEPT ![u] = Append(@, "answer")]
            /\ UNCHANGED p2pFaults
    /\ UNCHANGED <<clients, toServer, p2pConnected, p2pWants, changed,
                   needed, changes, local, gathered>>

\* offer_answer::on_answer.  The error of an answer nobody waits for is lost.
OnAnswer(u) ==
    /\ NextMessage(u, "answer")
    /\ IF rtc[u] = "have-local-offer"
       THEN /\ BecomesStable(u)
            /\ Sends(u, StableAgain(C!Client, u))
       ELSE UNCHANGED <<rtc, needed, p2pWants, clients, toServer>>
    /\ UNCHANGED <<p2pConnected, p2pFaults, making, changed, changes, local, gathered>>

\* ice_candidates::from_signaling
OnIceCandidate(u) ==
    /\ NextMessage(u, "ice_candidate")
    /\ UNCHANGED <<clients, toServer, signals, peerConnection>>

-----------------------------------------------------------------------------
(* Descriptions are created and set asynchronously, then sent.             *)

Makes(u, what) ==
    /\ Lives(u)
    /\ making[u] # <<>> /\ Head(making[u]) = what
    /\ making' = [making EXCEPT ![u] = Tail(@)]
    /\ UNCHANGED <<server, toClient, cut, p2pConnected, p2pFaults, changes, gathered>>

\* The continuations of on_create_offer; an offer that cannot be set, since a
\* remote one came first, is dropped with its error.
SendOffer(u) ==
    /\ Makes(u, "offer")
    /\ IF rtc[u] = "have-remote-offer"
       THEN UNCHANGED <<rtc, changed, local, clients, toServer>>
       ELSE /\ rtc' = [rtc EXCEPT ![u] = "have-local-offer"]
            /\ changed' = changed \ {u}
            /\ local' = local \cup {u}
            /\ Sends(u, C!SendOffer(C!Client, u))
    /\ UNCHANGED <<needed, p2pWants>>

\* Mutant: the answer is sent without being set as local description.
SendAnswerUnset(u) ==
    /\ Makes(u, "answer")
    /\ Sends(u, C!SendAnswer(C!Client, u))
    /\ UNCHANGED <<rtc, needed, p2pWants, local, changed>>

\* The continuations of on_offer_set; the wish that follows from being stable
\* leaves before the answer does.
SendAnswer(u) ==
    /\ Makes(u, "answer")
    /\ IF rtc[u] # "have-remote-offer"
       THEN UNCHANGED <<rtc, needed, p2pWants, local, clients, toServer>>
       ELSE /\ BecomesStable(u)
            /\ local' = local \cup {u}
            /\ Sends(u, C!SendAnswer(StableAgain(C!Client, u), u))
    /\ UNCHANGED changed

\* ice_candidates::from_rtc
SendIceCandidate(u) ==
    /\ Lives(u)
    /\ u \in local
    /\ gathered[u] < MaxIce
    /\ gathered' = [gathered EXCEPT ![u] = @ + 1]
    /\ Sends(u, C!SendIceCandidate(C!Client, u))
    /\ UNCHANGED <<server, toClient, cut, signals, rtc, making, changed,
                   needed, changes, local>>

-----------------------------------------------------------------------------
Init ==
    /\ S!ServerInit
    /\ C!ClientInit
    /\ toServer = [c \in Conns |-> <<>>]
    /\ toClient = [c \in Conns |-> <<>>]
    /\ cut = {}
    /\ p2pConnected = {} /\ p2pWants = {} /\ p2pFaults = {}
    /\ rtc = [u \in Users |-> "stable"]
    /\ making = [u \in Users |-> <<>>]
    /\ changed = {} /\ needed = {} /\ local = {}
    /\ changes = [u \in Users |-> 0]
    /\ gathered = [u \in Users |-> 0]

Client(u) ==
    \/ Connect(u) \/ Connected(u) \/ ConnectFailed(u) \/ ClientLoses(u) \/ Timer(u)
    \/ OnCreateOffer(u) \/ OnOffer(u) \/ OnAnswer(u) \/ OnIceCandidate(u)
    \/ SendOffer(u) \/ SendAnswer(u)

Server(c) == ServerLoses(c) \/ ServerReceives(c)

Next ==
    \/ \E u \in Users :
        Client(u) \/ Accept(u) \/ CutLink(u) \/ Change(u) \/ SendIceCandidate(u)
    \/ \E c \in Conns : Server(c)

Spec == Init /\ [][Next]_vars

\* The event loop of u, or the server for c, has something to do.
ClientReady(u) ==
    \/ delegate[u] = "absent" /\ connects[u] < MaxConnects
    \/ delegate[u] = "connecting" /\ (conn[Link(u)] # "idle" \/ Down(Link(u)))
    \/ /\ delegate[u] = "open"
       /\ Down(Link(u)) \/ conn[Link(u)] = "closed" \/ toClient[Link(u)] # <<>>
    \/ delegate[u] # "absent" /\ making[u] # <<>>
    \/ waiting[u] /\ ~expired[u]
    \/ expired[u] /\ connects[u] < MaxConnects

ServerReady(c) == conn[c] = "open" /\ (Down(c) \/ toServer[c] # <<>>)

\* Every event loop runs what is queued, and the network delivers what is sent
\* or reports that it does not.  Nobody has to change tracks or cut a line.
\* (Weak fairness of Client(u) and of Server(c), with their guards for ENABLED.)
Fairness ==
    /\ \A u \in Users :
        /\ \/ []<>~((Lives(u) \/ delegate[u] = "absent") /\ ClientReady(u))
           \/ []<><<Client(u)>>_vars
        /\ WF_vars(Accept(u))
    /\ \A c \in Conns :
        []<>~(S!Running /\ ServerReady(c)) \/ []<><<Server(c)>>_vars

FairSpec == Spec /\ Fairness

-----------------------------------------------------------------------------
(* Properties                                                              *)

\* The channels and the p2p layer hold values of their types; the two
\* components' own type invariants hold as well.
TypeOK ==
    /\ S!ServerTypeOK
    /\ C!ClientTypeOK
    /\ toServer \in [Conns -> Seq(C!Sendable)]
    /\ toClient \in [Conns -> Seq(S!Messages)]
    /\ cut \subseteq Conns
    /\ p2pConnected \subseteq Users /\ p2pWants \subseteq Users
    /\ p2pFaults \subseteq Users
    /\ rtc \in [Users -> {"stable", "have-local-offer", "have-remote-offer"}]
    /\ making \in [Users -> Seq({"offer", "answer"})]
    /\ changed \subseteq Users /\ needed \subseteq Users /\ local \subseteq Users
    /\ changes \in [Users -> 0..MaxChanges] /\ gathered \in [Users -> 0..MaxIce]

\* While connections hold, no assertion of the server, of the clients or of the
\* p2p layer fails, and no remote offer meets an own one (offer_answer.cpp:83).
NothingFails ==
    /\ failed = {}
    /\ \A u \in Users : faults[u] = {}
    /\ p2pFaults = {}

\* How far the exchange has come that the outstanding offer of u began.
AnswerUnderWay(u) ==
    \/ \E i \in DOMAIN toServer[Link(Peer(u))] : toServer[Link(Peer(u))][i] = "answer"
    \/ \E i \in DOMAIN toClient[Link(u)] : toClient[Link(u)][i] = "answer"

ExchangeOf(u) ==
    IF rtc[u] # "have-local-offer" THEN "none"
    ELSE IF rtc[Peer(u)] = "have-remote-offer" THEN "received"
    ELSE IF AnswerUnderWay(u) THEN "answered"
    ELSE "offered"

OA == INSTANCE OfferAnswer WITH exchange <- [u \in Users |-> ExchangeOf(u)]

\* While connections hold, the two peers exchange offers and answers as
\* OfferAnswer promises, whatever the interleaving of wishes, server, network
\* and the asynchronous steps of the PeerConnections.
ExchangesAlternate == OA!Spec

\* While connections hold, nothing is left behind when everybody is idle: no
\* wish in the server or at an end, no negotiation that still counts as
\* running, no PeerConnection that waits and no change that was not offered.
Idle ==
    /\ \A u \in Users : delegate[u] = "open" /\ making[u] = <<>>
    /\ \A c \in Conns : toServer[c] = <<>> /\ toClient[c] = <<>>

NothingLeftBehind ==
    Idle => /\ wants = {} /\ active = {}
            /\ changed = {} /\ needed = {} /\ p2pWants = {}
            /\ \A u \in Users : rtc[u] = "stable"

\* The pair is sound: types, no failed assertion, nothing left behind.
PairIsSound == TypeOK /\ NothingFails /\ NothingLeftBehind

\* Cut connections heal: once both clients are back, and the server has read
\* what they sent, their current connections are partners at the server, in
\* whatever order it learned of the old ones and the new ones.
PairIsRestored ==
    /\ S!Running
    /\ \A u \in Users :
        delegate[u] = "open" /\ conn[Link(u)] = "open" /\ ~Down(Link(u))
    /\ \A c \in Conns : conn[c] = "open" => toServer[c] = <<>>
    => \A u \in Users : Link(u) \in live /\ partner[Link(u)] = Link(Peer(u))

\* Cuts leave the types of everything alone, and the pair heals.
PairHeals == TypeOK /\ PairIsRestored

\* Every change of tracks is offered to the peer in the end.
ChangesAreOffered == \A u \in Users : u \in changed ~> u \notin changed

\* Every exchange ends: a peer that waits for an answer, or has an offer to
\* answer, is stable again in the end.
ExchangesEnd == \A u \in Users : rtc[u] # "stable" ~> rtc[u] = "stable"

=============================================================================
