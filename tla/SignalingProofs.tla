-------------------------- MODULE SignalingProofs --------------------------
(***************************************************************************)
(* The two processes and the server between them.                          *)
(***************************************************************************)
EXTENDS Signaling, FiniteSetTheorems, TLAPS

SP == INSTANCE SignalingServerProofs
        WITH Keys <- {Users}, Tokens <- Users, MaxCandidates <- MaxIce
CP == INSTANCE SignalingClientProofs
        WITH Clients <- Users, Processes <- Users,
             ProcessOf <- [u \in Users |-> u], MaxCandidates <- MaxIce

-----------------------------------------------------------------------------
(* S is the module that SP proves about.                                   *)

\* The methods of device that call no other one mean the same.
LEMMA SameMethods ==
    /\ S!State = SP!State /\ S!Quiet = SP!Quiet
    /\ \A s, d : S!Partner(s, d) = SP!Partner(s, d)
    /\ \A s, d, m : S!Send(s, d, m) = SP!Send(s, d, m)
    /\ \A s, b, w : S!BoostAssert(s, b, w) = SP!BoostAssert(s, b, w)
    /\ \A s, d, n : S!SendIce(s, d, n) = SP!SendIce(s, d, n)
    /\ \A s, d : S!NewDevice(s, d) = SP!NewDevice(s, d)
    /\ \A s, d : S!Destroy(s, d) = SP!Destroy(s, d)
    /\ \A s, d : S!ResetPartner(s, d) = SP!ResetPartner(s, d)
  BY DEF S!State, SP!State, S!Quiet, SP!Quiet, S!Partner, SP!Partner, S!Send, SP!Send,
         S!BoostAssert, SP!BoostAssert, S!SendIce, SP!SendIce, S!NewDevice, SP!NewDevice,
         S!Destroy, SP!Destroy, S!ResetPartner, SP!ResetPartner

\* So does negotiate(),
LEMMA SameNegotiate == ASSUME NEW s, NEW d PROVE S!Negotiate(s, d) = SP!Negotiate(s, d)
  BY DEF S!Negotiate, SP!Negotiate, S!Partner, SP!Partner, S!Send, SP!Send

\* send_answer(), which calls it twice,
LEMMA SameSendAnswer == ASSUME NEW s, NEW d PROVE S!SendAnswer(s, d) = SP!SendAnswer(s, d)
<1> DEFINE a == [SP!BoostAssert(SP!Send(s, d, "answer"), d \in s.active, "send_answer:46")
                   EXCEPT !.active = @ \ {d}]
           e == SP!Negotiate(a, d)
<1>1. S!Negotiate([S!BoostAssert(S!Send(s, d, "answer"), d \in s.active, "send_answer:46")
                     EXCEPT !.active = @ \ {d}], d) = e
  BY SameMethods, SameNegotiate
<1> HIDE DEF a, e
<1>2. S!SendAnswer(s, d) = IF d \in e.active THEN e
                           ELSE IF SP!Partner(e, d) = None
                                THEN SP!BoostAssert(e, FALSE, "send_answer:52")
                           ELSE SP!Negotiate(e, SP!Partner(e, d))
  BY <1>1, SameMethods, SameNegotiate DEF S!SendAnswer
<1>3. SP!SendAnswer(s, d) = IF d \in e.active THEN e
                           ELSE IF SP!Partner(e, d) = None
                                THEN SP!BoostAssert(e, FALSE, "send_answer:52")
                           ELSE SP!Negotiate(e, SP!Partner(e, d))
  BY DEF SP!SendAnswer, e, a
<1> QED
  BY <1>2, <1>3

\* and set_partner(), which calls all of them.
LEMMA SameSetPartner == ASSUME NEW s, NEW d, NEW p PROVE S!SetPartner(s, d, p) = SP!SetPartner(s, d, p)
<1>1. ASSUME NEW r PROVE S!SendCache(r, d) = SP!SendCache(r, d)
  BY SameMethods, SameSendAnswer DEF S!SendCache, SP!SendCache
<1> QED
  BY <1>1, SameNegotiate DEF S!SetPartner, SP!SetPartner

\* The end of a handler is the same, asserted or not.
LEMMA SameBecome ==
    ASSUME NEW s PROVE (S!Become(s) <=> SP!Become(s)) /\ (S!Aborts(s) <=> SP!Aborts(s))
  BY SameMethods DEF S!Become, SP!Become, S!Aborts, SP!Aborts

\* So is what a handler asks of the registry.
LEMMA SameGuards ==
    /\ S!Running <=> SP!Running
    /\ \A c : S!Handles(c) <=> SP!Handles(c)
    /\ \A k, t : S!SlotOf(k, t) = SP!SlotOf(k, t)
    /\ \A k, i, t : S!HasToken(k, i, t) <=> SP!HasToken(k, i, t)
    /\ S!Index = SP!Index /\ S!registry = SP!registry /\ S!devices = SP!devices
  BY DEF S!Running, SP!Running, S!Handles, SP!Handles, S!SlotOf, SP!SlotOf, S!HasToken,
         SP!HasToken, S!Index, SP!Index, S!registry, SP!registry, S!devices, SP!devices

\* Every handler of a message is the same step.
LEMMA SameMessages ==
    ASSUME NEW c
    PROVE  /\ S!Accept(c) <=> SP!Accept(c)
           /\ S!OnWantToNegotiate(c) <=> SP!OnWantToNegotiate(c)
           /\ S!OnAnswer(c) <=> SP!OnAnswer(c)
           /\ S!OnOffer(c) <=> SP!OnOffer(c)
           /\ S!OnIceCandidate(c) <=> SP!OnIceCandidate(c)
           /\ S!OnClosed(c) <=> SP!OnClosed(c)
<1>1. S!Accept(c) <=> SP!Accept(c)
  BY SameMethods, SameGuards DEF S!Accept, SP!Accept,
        S!registry, SP!registry, S!devices, SP!devices
<1>2. S!OnWantToNegotiate(c) <=> SP!OnWantToNegotiate(c)
  BY SameMethods, SameNegotiate, SameBecome, SameGuards DEF S!OnWantToNegotiate, SP!OnWantToNegotiate,
        S!registry, SP!registry, S!devices, SP!devices
<1>3. S!OnAnswer(c) <=> SP!OnAnswer(c)
  BY SameMethods, SameSendAnswer, SameBecome, SameGuards DEF S!OnAnswer, SP!OnAnswer,
        S!registry, SP!registry, S!devices, SP!devices
<1>4. S!OnOffer(c) <=> SP!OnOffer(c)
  BY SameMethods, SameBecome, SameGuards DEF S!OnOffer, SP!OnOffer,
        S!registry, SP!registry, S!devices, SP!devices
<1>5. S!OnIceCandidate(c) <=> SP!OnIceCandidate(c)
  BY SameMethods, SameBecome, SameGuards DEF S!OnIceCandidate, SP!OnIceCandidate,
        S!registry, SP!registry, S!devices, SP!devices
<1>6. S!OnClosed(c) <=> SP!OnClosed(c)
  BY SameMethods, SameBecome, SameGuards DEF S!OnClosed, SP!OnClosed,
        S!registry, SP!registry, S!devices, SP!devices
<1> QED
  BY <1>1, <1>2, <1>3, <1>4, <1>5, <1>6

\* So is a registration.
LEMMA SameRegister ==
    ASSUME NEW c, NEW k, NEW t PROVE S!Register(c, k, t) <=> SP!Register(c, k, t)
  BY SameMethods, SameSetPartner, SameBecome, SameGuards DEF S!Register, SP!Register,
        S!registry, SP!registry, S!devices, SP!devices

-----------------------------------------------------------------------------
(* C is the module that CP proves about.                                   *)

\* What a client is made of means the same.
LEMMA SameSending ==
    /\ C!Client = CP!Client /\ C!Silent = CP!Silent
    /\ \A f : C!Fatal(f) <=> CP!Fatal(f)
    /\ \A u : C!Alive(u) <=> CP!Alive(u)
    /\ \A u : C!Runs(u) <=> CP!Runs(u)
    /\ \A s, u, b, w : C!Fault(s, u, b, w) = CP!Fault(s, u, b, w)
    /\ \A s, u, m : C!Transmit(s, u, m) = CP!Transmit(s, u, m)
    /\ \A s, u : C!IsConnected(s, u) <=> CP!IsConnected(s, u)
    /\ \A s, u : C!SendCache(s, u) = CP!SendCache(s, u)
  BY DEF C!Client, CP!Client, C!Silent, CP!Silent, C!NoFault, CP!NoFault, C!Fatal, CP!Fatal,
         C!Lethal, CP!Lethal, C!Alive, CP!Alive, C!Runs, CP!Runs, C!Fault, CP!Fault,
         C!Transmit, CP!Transmit, C!IsConnected, CP!IsConnected, C!SendCache, CP!SendCache

\* So do the four messages a client is asked to send.
LEMMA SameSends ==
    ASSUME NEW s, NEW u
    PROVE  /\ C!SendOffer(s, u) = CP!SendOffer(s, u)
           /\ C!SendAnswer(s, u) = CP!SendAnswer(s, u)
           /\ C!SendWantToNegotiate(s, u) = CP!SendWantToNegotiate(s, u)
           /\ C!SendIceCandidate(s, u) = CP!SendIceCandidate(s, u)
           /\ C!SendBy(u, s) <=> CP!SendBy(u, s)
  BY SameSending
     DEF C!SendOffer, CP!SendOffer, C!SendAnswer, CP!SendAnswer, C!SendWantToNegotiate,
         CP!SendWantToNegotiate, C!SendIceCandidate, CP!SendIceCandidate, C!SendBy, CP!SendBy

\* Every handler of a client is the same step.
LEMMA SameClient ==
    ASSUME NEW u
    PROVE  /\ C!Connect(u) <=> CP!Connect(u)
           /\ \A w : C!Connected(u, w) <=> CP!Connected(u, w)
           /\ C!ConnectFailed(u) <=> CP!ConnectFailed(u)
           /\ C!Closed(u) <=> CP!Closed(u)
           /\ C!Expire(u) <=> CP!Expire(u)
           /\ C!OnTimeout(u) <=> CP!OnTimeout(u)
<1>1. C!Connect(u) <=> CP!Connect(u)
  BY SameSending DEF C!Connect, CP!Connect, C!caches, CP!caches, C!timer, CP!timer
<1>2. ASSUME NEW w PROVE C!Connected(u, w) <=> CP!Connected(u, w)
  BY SameSending, SameSends DEF C!Connected, CP!Connected, C!timer, CP!timer
<1>3. C!ConnectFailed(u) <=> CP!ConnectFailed(u)
  BY SameSending DEF C!ConnectFailed, CP!ConnectFailed, C!caches, CP!caches, C!timer, CP!timer
<1>4. C!Closed(u) <=> CP!Closed(u)
  BY SameSending, SameSends DEF C!Closed, CP!Closed, C!caches, CP!caches, C!timer, CP!timer
<1>5. C!Expire(u) <=> CP!Expire(u)
  BY SameSending DEF C!Expire, CP!Expire, C!caches, CP!caches
<1>6. C!OnTimeout(u) <=> CP!OnTimeout(u)
  BY SameSending DEF C!OnTimeout, CP!OnTimeout, C!caches, CP!caches
<1> QED
  BY <1>1, <1>2, <1>3, <1>4, <1>5, <1>6

-----------------------------------------------------------------------------
(* The invariant of the whole, whatever is cut.                            *)

ChannelsTyped ==
    /\ toServer \in [Conns -> Seq(C!Sendable)]
    /\ toClient \in [Conns -> Seq(S!Messages)]
    /\ cut \subseteq Conns

PeersTyped ==
    /\ p2pConnected \subseteq Users /\ p2pWants \subseteq Users
    /\ p2pFaults \subseteq Users
    /\ rtc \in [Users -> {"stable", "have-local-offer", "have-remote-offer"}]
    /\ making \in [Users -> Seq({"offer", "answer"})]
    /\ changed \subseteq Users /\ needed \subseteq Users /\ local \subseteq Users
    /\ changes \in [Users -> 0..MaxChanges] /\ gathered \in [Users -> 0..MaxIce]

\* What a client caches it gathered before.
CandidatesGathered == \A u \in Users : candidates[u] <= gathered[u]

\* A client that was made has tried to connect.
Linked == \A u \in Users : delegate[u] # "absent" => HasLink(u)

\* The server has a device for the connection of a client, or has the
\* registration still to read.
Registers ==
    \A u \in Users :
        delegate[u] = "open" /\ conn[Link(u)] = "open" /\ ~Down(Link(u)) =>
            Link(u) \in live \/ toServer[Link(u)] # <<>>

PairInv ==
    /\ SP!IInv /\ CP!ClientInv
    /\ ChannelsTyped /\ PeersTyped
    /\ CandidatesGathered /\ Linked /\ Registers

\* The bounds, one by one, and what SignalingServer and SignalingClient assume.
LEMMA Bounds ==
    /\ MaxIce \in Nat /\ MaxConnects \in Nat /\ MaxChanges \in Nat /\ Asserts \in BOOLEAN
    /\ None \notin Conns /\ None \notin Users
    /\ [u \in Users |-> u] \in [Users -> Users]
  BY SignalingAssumption

\* The members of a connection.
LEMMA ConnParts ==
    /\ \A c \in Conns : c[1] \in Users /\ c[2] \in 1..MaxConnects /\ c = <<c[1], c[2]>>
    /\ \A u \in Users, n \in 1..MaxConnects : <<u, n>> \in Conns
  BY DEF Conns

\* The connection of a client is one of Conns.
LEMMA LinkTyped ==
    ASSUME CP!ClientInv, NEW u \in Users, HasLink(u) PROVE Link(u) \in Conns
<1>1. connects[u] \in 1..MaxConnects
  BY Bounds DEF CP!ClientInv, CP!ClientTypeOK, HasLink
<1> QED
  BY <1>1, ConnParts DEF Link

\* What is uploaded comes behind what is under way.
LEMMA UploadLemma ==
    ASSUME ChannelsTyped, sent' \in [Users -> Seq(C!Sendable)], Upload
    PROVE  /\ toServer' \in [Conns -> Seq(C!Sendable)]
           /\ \A c \in Conns : toServer[c] # <<>> => toServer'[c] # <<>>
<1>1. ASSUME NEW c \in Conns
      PROVE  /\ toServer'[c] \in Seq(C!Sendable)
             /\ toServer[c] # <<>> => toServer'[c] # <<>>
  <2>1. toServer[c] \in Seq(C!Sendable) /\ sent'[c[1]] \in Seq(C!Sendable)
    BY ConnParts DEF ChannelsTyped
  <2>2. toServer'[c] \in {toServer[c], toServer[c] \o sent'[c[1]]}
    BY DEF Upload
  <2>3. \A a, b \in Seq(C!Sendable) : a \o b \in Seq(C!Sendable) /\ (a # <<>> => a \o b # <<>>)
    OBVIOUS
  <2> QED
    BY <2>1, <2>2, <2>3
<1>2. toServer' = [c \in Conns |-> toServer'[c]]
  BY DEF Upload
<1> QED
  BY <1>1, <1>2

\* The server's output comes behind what is under way.
LEMMA DownloadLemma ==
    ASSUME ChannelsTyped, out' \in [Conns -> Seq(S!Messages)], Download
    PROVE  toClient' \in [Conns -> Seq(S!Messages)]
<1>1. ASSUME NEW c \in Conns PROVE toClient'[c] \in Seq(S!Messages)
  <2>1. toClient[c] \in Seq(S!Messages) /\ out'[c] \in Seq(S!Messages)
    BY DEF ChannelsTyped
  <2>2. toClient'[c] \in {toClient[c], toClient[c] \o out'[c]}
    BY DEF Download
  <2>3. \A a, b \in Seq(S!Messages) : a \o b \in Seq(S!Messages)
    OBVIOUS
  <2> QED
    BY <2>1, <2>2, <2>3
<1>2. toClient' = [c \in Conns |-> toClient'[c]]
  BY DEF Download
<1> QED
  BY <1>1, <1>2

-----------------------------------------------------------------------------
(* The server in the whole.                                                *)

\* It starts as it does on its own.
LEMMA ServerStarts == Init => SP!ServerInit
  BY SameMethods, SameGuards DEF Init, S!ServerInit, SP!ServerInit

\* Every step is one of the server, or none.
LEMMA ServerDriven ==
    ASSUME CP!ClientInv, ChannelsTyped, Linked, [Next]_vars
    PROVE [SP!ServerNext]_SP!serverVars
<1> USE DEF server, SP!serverVars, SP!registry, SP!devices
<1>1. CASE UNCHANGED vars
  BY <1>1 DEF vars
<1>2. ASSUME NEW u \in Users, Client(u) \/ CutLink(u) \/ Change(u) \/ SendIceCandidate(u)
      PROVE  UNCHANGED SP!serverVars
  BY <1>2 DEF Client, Connect, Connected, ConnectFailed, ClientLoses, Timer, OnCreateOffer,
              OnOffer, OnAnswer, OnIceCandidate, SendOffer, SendAnswer, NextMessage, Makes,
              CutLink, Change, SendIceCandidate
<1>3. ASSUME NEW u \in Users, Accept(u) PROVE SP!ServerNext
  <2>1. Link(u) \in Conns /\ SP!Accept(Link(u))
    BY <1>3, LinkTyped, SameMessages DEF Accept
  <2> QED
    BY <2>1 DEF SP!ServerNext
<1>4. ASSUME NEW c \in Conns, ServerLoses(c) PROVE SP!ServerNext
  <2>1. SP!OnClosed(c)
    BY <1>4, SameMessages DEF ServerLoses
  <2> QED
    BY <2>1 DEF SP!ServerNext
<1>5. ASSUME NEW c \in Conns, ServerReceives(c) PROVE SP!ServerNext
  <2>0. Head(toServer[c]) \in C!Sendable
    <3>1. toServer[c] \in Seq(C!Sendable) /\ toServer[c] # <<>>
      BY <1>5 DEF ChannelsTyped, ServerReceives
    <3> QED
      BY <3>1
  <2>1. \/ SP!Register(c, Users, c[1]) \/ SP!OnWantToNegotiate(c) \/ SP!OnOffer(c)
        \/ SP!OnAnswer(c) \/ SP!OnIceCandidate(c)
    BY <1>5, <2>0, SameMessages, SameRegister DEF ServerReceives, C!Sendable
  <2>2. c[1] \in Users
    BY ConnParts
  <2> QED
    BY <2>1, <2>2 DEF SP!ServerNext
<1> QED
  BY <1>1, <1>2, <1>3, <1>4, <1>5 DEF Next, Server

-----------------------------------------------------------------------------
(* The clients in the whole.                                               *)

\* What every step leaves to be true of the clients.
ClientsKept ==
    /\ CP!ClientInv'
    /\ \A u \in Users : C!Alive(u)' => C!Alive(u)
    /\ CandidatesGathered' /\ Linked'

\* A user whose connection is open, and who opened it before or just now.
StaysOpen(u) ==
    delegate'[u] = "open" =>
        /\ connects'[u] = connects[u]
        /\ delegate[u] = "open" \/ (sent'[u] # <<>> /\ Upload /\ UNCHANGED conn)

\* Nothing gets lost on the way to the server from a client that stays.
ClientStep == ClientsKept /\ \A u \in Users : StaysOpen(u)

\* The layer above a client sends through it.
LEMMA SendsKeep ==
    ASSUME PairInv, NEW u \in Users, Lives(u), NEW s, CP!Own(s, u), s.delegate = delegate,
           Sends(u, s),
           \/ /\ s.candidates = candidates
              /\ gathered' = gathered
           \/ /\ s.candidates \in {candidates, [candidates EXCEPT ![u] = @ + 1]}
              /\ gathered' = [gathered EXCEPT ![u] = @ + 1]
    PROVE  ClientStep
<1>1. /\ CP!ClientInv /\ CP!Runs(u) /\ CP!SendBy(u, s)
      /\ UNCHANGED <<connects, registered, stopped, callback, waiting, expired>>
  BY SameSending, SameSends DEF PairInv, Lives, Sends
<1>2. /\ CP!ClientInv' /\ candidates' \in {candidates, s.candidates}
      /\ delegate' = delegate /\ \A p \in Users : CP!Alive(p)' => CP!Alive(p)
  BY <1>1, Bounds, CP!SendsStep DEF CP!timer
<1>3. CandidatesGathered'
  <2>1. /\ candidates \in [Users -> 0..MaxIce] /\ gathered \in [Users -> 0..MaxIce]
        /\ \A v \in Users : candidates[v] <= gathered[v]
    BY DEF PairInv, CandidatesGathered, CP!ClientInv, CP!ClientTypeOK, PeersTyped
  <2>2. \A v \in Users : (candidates'[v] = candidates[v] /\ gathered'[v] = gathered[v])
           \/ (candidates'[v] \in {candidates[v], candidates[v] + 1} /\ gathered'[v] = gathered[v] + 1)
    BY <1>2, <2>1
  <2> QED
    BY <2>1, <2>2, Bounds DEF CandidatesGathered
<1>4. \A v \in Users : C!Alive(v)' => C!Alive(v)
  BY <1>2 DEF C!Alive, CP!Alive, C!Fatal, CP!Fatal, C!Lethal, CP!Lethal
<1> QED
  BY <1>1, <1>2, <1>3, <1>4 DEF PairInv, ClientStep, ClientsKept, StaysOpen, Linked, HasLink

\* Who sends nothing leaves the clients as they are.
LEMMA ClientsRest ==
    ASSUME PairInv, UNCHANGED clients, UNCHANGED gathered
    PROVE  ClientStep
<1> USE DEF clients
<1>1. CP!ClientInv'
  BY DEF PairInv, CP!ClientInv, CP!ClientTypeOK, CP!NothingCachedOnline, CP!Caches,
         CP!RetryIsArmed, CP!Alone, CP!Alive, CP!StoppedHasDelegate
<1>2. \A u \in Users : C!Alive(u)' => C!Alive(u)
  BY DEF C!Alive
<1>3. CandidatesGathered' /\ Linked'
  BY DEF PairInv, CandidatesGathered, Linked, HasLink
<1>4. \A u \in Users : StaysOpen(u)
  BY DEF StaysOpen
<1> QED
  BY <1>1, <1>2, <1>3, <1>4 DEF ClientStep, ClientsKept

\* A step that caches nothing leaves what is cached gathered.
LEMMA StillGathered ==
    ASSUME PairInv, \A u \in Users : candidates'[u] \in {0, candidates[u]}, UNCHANGED gathered
    PROVE  CandidatesGathered'
<1>1. \A u \in Users : gathered[u] \in 0..MaxIce /\ candidates[u] <= gathered[u]
  BY DEF PairInv, PeersTyped, CandidatesGathered
<1> QED
  BY <1>1, Bounds DEF CandidatesGathered

\* A client is made.
LEMMA ConnectKeeps ==
    ASSUME PairInv, NEW u \in Users, Connect(u) PROVE ClientStep
<1>1. CP!Connect(u) /\ CP!ClientInv
  BY SameClient DEF Connect, PairInv
<1>2. CP!ClientInv'
  BY <1>1, Bounds, CP!ConnectStep
<1>3. /\ delegate' = [delegate EXCEPT ![u] = "connecting"]
      /\ connects' = [connects EXCEPT ![u] = @ + 1]
      /\ UNCHANGED <<candidates, faults, gathered>>
  BY <1>1 DEF CP!Connect, Connect, CP!caches, peerConnection
<1>4. /\ delegate \in [Users -> CP!Delegates] /\ connects \in [Users -> 0..MaxConnects]
  BY DEF PairInv, CP!ClientInv, CP!ClientTypeOK
<1>5. \A v \in Users : C!Alive(v)' => C!Alive(v)
  BY <1>3 DEF C!Alive
<1>6. CandidatesGathered'
  BY <1>3, StillGathered
<1>7. Linked'
  BY <1>3, <1>4, Bounds DEF PairInv, Linked, HasLink
<1>8. \A v \in Users : StaysOpen(v)
  BY <1>3, <1>4 DEF StaysOpen
<1> QED
  BY <1>2, <1>5, <1>6, <1>7, <1>8 DEF ClientStep, ClientsKept

\* Its connection is open.
LEMMA ConnectedKeeps ==
    ASSUME PairInv, NEW u \in Users, Connected(u) PROVE ClientStep
<1> DEFINE wish == u \in p2pWants
<1>1. CP!Connected(u, wish) /\ CP!ClientInv /\ wish \in BOOLEAN
  BY SameClient DEF Connected, PairInv
<1> HIDE DEF wish
<1>2. /\ CP!ClientInv' /\ \A d \in Users : candidates'[d] \in {0, candidates[d]}
      /\ delegate' = [delegate EXCEPT ![u] = "open"] /\ faults' = faults
      /\ sent'[u] # <<>>
  BY <1>1, Bounds, CP!ConnectedStep
<1>3. UNCHANGED <<connects, gathered, conn>> /\ delegate[u] = "connecting" /\ Upload
  BY <1>1 DEF CP!Connected, Connected, peerConnection, server
<1>4. /\ delegate \in [Users -> CP!Delegates] /\ connects \in [Users -> 0..MaxConnects]
  BY DEF PairInv, CP!ClientInv, CP!ClientTypeOK
<1>5. \A v \in Users : C!Alive(v)' => C!Alive(v)
  BY <1>2 DEF C!Alive
<1>6. CandidatesGathered'
  BY <1>2, <1>3, StillGathered
<1>7. Linked'
  BY <1>2, <1>3, <1>4 DEF PairInv, Linked, HasLink
<1>8. \A v \in Users : StaysOpen(v)
  BY <1>2, <1>3, <1>4 DEF StaysOpen
<1> QED
  BY <1>2, <1>5, <1>6, <1>7, <1>8 DEF ClientStep, ClientsKept

\* Its connection does not come about.
LEMMA ConnectFailedKeeps ==
    ASSUME PairInv, NEW u \in Users, ConnectFailed(u) PROVE ClientStep
<1>1. CP!ConnectFailed(u) /\ CP!ClientInv
  BY SameClient DEF ConnectFailed, PairInv
<1>2. CP!ClientInv'
  BY <1>1, Bounds, CP!ConnectFailedStep
<1>3. /\ delegate[u] = "connecting" /\ delegate' = [delegate EXCEPT ![u] = "failed"]
      /\ UNCHANGED <<connects, candidates, faults, gathered>>
  BY <1>1 DEF CP!ConnectFailed, ConnectFailed, CP!caches, peerConnection
<1>4. /\ delegate \in [Users -> CP!Delegates] /\ connects \in [Users -> 0..MaxConnects]
  BY DEF PairInv, CP!ClientInv, CP!ClientTypeOK
<1>5. \A v \in Users : C!Alive(v)' => C!Alive(v)
  BY <1>3 DEF C!Alive
<1>6. CandidatesGathered'
  BY <1>3, StillGathered
<1>7. Linked'
  BY <1>3, <1>4, Bounds DEF PairInv, Linked, HasLink
<1>8. \A v \in Users : StaysOpen(v)
  BY <1>3, <1>4 DEF StaysOpen
<1> QED
  BY <1>2, <1>5, <1>6, <1>7, <1>8 DEF ClientStep, ClientsKept

\* It loses its connection.
LEMMA ClientLosesKeeps ==
    ASSUME PairInv, NEW u \in Users, ClientLoses(u) PROVE ClientStep
<1>1. CP!Closed(u) /\ CP!ClientInv
  BY SameClient DEF ClientLoses, PairInv
<1>2. /\ CP!ClientInv' /\ candidates' = candidates
      /\ \A p \in Users : CP!Alive(p)' => CP!Alive(p)
      /\ \A d \in Users : delegate'[d] = "open" => delegate[d] = "open"
  BY <1>1, Bounds, CP!ClosedStep
<1>3. /\ UNCHANGED <<connects, gathered>> /\ delegate[u] = "open"
      /\ \A d \in Users \ {u} : delegate'[d] = delegate[d]
  <2>1. UNCHANGED <<connects, gathered>> /\ delegate[u] = "open"
    BY <1>1 DEF CP!Closed, ClientLoses, peerConnection
  <2>2. delegate \in [Users -> CP!Delegates]
    BY DEF PairInv, CP!ClientInv, CP!ClientTypeOK
  <2> QED
    BY <1>1, <2>1, <2>2, SMTT(30) DEF CP!Closed, CP!SendBy, CP!Fault, CP!Client
<1>5. \A v \in Users : C!Alive(v)' => C!Alive(v)
  BY <1>2 DEF C!Alive, CP!Alive, C!Fatal, CP!Fatal, C!Lethal, CP!Lethal
<1>6. CandidatesGathered'
  BY <1>2, <1>3, StillGathered
<1>7. Linked'
  BY <1>2, <1>3 DEF PairInv, Linked, HasLink
<1>8. \A v \in Users : StaysOpen(v)
  BY <1>2, <1>3 DEF StaysOpen
<1> QED
  BY <1>2, <1>5, <1>6, <1>7, <1>8 DEF ClientStep, ClientsKept

\* The timer expires, or tells the client that waits for it to connect.
LEMMA TimerKeeps ==
    ASSUME PairInv, NEW u \in Users, Timer(u) PROVE ClientStep
<1>1. (CP!Expire(u) \/ CP!OnTimeout(u)) /\ CP!ClientInv
  BY SameClient DEF Timer, PairInv
<1>2. CP!ClientInv'
  BY <1>1, Bounds, CP!ExpireStep, CP!OnTimeoutStep
<1>3. /\ UNCHANGED <<candidates, faults, gathered>>
      /\ \/ UNCHANGED <<delegate, connects>>
         \/ \E v \in Users : /\ delegate' = [delegate EXCEPT ![v] = "connecting"]
                             /\ connects' = [connects EXCEPT ![v] = @ + 1]
  <2>1. UNCHANGED gathered
    BY DEF Timer, peerConnection
  <2>2. callback[u] \in Users \cup {None}
    BY DEF PairInv, CP!ClientInv, CP!ClientTypeOK
  <2> QED
    BY <1>1, <2>1, <2>2 DEF CP!Expire, CP!OnTimeout, CP!caches
<1>4. /\ delegate \in [Users -> CP!Delegates] /\ connects \in [Users -> 0..MaxConnects]
  BY DEF PairInv, CP!ClientInv, CP!ClientTypeOK
<1>5. \A v \in Users : C!Alive(v)' => C!Alive(v)
  BY <1>3 DEF C!Alive
<1>6. CandidatesGathered'
  BY <1>3, StillGathered
<1>7. Linked'
  BY <1>3, <1>4, Bounds DEF PairInv, Linked, HasLink
<1>8. \A v \in Users : StaysOpen(v)
  BY <1>3, <1>4 DEF StaysOpen
<1> QED
  BY <1>2, <1>5, <1>6, <1>7, <1>8 DEF ClientStep, ClientsKept

\* s is what the clients are after sending methods of u, which cached no candidate.
SentBy(s, u) == CP!Own(s, u) /\ s.delegate = delegate /\ s.candidates = candidates

\* Nothing was sent when a handler begins.
LEMMA NothingSent == ASSUME PairInv, NEW u \in Users PROVE SentBy(C!Client, u)
<1>1. CP!ClientTypeOK /\ CP!NothingCachedOnline
  BY DEF PairInv, CP!ClientInv
<1>2. CP!Own(CP!Client, u) /\ CP!Client.delegate = delegate
        /\ CP!Client.candidates = candidates
  BY <1>1, Bounds, CP!ClientLemma
<1> QED
  BY <1>2, SameSending DEF SentBy

\* Every message may follow.
LEMMA MoreSent ==
    ASSUME PairInv, NEW u \in Users, NEW s, SentBy(s, u)
    PROVE  /\ SentBy(C!SendOffer(s, u), u) /\ SentBy(C!SendAnswer(s, u), u)
           /\ SentBy(C!SendWantToNegotiate(s, u), u)
           /\ SentBy(NegotiationNeeded(s, u), u) /\ SentBy(StableAgain(s, u), u)
<1>1. ASSUME NEW t \in {CP!SendOffer(s, u), CP!SendAnswer(s, u), CP!SendWantToNegotiate(s, u)}
      PROVE  SentBy(t, u)
  <2>1. CP!Own(t, u) /\ t.delegate = s.delegate /\ t.candidates = s.candidates
    BY CP!SendLemma, Bounds DEF SentBy
  <2> QED
    BY <2>1 DEF SentBy
<1>2. /\ SentBy(C!SendOffer(s, u), u) /\ SentBy(C!SendAnswer(s, u), u)
      /\ SentBy(C!SendWantToNegotiate(s, u), u)
  BY <1>1, SameSends
<1> QED
  BY <1>2 DEF NegotiationNeeded, StableAgain

\* A message of the user's own, or of its PeerConnection, goes to the client.
LEMMA PeerKeeps ==
    ASSUME PairInv, NEW u \in Users,
           Change(u) \/ OnAnswer(u) \/ SendOffer(u) \/ SendAnswer(u)
    PROVE  ClientStep
<1>1. Lives(u) /\ UNCHANGED gathered
  BY DEF Change, OnAnswer, SendOffer, SendAnswer, NextMessage, Makes
<1>2. UNCHANGED clients \/ \E s : SentBy(s, u) /\ Sends(u, s)
  <2>1. SentBy(C!Client, u)
    BY NothingSent
  <2>2. CASE Change(u)
    BY <2>1, <2>2, MoreSent DEF Change
  <2>3. CASE OnAnswer(u)
    BY <2>1, <2>3, MoreSent DEF OnAnswer
  <2>4. CASE SendOffer(u)
    BY <2>1, <2>4, MoreSent DEF SendOffer
  <2>5. CASE SendAnswer(u)
    BY <2>1, <2>5, MoreSent DEF SendAnswer
  <2> QED
    BY <2>2, <2>3, <2>4, <2>5
<1> QED
  BY <1>1, <1>2, ClientsRest, SendsKeep DEF SentBy

\* A gathered candidate does, too.
LEMMA CandidateKeeps ==
    ASSUME PairInv, NEW u \in Users, SendIceCandidate(u)
    PROVE  ClientStep
<1> DEFINE s == CP!SendIceCandidate(CP!Client, u)
<1>1. /\ Lives(u) /\ gathered[u] < MaxIce /\ Sends(u, s)
      /\ gathered' = [gathered EXCEPT ![u] = @ + 1]
  BY SameSends, SameSending DEF SendIceCandidate
<1>2. CP!Own(CP!Client, u) /\ CP!Client.delegate = delegate
        /\ CP!Client.candidates = candidates
  BY NothingSent, SameSending DEF SentBy
<1>3. CP!Client.candidates[u] < MaxIce
  <2>1. candidates[u] <= gathered[u] /\ candidates[u] \in 0..MaxIce /\ gathered[u] \in 0..MaxIce
    BY DEF PairInv, CandidatesGathered, PeersTyped, CP!ClientInv, CP!ClientTypeOK
  <2> QED
    BY <1>1, <1>2, <2>1, Bounds
<1>4. /\ CP!Own(s, u) /\ s.delegate = CP!Client.delegate
      /\ s.candidates \in {CP!Client.candidates, [CP!Client.candidates EXCEPT ![u] = @ + 1]}
  BY <1>2, <1>3, Bounds, CP!SendCandidateLemma
<1> HIDE DEF s
<1> QED
  BY <1>1, <1>2, <1>4, SendsKeep

\* Every step keeps what is known of the clients.
LEMMA ClientsStep == ASSUME PairInv, [Next]_vars PROVE ClientStep
<1>1. CASE UNCHANGED vars
  BY <1>1, ClientsRest DEF vars, peerConnection
<1>2. ASSUME NEW u \in Users, OnCreateOffer(u) \/ OnOffer(u) \/ OnIceCandidate(u) \/ CutLink(u) \/ Accept(u)
      PROVE  ClientStep
  BY <1>2, ClientsRest DEF OnCreateOffer, OnOffer, OnIceCandidate, CutLink, Accept, peerConnection
<1>3. ASSUME NEW c \in Conns, Server(c) PROVE ClientStep
  BY <1>3, ClientsRest DEF Server, ServerLoses, ServerReceives, peerConnection
<1>4. ASSUME NEW u \in Users, Client(u) \/ Change(u) \/ SendIceCandidate(u) PROVE ClientStep
  BY <1>2, <1>4, ConnectKeeps, ConnectedKeeps, ConnectFailedKeeps, ClientLosesKeeps, TimerKeeps,
     PeerKeeps, CandidateKeeps DEF Client
<1> QED
  BY <1>1, <1>2, <1>3, <1>4 DEF Next

-----------------------------------------------------------------------------
(* The network and the p2p layer.                                          *)

\* A message that is read leaves messages.
LEMMA TailTyped ==
    ASSUME NEW T, NEW q \in [Conns -> Seq(T)], NEW c, c \in Conns => q[c] # <<>>
    PROVE  [q EXCEPT ![c] = Tail(@)] \in [Conns -> Seq(T)]
<1>1. \A w \in Seq(T) : w # <<>> => Tail(w) \in Seq(T)
  OBVIOUS
<1> QED
  BY <1>1

\* What is under way to the server, and what the step does with it.
LEMMA ToServerStep ==
    ASSUME PairInv, ClientStep, [Next]_vars
    PROVE  /\ toServer' \in [Conns -> Seq(C!Sendable)]
           /\ \/ \A c \in Conns : toServer[c] # <<>> => toServer'[c] # <<>>
              \/ \E c \in Conns : /\ ServerLoses(c) \/ ServerReceives(c)
                                  /\ \A d \in Conns \ {c} : toServer'[d] = toServer[d]
<1>1. sent' \in [Users -> Seq(C!Sendable)] /\ ChannelsTyped
        /\ toServer \in [Conns -> Seq(C!Sendable)]
  BY DEF ClientStep, ClientsKept, CP!ClientInv, CP!ClientTypeOK, CP!Sendable, C!Sendable,
         PairInv, ChannelsTyped
<1>2. CASE UNCHANGED toServer
  BY <1>1, <1>2
<1>3. CASE Upload
  BY <1>1, <1>3, UploadLemma
<1>4. ASSUME NEW c \in Conns, ServerLoses(c)
      PROVE  /\ toServer' \in [Conns -> Seq(C!Sendable)]
             /\ \A d \in Conns \ {c} : toServer'[d] = toServer[d]
  BY <1>1, <1>4 DEF ServerLoses
<1>5. ASSUME NEW c \in Conns, ServerReceives(c)
      PROVE  /\ toServer' \in [Conns -> Seq(C!Sendable)]
             /\ \A d \in Conns \ {c} : toServer'[d] = toServer[d]
  <2>1. toServer[c] # <<>> /\ toServer' = [toServer EXCEPT ![c] = Tail(@)]
    BY <1>5 DEF ServerReceives
  <2> QED
    BY <1>1, <2>1, TailTyped
<1>6. CASE UNCHANGED vars
  BY <1>2, <1>6 DEF vars, net
<1>7. ASSUME NEW u \in Users, Client(u) \/ Accept(u) \/ CutLink(u) \/ Change(u) \/ SendIceCandidate(u)
      PROVE  UNCHANGED toServer \/ Upload
  BY <1>7 DEF Client, Connect, Connected, ConnectFailed, ClientLoses, Timer, OnCreateOffer,
              OnOffer, OnAnswer, OnIceCandidate, SendOffer, SendAnswer, Sends, net,
              CutLink, Change, SendIceCandidate, Accept
<1> QED
  BY <1>2, <1>3, <1>4, <1>5, <1>6, <1>7 DEF Next, Server

\* What is under way to the clients.
LEMMA ToClientStep ==
    ASSUME PairInv, SP!IInv', [Next]_vars
    PROVE  toClient' \in [Conns -> Seq(S!Messages)] /\ cut \subseteq cut' /\ cut' \subseteq Conns
<1>1. /\ out' \in [Conns -> Seq(S!Messages)] /\ ChannelsTyped
      /\ toClient \in [Conns -> Seq(S!Messages)] /\ cut \subseteq Conns
  BY DEF SP!IInv, SP!ServerTypeOK, SP!Messages, S!Messages, PairInv, ChannelsTyped
<1>2. CASE UNCHANGED <<toClient, cut>>
  BY <1>1, <1>2
<1>3. CASE Download /\ UNCHANGED cut
  BY <1>1, <1>3, DownloadLemma
<1>4. ASSUME NEW u \in Users, NEW m, NextMessage(u, m)
      PROVE  toClient' \in [Conns -> Seq(S!Messages)] /\ UNCHANGED cut
  <2>1. /\ toClient[Link(u)] # <<>> /\ UNCHANGED cut
        /\ toClient' = [toClient EXCEPT ![Link(u)] = Tail(@)]
    BY <1>4 DEF NextMessage
  <2> QED
    BY <1>1, <2>1, TailTyped
<1>5. ASSUME NEW u \in Users, ClientLoses(u)
      PROVE  toClient' \in [Conns -> Seq(S!Messages)] /\ UNCHANGED cut
  <2>1. UNCHANGED cut /\ toClient' = [toClient EXCEPT ![Link(u)] = <<>>]
    BY <1>5 DEF ClientLoses
  <2>2. <<>> \in Seq(S!Messages)
    OBVIOUS
  <2> QED
    BY <1>1, <2>1, <2>2
<1>6. ASSUME NEW u \in Users, CutLink(u)
      PROVE  UNCHANGED toClient /\ cut \subseteq cut' /\ cut' \subseteq Conns
  <2>1. UNCHANGED toClient /\ cut' = cut \cup {Link(u)} /\ delegate[u] # "absent"
    BY <1>6 DEF CutLink
  <2>2. Link(u) \in Conns
    BY <2>1, LinkTyped DEF PairInv, Linked
  <2> QED
    BY <1>1, <2>1, <2>2
<1>7. CASE UNCHANGED vars
  BY <1>2, <1>7 DEF vars, net
<1>8. ASSUME NEW u \in Users, Client(u) \/ Accept(u) \/ Change(u) \/ SendIceCandidate(u)
      PROVE  UNCHANGED <<toClient, cut>> \/ ClientLoses(u) \/ \E m : NextMessage(u, m)
  BY <1>8 DEF Client, Connect, Connected, ConnectFailed, Timer, OnCreateOffer,
              OnOffer, OnAnswer, OnIceCandidate, SendOffer, SendAnswer, Makes, net,
              Change, SendIceCandidate, Accept
<1>9. ASSUME NEW c \in Conns, Server(c)
      PROVE  UNCHANGED <<toClient, cut>> \/ (Download /\ UNCHANGED cut)
  BY <1>9 DEF Server, ServerLoses, ServerReceives
<1> QED
  BY <1>1, <1>2, <1>3, <1>4, <1>5, <1>6, <1>7, <1>8, <1>9 DEF Next

\* The p2p layer and the PeerConnections keep their types.
LEMMA PeersStep == ASSUME PairInv, [Next]_vars PROVE PeersTyped'
<1> USE DEF PairInv, PeersTyped
<1>1. CASE UNCHANGED <<signals, peerConnection>>
  BY <1>1 DEF signals, peerConnection
<1>2. ASSUME NEW u \in Users, Connected(u) PROVE PeersTyped'
  BY <1>2 DEF Connected, peerConnection
<1>3. ASSUME NEW u \in Users, Change(u) PROVE PeersTyped'
  BY <1>3, Bounds DEF Change
<1>4. \A w \in Seq({"offer", "answer"}) :
         /\ Append(w, "offer") \in Seq({"offer", "answer"})
         /\ Append(w, "answer") \in Seq({"offer", "answer"})
         /\ w # <<>> => Tail(w) \in Seq({"offer", "answer"})
  OBVIOUS
<1>5. ASSUME NEW u \in Users, OnCreateOffer(u) PROVE PeersTyped'
  BY <1>4, <1>5 DEF OnCreateOffer, signals
<1>6. ASSUME NEW u \in Users, OnOffer(u) PROVE PeersTyped'
  <2>1. UNCHANGED <<p2pConnected, p2pWants, changed, needed, changes, local, gathered>>
    BY <1>6 DEF OnOffer
  <2>2. \/ p2pFaults' = p2pFaults \cup {u} /\ UNCHANGED <<rtc, making>>
        \/ /\ rtc' = [rtc EXCEPT ![u] = "have-remote-offer"]
           /\ making' = [making EXCEPT ![u] = Append(@, "answer")] /\ UNCHANGED p2pFaults
    BY <1>6 DEF OnOffer
  <2>3. p2pFaults' \subseteq Users
    BY <2>2
  <2>4. rtc' \in [Users -> {"stable", "have-local-offer", "have-remote-offer"}]
    BY <2>2
  <2>5. making' \in [Users -> Seq({"offer", "answer"})]
    <3>1. making[u] \in Seq({"offer", "answer"})
      OBVIOUS
    <3>2. Append(making[u], "answer") \in Seq({"offer", "answer"})
      BY <1>4, <3>1
    <3> QED
      BY <2>2, <3>2
  <2> QED
    BY <2>1, <2>3, <2>4, <2>5
<1>7. ASSUME NEW u \in Users, OnAnswer(u) PROVE PeersTyped'
  BY <1>7 DEF OnAnswer, BecomesStable
<1>8. ASSUME NEW u \in Users, SendOffer(u) PROVE PeersTyped'
  BY <1>4, <1>8 DEF SendOffer, Makes
<1>9. ASSUME NEW u \in Users, SendAnswer(u) PROVE PeersTyped'
  BY <1>4, <1>9 DEF SendAnswer, Makes, BecomesStable
<1>10. ASSUME NEW u \in Users, SendIceCandidate(u) PROVE PeersTyped'
  BY <1>10, Bounds DEF SendIceCandidate, signals
<1>11. ASSUME NEW u \in Users,
              Connect(u) \/ ConnectFailed(u) \/ ClientLoses(u) \/ Timer(u) \/ OnIceCandidate(u)
                \/ Accept(u) \/ CutLink(u)
       PROVE  UNCHANGED <<signals, peerConnection>>
  BY <1>11 DEF Connect, ConnectFailed, ClientLoses, Timer, OnIceCandidate, Accept, CutLink
<1>12. ASSUME NEW c \in Conns, Server(c) PROVE UNCHANGED <<signals, peerConnection>>
  BY <1>12 DEF Server, ServerLoses, ServerReceives
<1>13. CASE UNCHANGED vars
  BY <1>1, <1>13 DEF vars
<1> QED
  BY <1>1, <1>2, <1>3, <1>5, <1>6, <1>7, <1>8, <1>9, <1>10, <1>11, <1>12, <1>13 DEF Next, Client

-----------------------------------------------------------------------------
(* Who is back is registered, or about to be.                              *)

\* An end that is there was there before.
LEMMA UpBefore ==
    ASSUME [SP!ServerNext]_SP!serverVars, ClientStep, cut \subseteq cut', NEW c \in Conns, ~Down(c)'
    PROVE  ~Down(c) /\ S!Running'
<1>1. failed \subseteq failed'
  <2>1. ASSUME NEW s, SP!Become(s) PROVE failed \subseteq failed'
    BY <2>1 DEF SP!Become
  <2>2. ASSUME NEW d \in Conns, NEW k, NEW t, SP!Register(d, k, t) PROVE failed \subseteq failed'
    BY <2>1, <2>2 DEF SP!Register
  <2>3. ASSUME NEW d \in Conns, SP!OnWantToNegotiate(d) PROVE failed \subseteq failed'
    BY <2>1, <2>3 DEF SP!OnWantToNegotiate
  <2>4. ASSUME NEW d \in Conns, SP!OnAnswer(d) PROVE failed \subseteq failed'
    BY <2>1, <2>4 DEF SP!OnAnswer
  <2>5. ASSUME NEW d \in Conns, SP!OnOffer(d) PROVE failed \subseteq failed'
    BY <2>1, <2>5 DEF SP!OnOffer
  <2>6. ASSUME NEW d \in Conns, SP!OnIceCandidate(d) PROVE failed \subseteq failed'
    BY <2>1, <2>6 DEF SP!OnIceCandidate
  <2>7. ASSUME NEW d \in Conns, SP!OnClosed(d) PROVE failed \subseteq failed'
    BY <2>1, <2>7 DEF SP!OnClosed
  <2>8. UNCHANGED SP!serverVars => failed \subseteq failed'
    BY DEF SP!serverVars
  <2>9. ASSUME NEW d \in Conns, SP!Accept(d) PROVE failed \subseteq failed'
    BY <2>9 DEF SP!Accept
  <2> QED
    BY <2>2, <2>3, <2>4, <2>5, <2>6, <2>7, <2>8, <2>9 DEF SP!ServerNext
<1>2. c[1] \in Users
  BY ConnParts
<1> QED
  BY <1>1, <1>2 DEF Down, S!Running, ClientStep, ClientsKept

\* The server opens connections only for clients that wait for it.
LEMMA OpenBefore ==
    ASSUME PairInv, [Next]_vars, NEW u \in Users, delegate[u] = "open",
           Link(u) \in Conns, conn'[Link(u)] = "open"
    PROVE  conn[Link(u)] = "open"
<1> DEFINE c == Link(u)
<1>1. conn \in [Conns -> {"idle", "open", "closed"}]
  BY DEF PairInv, SP!IInv, SP!ServerTypeOK
<1>2. CASE UNCHANGED conn
  BY <1>2
<1>3. ASSUME NEW v \in Users, Accept(v) PROVE conn[c] = "open"
  <2>1. delegate[v] = "connecting" /\ conn' = [conn EXCEPT ![Link(v)] = "open"]
    BY <1>3 DEF Accept, S!Accept
  <2>2. Link(v) # c
    BY <2>1 DEF Link
  <2> HIDE DEF c
  <2>3. conn'[c] = conn[c]
    BY <1>1, <2>1, <2>2
  <2> QED
    BY <2>3 DEF c
<1>4. ASSUME NEW d \in Conns, ServerLoses(d) PROVE conn[c] = "open"
  <2>1. conn' = [conn EXCEPT ![d] = "closed"]
    BY <1>4 DEF ServerLoses, S!OnClosed
  <2> QED
    BY <1>1, <2>1
<1>5. ASSUME NEW d \in Conns, ServerReceives(d) PROVE conn[c] = "open"
  <2>1. Head(toServer[d]) \in C!Sendable
    <3>1. toServer[d] \in Seq(C!Sendable) /\ toServer[d] # <<>>
      BY <1>5 DEF PairInv, ChannelsTyped, ServerReceives
    <3> QED
      BY <3>1
  <2>2. SP!Register(d, Users, d[1]) \/ UNCHANGED conn
    BY <1>5, <2>1, SameMessages, SameRegister
       DEF ServerReceives, C!Sendable, SP!OnWantToNegotiate, SP!OnOffer, SP!OnAnswer,
           SP!OnIceCandidate, SP!registry
  <2>3. ASSUME SP!Register(d, Users, d[1]), conn' # conn PROVE conn[c] = "open"
    <3>1. PICK old : conn' = [x \in Conns |-> IF x = old THEN "closed" ELSE conn[x]]
      BY <2>3 DEF SP!Register, SP!registry
    <3> HIDE DEF c
    <3> QED
      BY <3>1 DEF c
  <2> QED
    BY <1>2, <2>2, <2>3
<1>6. ASSUME NEW v \in Users, Client(v) \/ CutLink(v) \/ Change(v) \/ SendIceCandidate(v)
      PROVE  UNCHANGED conn
  BY <1>6 DEF server, Client, Connect, Connected, ConnectFailed, ClientLoses, Timer, OnCreateOffer,
              OnOffer, OnAnswer, OnIceCandidate, SendOffer, SendAnswer, NextMessage, Makes,
              CutLink, Change, SendIceCandidate
<1> QED
  BY <1>2, <1>3, <1>4, <1>5, <1>6 DEF Next, Server, vars, server

\* So who is back and whose connection the server sees is registered, or has
\* the registration under way.
LEMMA RegistersStep ==
    ASSUME PairInv, SP!IInv', ClientStep, [Next]_vars,
           [SP!ServerNext]_SP!serverVars, cut \subseteq cut',
           \/ \A c \in Conns : toServer[c] # <<>> => toServer'[c] # <<>>
           \/ \E c \in Conns : /\ ServerLoses(c) \/ ServerReceives(c)
                               /\ \A d \in Conns \ {c} : toServer'[d] = toServer[d]
    PROVE  Registers'
<1> SUFFICES ASSUME NEW u \in Users, delegate'[u] = "open", (conn[Link(u)] = "open")', ~Down(Link(u))'
             PROVE  (Link(u) \in live \/ toServer[Link(u)] # <<>>)'
  BY DEF Registers
<1> DEFINE c == Link(u)
<1>1. connects'[u] = connects[u] /\ c \in Conns /\ (c = c')
  <2>1. connects'[u] = connects[u]
    BY DEF ClientStep, StaysOpen
  <2>2. HasLink(u)
    BY <2>1 DEF ClientStep, ClientsKept, Linked, HasLink
  <2> QED
    BY <2>1, <2>2, LinkTyped DEF PairInv, Link
<1>2. ~Down(c) /\ S!Running' /\ conn'[c] = "open" /\ c[1] = u
  <2>1. ~Down(c)'
    BY <1>1
  <2> QED
    BY <1>1, <2>1, UpBefore DEF Link
<1>3. ASSUME c \in live PROVE c \in live'
  BY <1>2, <1>3, SP!DevicesStay, Bounds DEF PairInv
<1> HIDE DEF c
<1> SUFFICES c \in live' \/ toServer'[c] # <<>>
  BY <1>1 DEF c
<1>4. CASE delegate[u] # "open"
  <2>1. sent'[u] # <<>> /\ Upload /\ conn'[c] = conn[c]
    BY <1>4 DEF ClientStep, StaysOpen
  <2>2. sent'[u] \in Seq(C!Sendable) /\ toServer[c] \in Seq(C!Sendable)
    BY <1>1 DEF ClientStep, ClientsKept, CP!ClientInv, CP!ClientTypeOK, CP!Sendable, C!Sendable,
                PairInv, ChannelsTyped
  <2>3. c \notin cut /\ conn[c] # "closed"
    BY <1>2, <2>1 DEF Down
  <2>4. c = <<c[1], connects'[c[1]]>>
    BY <1>1, <1>2 DEF c, Link
  <2>5. toServer'[c] = toServer[c] \o sent'[u]
    BY <1>1, <1>2, <2>1, <2>3, <2>4 DEF Upload
  <2>6. \A a, b \in Seq(C!Sendable) : b # <<>> => a \o b # <<>>
    OBVIOUS
  <2> QED
    BY <2>1, <2>2, <2>5, <2>6
<1>5. CASE delegate[u] = "open"
  <2>1. conn[c] = "open"
    BY <1>1, <1>2, <1>5, OpenBefore DEF c
  <2>2. c \in live \/ toServer[c] # <<>>
    BY <1>2, <1>5, <2>1 DEF PairInv, Registers, c
  <2>3. ASSUME ServerLoses(c) PROVE FALSE
    BY <1>2, <2>3 DEF ServerLoses
  <2>4. ASSUME ServerReceives(c) PROVE c \in live \/ c \in live'
    <3>1. Head(toServer[c]) \in C!Sendable
      <4>1. toServer[c] \in Seq(C!Sendable) /\ toServer[c] # <<>>
        BY <1>1, <2>4 DEF PairInv, ChannelsTyped, ServerReceives
      <4> QED
        BY <4>1
    <3>2. SP!Register(c, Users, c[1]) \/ c \in live
      BY <2>4, <3>1, SameMessages, SameRegister
         DEF ServerReceives, C!Sendable, SP!OnWantToNegotiate, SP!OnOffer, SP!OnAnswer,
             SP!OnIceCandidate, SP!Handles
    <3>3. SP!Running'
      BY <1>2 DEF S!Running, SP!Running
    <3> QED
      BY <1>1, <3>2, <3>3, ConnParts, Bounds, SP!RegisteredLives DEF PairInv
  <2> QED
    BY <1>1, <1>3, <2>2, <2>3, <2>4
<1> QED
  BY <1>4, <1>5

-----------------------------------------------------------------------------
(* The theorems, cuts included.                                            *)

\* Two processes and a server that just started are in order.
LEMMA PairInit == Init => PairInv
<1> SUFFICES ASSUME Init PROVE PairInv
  OBVIOUS
<1>1. SP!IInv
  BY ServerStarts, Bounds, SP!InitLemma
<1>2. CP!ClientInv
  <2>1. CP!ClientInit
    BY DEF Init, C!ClientInit, CP!ClientInit, C!Silent, CP!Silent, C!NoFault, CP!NoFault
  <2> QED
    BY <2>1, Bounds, CP!ClientInitially
<1>3. ChannelsTyped
  <2>1. <<>> \in Seq(C!Sendable) /\ <<>> \in Seq(S!Messages)
    OBVIOUS
  <2> QED
    BY <2>1 DEF Init, ChannelsTyped
<1>4. PeersTyped
  <2>1. <<>> \in Seq({"offer", "answer"})
    OBVIOUS
  <2> QED
    BY <2>1, Bounds DEF Init, PeersTyped
<1>5. CandidatesGathered /\ Linked /\ Registers
  BY DEF Init, C!ClientInit, CandidatesGathered, Linked, Registers
<1> QED
  BY <1>1, <1>2, <1>3, <1>4, <1>5 DEF PairInv

\* Every step of either end, of the server or of the network keeps the order.
LEMMA PairNext == PairInv /\ [Next]_vars => PairInv' /\ [SP!ServerNext]_SP!serverVars
<1> SUFFICES ASSUME PairInv, [Next]_vars PROVE PairInv' /\ [SP!ServerNext]_SP!serverVars
  OBVIOUS
<1>1. [SP!ServerNext]_SP!serverVars
  BY ServerDriven DEF PairInv
<1>2. SP!IInv'
  BY <1>1, Bounds, SP!NextLemma DEF PairInv
<1>3. ClientStep
  BY ClientsStep
<1>4. /\ toClient' \in [Conns -> Seq(S!Messages)] /\ cut \subseteq cut' /\ cut' \subseteq Conns
  BY <1>2, ToClientStep
<1>5. /\ toServer' \in [Conns -> Seq(C!Sendable)]
      /\ \/ \A c \in Conns : toServer[c] # <<>> => toServer'[c] # <<>>
         \/ \E c \in Conns : /\ ServerLoses(c) \/ ServerReceives(c)
                             /\ \A d \in Conns \ {c} : toServer'[d] = toServer[d]
  BY <1>3, ToServerStep
<1>6. ChannelsTyped'
  BY <1>4, <1>5 DEF ChannelsTyped
<1>7. Registers'
  BY <1>1, <1>2, <1>3, <1>4, <1>5, RegistersStep
<1>8. PeersTyped'
  BY PeersStep
<1> QED
  BY <1>1, <1>2, <1>3, <1>6, <1>7, <1>8 DEF PairInv, ClientStep, ClientsKept

\* The two processes and the server stay in order, whatever is cut.
THEOREM PairInvariant == Spec => []PairInv
BY PairInit, PairNext, PTL DEF Spec

\* Every variable of the pair keeps its type, the channels and the p2p layer
\* included.
THEOREM PairTyped == Spec => []TypeOK
<1>1. PairInv => TypeOK
  BY DEF PairInv, ChannelsTyped, PeersTyped, TypeOK, SP!IInv, SP!ServerTypeOK, S!ServerTypeOK,
         CP!ClientInv, CP!ClientTypeOK, C!ClientTypeOK, S!Index, SP!Index, S!ConnsOrNone,
         SP!ConnsOrNone, S!Messages, SP!Messages, S!Assertions, SP!Assertions, C!Delegates,
         CP!Delegates, C!Sendable, CP!Sendable, C!Faults, CP!Faults, C!Lethal, CP!Lethal
<1> QED
  BY <1>1, PairInvariant, PTL

\* Between two processes the server does nothing but what it does among any
\* clients, so all that is proved of it holds here.
THEOREM ServerImplements == Spec => S!ServerSpec
<1>1. Init => S!ServerInit
  BY DEF Init
<1>2. [SP!ServerNext]_SP!serverVars => [S!ServerNext]_S!serverVars
  BY SameMessages, SameRegister
     DEF S!ServerNext, SP!ServerNext, S!serverVars, SP!serverVars, S!registry, SP!registry,
         S!devices, SP!devices
<1> QED
  BY <1>1, <1>2, PairNext, PairInvariant, PTL DEF Spec, S!ServerSpec

\* Two processes are two.
LEMMA Peers ==
    ASSUME NEW u \in Users
    PROVE  Peer(u) \in Users /\ Peer(u) # u /\ Users = {u, Peer(u)}
<1>1. Cardinality(Users \ {u}) = 1 /\ IsFiniteSet(Users \ {u})
  BY TwoUsers, FS_RemoveElement
<1>2. PICK v : Users \ {u} = {v}
  BY <1>1, FS_Singleton
<1>3. \A w \in Users : w # u <=> w = v
  BY <1>2
<1>4. Peer(u) = v
  BY <1>2, <1>3 DEF Peer
<1> QED
  BY <1>2, <1>4

\* When everybody is back and has been read, the pair is a pair again.
LEMMA Restored == ASSUME PairInv PROVE PairIsRestored
<1> SUFFICES ASSUME S!Running,
                    \A v \in Users : delegate[v] = "open" /\ conn[Link(v)] = "open" /\ ~Down(Link(v)),
                    \A c \in Conns : conn[c] = "open" => toServer[c] = <<>>,
                    NEW u \in Users
             PROVE  Link(u) \in live /\ partner[Link(u)] = Link(Peer(u))
  BY DEF PairIsRestored
<1> DEFINE p == Peer(u)
<1>1. \A v \in Users : Link(v) \in live
  BY LinkTyped DEF PairInv, Linked, Registers
<1>2. p \in Users /\ p # u
  BY Peers
<1>3. PICK i \in {0, 1} : slot[Users][i] = Link(u)
  BY <1>1 DEF PairInv, SP!IInv, SP!RegistryHoldsTheLive, SP!Index
<1>4. PICK j \in {0, 1} : slot[Users][j] = Link(p)
  BY <1>1, <1>2 DEF PairInv, SP!IInv, SP!RegistryHoldsTheLive, SP!Index
<1>5. Link(u) # Link(p)
  BY <1>2 DEF Link
<1>6. j = 1 - i
  BY <1>3, <1>4, <1>5
<1>7. slot[Users][i] # None
  <2>1. Link(u) \in Conns
    BY LinkTyped DEF PairInv, Linked
  <2> QED
    BY <1>3, <2>1, Bounds
<1>8. partner[slot[Users][i]] = slot[Users][1 - i]
  BY <1>7 DEF PairInv, SP!IInv, SP!PartnersAreMutual, SP!Index
<1> QED
  BY <1>1, <1>3, <1>4, <1>6, <1>8

\* Cut connections heal (registration_handler.cpp:44-99): whatever the order in which the
\* server learns of the connections that are gone and of those that replace them.
THEOREM CutsHeal == Spec => []PairHeals
<1>1. PairInv => PairIsRestored
  BY Restored
<1> QED
  BY <1>1, PairInvariant, PairTyped, PTL DEF PairHeals

-----------------------------------------------------------------------------
(* The messages of a queue.                                                *)

Has(q, m) == \E i \in 1..Len(q) : q[i] = m

\* Nothing that drives an exchange is twice in a queue.
Once(q, m) == \A i, j \in 1..Len(q) : q[i] = m /\ q[j] = m => i = j
Clear(q) == Once(q, "create_offer") /\ Once(q, "offer") /\ Once(q, "answer")

\* An answer comes before what begins the next exchange.
AnswerFirst(q) ==
    \A i, j \in 1..Len(q) : q[i] = "answer" /\ q[j] \in {"create_offer", "offer"} => i < j

\* A queue that ends in m has what it had, and m.
LEMMA Appended ==
    ASSUME NEW T, NEW q \in Seq(T), NEW m \in T
    PROVE  /\ Append(q, m) \in Seq(T)
           /\ \A x : Has(Append(q, m), x) <=> Has(q, x) \/ x = m
           /\ \A x : Once(q, x) /\ ~(x = m /\ Has(q, x)) => Once(Append(q, m), x)
           /\ AnswerFirst(q) /\ ~(m = "answer" /\ (Has(q, "create_offer") \/ Has(q, "offer")))
                 => AnswerFirst(Append(q, m))
<1> DEFINE r == Append(q, m)
<1>1. /\ r \in Seq(T) /\ Len(r) = Len(q) + 1 /\ Len(q) \in Nat /\ r[Len(q) + 1] = m
      /\ \A i \in 1..Len(q) : r[i] = q[i]
  OBVIOUS
<1> HIDE DEF r
<1>2. 1..Len(r) = 1..Len(q) \cup {Len(q) + 1}
  BY <1>1
<1>3. \A x : Has(r, x) <=> Has(q, x) \/ x = m
  BY <1>1, <1>2 DEF Has
<1>4. \A x : Once(q, x) /\ ~(x = m /\ Has(q, x)) => Once(r, x)
  BY <1>1, <1>2 DEF Has, Once
<1>5. AnswerFirst(q) /\ ~(m = "answer" /\ (Has(q, "create_offer") \/ Has(q, "offer")))
         => AnswerFirst(r)
  BY <1>1, <1>2 DEF Has, AnswerFirst
<1> QED
  BY <1>1, <1>3, <1>4, <1>5 DEF r

\* A queue without its first message.
LEMMA Taken ==
    ASSUME NEW T, NEW q \in Seq(T), q # <<>>
    PROVE  /\ Tail(q) \in Seq(T) /\ Head(q) \in T
           /\ \A x : Has(q, x) <=> Has(Tail(q), x) \/ x = Head(q)
           /\ \A x : Once(q, x) => Once(Tail(q), x)
           /\ Once(q, Head(q)) => ~Has(Tail(q), Head(q))
           /\ AnswerFirst(q) => AnswerFirst(Tail(q))
           /\ AnswerFirst(q) /\ Head(q) \in {"create_offer", "offer"} => ~Has(q, "answer")
<1> DEFINE r == Tail(q)
<1>1. /\ r \in Seq(T) /\ Head(q) \in T /\ Len(q) = Len(r) + 1 /\ Len(r) \in Nat /\ q[1] = Head(q)
      /\ \A i \in 1..Len(r) : r[i] = q[i + 1]
  OBVIOUS
<1> HIDE DEF r
<1>2. \A i \in 1..Len(q) : i = 1 \/ (i - 1 \in 1..Len(r) /\ r[i - 1] = q[i])
  BY <1>1
<1>3. \A i \in 1..Len(r) : i + 1 \in 1..Len(q) /\ q[i + 1] = r[i] /\ i + 1 # 1
  BY <1>1
<1>4. 1 \in 1..Len(q)
  BY <1>1
<1>5. ASSUME NEW x PROVE Has(q, x) <=> Has(r, x) \/ x = Head(q)
  <2>1. Has(q, x) => Has(r, x) \/ x = Head(q)
    BY <1>1, <1>2 DEF Has
  <2>2. Has(r, x) => Has(q, x)
    BY <1>3 DEF Has
  <2>3. x = Head(q) => Has(q, x)
    BY <1>1, <1>4 DEF Has
  <2> QED
    BY <2>1, <2>2, <2>3
<1>6. \A x : Once(q, x) => Once(r, x)
  BY <1>1, <1>3 DEF Once
<1>7. Once(q, Head(q)) => ~Has(r, Head(q))
  BY <1>1, <1>3, <1>4 DEF Once, Has
<1>8. AnswerFirst(q) => AnswerFirst(r)
  BY <1>1, <1>3 DEF AnswerFirst
<1>9. AnswerFirst(q) /\ Head(q) \in {"create_offer", "offer"} => ~Has(q, "answer")
  <2> SUFFICES ASSUME AnswerFirst(q), Head(q) \in {"create_offer", "offer"},
                      NEW i \in 1..Len(q), q[i] = "answer"
               PROVE  FALSE
    BY DEF Has
  <2>1. i < 1
    BY <1>1, <1>4 DEF AnswerFirst
  <2> QED
    BY <1>1, <2>1
<1> QED
  BY <1>1, <1>5, <1>6, <1>7, <1>8, <1>9 DEF r

\* A queue with candidates behind it.
LEMMA Joined ==
    ASSUME NEW T, NEW q \in Seq(T), NEW w \in Seq(T), SP!OnlyCandidates(w)
    PROVE  /\ q \o w \in Seq(T)
           /\ \A x : x # "ice_candidate" => (Has(q \o w, x) <=> Has(q, x))
           /\ \A x : x # "ice_candidate" /\ Once(q, x) => Once(q \o w, x)
           /\ AnswerFirst(q) => AnswerFirst(q \o w)
<1> DEFINE r == q \o w
<1>1. /\ r \in Seq(T) /\ Len(r) = Len(q) + Len(w) /\ Len(q) \in Nat /\ Len(w) \in Nat
      /\ \A i \in 1..Len(q) : r[i] = q[i]
      /\ \A i \in 1..Len(w) : r[Len(q) + i] = w[i]
  OBVIOUS
<1> HIDE DEF r
<1>2. \A i \in 1..Len(w) : w[i] = "ice_candidate"
  BY DEF SP!OnlyCandidates
<1>3. \A i \in 1..Len(q) : i \in 1..Len(r)
  BY <1>1
<1>4. ASSUME NEW i \in 1..Len(r), r[i] # "ice_candidate" PROVE i \in 1..Len(q) /\ r[i] = q[i]
  <2>1. CASE i <= Len(q)
    BY <1>1, <2>1
  <2>2. CASE ~(i <= Len(q))
    <3>1. i - Len(q) \in 1..Len(w) /\ Len(q) + (i - Len(q)) = i
      BY <1>1, <2>2
    <3> QED
      BY <1>1, <1>2, <1>4, <3>1
  <2> QED
    BY <2>1, <2>2
<1>5. \A x : x # "ice_candidate" => (Has(r, x) <=> Has(q, x))
  BY <1>1, <1>3, <1>4 DEF Has
<1>6. \A x : x # "ice_candidate" /\ Once(q, x) => Once(r, x)
  BY <1>4 DEF Once
<1>7. AnswerFirst(q) => AnswerFirst(r)
  BY <1>4 DEF AnswerFirst
<1> QED
  BY <1>1, <1>5, <1>6, <1>7 DEF r

\* Messages behind a queue one by one.
LEMMA Following ==
    ASSUME NEW T, NEW q \in Seq(T)
    PROVE  /\ q \o <<>> = q /\ <<>> \o q = q /\ <<>> \in Seq(T)
           /\ \A v \in Seq(T), m \in T : q \o Append(v, m) = Append(q \o v, m)
  OBVIOUS

-----------------------------------------------------------------------------
(* A pair whose connections hold: every client has one connection and      *)
(* every exchange is in one place.                                         *)

Line(u) == <<u, 1>>
Uplink(u) == toServer[Line(u)]
Downlink(u) == toClient[Line(u)]

\* The places of what u does about an offer of its own,
Told(u) == Has(Downlink(u), "create_offer")
MakesOffer(u) == making[u] = Append(<<>>, "offer")
SentOffer(u) == Has(Uplink(u), "offer")
GetsAnswer(u) == Has(Downlink(u), "answer")

\* and about one of its peer.
GetsOffer(u) == Has(Downlink(u), "offer")
MakesAnswer(u) == making[u] = Append(<<>>, "answer")
SentAnswer(u) == Has(Uplink(u), "answer")

\* The server's side of it.
Negotiates(u) == Line(u) \in active
Waits(u) == Line(u) \in wants
SentWish(u) == Has(Uplink(u), "want_to_negotiate")

\* An exchange that u began is in one place until v answered it, and its
\* answer is the last of it.
Exchange(u, v) ==
    /\ Negotiates(u) <=> \/ Told(u) \/ MakesOffer(u) \/ SentOffer(u)
                         \/ GetsOffer(v) \/ MakesAnswer(v) \/ SentAnswer(v)
    /\ Told(u) => ~(MakesOffer(u) \/ SentOffer(u) \/ GetsOffer(v) \/ MakesAnswer(v) \/ SentAnswer(v))
    /\ MakesOffer(u) => ~(SentOffer(u) \/ GetsOffer(v) \/ MakesAnswer(v) \/ SentAnswer(v))
    /\ SentOffer(u) => ~(GetsOffer(v) \/ MakesAnswer(v) \/ SentAnswer(v))
    /\ GetsOffer(v) => ~(MakesAnswer(v) \/ SentAnswer(v))
    /\ MakesAnswer(v) => ~SentAnswer(v)
    /\ GetsAnswer(u) => /\ ~(MakesOffer(u) \/ SentOffer(u) \/ GetsOffer(v) \/ MakesAnswer(v) \/ SentAnswer(v))
                        /\ ~(MakesAnswer(u) \/ SentAnswer(u) \/ GetsAnswer(v))
    /\ rtc[u] = "have-local-offer" <=>
          SentOffer(u) \/ GetsOffer(v) \/ MakesAnswer(v) \/ SentAnswer(v) \/ GetsAnswer(u)
    /\ rtc[u] = "have-remote-offer" <=> MakesAnswer(u)

\* How far it has come, and that a step leaves it there or takes it on.
Phase(u, v) ==
    IF SentOffer(u) \/ GetsOffer(v) THEN "offered"
    ELSE IF MakesAnswer(v) THEN "received"
    ELSE IF SentAnswer(v) \/ GetsAnswer(u) THEN "answered"
    ELSE "none"

Keeps(u, v) == Phase(u, v)' = Phase(u, v)

Turns(u, v, from, to) == Phase(u, v) = from /\ Phase(u, v)' = to /\ Keeps(v, u)

\* A wish is never forgotten before it became an offer.
Wishes(u) ==
    /\ u \in needed => \/ u \in p2pWants \/ SentWish(u) \/ Waits(u) \/ Told(u)
                       \/ MakesOffer(u) \/ rtc[u] # "stable"
    /\ u \in changed /\ rtc[u] = "stable" => u \in needed

\* The messages that drive an exchange come one by one.
Ordered(u) ==
    /\ Clear(Uplink(u)) /\ Clear(Downlink(u)) /\ AnswerFirst(Downlink(u))
    /\ making[u] = <<>> \/ MakesOffer(u) \/ MakesAnswer(u)

\* Every client had one connection, on which it registered as itself.
ServerHolds ==
    /\ cut = {} /\ failed = {} /\ offers = {} /\ answers = {}
    /\ \A c \in Conns : conn[c] # "closed" /\ (conn[c] = "open" => c[2] = 1)
    /\ \A c \in live : regToken[c] = c[1]

\* A client caches nothing, loses nothing and does nothing before it is open.
ClientHolds(u) ==
    /\ faults[u] = {} /\ ~waiting[u] /\ ~expired[u] /\ candidates[u] = 0
    /\ u \notin offerCache /\ u \notin answerCache /\ u \notin wantCache
    /\ u \notin stopped /\ u \notin p2pFaults
    /\ delegate[u] \in {"absent", "connecting", "open"}
    /\ connects[u] = IF delegate[u] = "absent" THEN 0 ELSE 1
    /\ u \in registered <=> delegate[u] = "open"
    /\ u \in p2pConnected <=> delegate[u] = "open"
    /\ delegate[u] = "open" => u \notin p2pWants /\ conn[Line(u)] = "open"
    /\ delegate[u] # "open" => /\ Uplink(u) = <<>> /\ Line(u) \notin live
                               /\ making[u] = <<>> /\ u \notin local
                               /\ rtc[u] = "stable"

Holds(u) == ClientHolds(u) /\ Ordered(u) /\ Wishes(u) /\ Exchange(u, Peer(u))

Calm == ServerHolds /\ \A u \in Users : Holds(u)

\* The connection of a client is the first one.
LEMMA Lines ==
    /\ \A u \in Users : Line(u) \in Conns /\ Line(u)[1] = u /\ Line(u)[2] = 1
    /\ \A u, v \in Users : u # v => Line(u) # Line(v)
    /\ \A c \in Conns : c[2] = 1 => c = Line(c[1]) /\ c[1] \in Users
<1>1. 1 \in 1..MaxConnects
  BY Bounds, SignalingAssumption
<1> QED
  BY <1>1, ConnParts DEF Line

\* The users are a user and its peer, and each is the peer of the other.
LEMMA Both ==
    ASSUME NEW u \in Users
    PROVE  /\ Peer(u) \in Users /\ Peer(u) # u /\ Peer(Peer(u)) = u
           /\ \A v \in Users : v = u \/ v = Peer(u)
  BY Peers

\* So what holds of both holds of the pair.
LEMMA CalmOfBoth ==
    ASSUME NEW u \in Users, NEW v, v = Peer(u), ServerHolds',
           ClientHolds(u)', Ordered(u)', Wishes(u)', Exchange(u, v)',
           ClientHolds(v)', Ordered(v)', Wishes(v)', Exchange(v, u)'
    PROVE  Calm'
<1>1. \A x \in Users : x = u \/ x = v
  BY Both
<1>2. Peer(u) = v /\ Peer(v) = u
  BY Both
<1>3. Holds(u)' /\ Holds(v)'
  BY <1>2 DEF Holds
<1> QED
  BY <1>1, <1>3 DEF Calm

\* What holds of a user and its peer.
LEMMA CalmBoth ==
    ASSUME Calm, NEW u \in Users, NEW v, v = Peer(u)
    PROVE  /\ ServerHolds /\ v \in Users /\ v # u /\ Line(u) \in Conns /\ Line(v) \in Conns
           /\ Line(u) # Line(v)
           /\ ClientHolds(u) /\ Ordered(u) /\ Wishes(u) /\ Exchange(u, v)
           /\ ClientHolds(v) /\ Ordered(v) /\ Wishes(v) /\ Exchange(v, u)
  BY Both, Lines DEF Calm, Holds

\* What is under way from x, to x, at x and for x at the server is as it was.
SameUp(x) ==
    /\ SentOffer(x)' <=> SentOffer(x)
    /\ SentAnswer(x)' <=> SentAnswer(x)
    /\ SentWish(x)' <=> SentWish(x)
    /\ Clear(Uplink(x)) => Clear(Uplink(x))'

SameDown(x) ==
    /\ Told(x)' <=> Told(x)
    /\ GetsOffer(x)' <=> GetsOffer(x)
    /\ GetsAnswer(x)' <=> GetsAnswer(x)
    /\ Clear(Downlink(x)) => Clear(Downlink(x))'
    /\ AnswerFirst(Downlink(x)) => AnswerFirst(Downlink(x))'

SameMaking(x) ==
    /\ making'[x] = making[x]
    /\ MakesOffer(x)' <=> MakesOffer(x)
    /\ MakesAnswer(x)' <=> MakesAnswer(x)

SameServer(x) ==
    /\ Negotiates(x)' <=> Negotiates(x)
    /\ Waits(x)' <=> Waits(x)

\* It is when the variables behind it are.
LEMMA Unchanged ==
    ASSUME NEW x
    PROVE  /\ Uplink(x)' = Uplink(x) => SameUp(x)
           /\ Downlink(x)' = Downlink(x) => SameDown(x)
           /\ making'[x] = making[x] => SameMaking(x)
           /\ UNCHANGED <<active, wants>> => SameServer(x)
<1>1. ASSUME Uplink(x)' = Uplink(x) PROVE SameUp(x)
  <2>1. \A m : Has(Uplink(x)', m) <=> Has(Uplink(x), m)
    BY <1>1
  <2>2. Clear(Uplink(x)') <=> Clear(Uplink(x))
    BY <1>1
  <2> QED
    BY <2>1, <2>2 DEF SameUp, SentOffer, SentAnswer, SentWish
<1>2. ASSUME Downlink(x)' = Downlink(x) PROVE SameDown(x)
  <2>1. \A m : Has(Downlink(x)', m) <=> Has(Downlink(x), m)
    BY <1>2
  <2>2. /\ Clear(Downlink(x)') <=> Clear(Downlink(x))
        /\ AnswerFirst(Downlink(x)') <=> AnswerFirst(Downlink(x))
    BY <1>2
  <2> QED
    BY <2>1, <2>2 DEF SameDown, Told, GetsOffer, GetsAnswer
<1>3. ASSUME making'[x] = making[x] PROVE SameMaking(x)
  BY <1>3 DEF SameMaking, MakesOffer, MakesAnswer
<1>4. ASSUME UNCHANGED <<active, wants>> PROVE SameServer(x)
  BY <1>4 DEF SameServer, Negotiates, Waits
<1> QED
  BY <1>1, <1>2, <1>3, <1>4

\* x sends a message that its side of an exchange leaves room for.
Puts(x, m) ==
    /\ SentOffer(x)' <=> SentOffer(x) \/ m = "offer"
    /\ SentAnswer(x)' <=> SentAnswer(x) \/ m = "answer"
    /\ SentWish(x)' <=> SentWish(x) \/ m = "want_to_negotiate"
    /\ /\ Clear(Uplink(x))
       /\ m = "offer" => ~SentOffer(x)
       /\ m = "answer" => ~SentAnswer(x)
       => Clear(Uplink(x))'

\* It is behind the others.
LEMMA PutsLemma ==
    ASSUME ChannelsTyped, NEW x \in Users, NEW m \in C!Sendable, m # "create_offer",
           Uplink(x)' = Append(Uplink(x), m)
    PROVE  Puts(x, m)
<1> DEFINE q == Uplink(x)
<1>1. q \in Seq(C!Sendable)
  BY Lines DEF ChannelsTyped, Uplink
<1>2. /\ \A y : Has(Append(q, m), y) <=> Has(q, y) \/ y = m
      /\ \A y : Once(q, y) /\ ~(y = m /\ Has(q, y)) => Once(Append(q, m), y)
  BY <1>1, Appended
<1>3. Uplink(x)' = Append(q, m)
  OBVIOUS
<1>4. /\ SentOffer(x)' <=> Has(Append(q, m), "offer")
      /\ SentAnswer(x)' <=> Has(Append(q, m), "answer")
      /\ SentWish(x)' <=> Has(Append(q, m), "want_to_negotiate")
      /\ Clear(Append(q, m)) => Clear(Uplink(x))'
  BY <1>3 DEF SentOffer, SentAnswer, SentWish
<1> QED
  BY <1>2, <1>4 DEF Puts, SentOffer, SentAnswer, SentWish, Clear

\* The server reads a message of x, x one of the server.
Gives(x, m) ==
    /\ m = "offer" => SentOffer(x)
    /\ m = "answer" => SentAnswer(x)
    /\ Clear(Uplink(x)) => /\ Clear(Uplink(x))'
                           /\ SentOffer(x)' <=> SentOffer(x) /\ m # "offer"
                           /\ SentAnswer(x)' <=> SentAnswer(x) /\ m # "answer"
    /\ SentWish(x) => SentWish(x)' \/ m = "want_to_negotiate"

\* It was the first one.
LEMMA GivesLemma ==
    ASSUME ChannelsTyped, NEW x \in Users, Uplink(x) # <<>>, NEW m, m = Head(Uplink(x)),
           Uplink(x)' = Tail(Uplink(x))
    PROVE  Gives(x, m) /\ m \in C!Sendable
<1> DEFINE q == Uplink(x)
<1>1. q \in Seq(C!Sendable)
  BY Lines DEF ChannelsTyped, Uplink
<1>2. /\ m \in C!Sendable
      /\ \A y : Has(q, y) <=> Has(Tail(q), y) \/ y = m
      /\ \A y : Once(q, y) => Once(Tail(q), y)
      /\ Once(q, m) => ~Has(Tail(q), m)
  BY <1>1, Taken
<1>3. Uplink(x)' = Tail(q)
  OBVIOUS
<1>4. /\ SentOffer(x)' <=> Has(Tail(q), "offer")
      /\ SentAnswer(x)' <=> Has(Tail(q), "answer")
      /\ SentWish(x)' <=> Has(Tail(q), "want_to_negotiate")
      /\ Clear(Tail(q)) => Clear(Uplink(x))'
  BY <1>3 DEF SentOffer, SentAnswer, SentWish
<1> QED
  BY <1>2, <1>4 DEF Gives, SentOffer, SentAnswer, SentWish, Clear

\* x reads a message of the server.
Gets(x, m) ==
    /\ m = "create_offer" => Told(x)
    /\ m = "offer" => GetsOffer(x)
    /\ m = "answer" => GetsAnswer(x)
    /\ Clear(Downlink(x)) => /\ Clear(Downlink(x))'
                             /\ Told(x)' <=> Told(x) /\ m # "create_offer"
                             /\ GetsOffer(x)' <=> GetsOffer(x) /\ m # "offer"
                             /\ GetsAnswer(x)' <=> GetsAnswer(x) /\ m # "answer"
    /\ AnswerFirst(Downlink(x)) =>
          /\ AnswerFirst(Downlink(x))'
          /\ m \in {"create_offer", "offer"} => ~GetsAnswer(x)

\* It was the first one.
LEMMA GetsLemma ==
    ASSUME ChannelsTyped, NEW x \in Users, Downlink(x) # <<>>, NEW m, m = Head(Downlink(x)),
           Downlink(x)' = Tail(Downlink(x))
    PROVE  Gets(x, m)
<1> DEFINE q == Downlink(x)
<1>1. q \in Seq(S!Messages)
  BY Lines DEF ChannelsTyped, Downlink
<1>2. /\ \A y : Has(q, y) <=> Has(Tail(q), y) \/ y = m
      /\ \A y : Once(q, y) => Once(Tail(q), y)
      /\ Once(q, m) => ~Has(Tail(q), m)
      /\ AnswerFirst(q) => AnswerFirst(Tail(q))
      /\ AnswerFirst(q) /\ m \in {"create_offer", "offer"} => ~Has(q, "answer")
  BY <1>1, Taken
<1>3. Downlink(x)' = Tail(q)
  OBVIOUS
<1>4. /\ Told(x)' <=> Has(Tail(q), "create_offer")
      /\ GetsOffer(x)' <=> Has(Tail(q), "offer")
      /\ GetsAnswer(x)' <=> Has(Tail(q), "answer")
      /\ Clear(Tail(q)) => Clear(Downlink(x))'
      /\ AnswerFirst(Tail(q)) => AnswerFirst(Downlink(x))'
  BY <1>3 DEF Told, GetsOffer, GetsAnswer
<1> QED
  BY <1>2, <1>4 DEF Gets, Told, GetsOffer, GetsAnswer, Clear

\* The server sends x a message that the others leave room for.
Hears(x, m) ==
    /\ Told(x)' <=> Told(x) \/ m = "create_offer"
    /\ GetsOffer(x)' <=> GetsOffer(x) \/ m = "offer"
    /\ GetsAnswer(x)' <=> GetsAnswer(x) \/ m = "answer"
    /\ /\ Clear(Downlink(x))
       /\ m = "create_offer" => ~Told(x)
       /\ m = "offer" => ~GetsOffer(x)
       /\ m = "answer" => ~GetsAnswer(x)
       => Clear(Downlink(x))'
    /\ AnswerFirst(Downlink(x)) /\ (m = "answer" => ~Told(x) /\ ~GetsOffer(x))
          => AnswerFirst(Downlink(x))'

\* It is behind the others, candidates between them or not.
LEMMA HearsLemma ==
    ASSUME ChannelsTyped, NEW x \in Users, NEW m \in S!Messages \ {"ice_candidate"},
           NEW v \in Seq(S!Messages), SP!OnlyCandidates(v),
           Downlink(x)' = Append(Downlink(x) \o v, m)
    PROVE  Hears(x, m)
<1> DEFINE q == Downlink(x)
           r == q \o v
<1>1. q \in Seq(S!Messages)
  BY Lines DEF ChannelsTyped, Downlink
<1>2. /\ r \in Seq(S!Messages)
      /\ \A y : y # "ice_candidate" => (Has(r, y) <=> Has(q, y))
      /\ \A y : y # "ice_candidate" /\ Once(q, y) => Once(r, y)
      /\ AnswerFirst(q) => AnswerFirst(r)
  BY <1>1, Joined
<1>3. Downlink(x)' = Append(r, m)
  OBVIOUS
<1> HIDE DEF r
<1>4. /\ \A y : Has(Append(r, m), y) <=> Has(r, y) \/ y = m
      /\ \A y : Once(r, y) /\ ~(y = m /\ Has(r, y)) => Once(Append(r, m), y)
      /\ AnswerFirst(r) /\ ~(m = "answer" /\ (Has(r, "create_offer") \/ Has(r, "offer")))
            => AnswerFirst(Append(r, m))
  BY <1>2, Appended
<1>5. /\ Told(x)' <=> Has(Append(r, m), "create_offer")
      /\ GetsOffer(x)' <=> Has(Append(r, m), "offer")
      /\ GetsAnswer(x)' <=> Has(Append(r, m), "answer")
      /\ Clear(Append(r, m)) => Clear(Downlink(x))'
      /\ AnswerFirst(Append(r, m)) => AnswerFirst(Downlink(x))'
  BY <1>3 DEF Told, GetsOffer, GetsAnswer
<1>6. Clear(q) => Once(r, "create_offer") /\ Once(r, "offer") /\ Once(r, "answer")
  BY <1>2 DEF Clear
<1>7. /\ Has(r, "create_offer") <=> Told(x)
      /\ Has(r, "offer") <=> GetsOffer(x)
      /\ Has(r, "answer") <=> GetsAnswer(x)
  BY <1>2 DEF Told, GetsOffer, GetsAnswer
<1> QED
  BY <1>2, <1>4, <1>5, <1>6, <1>7 DEF Hears, Clear

\* Candidates change nothing.
LEMMA HearsCandidates ==
    ASSUME ChannelsTyped, NEW x \in Users, NEW v \in Seq(S!Messages), SP!OnlyCandidates(v),
           Downlink(x)' = Downlink(x) \o v
    PROVE  SameDown(x)
<1> DEFINE q == Downlink(x)
           r == q \o v
<1>1. q \in Seq(S!Messages)
  BY Lines DEF ChannelsTyped, Downlink
<1>2. /\ \A y : y # "ice_candidate" => (Has(r, y) <=> Has(q, y))
      /\ \A y : y # "ice_candidate" /\ Once(q, y) => Once(r, y)
      /\ AnswerFirst(q) => AnswerFirst(r)
  BY <1>1, Joined
<1>3. Downlink(x)' = r
  OBVIOUS
<1> HIDE DEF r
<1>4. /\ Told(x)' <=> Has(r, "create_offer")
      /\ GetsOffer(x)' <=> Has(r, "offer")
      /\ GetsAnswer(x)' <=> Has(r, "answer")
      /\ Clear(r) => Clear(Downlink(x))'
      /\ AnswerFirst(r) => AnswerFirst(Downlink(x))'
  BY <1>3 DEF Told, GetsOffer, GetsAnswer
<1> QED
  BY <1>2, <1>4 DEF SameDown, Told, GetsOffer, GetsAnswer, Clear

\* The answer that ends the negotiation of x, and the go-ahead for the next one.
HearsBoth(x) ==
    /\ Told(x)' /\ GetsAnswer(x)'
    /\ GetsOffer(x)' <=> GetsOffer(x)
    /\ Clear(Downlink(x)) /\ ~Told(x) /\ ~GetsAnswer(x) => Clear(Downlink(x))'
    /\ AnswerFirst(Downlink(x)) /\ ~Told(x) /\ ~GetsOffer(x) => AnswerFirst(Downlink(x))'

\* They come in this order.
LEMMA HearsBothLemma ==
    ASSUME ChannelsTyped, NEW x \in Users,
           Downlink(x)' = Append(Append(Downlink(x), "answer"), "create_offer")
    PROVE  HearsBoth(x)
<1> DEFINE q == Downlink(x)
           r == Append(q, "answer")
<1>1. /\ q \in Seq(S!Messages) /\ "answer" \in S!Messages /\ "create_offer" \in S!Messages
  BY Lines DEF ChannelsTyped, Downlink, S!Messages
<1>2. /\ r \in Seq(S!Messages)
      /\ \A y : Has(r, y) <=> Has(q, y) \/ y = "answer"
      /\ \A y : Once(q, y) /\ ~(y = "answer" /\ Has(q, y)) => Once(r, y)
      /\ AnswerFirst(q) /\ ~(Has(q, "create_offer") \/ Has(q, "offer")) => AnswerFirst(r)
  BY <1>1, Appended
<1>3. Downlink(x)' = Append(r, "create_offer")
  OBVIOUS
<1> HIDE DEF r
<1>4. /\ \A y : Has(Append(r, "create_offer"), y) <=> Has(r, y) \/ y = "create_offer"
      /\ \A y : Once(r, y) /\ ~(y = "create_offer" /\ Has(r, y)) => Once(Append(r, "create_offer"), y)
      /\ AnswerFirst(r) => AnswerFirst(Append(r, "create_offer"))
  BY <1>1, <1>2, Appended
<1>5. /\ Told(x)' <=> Has(Append(r, "create_offer"), "create_offer")
      /\ GetsOffer(x)' <=> Has(Append(r, "create_offer"), "offer")
      /\ GetsAnswer(x)' <=> Has(Append(r, "create_offer"), "answer")
      /\ Clear(Append(r, "create_offer")) => Clear(Downlink(x))'
      /\ AnswerFirst(Append(r, "create_offer")) => AnswerFirst(Downlink(x))'
  BY <1>3 DEF Told, GetsOffer, GetsAnswer
<1> QED
  BY <1>2, <1>4, <1>5 DEF HearsBoth, Told, GetsOffer, GetsAnswer, Clear

-----------------------------------------------------------------------------
(* What a client of such a pair sends.                                     *)

\* The client after it sent w on behalf of u.
With(u, w) == [C!Client EXCEPT !.sent = [C!Silent EXCEPT ![u] = w]]

\* At first it sent nothing.
LEMMA WithNothing == ASSUME NEW u \in Users PROVE C!Client = With(u, <<>>)
  BY DEF With, C!Client, C!Silent

\* While its connection is open a client caches nothing.
LEMMA WithMore ==
    ASSUME NEW u \in Users, delegate[u] = "open", NEW w
    PROVE  /\ C!SendOffer(With(u, w), u) = With(u, Append(w, "offer"))
           /\ C!SendAnswer(With(u, w), u) = With(u, Append(w, "answer"))
           /\ C!SendWantToNegotiate(With(u, w), u) = With(u, Append(w, "want_to_negotiate"))
           /\ C!SendIceCandidate(With(u, w), u) = With(u, Append(w, "ice_candidate"))
<1>1. With(u, w).delegate = delegate
  BY DEF With, C!Client
<1>2. ASSUME NEW m PROVE C!Transmit(With(u, w), u, m) = With(u, Append(w, m))
  BY <1>1 DEF C!Transmit, With, C!Client, C!Silent
<1> QED
  BY <1>1, <1>2 DEF C!SendOffer, C!SendAnswer, C!SendWantToNegotiate, C!SendIceCandidate, C!IsConnected

\* What a client sends is all that changes.
LEMMA SendsEffect ==
    ASSUME PairInv, Calm, NEW u \in Users, NEW w \in Seq(C!Sendable),
           w # <<>> => delegate[u] = "open",
           Sends(u, With(u, w)), UNCHANGED <<conn, cut>>
    PROVE  /\ UNCHANGED <<delegate, connects, registered, stopped, offerCache, answerCache,
                          wantCache, candidates, waiting, expired, faults>>
           /\ Uplink(u)' = Uplink(u) \o w
           /\ \A x \in Users : x # u => Uplink(x)' = Uplink(x)
<1> DEFINE s == With(u, w)
<1>1. /\ s.delegate = delegate /\ s.offer = offerCache /\ s.answer = answerCache
      /\ s.want = wantCache /\ s.candidates = candidates /\ s.faults = C!NoFault
      /\ s.sent = [C!Silent EXCEPT ![u] = w]
  BY DEF With, C!Client
<1>2. C!SendBy(u, s) /\ Upload /\ UNCHANGED <<connects, registered, stopped, waiting, expired>>
  BY DEF Sends
<1> HIDE DEF s
<1>3. ~C!Fatal(s.faults[u])
  BY <1>1 DEF C!Fatal, C!NoFault
<1>4. /\ UNCHANGED <<delegate, offerCache, answerCache, wantCache, candidates>>
      /\ sent' = s.sent /\ faults' = [p \in Users |-> faults[p] \cup {}]
  BY <1>1, <1>2, <1>3 DEF C!SendBy, C!NoFault
<1>5. faults' = faults
  BY <1>4 DEF PairInv, CP!ClientInv, CP!ClientTypeOK
<1>6. ASSUME NEW x \in Users PROVE Uplink(x)' = Uplink(x) \o (IF x = u THEN w ELSE <<>>)
  <2>1. Line(x) \in Conns /\ Line(x)[1] = x /\ Line(x) \notin cut /\ conn[Line(x)] # "closed"
    BY Lines DEF Calm, ServerHolds
  <2>2. Uplink(x) \in Seq(C!Sendable)
    BY <2>1 DEF PairInv, ChannelsTyped, Uplink
  <2>3. sent'[x] = IF x = u THEN w ELSE <<>>
    BY <1>1, <1>4 DEF C!Silent
  <2>4. x = u /\ w # <<>> => Line(x) = <<x, connects'[x]>>
    BY <1>2 DEF Calm, Holds, ClientHolds, Line
  <2>5. toServer'[Line(x)] = IF Line(x) = <<x, connects'[x]>> THEN toServer[Line(x)] \o sent'[x]
                             ELSE toServer[Line(x)]
    BY <1>2, <2>1 DEF Upload
  <2>6. Uplink(x) \o <<>> = Uplink(x)
    BY <2>2
  <2> QED
    BY <2>3, <2>4, <2>5, <2>6 DEF Uplink
<1>7. \A x \in Users : Uplink(x) \o <<>> = Uplink(x)
  BY Lines, Following DEF PairInv, ChannelsTyped, Uplink
<1> QED
  BY <1>2, <1>4, <1>5, <1>6, <1>7

-----------------------------------------------------------------------------
(* The pair at the server.                                                 *)

\* The partner of a client's device is the device of its peer.
LEMMA PartnerIsPeer ==
    ASSUME PairInv, Calm, NEW u \in Users, Line(u) \in live, partner[Line(u)] # None
    PROVE  /\ partner[Line(u)] = Line(Peer(u)) /\ Line(Peer(u)) \in live
           /\ partner[Line(Peer(u))] = Line(u)
<1> DEFINE p == partner[Line(u)]
<1>1. p \in live /\ p # Line(u) /\ partner[p] = Line(u)
  BY SP!PartnersPoint, Bounds DEF PairInv
<1>2. p \in Conns /\ conn[p] = "open"
  BY <1>1 DEF PairInv, SP!IInv, SP!ServerTypeOK, SP!RegistryHoldsTheLive
<1>3. p = Line(p[1]) /\ p[1] \in Users
  BY <1>2, Lines DEF Calm, ServerHolds
<1>4. p[1] = Peer(u)
  BY <1>1, <1>3, Both
<1> QED
  BY <1>1, <1>3, <1>4

\* Who negotiates has a partner, which does not.
LEMMA Arbitrated ==
    ASSUME PairInv, Calm, NEW u \in Users, Negotiates(u)
    PROVE  /\ Line(u) \in live /\ Line(Peer(u)) \in live
           /\ partner[Line(u)] = Line(Peer(u)) /\ partner[Line(Peer(u))] = Line(u)
           /\ ~Negotiates(Peer(u))
<1>1. Line(u) \in live /\ partner[Line(u)] # None /\ partner[Line(u)] \notin active
  BY DEF PairInv, SP!IInv, SP!ServerTypeOK, SP!OneNegotiator, Negotiates
<1> QED
  BY <1>1, PartnerIsPeer DEF Negotiates

-----------------------------------------------------------------------------
(* What a step of a client leaves as it is.                                *)

\* A step that the server has no part in leaves it as it was.
LEMMA ServerRests ==
    ASSUME Calm, UNCHANGED <<server, cut>>
    PROVE  ServerHolds' /\ \A x \in Users : SameServer(x)
<1>1. ServerHolds'
  BY DEF Calm, ServerHolds, server
<1> QED
  BY <1>1, Unchanged DEF server

\* A client that only sends on its open connection is in order after it.
LEMMA ClientsHold ==
    ASSUME Calm,
           UNCHANGED <<delegate, connects, registered, stopped, offerCache, answerCache,
                       wantCache, candidates, waiting, expired, faults, server,
                       p2pConnected, p2pFaults>>,
           NEW u \in Users,
           u \in p2pWants' => u \in p2pWants \/ delegate[u] # "open",
           delegate[u] # "open" => /\ Uplink(u)' = Uplink(u) /\ making'[u] = making[u]
                                   /\ u \in local' => u \in local
                                   /\ rtc'[u] = rtc[u]
    PROVE  ClientHolds(u)'
<1>1. ClientHolds(u)
  BY DEF Calm, Holds
<1> QED
  BY <1>1 DEF ClientHolds, server

\* Nothing of what x wants, makes or has under way changes.
Rests(x) ==
    /\ SameUp(x) /\ SameDown(x) /\ SameMaking(x) /\ SameServer(x)
    /\ rtc'[x] = rtc[x]
    /\ x \in needed' <=> x \in needed
    /\ x \in changed' <=> x \in changed
    /\ x \in p2pWants' <=> x \in p2pWants

\* So it stays in order.
LEMMA RestsWell ==
    ASSUME NEW x, Ordered(x), Wishes(x), Rests(x) PROVE Ordered(x)' /\ Wishes(x)'
<1>1. Ordered(x)'
  BY DEF Ordered, Rests, SameUp, SameDown, SameMaking
<1>2. Wishes(x)'
  BY DEF Wishes, Rests, SameUp, SameDown, SameMaking, SameServer
<1> QED
  BY <1>1, <1>2

\* And the exchanges stay where they are.
LEMMA RestsKeeps ==
    ASSUME NEW u, NEW v, Rests(u), Rests(v) PROVE Keeps(u, v) /\ Keeps(v, u)
  BY DEF Keeps, Phase, Rests, SameUp, SameDown, SameMaking

\* A client reads from its only connection.
LEMMA NextEffect ==
    ASSUME PairInv, Calm, NEW u \in Users, NEW m, NextMessage(u, m)
    PROVE  /\ Gets(u, m) /\ delegate[u] = "open" /\ UNCHANGED <<server, cut>>
           /\ \A x \in Users : x # u => Downlink(x)' = Downlink(x)
<1>1. /\ delegate[u] = "open" /\ toClient[Link(u)] # <<>> /\ Head(toClient[Link(u)]) = m
      /\ toClient' = [toClient EXCEPT ![Link(u)] = Tail(@)] /\ UNCHANGED <<server, cut>>
  BY DEF NextMessage
<1>2. Link(u) = Line(u)
  BY <1>1 DEF Calm, Holds, ClientHolds, Link, Line
<1>3. ChannelsTyped /\ toClient \in [Conns -> Seq(S!Messages)]
  BY DEF PairInv, ChannelsTyped
<1>4. \A x \in Users : Downlink(x)' = IF x = u THEN Tail(Downlink(u)) ELSE Downlink(x)
  BY <1>1, <1>2, <1>3, Lines DEF Downlink
<1>5. Downlink(u) # <<>> /\ m = Head(Downlink(u)) /\ Downlink(u)' = Tail(Downlink(u))
  BY <1>1, <1>2, <1>4 DEF Downlink
<1>6. Gets(u, m)
  BY <1>3, <1>5, GetsLemma
<1> QED
  BY <1>1, <1>4, <1>6

-----------------------------------------------------------------------------
(* The steps of the p2p layer.                                             *)

\* An offer is asked for only when none is made, sent or waited for.
LEMMA OnCreateOfferCalm ==
    ASSUME PairInv, Calm, NEW u \in Users, OnCreateOffer(u)
    PROVE  Calm' /\ Keeps(u, Peer(u)) /\ Keeps(Peer(u), u)
<1> DEFINE v == Peer(u)
<1>1. /\ v \in Users /\ v # u /\ Ordered(u) /\ Wishes(u) /\ Exchange(u, v)
      /\ Ordered(v) /\ Wishes(v) /\ Exchange(v, u) /\ ~(Negotiates(u) /\ Negotiates(v))
  BY CalmBoth, Arbitrated
<1>2. /\ UNCHANGED <<clients, toServer, signals, rtc, changed, needed, local, cut, server>>
      /\ making' = [making EXCEPT ![u] = Append(@, "offer")]
      /\ Gets(u, "create_offer") /\ delegate[u] = "open"
      /\ \A x \in Users : x # u => Downlink(x)' = Downlink(x)
  BY NextEffect DEF OnCreateOffer
<1>3. ServerHolds' /\ SameServer(u) /\ SameServer(v)
  BY <1>1, <1>2, ServerRests
<1>4. \A x \in Users : SameUp(x)
  BY <1>2, Unchanged DEF Uplink
<1>5. \A x \in Users : x # u => making'[x] = making[x]
  BY <1>2 DEF PairInv, PeersTyped
<1>6. ClientHolds(u)' /\ ClientHolds(v)'
  BY <1>1, <1>2, <1>5, ClientsHold DEF clients, signals, Uplink
<1>7. SameDown(v) /\ SameMaking(v)
  BY <1>1, <1>2, <1>5, Unchanged
<1>8. Rests(v)
  BY <1>1, <1>2, <1>3, <1>4, <1>7 DEF Rests, signals
<1>9. making[u] = <<>>
  BY <1>1, <1>2 DEF Gets, Exchange, Ordered
<1>10. MakesOffer(u)' /\ ~MakesAnswer(u)' /\ ~MakesOffer(u) /\ ~MakesAnswer(u)
  <2>1. making'[u] = Append(<<>>, "offer")
    BY <1>2, <1>9 DEF PairInv, PeersTyped
  <2>2. Append(<<>>, "offer") # Append(<<>>, "answer") /\ Append(<<>>, "offer") # <<>>
          /\ Append(<<>>, "answer") # <<>>
    OBVIOUS
  <2> QED
    BY <1>9, <2>1, <2>2 DEF MakesOffer, MakesAnswer
<1>11. Told(u) /\ ~Told(u)' /\ ~GetsAnswer(u) /\ ~GetsAnswer(u)' /\ (GetsOffer(u)' <=> GetsOffer(u))
         /\ Clear(Downlink(u))' /\ AnswerFirst(Downlink(u))'
  BY <1>1, <1>2 DEF Gets, Ordered
<1>12. SameUp(u) /\ rtc' = rtc /\ needed' = needed /\ changed' = changed /\ p2pWants' = p2pWants
  BY <1>2, <1>4 DEF signals
<1> HIDE DEF v
<1>13. Ordered(v)' /\ Wishes(v)'
  BY <1>1, <1>8, RestsWell
<1>14. Ordered(u)' /\ Wishes(u)'
  BY <1>1, <1>10, <1>11, <1>12 DEF Ordered, Wishes, SameUp
<1>15. Exchange(u, v)'
  BY <1>1, <1>3, <1>8, <1>10, <1>11, <1>12 DEF Exchange, Rests, SameUp, SameDown, SameMaking, SameServer
<1>16. Exchange(v, u)'
  BY <1>1, <1>3, <1>8, <1>10, <1>11, <1>12 DEF Exchange, Rests, SameUp, SameDown, SameMaking, SameServer
<1>17. Keeps(u, v) /\ Keeps(v, u)
  BY <1>8, <1>10, <1>11, <1>12 DEF Keeps, Phase, Rests, SameUp, SameDown, SameMaking
<1> QED
  BY <1>3, <1>6, <1>13, <1>14, <1>15, <1>16, <1>17, CalmOfBoth DEF v

\* An offer is accepted: u has none outstanding and no answer to come.
LEMMA OnOfferCalm ==
    ASSUME PairInv, Calm, NEW u \in Users, OnOffer(u)
    PROVE  Calm' /\ Turns(Peer(u), u, "offered", "received") /\ Phase(u, Peer(u)) = "none"
<1> DEFINE v == Peer(u)
<1>1. /\ v \in Users /\ v # u /\ Ordered(u) /\ Wishes(u) /\ Exchange(u, v)
      /\ Ordered(v) /\ Wishes(v) /\ Exchange(v, u) /\ ~(Negotiates(u) /\ Negotiates(v))
  BY CalmBoth, Arbitrated
<1>2. /\ UNCHANGED <<clients, toServer, p2pConnected, p2pWants, changed, needed, local, cut, server>>
      /\ Gets(u, "offer") /\ delegate[u] = "open"
      /\ \A x \in Users : x # u => Downlink(x)' = Downlink(x)
  BY NextEffect DEF OnOffer
<1>3. rtc[u] # "have-local-offer"
  BY <1>1, <1>2 DEF Gets, Exchange, Ordered
<1>4. /\ rtc' = [rtc EXCEPT ![u] = "have-remote-offer"] /\ UNCHANGED p2pFaults
      /\ making' = [making EXCEPT ![u] = Append(@, "answer")]
  BY <1>3 DEF OnOffer
<1>5. ServerHolds' /\ SameServer(u) /\ SameServer(v)
  BY <1>1, <1>2, ServerRests
<1>6. \A x \in Users : SameUp(x)
  BY <1>2, Unchanged DEF Uplink
<1>7. \A x \in Users : x # u => making'[x] = making[x] /\ rtc'[x] = rtc[x]
  BY <1>4 DEF PairInv, PeersTyped
<1>8. ClientHolds(u)' /\ ClientHolds(v)'
  BY <1>1, <1>2, <1>4, <1>7, ClientsHold DEF clients, Uplink
<1>9. SameDown(v) /\ SameMaking(v)
  BY <1>1, <1>2, <1>7, Unchanged
<1>10. Rests(v)
  BY <1>1, <1>2, <1>5, <1>6, <1>7, <1>9 DEF Rests
<1>11. making[u] = <<>>
  BY <1>1, <1>2 DEF Gets, Exchange, Ordered
<1>12. MakesAnswer(u)' /\ ~MakesOffer(u)' /\ ~MakesOffer(u) /\ ~MakesAnswer(u)
  <2>1. making'[u] = Append(<<>>, "answer")
    BY <1>4, <1>11 DEF PairInv, PeersTyped
  <2>2. Append(<<>>, "offer") # Append(<<>>, "answer") /\ Append(<<>>, "offer") # <<>>
          /\ Append(<<>>, "answer") # <<>>
    OBVIOUS
  <2> QED
    BY <1>11, <2>1, <2>2 DEF MakesOffer, MakesAnswer
<1>13. GetsOffer(u) /\ ~GetsOffer(u)' /\ ~GetsAnswer(u) /\ ~GetsAnswer(u)' /\ (Told(u)' <=> Told(u))
         /\ Clear(Downlink(u))' /\ AnswerFirst(Downlink(u))'
  BY <1>1, <1>2 DEF Gets, Ordered
<1>14. /\ SameUp(u) /\ rtc'[u] = "have-remote-offer"
       /\ needed' = needed /\ changed' = changed /\ p2pWants' = p2pWants
  BY <1>2, <1>4, <1>6 DEF PairInv, PeersTyped
<1> HIDE DEF v
<1>15. Ordered(v)' /\ Wishes(v)'
  BY <1>1, <1>10, RestsWell
<1>16. Ordered(u)' /\ Wishes(u)'
  BY <1>1, <1>12, <1>13, <1>14 DEF Ordered, Wishes, SameUp
<1>17. Exchange(u, v)'
  BY <1>1, <1>5, <1>10, <1>12, <1>13, <1>14
     DEF Exchange, Rests, SameUp, SameDown, SameMaking, SameServer
<1>18. Exchange(v, u)'
  BY <1>1, <1>5, <1>10, <1>12, <1>13, <1>14
     DEF Exchange, Rests, SameUp, SameDown, SameMaking, SameServer
<1>19. Turns(v, u, "offered", "received") /\ Phase(u, v) = "none"
  BY <1>1, <1>10, <1>12, <1>13, <1>14 DEF Turns, Keeps, Phase, Exchange, Rests, SameUp, SameDown, SameMaking
<1> QED
  BY <1>5, <1>8, <1>15, <1>16, <1>17, <1>18, <1>19, CalmOfBoth DEF v

\* A candidate changes nothing.
LEMMA OnIceCandidateCalm ==
    ASSUME PairInv, Calm, NEW u \in Users, OnIceCandidate(u)
    PROVE  Calm' /\ Keeps(u, Peer(u)) /\ Keeps(Peer(u), u)
<1> DEFINE v == Peer(u)
<1>1. /\ v \in Users /\ v # u /\ Ordered(u) /\ Wishes(u) /\ Exchange(u, v)
      /\ Ordered(v) /\ Wishes(v) /\ Exchange(v, u)
  BY CalmBoth
<1>2. /\ UNCHANGED <<clients, toServer, signals, peerConnection, cut, server>>
      /\ Gets(u, "ice_candidate")
      /\ \A x \in Users : x # u => Downlink(x)' = Downlink(x)
  BY NextEffect DEF OnIceCandidate
<1>3. ServerHolds' /\ SameServer(u) /\ SameServer(v)
  BY <1>1, <1>2, ServerRests
<1>4. \A x \in Users : SameUp(x) /\ SameMaking(x)
  BY <1>2, Unchanged DEF Uplink, peerConnection
<1>5. ClientHolds(u)' /\ ClientHolds(v)'
  BY <1>1, <1>2, ClientsHold DEF clients, Uplink, signals, peerConnection
<1>6. SameDown(v) /\ SameDown(u)
  BY <1>1, <1>2, Unchanged DEF Gets, SameDown, Ordered
<1>7. Rests(v) /\ Rests(u)
  BY <1>1, <1>2, <1>3, <1>4, <1>6 DEF Rests, signals, peerConnection
<1> HIDE DEF v
<1>8. Ordered(v)' /\ Wishes(v)' /\ Ordered(u)' /\ Wishes(u)'
  BY <1>1, <1>7, RestsWell
<1>9. Exchange(u, v)' /\ Exchange(v, u)'
  BY <1>1, <1>7 DEF Exchange, Rests, SameUp, SameDown, SameMaking, SameServer
<1>10. Keeps(u, v) /\ Keeps(v, u)
  BY <1>7, RestsKeeps
<1> QED
  BY <1>3, <1>5, <1>8, <1>9, <1>10, CalmOfBoth DEF v

\* x sends a wish, when it has one, before a message or on its own.
Wished(x, m) ==
    /\ SentOffer(x)' <=> SentOffer(x)
    /\ SentAnswer(x)' <=> SentAnswer(x) \/ m = "answer"
    /\ SentWish(x) => SentWish(x)'
    /\ x \in changed => SentWish(x)'
    /\ Clear(Uplink(x)) /\ (m = "answer" => ~SentAnswer(x)) => Clear(Uplink(x))'

\* The wish that a client sends when its PeerConnection is stable again.
WishOf(x) == IF x \in changed THEN Append(<<>>, "want_to_negotiate") ELSE <<>>

\* It is in the queue before the answer is.
LEMMA WishedLemma ==
    ASSUME ChannelsTyped, NEW x \in Users
    PROVE  /\ WishOf(x) \in Seq(C!Sendable) /\ Append(WishOf(x), "answer") \in Seq(C!Sendable)
           /\ Uplink(x)' = Uplink(x) \o WishOf(x) => Wished(x, "none")
           /\ Uplink(x)' = Uplink(x) \o Append(WishOf(x), "answer") => Wished(x, "answer")
<1> DEFINE q == Uplink(x)
           w == WishOf(x)
           r == q \o w
<1>1. /\ q \in Seq(C!Sendable) /\ "want_to_negotiate" \in C!Sendable /\ "answer" \in C!Sendable
  BY Lines DEF ChannelsTyped, Uplink, C!Sendable
<1>2. /\ <<>> \in Seq(C!Sendable) /\ q \o <<>> = q
      /\ q \o Append(<<>>, "want_to_negotiate") = Append(q, "want_to_negotiate")
      /\ Append(<<>>, "want_to_negotiate") \in Seq(C!Sendable)
  BY <1>1
<1>3. w \in Seq(C!Sendable) /\ r = IF x \in changed THEN Append(q, "want_to_negotiate") ELSE q
  BY <1>2 DEF WishOf
<1>4. Append(w, "answer") \in Seq(C!Sendable) /\ q \o Append(w, "answer") = Append(q \o w, "answer")
  BY <1>1, <1>3, Following
<1> HIDE DEF w, r
<1>5. /\ r \in Seq(C!Sendable)
      /\ \A y : Has(r, y) <=> Has(q, y) \/ (x \in changed /\ y = "want_to_negotiate")
      /\ \A y : Once(q, y) /\ y # "want_to_negotiate" => Once(r, y)
  BY <1>1, <1>3, Appended
<1>6. /\ \A y : Has(Append(r, "answer"), y) <=> Has(r, y) \/ y = "answer"
      /\ \A y : Once(r, y) /\ ~(y = "answer" /\ Has(r, y)) => Once(Append(r, "answer"), y)
  BY <1>1, <1>5, Appended
<1>7. ASSUME NEW z, Uplink(x)' = z
      PROVE  /\ SentOffer(x)' <=> Has(z, "offer")
             /\ SentAnswer(x)' <=> Has(z, "answer")
             /\ SentWish(x)' <=> Has(z, "want_to_negotiate")
             /\ Clear(z) => Clear(Uplink(x))'
  BY <1>7 DEF SentOffer, SentAnswer, SentWish
<1>8. ASSUME Uplink(x)' = r PROVE Wished(x, "none")
  <2>1. /\ SentOffer(x)' <=> Has(r, "offer")
        /\ SentAnswer(x)' <=> Has(r, "answer")
        /\ SentWish(x)' <=> Has(r, "want_to_negotiate")
        /\ Clear(r) => Clear(Uplink(x))'
    BY <1>7, <1>8
  <2> QED
    BY <1>5, <2>1 DEF Wished, SentOffer, SentAnswer, SentWish, Clear
<1>9. ASSUME Uplink(x)' = Append(r, "answer") PROVE Wished(x, "answer")
  <2>1. /\ SentOffer(x)' <=> Has(Append(r, "answer"), "offer")
        /\ SentAnswer(x)' <=> Has(Append(r, "answer"), "answer")
        /\ SentWish(x)' <=> Has(Append(r, "answer"), "want_to_negotiate")
        /\ Clear(Append(r, "answer")) => Clear(Uplink(x))'
    BY <1>7, <1>9
  <2> QED
    BY <1>5, <1>6, <2>1 DEF Wished, SentOffer, SentAnswer, SentWish, Clear
<1> QED
  BY <1>3, <1>4, <1>8, <1>9 DEF w, r

\* A client with an open connection that is stable again sends its wish.
LEMMA StableSends ==
    ASSUME Calm, NEW u \in Users, delegate[u] = "open"
    PROVE  /\ StableAgain(C!Client, u) = With(u, WishOf(u))
           /\ C!SendAnswer(StableAgain(C!Client, u), u) = With(u, Append(WishOf(u), "answer"))
<1>1. u \in p2pConnected
  BY DEF Calm, Holds, ClientHolds
<1>2. StableAgain(C!Client, u) = With(u, WishOf(u))
  BY <1>1, WithNothing, WithMore DEF StableAgain, NegotiationNeeded, WishOf
<1> QED
  BY <1>2, WithMore

\* Clients that change nothing leave their exchanges as they are.
LEMMA RestsExchange ==
    ASSUME NEW u, NEW v, Exchange(u, v), Rests(u), Rests(v) PROVE Exchange(u, v)'
  BY DEF Exchange, Rests, SameUp, SameDown, SameMaking, SameServer

\* An answer ends the exchange that u began.
LEMMA OnAnswerCalm ==
    ASSUME PairInv, Calm, NEW u \in Users, OnAnswer(u)
    PROVE  Calm' /\ Turns(u, Peer(u), "answered", "none")
<1> DEFINE v == Peer(u)
<1>1. /\ v \in Users /\ v # u /\ Ordered(u) /\ Wishes(u) /\ Exchange(u, v)
      /\ Ordered(v) /\ Wishes(v) /\ Exchange(v, u)
  BY CalmBoth
<1>2. /\ UNCHANGED <<p2pConnected, p2pFaults, making, changed, local, cut, server>>
      /\ Gets(u, "answer") /\ delegate[u] = "open"
      /\ \A x \in Users : x # u => Downlink(x)' = Downlink(x)
  BY NextEffect DEF OnAnswer
<1>3. rtc[u] = "have-local-offer"
  BY <1>1, <1>2 DEF Gets, Exchange
<1>4. BecomesStable(u) /\ Sends(u, With(u, WishOf(u)))
  BY <1>2, <1>3, StableSends DEF OnAnswer
<1>5. ChannelsTyped
  BY DEF PairInv
<1>6. /\ UNCHANGED <<delegate, connects, registered, stopped, offerCache, answerCache,
                     wantCache, candidates, waiting, expired, faults>>
      /\ Uplink(u)' = Uplink(u) \o WishOf(u)
      /\ \A x \in Users : x # u => Uplink(x)' = Uplink(x)
  BY <1>2, <1>4, <1>5, WishedLemma, SendsEffect DEF server
<1>7. Wished(u, "none")
  BY <1>5, <1>6, WishedLemma
<1>8. /\ rtc' = [rtc EXCEPT ![u] = "stable"] /\ p2pWants' = p2pWants
      /\ needed' = IF u \in changed THEN needed \cup {u} ELSE needed \ {u}
  BY <1>2, <1>4 DEF BecomesStable, Calm, Holds, ClientHolds
<1>9. rtc'[u] = "stable" /\ \A x \in Users : x # u => rtc'[x] = rtc[x]
  BY <1>8 DEF PairInv, PeersTyped
<1>10. ServerHolds' /\ SameServer(u) /\ SameServer(v)
  BY <1>1, <1>2, ServerRests
<1>11. ClientHolds(u)' /\ ClientHolds(v)'
  BY <1>1, <1>2, <1>6, <1>8, <1>9, ClientsHold
<1>12. SameUp(v) /\ SameDown(v) /\ SameMaking(v) /\ SameMaking(u)
  BY <1>1, <1>2, <1>6, Unchanged
<1>13. Rests(v)
  BY <1>1, <1>2, <1>8, <1>9, <1>10, <1>12 DEF Rests
<1>14. GetsAnswer(u) /\ ~GetsAnswer(u)' /\ (GetsOffer(u)' <=> GetsOffer(u)) /\ (Told(u)' <=> Told(u))
         /\ Clear(Downlink(u))' /\ AnswerFirst(Downlink(u))'
  BY <1>1, <1>2 DEF Gets, Ordered
<1>15. /\ SentOffer(u)' <=> SentOffer(u)
       /\ SentAnswer(u)' <=> SentAnswer(u)
       /\ u \in changed => SentWish(u)'
       /\ Clear(Uplink(u))'
  BY <1>1, <1>7 DEF Wished, Ordered
<1> HIDE DEF v
<1>16. Ordered(v)' /\ Wishes(v)'
  BY <1>1, <1>13, RestsWell
<1>17. Ordered(u)'
  BY <1>1, <1>12, <1>14, <1>15 DEF Ordered, SameMaking
<1>18. Wishes(u)'
  BY <1>2, <1>8, <1>15 DEF Wishes
<1>19. Exchange(u, v)'
  BY <1>1, <1>9, <1>10, <1>12, <1>14, <1>15
     DEF Exchange, SameUp, SameDown, SameMaking, SameServer
<1>20. Exchange(v, u)'
  BY <1>1, <1>10, <1>12, <1>13, <1>14, <1>15
     DEF Exchange, Rests, SameUp, SameDown, SameMaking, SameServer
<1>21. Turns(u, v, "answered", "none")
  BY <1>1, <1>12, <1>13, <1>14, <1>15 DEF Turns, Keeps, Phase, Exchange, Rests, SameUp, SameDown, SameMaking
<1> QED
  BY <1>10, <1>11, <1>16, <1>17, <1>18, <1>19, <1>20, <1>21, CalmOfBoth DEF v

\* What a client makes it made for an open connection, one at a time.
LEMMA MakesEffect ==
    ASSUME PairInv, Calm, NEW u \in Users, NEW what \in {"offer", "answer"}, Makes(u, what)
    PROVE  /\ what = "offer" => MakesOffer(u) /\ ~MakesAnswer(u)
           /\ what = "answer" => MakesAnswer(u) /\ ~MakesOffer(u)
           /\ making'[u] = <<>> /\ ~MakesOffer(u)' /\ ~MakesAnswer(u)'
           /\ delegate[u] = "open"
           /\ \A x \in Users : x # u => making'[x] = making[x]
<1>1. making[u] # <<>> /\ Head(making[u]) = what /\ making' = [making EXCEPT ![u] = Tail(@)]
  BY DEF Makes
<1>2. making[u] \in {Append(<<>>, "offer"), Append(<<>>, "answer")} /\ delegate[u] = "open"
  BY <1>1 DEF Calm, Holds, ClientHolds, Ordered, MakesOffer, MakesAnswer
<1>3. /\ Head(Append(<<>>, "offer")) = "offer" /\ Tail(Append(<<>>, "offer")) = <<>>
      /\ Head(Append(<<>>, "answer")) = "answer" /\ Tail(Append(<<>>, "answer")) = <<>>
      /\ Append(<<>>, "offer") # Append(<<>>, "answer") /\ Append(<<>>, "offer") # <<>>
      /\ Append(<<>>, "answer") # <<>>
  OBVIOUS
<1>4. making[u] = Append(<<>>, what)
  BY <1>1, <1>2, <1>3
<1>5. making'[u] = <<>> /\ \A x \in Users : x # u => making'[x] = making[x]
  BY <1>1, <1>3, <1>4 DEF PairInv, PeersTyped
<1> QED
  BY <1>2, <1>3, <1>4, <1>5 DEF MakesOffer, MakesAnswer

\* An offer that is made is set, and sent.
LEMMA SendOfferCalm ==
    ASSUME PairInv, Calm, NEW u \in Users, SendOffer(u)
    PROVE  Calm' /\ Turns(u, Peer(u), "none", "offered")
           /\ Phase(Peer(u), u) \in {"none", "answered"}
<1> DEFINE v == Peer(u)
           w == Append(<<>>, "offer")
<1>1. /\ v \in Users /\ v # u /\ Ordered(u) /\ Wishes(u) /\ Exchange(u, v)
      /\ Ordered(v) /\ Wishes(v) /\ Exchange(v, u) /\ ~(Negotiates(u) /\ Negotiates(v))
  BY CalmBoth, Arbitrated
<1>2. /\ UNCHANGED <<p2pConnected, p2pFaults, p2pWants, needed, toClient, cut, server>>
      /\ MakesOffer(u) /\ ~MakesAnswer(u) /\ making'[u] = <<>> /\ ~MakesOffer(u)' /\ ~MakesAnswer(u)'
      /\ delegate[u] = "open"
      /\ \A x \in Users : x # u => making'[x] = making[x]
  BY MakesEffect DEF SendOffer, Makes
<1>3. rtc[u] # "have-remote-offer"
  BY <1>1, <1>2 DEF Exchange
<1>4. /\ rtc' = [rtc EXCEPT ![u] = "have-local-offer"] /\ changed' = changed \ {u}
      /\ Sends(u, With(u, w))
  BY <1>2, <1>3, WithNothing, WithMore DEF SendOffer
<1>5. ChannelsTyped /\ "offer" \in C!Sendable /\ w \in Seq(C!Sendable)
  BY DEF PairInv, C!Sendable
<1>6. /\ UNCHANGED <<delegate, connects, registered, stopped, offerCache, answerCache,
                     wantCache, candidates, waiting, expired, faults>>
      /\ Uplink(u)' = Uplink(u) \o w
      /\ \A x \in Users : x # u => Uplink(x)' = Uplink(x)
  BY <1>2, <1>4, <1>5, SendsEffect DEF server
<1>7. Puts(u, "offer")
  <2>1. Uplink(u) \in Seq(C!Sendable)
    BY <1>5, Lines DEF ChannelsTyped, Uplink
  <2>2. Uplink(u)' = Append(Uplink(u), "offer")
    BY <1>5, <1>6, <2>1
  <2> QED
    BY <1>5, <2>2, PutsLemma
<1>8. rtc'[u] = "have-local-offer" /\ \A x \in Users : x # u => rtc'[x] = rtc[x]
  BY <1>4 DEF PairInv, PeersTyped
<1>9. ServerHolds' /\ SameServer(u) /\ SameServer(v)
  BY <1>1, <1>2, ServerRests
<1>10. ClientHolds(u)' /\ ClientHolds(v)'
  <2>1. local' = local \cup {u}
    BY <1>3 DEF SendOffer
  <2> QED
    BY <1>1, <1>2, <1>6, <1>8, <2>1, ClientsHold
<1>11. SameUp(v) /\ SameDown(v) /\ SameMaking(v) /\ SameDown(u)
  BY <1>1, <1>2, <1>6, Unchanged DEF Downlink
<1>12. Rests(v)
  BY <1>1, <1>2, <1>4, <1>8, <1>9, <1>11 DEF Rests
<1>13. /\ ~SentOffer(u) /\ SentOffer(u)'
       /\ SentAnswer(u)' <=> SentAnswer(u)
       /\ Clear(Uplink(u))'
  BY <1>1, <1>2, <1>7 DEF Puts, Ordered, Exchange
<1> HIDE DEF v, w
<1>14. Ordered(v)' /\ Wishes(v)'
  BY <1>1, <1>12, RestsWell
<1>15. Ordered(u)' /\ Wishes(u)'
  BY <1>1, <1>2, <1>8, <1>11, <1>13 DEF Ordered, Wishes, SameDown
<1>16. Exchange(u, v)'
  BY <1>1, <1>2, <1>8, <1>9, <1>12, <1>13, <1>11
     DEF Exchange, Rests, SameUp, SameDown, SameMaking, SameServer
<1>17. Exchange(v, u)'
  BY <1>1, <1>2, <1>8, <1>9, <1>12, <1>13, <1>11
     DEF Exchange, Rests, SameUp, SameDown, SameMaking, SameServer
<1>18. Turns(u, v, "none", "offered") /\ Phase(v, u) \in {"none", "answered"}
  BY <1>1, <1>2, <1>11, <1>12, <1>13 DEF Turns, Keeps, Phase, Exchange, Rests, SameUp, SameDown, SameMaking
<1> QED
  BY <1>9, <1>10, <1>14, <1>15, <1>16, <1>17, <1>18, CalmOfBoth DEF v

\* An answer that is made is set, and sent behind the wish that follows from it.
LEMMA SendAnswerCalm ==
    ASSUME PairInv, Calm, NEW u \in Users, SendAnswer(u)
    PROVE  Calm' /\ Turns(Peer(u), u, "received", "answered")
<1> DEFINE v == Peer(u)
           w == Append(WishOf(u), "answer")
<1>1. /\ v \in Users /\ v # u /\ Ordered(u) /\ Wishes(u) /\ Exchange(u, v)
      /\ Ordered(v) /\ Wishes(v) /\ Exchange(v, u)
  BY CalmBoth
<1>2. /\ UNCHANGED <<p2pConnected, p2pFaults, changed, toClient, cut, server>>
      /\ MakesAnswer(u) /\ ~MakesOffer(u) /\ making'[u] = <<>> /\ ~MakesOffer(u)' /\ ~MakesAnswer(u)'
      /\ delegate[u] = "open"
      /\ \A x \in Users : x # u => making'[x] = making[x]
  BY MakesEffect DEF SendAnswer, Makes
<1>3. rtc[u] = "have-remote-offer"
  BY <1>1, <1>2 DEF Exchange
<1>4. BecomesStable(u) /\ Sends(u, With(u, w)) /\ local' = local \cup {u}
  BY <1>2, <1>3, StableSends DEF SendAnswer
<1>5. ChannelsTyped
  BY DEF PairInv
<1>6. /\ UNCHANGED <<delegate, connects, registered, stopped, offerCache, answerCache,
                     wantCache, candidates, waiting, expired, faults>>
      /\ Uplink(u)' = Uplink(u) \o w
      /\ \A x \in Users : x # u => Uplink(x)' = Uplink(x)
  BY <1>2, <1>4, <1>5, WishedLemma, SendsEffect DEF server
<1>7. Wished(u, "answer")
  BY <1>5, <1>6, WishedLemma
<1>8. /\ rtc' = [rtc EXCEPT ![u] = "stable"] /\ p2pWants' = p2pWants
      /\ needed' = IF u \in changed THEN needed \cup {u} ELSE needed \ {u}
  BY <1>2, <1>4 DEF BecomesStable, Calm, Holds, ClientHolds
<1>9. rtc'[u] = "stable" /\ \A x \in Users : x # u => rtc'[x] = rtc[x]
  BY <1>8 DEF PairInv, PeersTyped
<1>10. ServerHolds' /\ SameServer(u) /\ SameServer(v)
  BY <1>1, <1>2, ServerRests
<1>11. ClientHolds(u)' /\ ClientHolds(v)'
  BY <1>1, <1>2, <1>4, <1>6, <1>8, <1>9, ClientsHold
<1>12. SameUp(v) /\ SameDown(v) /\ SameMaking(v) /\ SameDown(u)
  BY <1>1, <1>2, <1>6, Unchanged DEF Downlink
<1>13. Rests(v)
  BY <1>1, <1>2, <1>8, <1>9, <1>10, <1>12 DEF Rests
<1>14. /\ SentOffer(u)' <=> SentOffer(u)
       /\ ~SentAnswer(u) /\ SentAnswer(u)'
       /\ u \in changed => SentWish(u)'
       /\ Clear(Uplink(u))'
  BY <1>1, <1>2, <1>7 DEF Wished, Ordered, Exchange
<1> HIDE DEF v, w
<1>15. Ordered(v)' /\ Wishes(v)'
  BY <1>1, <1>13, RestsWell
<1>16. Ordered(u)'
  BY <1>1, <1>2, <1>12, <1>14 DEF Ordered, SameDown
<1>17. Wishes(u)'
  BY <1>2, <1>8, <1>14 DEF Wishes
<1>18. Exchange(u, v)'
  BY <1>1, <1>2, <1>3, <1>9, <1>10, <1>12, <1>13, <1>14
     DEF Exchange, Rests, SameUp, SameDown, SameMaking, SameServer
<1>19. Exchange(v, u)'
  BY <1>1, <1>2, <1>10, <1>12, <1>13, <1>14
     DEF Exchange, Rests, SameUp, SameDown, SameMaking, SameServer
<1>20. Turns(v, u, "received", "answered")
  BY <1>1, <1>2, <1>12, <1>13, <1>14 DEF Turns, Keeps, Phase, Exchange, Rests, SameUp, SameDown, SameMaking
<1> QED
  BY <1>10, <1>11, <1>15, <1>16, <1>17, <1>18, <1>19, <1>20, CalmOfBoth DEF v

\* A change is told to the server, kept for the registration, or follows when
\* the PeerConnection is stable again.
LEMMA ChangeCalm ==
    ASSUME PairInv, Calm, NEW u \in Users, Change(u)
    PROVE  Calm' /\ Keeps(u, Peer(u)) /\ Keeps(Peer(u), u)
<1> DEFINE v == Peer(u)
           tells == rtc[u] = "stable" /\ u \notin needed
           w == IF tells /\ u \in p2pConnected THEN Append(<<>>, "want_to_negotiate") ELSE <<>>
<1>1. /\ v \in Users /\ v # u /\ Ordered(u) /\ Wishes(u) /\ Exchange(u, v)
      /\ Ordered(v) /\ Wishes(v) /\ Exchange(v, u)
      /\ u \in p2pConnected <=> delegate[u] = "open"
  BY CalmBoth DEF ClientHolds
<1>2. /\ UNCHANGED <<server, toClient, cut, p2pConnected, p2pFaults, rtc, making, local>>
      /\ changed' = changed \cup {u}
      /\ needed' = IF tells THEN needed \cup {u} ELSE needed
      /\ p2pWants' = IF tells /\ u \notin p2pConnected THEN p2pWants \cup {u} ELSE p2pWants
  BY DEF Change
<1>3. Sends(u, With(u, w))
  <2>1. Sends(u, IF tells THEN NegotiationNeeded(C!Client, u) ELSE C!Client)
    BY DEF Change
  <2> QED
    BY <1>1, <2>1, WithNothing, WithMore DEF NegotiationNeeded
<1>4. /\ ChannelsTyped /\ w \in Seq(C!Sendable) /\ "want_to_negotiate" \in C!Sendable
      /\ w # <<>> => delegate[u] = "open"
  <2>1. ChannelsTyped /\ "want_to_negotiate" \in C!Sendable
    BY DEF PairInv, C!Sendable
  <2>2. /\ <<>> \in Seq(C!Sendable) /\ Append(<<>>, "want_to_negotiate") \in Seq(C!Sendable)
    BY <2>1
  <2>3. CASE tells /\ u \in p2pConnected
    BY <1>1, <2>1, <2>2, <2>3
  <2>4. CASE ~(tells /\ u \in p2pConnected)
    BY <2>1, <2>2, <2>4
  <2> QED
    BY <2>3, <2>4
<1>5. /\ UNCHANGED <<delegate, connects, registered, stopped, offerCache, answerCache,
                     wantCache, candidates, waiting, expired, faults>>
      /\ Uplink(u)' = Uplink(u) \o w
      /\ \A x \in Users : x # u => Uplink(x)' = Uplink(x)
  <2> HIDE DEF w
  <2> QED
    BY <1>2, <1>3, <1>4, SendsEffect DEF server
<1>6. Uplink(u) \in Seq(C!Sendable)
  BY <1>4, Lines DEF ChannelsTyped, Uplink
<1>7. IF tells /\ u \in p2pConnected THEN Puts(u, "want_to_negotiate") ELSE SameUp(u)
  <2>1. CASE tells /\ u \in p2pConnected
    <3>1. Uplink(u)' = Append(Uplink(u), "want_to_negotiate")
      BY <1>5, <1>6, <2>1
    <3> QED
      BY <1>4, <2>1, <3>1, PutsLemma
  <2>2. CASE ~(tells /\ u \in p2pConnected)
    <3>1. Uplink(u)' = Uplink(u)
      BY <1>5, <1>6, <2>2
    <3> QED
      BY <2>2, <3>1, Unchanged
  <2> QED
    BY <2>1, <2>2
<1>8. /\ SentOffer(u)' <=> SentOffer(u)
      /\ SentAnswer(u)' <=> SentAnswer(u)
      /\ SentWish(u) => SentWish(u)'
      /\ tells => SentWish(u)' \/ u \in p2pWants'
      /\ Clear(Uplink(u))'
  BY <1>1, <1>2, <1>7 DEF Puts, SameUp, Ordered
<1>9. ServerHolds' /\ SameServer(u) /\ SameServer(v)
  BY <1>1, <1>2, ServerRests
<1>10. delegate[u] # "open" => Uplink(u)' = Uplink(u)
  BY <1>1, <1>5, <1>6
<1>11. ClientHolds(u)' /\ ClientHolds(v)'
  BY <1>1, <1>2, <1>5, <1>10, ClientsHold
<1>12. SameUp(v) /\ SameDown(v) /\ SameMaking(v) /\ SameDown(u) /\ SameMaking(u)
  BY <1>1, <1>2, <1>5, Unchanged DEF Downlink
<1>13. Rests(v)
  BY <1>1, <1>2, <1>9, <1>12 DEF Rests
<1> HIDE DEF v, w
<1>14. Ordered(v)' /\ Wishes(v)'
  BY <1>1, <1>13, RestsWell
<1>15. Ordered(u)'
  BY <1>1, <1>8, <1>12 DEF Ordered, SameDown, SameMaking
<1>16. Wishes(u)'
  BY <1>1, <1>2, <1>8, <1>9, <1>12 DEF Wishes, SameDown, SameMaking, SameServer
<1>17. Exchange(u, v)' /\ Exchange(v, u)'
  BY <1>1, <1>2, <1>8, <1>9, <1>12, <1>13
     DEF Exchange, Rests, SameUp, SameDown, SameMaking, SameServer
<1>18. Keeps(u, v) /\ Keeps(v, u)
  BY <1>8, <1>12, <1>13 DEF Keeps, Phase, Rests, SameUp, SameDown, SameMaking
<1> QED
  BY <1>9, <1>11, <1>14, <1>15, <1>16, <1>17, <1>18, CalmOfBoth DEF v

\* A candidate is sent.
LEMMA SendIceCandidateCalm ==
    ASSUME PairInv, Calm, NEW u \in Users, SendIceCandidate(u)
    PROVE  Calm' /\ Keeps(u, Peer(u)) /\ Keeps(Peer(u), u)
<1> DEFINE v == Peer(u)
           w == Append(<<>>, "ice_candidate")
<1>1. /\ v \in Users /\ v # u /\ Ordered(u) /\ Wishes(u) /\ Exchange(u, v)
      /\ Ordered(v) /\ Wishes(v) /\ Exchange(v, u) /\ ClientHolds(u)
  BY CalmBoth
<1>2. /\ UNCHANGED <<server, toClient, cut, signals, rtc, making, changed, needed, local>>
      /\ u \in local /\ Sends(u, C!SendIceCandidate(C!Client, u))
  BY DEF SendIceCandidate
<1>3. delegate[u] = "open" /\ Sends(u, With(u, w))
  BY <1>1, <1>2, WithNothing, WithMore DEF ClientHolds
<1>4. ChannelsTyped /\ w \in Seq(C!Sendable) /\ "ice_candidate" \in C!Sendable
  BY DEF PairInv, C!Sendable
<1>5. /\ UNCHANGED <<delegate, connects, registered, stopped, offerCache, answerCache,
                     wantCache, candidates, waiting, expired, faults>>
      /\ Uplink(u)' = Uplink(u) \o w
      /\ \A x \in Users : x # u => Uplink(x)' = Uplink(x)
  BY <1>2, <1>3, <1>4, SendsEffect DEF server
<1>6. SameUp(u)
  <2>1. Uplink(u) \in Seq(C!Sendable)
    BY <1>4, Lines DEF ChannelsTyped, Uplink
  <2>2. Uplink(u)' = Append(Uplink(u), "ice_candidate")
    BY <1>5, <2>1
  <2>3. Puts(u, "ice_candidate")
    BY <1>4, <2>2, PutsLemma
  <2> QED
    BY <1>1, <2>3 DEF Puts, SameUp, Ordered
<1>7. ServerHolds' /\ SameServer(u) /\ SameServer(v)
  BY <1>1, <1>2, ServerRests
<1>8. ClientHolds(u)' /\ ClientHolds(v)'
  BY <1>1, <1>2, <1>3, <1>5, ClientsHold DEF signals
<1>9. SameUp(v) /\ SameDown(v) /\ SameMaking(v) /\ SameDown(u) /\ SameMaking(u)
  BY <1>1, <1>2, <1>5, Unchanged DEF Downlink
<1>10. Rests(u) /\ Rests(v)
  BY <1>1, <1>2, <1>6, <1>7, <1>9 DEF Rests, signals
<1> HIDE DEF v, w
<1>11. /\ Ordered(v)' /\ Wishes(v)' /\ Ordered(u)' /\ Wishes(u)'
       /\ Exchange(u, v)' /\ Exchange(v, u)'
  BY <1>1, <1>10, RestsWell, RestsExchange
<1>12. Keeps(u, v) /\ Keeps(v, u)
  BY <1>10, RestsKeeps
<1> QED
  BY <1>7, <1>8, <1>11, <1>12, CalmOfBoth DEF v

-----------------------------------------------------------------------------
(* Connecting.                                                             *)

\* A client is made.
LEMMA ConnectCalm ==
    ASSUME PairInv, Calm, NEW u \in Users, Connect(u)
    PROVE  Calm' /\ Keeps(u, Peer(u)) /\ Keeps(Peer(u), u)
<1> DEFINE v == Peer(u)
<1>1. /\ v \in Users /\ v # u /\ Ordered(u) /\ Wishes(u) /\ Exchange(u, v)
      /\ Ordered(v) /\ Wishes(v) /\ Exchange(v, u) /\ ClientHolds(u) /\ ClientHolds(v)
  BY CalmBoth
<1>2. /\ UNCHANGED <<server, toServer, toClient, cut, p2pConnected, p2pWants, p2pFaults,
                     rtc, making, changed, needed, local>>
      /\ delegate[u] = "absent" /\ delegate' = [delegate EXCEPT ![u] = "connecting"]
      /\ connects' = [connects EXCEPT ![u] = @ + 1]
      /\ UNCHANGED <<registered, stopped, offerCache, answerCache, wantCache, candidates,
                     waiting, expired, faults>>
  BY DEF Connect, C!Connect, C!caches, C!timer, net, signals, peerConnection
<1>3. ServerHolds' /\ SameServer(u) /\ SameServer(v)
  BY <1>1, <1>2, ServerRests
<1>4. /\ delegate'[u] = "connecting" /\ connects'[u] = 1
      /\ delegate'[v] = delegate[v] /\ connects'[v] = connects[v]
  BY <1>1, <1>2 DEF PairInv, CP!ClientInv, CP!ClientTypeOK, ClientHolds
<1>5. ClientHolds(u)'
  BY <1>1, <1>2, <1>4 DEF ClientHolds, Uplink, server
<1>6. ClientHolds(v)'
  BY <1>1, <1>2, <1>4 DEF ClientHolds, Uplink, server
<1>7. \A x : SameUp(x) /\ SameDown(x) /\ SameMaking(x)
  BY <1>2, Unchanged DEF Uplink, Downlink
<1>8. Rests(u) /\ Rests(v)
  BY <1>2, <1>3, <1>7 DEF Rests
<1> HIDE DEF v
<1>9. /\ Ordered(v)' /\ Wishes(v)' /\ Ordered(u)' /\ Wishes(u)'
      /\ Exchange(u, v)' /\ Exchange(v, u)'
  BY <1>1, <1>8, RestsWell, RestsExchange
<1>10. Keeps(u, v) /\ Keeps(v, u)
  BY <1>8, RestsKeeps
<1> QED
  BY <1>3, <1>5, <1>6, <1>9, <1>10, CalmOfBoth DEF v

\* The server accepts its connection.
LEMMA AcceptCalm ==
    ASSUME PairInv, Calm, NEW u \in Users, Accept(u)
    PROVE  Calm' /\ Keeps(u, Peer(u)) /\ Keeps(Peer(u), u)
<1> DEFINE v == Peer(u)
<1>1. /\ v \in Users /\ v # u /\ Ordered(u) /\ Wishes(u) /\ Exchange(u, v)
      /\ Ordered(v) /\ Wishes(v) /\ Exchange(v, u) /\ ClientHolds(u) /\ ClientHolds(v)
      /\ ServerHolds
  BY CalmBoth
<1>2. /\ UNCHANGED <<clients, toServer, toClient, cut, signals, peerConnection>>
      /\ delegate[u] = "connecting" /\ conn' = [conn EXCEPT ![Link(u)] = "open"]
      /\ UNCHANGED <<regToken, live, wants, active, offers, answers, failed>>
  BY DEF Accept, S!Accept, S!devices, net
<1>3. Link(u) = Line(u)
  BY <1>1, <1>2 DEF ClientHolds, Link, Line
<1>4. \A c \in Conns : conn'[c] = IF c = Line(u) THEN "open" ELSE conn[c]
  BY <1>2, <1>3 DEF PairInv, SP!IInv, SP!ServerTypeOK
<1>5. ServerHolds'
  <2>1. \A c \in Conns : conn'[c] # "closed" /\ (conn'[c] = "open" => c[2] = 1)
    BY <1>1, <1>4, Lines DEF ServerHolds
  <2> QED
    BY <1>1, <1>2, <2>1 DEF ServerHolds
<1>6. ClientHolds(u)'
  BY <1>1, <1>2, <1>4, Lines DEF ClientHolds, Uplink, clients, signals, peerConnection
<1>7. ClientHolds(v)'
  BY <1>1, <1>2, <1>4, Lines DEF ClientHolds, Uplink, clients, signals, peerConnection
<1>8. \A x : SameUp(x) /\ SameDown(x) /\ SameMaking(x) /\ SameServer(x)
  BY <1>2, Unchanged DEF Uplink, Downlink, peerConnection
<1>9. Rests(u) /\ Rests(v)
  BY <1>2, <1>8 DEF Rests, signals, peerConnection
<1> HIDE DEF v
<1>10. /\ Ordered(v)' /\ Wishes(v)' /\ Ordered(u)' /\ Wishes(u)'
       /\ Exchange(u, v)' /\ Exchange(v, u)'
  BY <1>1, <1>9, RestsWell, RestsExchange
<1>11. Keeps(u, v) /\ Keeps(v, u)
  BY <1>9, RestsKeeps
<1> QED
  BY <1>5, <1>6, <1>7, <1>10, <1>11, CalmOfBoth DEF v

\* The client whose connection just opened, after it sent w on it.
Opening(u, w) ==
    [delegate |-> [delegate EXCEPT ![u] = "open"], offer |-> offerCache,
     answer |-> answerCache, want |-> wantCache, candidates |-> candidates,
     sent |-> [C!Silent EXCEPT ![u] = w], faults |-> C!NoFault]

\* What it sends first: the registration and the wish it kept.
Greeting(u) ==
    IF u \in p2pWants THEN Append(Append(<<>>, "registration"), "want_to_negotiate")
    ELSE Append(<<>>, "registration")

\* The first messages are the registration and the wish; there is no cache.
LEMMA OpeningEffect ==
    ASSUME PairInv, Calm, NEW u \in Users, delegate[u] # "open", C!Connected(u, u \in p2pWants)
    PROVE  C!SendBy(u, Opening(u, Greeting(u)))
<1> DEFINE one == Append(<<>>, "registration")
           two == Append(one, "want_to_negotiate")
           opened == C!Transmit([C!Client EXCEPT !.delegate[u] = "open"], u, "registration")
           told == IF u \in p2pWants /\ u \notin registered THEN C!SendWantToNegotiate(opened, u)
                   ELSE opened
<1>1. ClientHolds(u) /\ u \notin registered
  BY DEF Calm, Holds, ClientHolds
<1>2. delegate \in [Users -> CP!Delegates]
  BY DEF PairInv, CP!ClientInv, CP!ClientTypeOK
<1>3. /\ offerCache \subseteq Users /\ answerCache \subseteq Users /\ wantCache \subseteq Users
      /\ candidates \in [Users -> 0..MaxIce]
  BY DEF PairInv, CP!ClientInv, CP!ClientTypeOK
<1>4. opened = Opening(u, one)
  <2>1. [C!Client EXCEPT !.delegate[u] = "open"] = Opening(u, <<>>)
    BY DEF C!Client, C!Silent, Opening
  <2>2. Opening(u, <<>>).delegate[u] = "open"
    BY <1>2 DEF Opening
  <2>3. C!Transmit(Opening(u, <<>>), u, "registration") = Opening(u, one)
    BY <2>2 DEF C!Transmit, Opening, C!Silent
  <2> QED
    BY <2>1, <2>3
<1> HIDE DEF opened, one
<1>5. C!SendWantToNegotiate(opened, u) = Opening(u, two)
  <2>1. Opening(u, one).delegate[u] = "open"
    BY <1>2 DEF Opening
  <2>2. C!SendWantToNegotiate(Opening(u, one), u) = Opening(u, two)
    BY <2>1 DEF C!SendWantToNegotiate, C!IsConnected, C!Transmit, Opening, C!Silent
  <2> QED
    BY <1>4, <2>2
<1>6. told = Opening(u, Greeting(u))
  <2> HIDE DEF two
  <2>1. CASE u \in p2pWants
    BY <1>1, <1>5, <2>1 DEF Greeting, one, two
  <2>2. CASE u \notin p2pWants
    BY <1>1, <1>4, <2>2 DEF Greeting, one
  <2> QED
    BY <2>1, <2>2
<1>7. Greeting(u) \in Seq(C!Sendable)
  <2>1. one \in Seq(C!Sendable) /\ two \in Seq(C!Sendable)
    BY DEF one, C!Sendable
  <2> HIDE DEF two
  <2> QED
    BY <2>1 DEF Greeting, one, two
<1>8. C!SendCache(Opening(u, Greeting(u)), u) = Opening(u, Greeting(u))
  <2> DEFINE s == Opening(u, Greeting(u))
             w == Greeting(u)
             cached == [i \in 1..s.candidates[u] |-> "ice_candidate"]
                         \o (IF u \in s.offer THEN <<"offer">> ELSE <<>>)
                         \o (IF u \in s.answer THEN <<"answer">> ELSE <<>>)
                         \o (IF u \in s.want THEN <<"want_to_negotiate">> ELSE <<>>)
  <2>1. /\ s.candidates = candidates /\ s.offer = offerCache /\ s.answer = answerCache
        /\ s.want = wantCache /\ s.sent = [C!Silent EXCEPT ![u] = w]
    BY DEF s, Opening
  <2>2. /\ candidates[u] = 0 /\ u \notin offerCache /\ u \notin answerCache /\ u \notin wantCache
    BY <1>1 DEF ClientHolds
  <2>3. [i \in 1..0 |-> "ice_candidate"] \o <<>> \o <<>> \o <<>> = <<>>
    OBVIOUS
  <2> HIDE DEF s, w
  <2>4. cached = <<>>
    BY <2>1, <2>2, <2>3
  <2> HIDE DEF cached
  <2>5. s.sent[u] \o cached = w /\ s.sent[u] = w
    <3>1. s.sent[u] = w
      BY <2>1 DEF C!Silent
    <3>2. w \o <<>> = w
      BY <1>7 DEF w
    <3> QED
      BY <2>4, <3>1, <3>2
  <2>6. /\ [s.sent EXCEPT ![u] = @ \o cached] = s.sent
        /\ [s.candidates EXCEPT ![u] = 0] = s.candidates
        /\ s.offer \ {u} = s.offer /\ s.answer \ {u} = s.answer /\ s.want \ {u} = s.want
    BY <1>3, <2>1, <2>2, <2>5 DEF C!Silent
  <2>7. s = [delegate |-> s.delegate, offer |-> s.offer, answer |-> s.answer, want |-> s.want,
             candidates |-> s.candidates, sent |-> s.sent, faults |-> s.faults]
    BY DEF s, Opening
  <2>8. C!SendCache(s, u) = [s EXCEPT !.sent[u] = @ \o cached, !.candidates[u] = 0,
                                      !.offer = @ \ {u}, !.answer = @ \ {u}, !.want = @ \ {u}]
    BY DEF C!SendCache, cached
  <2>9. C!SendCache(s, u) = s
    <3>1. C!SendCache(s, u) = [delegate |-> s.delegate, offer |-> s.offer \ {u},
             answer |-> s.answer \ {u}, want |-> s.want \ {u},
             candidates |-> [s.candidates EXCEPT ![u] = 0],
             sent |-> [s.sent EXCEPT ![u] = @ \o cached], faults |-> s.faults]
      BY <2>7, <2>8
    <3> QED
      BY <2>6, <2>7, <3>1
  <2> QED
    BY <2>9 DEF s
<1>9. C!SendBy(u, C!SendCache(told, u))
  BY DEF C!Connected, opened
<1> HIDE DEF told
<1> QED
  BY <1>6, <1>8, <1>9

\* A client registers, and offers nothing before it is asked to.
LEMMA ConnectedCalm ==
    ASSUME PairInv, Calm, NEW u \in Users, Connected(u)
    PROVE  Calm' /\ Keeps(u, Peer(u)) /\ Keeps(Peer(u), u)
<1> DEFINE v == Peer(u)
           s == Opening(u, Greeting(u))
<1>1. /\ v \in Users /\ v # u /\ Ordered(u) /\ Wishes(u) /\ Exchange(u, v)
      /\ Ordered(v) /\ Wishes(v) /\ Exchange(v, u) /\ ClientHolds(u) /\ ClientHolds(v)
      /\ ServerHolds /\ Line(u) \in Conns /\ Line(v) \in Conns /\ Line(v) # Line(u)
  BY CalmBoth
<1>2. /\ C!Connected(u, u \in p2pWants) /\ Upload /\ conn[Link(u)] # "idle"
      /\ p2pConnected' = p2pConnected \cup {u}
      /\ p2pWants' = IF u \in registered THEN p2pWants ELSE p2pWants \ {u}
      /\ UNCHANGED <<server, toClient, cut, p2pFaults, peerConnection>>
  BY DEF Connected
<1>3. delegate[u] = "connecting" /\ registered' = registered \cup {u}
      /\ UNCHANGED <<connects, stopped, waiting, expired>>
  BY <1>2 DEF C!Connected, C!timer
<1>4. C!SendBy(u, s)
  BY <1>2, <1>3, OpeningEffect
<1>5. /\ s.delegate = [delegate EXCEPT ![u] = "open"] /\ s.offer = offerCache
      /\ s.answer = answerCache /\ s.want = wantCache /\ s.candidates = candidates
      /\ s.faults = C!NoFault /\ s.sent = [C!Silent EXCEPT ![u] = Greeting(u)]
  BY DEF Opening
<1> HIDE DEF s
<1>6. ~C!Fatal(s.faults[u])
  BY <1>5 DEF C!Fatal, C!NoFault
<1>7. /\ delegate' = [delegate EXCEPT ![u] = "open"]
      /\ UNCHANGED <<offerCache, answerCache, wantCache, candidates>>
      /\ sent' = s.sent /\ faults' = [p \in Users |-> faults[p] \cup {}]
  BY <1>4, <1>5, <1>6 DEF C!SendBy, C!NoFault
<1>8. /\ faults' = faults /\ delegate'[u] = "open" /\ delegate'[v] = delegate[v]
      /\ connects[u] = 1
  BY <1>1, <1>3, <1>7 DEF PairInv, CP!ClientInv, CP!ClientTypeOK, ClientHolds
<1>9. conn[Line(u)] = "open" /\ UNCHANGED conn
  <2>1. Link(u) = Line(u) /\ conn[Line(u)] \in {"idle", "open", "closed"}
    BY <1>1, <1>8 DEF Link, Line, PairInv, SP!IInv, SP!ServerTypeOK
  <2> QED
    BY <1>1, <1>2, <2>1 DEF ServerHolds, server
<1>10. Uplink(u)' = <<>> \o Greeting(u) /\ Uplink(v)' = Uplink(v)
  <2>1. /\ sent'[u] = Greeting(u) /\ sent'[v] = <<>> /\ Line(u)[1] = u /\ Line(v)[1] = v
        /\ Line(u) \notin cut /\ Line(v) \notin cut /\ Uplink(u) = <<>>
        /\ conn[Line(v)] # "closed"
    BY <1>1, <1>3, <1>5, <1>7, Lines DEF C!Silent, ServerHolds, ClientHolds
  <2>2. Line(u) = <<u, connects'[u]>>
    BY <1>3, <1>8 DEF Line
  <2>3. toServer'[Line(u)] = toServer[Line(u)] \o sent'[u]
    BY <1>1, <1>2, <1>9, <2>1, <2>2 DEF Upload
  <2>4. toServer'[Line(v)] \in {toServer[Line(v)], toServer[Line(v)] \o <<>>}
    BY <1>1, <1>2, <2>1 DEF Upload
  <2>5. toServer[Line(v)] \o <<>> = toServer[Line(v)]
    BY <1>1 DEF PairInv, ChannelsTyped
  <2> QED
    BY <2>1, <2>3, <2>4, <2>5 DEF Uplink
<1>11. /\ ~SentOffer(u)' /\ ~SentAnswer(u)' /\ (SentWish(u)' <=> u \in p2pWants)
       /\ Clear(Uplink(u))'
  <2> DEFINE one == Append(<<>>, "registration")
             two == Append(one, "want_to_negotiate")
  <2>1. /\ <<>> \in Seq(C!Sendable) /\ "registration" \in C!Sendable
        /\ "want_to_negotiate" \in C!Sendable
        /\ \A y : ~Has(<<>>, y) /\ Once(<<>>, y)
    BY DEF C!Sendable, Has, Once
  <2>2. /\ one \in Seq(C!Sendable)
        /\ \A y : Has(one, y) <=> y = "registration"
        /\ \A y : Once(one, y)
    BY <2>1, Appended
  <2> HIDE DEF one
  <2>3. /\ two \in Seq(C!Sendable)
        /\ \A y : Has(two, y) <=> y = "registration" \/ y = "want_to_negotiate"
        /\ \A y : Once(two, y)
    BY <2>1, <2>2, Appended
  <2>4. <<>> \o one = one /\ <<>> \o two = two
    BY <2>2, <2>3
  <2> HIDE DEF two
  <2>5. Uplink(u)' = IF u \in p2pWants THEN two ELSE one
    BY <1>10, <2>4 DEF Greeting, one, two
  <2>6. ASSUME NEW z, Uplink(u)' = z
        PROVE  /\ SentOffer(u)' <=> Has(z, "offer")
               /\ SentAnswer(u)' <=> Has(z, "answer")
               /\ SentWish(u)' <=> Has(z, "want_to_negotiate")
               /\ Clear(z) => Clear(Uplink(u))'
    BY <2>6 DEF SentOffer, SentAnswer, SentWish
  <2>7. CASE u \in p2pWants
    <3>1. Uplink(u)' = two
      BY <2>5, <2>7
    <3> QED
      BY <2>3, <2>6, <2>7, <3>1 DEF Clear
  <2>8. CASE u \notin p2pWants
    <3>1. Uplink(u)' = one
      BY <2>5, <2>8
    <3> QED
      BY <2>2, <2>6, <2>8, <3>1 DEF Clear
  <2> QED
    BY <2>7, <2>8
<1>12. ServerHolds' /\ SameServer(u) /\ SameServer(v)
  BY <1>1, <1>2, ServerRests
<1>13. u \notin registered /\ p2pWants' = p2pWants \ {u}
  BY <1>1, <1>2, <1>3 DEF ClientHolds
<1>14. ClientHolds(u)'
  BY <1>1, <1>2, <1>3, <1>7, <1>8, <1>9, <1>13 DEF ClientHolds, peerConnection, server
<1>15. ClientHolds(v)'
  BY <1>1, <1>2, <1>3, <1>7, <1>8, <1>9, <1>10, <1>13 DEF ClientHolds, peerConnection, server
<1>16. SameUp(v) /\ SameDown(v) /\ SameDown(u) /\ SameMaking(u) /\ SameMaking(v)
  BY <1>2, <1>10, Unchanged DEF Downlink, peerConnection
<1>17. /\ Rests(v) /\ rtc' = rtc /\ needed' = needed /\ changed' = changed
  BY <1>1, <1>2, <1>12, <1>13, <1>16 DEF Rests, peerConnection
<1>18. ~SentOffer(u) /\ ~SentAnswer(u) /\ ~SentWish(u)
  <2>1. Uplink(u) = <<>>
    BY <1>1, <1>3 DEF ClientHolds
  <2> QED
    BY <2>1 DEF SentOffer, SentAnswer, SentWish, Has
<1> HIDE DEF v
<1>19. Ordered(v)' /\ Wishes(v)'
  BY <1>1, <1>17, RestsWell
<1>20. Ordered(u)' /\ Wishes(u)'
  BY <1>1, <1>11, <1>12, <1>13, <1>16, <1>17, <1>18
     DEF Ordered, Wishes, SameDown, SameMaking, SameServer
<1>21. Exchange(u, v)' /\ Exchange(v, u)'
  BY <1>1, <1>11, <1>12, <1>16, <1>17, <1>18
     DEF Exchange, Rests, SameUp, SameDown, SameMaking, SameServer
<1>22. Keeps(u, v) /\ Keeps(v, u)
  BY <1>11, <1>16, <1>18 DEF Keeps, Phase, SameUp, SameDown, SameMaking
<1> QED
  BY <1>12, <1>14, <1>15, <1>19, <1>20, <1>21, <1>22, CalmOfBoth DEF v

-----------------------------------------------------------------------------
(* The server reads a message.                                             *)

\* What it sends is under way behind the rest.
LEMMA OutEffect ==
    ASSUME ChannelsTyped, NEW x \in Users, out' \in [Conns -> Seq(S!Messages)],
           Downlink(x)' = Downlink(x) \o out'[Line(x)]
    PROVE  /\ out'[Line(x)] = <<>> => SameDown(x)
           /\ SP!OnlyCandidates(out'[Line(x)]) => SameDown(x)
           /\ \A m \in S!Messages \ {"ice_candidate"} :
                 out'[Line(x)] = Append(<<>>, m) => Hears(x, m)
           /\ \A m \in S!Messages \ {"ice_candidate"}, w \in Seq(S!Messages) :
                 SP!OnlyCandidates(w) /\ out'[Line(x)] = Append(w, m) => Hears(x, m)
           /\ out'[Line(x)] = Append(Append(<<>>, "answer"), "create_offer") => HearsBoth(x)
<1> DEFINE o == out'[Line(x)]
           q == Downlink(x)
<1>1. o \in Seq(S!Messages) /\ q \in Seq(S!Messages)
  BY Lines DEF ChannelsTyped, Downlink
<1>2. Downlink(x)' = q \o o
  OBVIOUS
<1> HIDE DEF o
<1>3. <<>> \in Seq(S!Messages) /\ SP!OnlyCandidates(<<>>)
  BY DEF SP!OnlyCandidates
<1>4. SP!OnlyCandidates(o) => SameDown(x)
  BY <1>1, <1>2, HearsCandidates
<1>5. ASSUME NEW m \in S!Messages \ {"ice_candidate"}, NEW w \in Seq(S!Messages),
             SP!OnlyCandidates(w), o = Append(w, m)
      PROVE  Hears(x, m)
  <2>1. Downlink(x)' = Append(q \o w, m)
    BY <1>1, <1>2, <1>5, Following
  <2> QED
    BY <1>5, <2>1, HearsLemma
<1>6. ASSUME o = Append(Append(<<>>, "answer"), "create_offer") PROVE HearsBoth(x)
  <2>1. q \o o = Append(Append(q, "answer"), "create_offer")
    <3>1. "answer" \in S!Messages /\ "create_offer" \in S!Messages
      BY DEF S!Messages
    <3> QED
      BY <1>1, <1>6, <3>1
  <2> QED
    BY <1>2, <2>1, HearsBothLemma
<1> QED
  BY <1>3, <1>4, <1>5, <1>6 DEF o

\* What a handler of a message of u leaves to be shown.
Handled(u, m) ==
    /\ Gives(u, m) /\ delegate[u] = "open"
    /\ ChannelsTyped /\ out' \in [Conns -> Seq(S!Messages)]
    /\ \A x \in Users : SameMaking(x) /\ (x # u => SameUp(x))
    /\ \A x \in Users : Downlink(x)' = Downlink(x) \o out'[Line(x)]
    /\ UNCHANGED <<clients, cut, signals, peerConnection>>
    /\ \A x \in Users : delegate[x] # "open" => Uplink(x)' = <<>>

\* The server reads from the only connection of a client.
LEMMA ServerReads ==
    ASSUME PairInv, PairInv', Calm, NEW c \in Conns, ServerReceives(c)
    PROVE  /\ c[1] \in Users /\ c = Line(c[1]) /\ Handled(c[1], Head(toServer[c]))
           /\ Head(toServer[c]) \in C!Sendable
<1> DEFINE u == c[1]
           m == Head(toServer[c])
<1>1. /\ conn[c] = "open" /\ toServer[c] # <<>> /\ Download
      /\ toServer' = [toServer EXCEPT ![c] = Tail(@)]
      /\ UNCHANGED <<clients, cut, signals, peerConnection>>
  BY DEF ServerReceives
<1>2. u \in Users /\ c = Line(u)
  BY <1>1, Lines DEF Calm, ServerHolds
<1>3. ChannelsTyped /\ out' \in [Conns -> Seq(S!Messages)]
  BY DEF PairInv, SP!IInv, SP!ServerTypeOK, SP!Messages, S!Messages
<1>4. \A x \in Users : Uplink(x)' = IF x = u THEN Tail(Uplink(x)) ELSE Uplink(x)
  BY <1>1, <1>2, <1>3, Lines DEF ChannelsTyped, Uplink
<1>5. Uplink(u) # <<>> /\ m = Head(Uplink(u)) /\ Uplink(u)' = Tail(Uplink(u))
  BY <1>1, <1>2, <1>4 DEF Uplink
<1> HIDE DEF u, m
<1>6. Gives(u, m) /\ m \in C!Sendable
  BY <1>2, <1>3, <1>5, GivesLemma
<1>7. delegate[u] = "open"
  BY <1>2, <1>5 DEF Calm, Holds, ClientHolds
<1>8. \A x \in Users : SameMaking(x) /\ (x # u => SameUp(x))
  BY <1>1, <1>4, Unchanged DEF peerConnection
<1>9. \A x \in Users : Downlink(x)' = Downlink(x) \o out'[Line(x)]
  BY <1>1, Lines DEF Download, Downlink, Calm, ServerHolds
<1>10. \A x \in Users : delegate[x] # "open" => Uplink(x)' = <<>>
  BY <1>4, <1>7 DEF Calm, Holds, ClientHolds
<1>11. Handled(u, m)
  BY <1>1, <1>3, <1>6, <1>7, <1>8, <1>9, <1>10 DEF Handled
<1> QED
  BY <1>2, <1>6, <1>11 DEF u, m

\* A handler that closes nothing leaves the clients in order.
LEMMA HandledHolds ==
    ASSUME Calm, NEW u \in Users, NEW m, Handled(u, m), UNCHANGED conn,
           NEW x \in Users, Line(x) \in live' => Line(x) \in live \/ delegate[x] = "open"
    PROVE  ClientHolds(x)'
<1>1. ClientHolds(x)
  BY DEF Calm, Holds
<1> QED
  BY <1>1 DEF ClientHolds, Handled, clients, signals, peerConnection

\* A wish is taken up, or waits for an answer or for the partner.
LEMMA WantCalm ==
    ASSUME PairInv, Calm, NEW u \in Users, Handled(u, "want_to_negotiate"),
           SP!OnWantToNegotiate(Line(u))
    PROVE  Calm' /\ Keeps(u, Peer(u)) /\ Keeps(Peer(u), u)
<1> DEFINE v == Peer(u)
           c == Line(u)
<1>1. /\ v \in Users /\ v # u /\ Ordered(u) /\ Wishes(u) /\ Exchange(u, v)
      /\ Ordered(v) /\ Wishes(v) /\ Exchange(v, u) /\ ServerHolds
      /\ Line(u) \in Conns /\ Line(v) \in Conns /\ Line(v) # Line(u)
  BY CalmBoth
<1>2. /\ UNCHANGED <<live, partner, offers, answers, failed>>
      /\ \/ /\ active' = active /\ wants' = wants \cup {c} /\ out' = SP!Quiet
         \/ /\ c \notin active /\ active' = active \cup {c} /\ wants' = wants \ {c}
            /\ out' = [SP!Quiet EXCEPT ![c] = Append(@, "create_offer")]
  BY <1>1, Bounds, SP!WantEffect DEF PairInv
<1>3. UNCHANGED <<conn, regToken>>
  BY DEF SP!OnWantToNegotiate, SP!registry
<1>4. ServerHolds'
  BY <1>1, <1>2, <1>3 DEF ServerHolds, Handled
<1>5. ClientHolds(u)' /\ ClientHolds(v)'
  BY <1>1, <1>2, <1>3, HandledHolds
<1>6. /\ SP!Quiet[Line(u)] = <<>> /\ SP!Quiet[Line(v)] = <<>>
      /\ "create_offer" \in S!Messages \ {"ice_candidate"}
  BY <1>1 DEF SP!Quiet, S!Messages
<1>7. /\ SameUp(v) /\ SameMaking(u) /\ SameMaking(v)
      /\ Gives(u, "want_to_negotiate")
      /\ rtc' = rtc /\ needed' = needed /\ changed' = changed /\ p2pWants' = p2pWants
  BY <1>1 DEF Handled, signals, peerConnection
<1>8. SameDown(v)
  <2>1. out'[Line(v)] = <<>>
    BY <1>1, <1>2, <1>6 DEF SP!Quiet
  <2> QED
    BY <1>1, <2>1, OutEffect DEF Handled
<1>9. \/ /\ SameDown(u) /\ (Negotiates(u)' <=> Negotiates(u)) /\ Waits(u)'
      \/ /\ Hears(u, "create_offer") /\ ~Negotiates(u) /\ Negotiates(u)' /\ ~Waits(u)'
  <2>1. CASE active' = active /\ wants' = wants \cup {c} /\ out' = SP!Quiet
    <3>1. SameDown(u)
      BY <1>6, <2>1, OutEffect DEF Handled
    <3> QED
      BY <2>1, <3>1 DEF Negotiates, Waits
  <2>2. CASE /\ c \notin active /\ active' = active \cup {c} /\ wants' = wants \ {c}
             /\ out' = [SP!Quiet EXCEPT ![c] = Append(@, "create_offer")]
    <3>1. out'[Line(u)] = Append(<<>>, "create_offer")
      BY <1>1, <1>6, <2>2 DEF SP!Quiet
    <3>2. Hears(u, "create_offer")
      BY <1>6, <3>1, OutEffect DEF Handled
    <3> QED
      BY <2>2, <3>2 DEF Negotiates, Waits
  <2> QED
    BY <1>2, <2>1, <2>2
<1>10. SameServer(v)
  BY <1>1, <1>2 DEF SameServer, Negotiates, Waits
<1>11. Rests(v)
  BY <1>7, <1>8, <1>10 DEF Rests
<1> HIDE DEF v, c
<1>12. Ordered(v)' /\ Wishes(v)'
  BY <1>1, <1>11, RestsWell
<1>13. Ordered(u)'
  BY <1>1, <1>7, <1>9 DEF Ordered, Exchange, Gives, Hears, SameDown, SameMaking
<1>14. Wishes(u)'
  BY <1>1, <1>7, <1>9 DEF Wishes, Gives, Hears, SameDown, SameMaking
<1>15. Exchange(u, v)'
  BY <1>1, <1>7, <1>9, <1>11
     DEF Exchange, Gives, Hears, Ordered, Rests, SameUp, SameDown, SameMaking, SameServer
<1>16. Exchange(v, u)'
  BY <1>1, <1>7, <1>9, <1>11
     DEF Exchange, Gives, Hears, Ordered, Rests, SameUp, SameDown, SameMaking, SameServer
<1>17. Keeps(u, v) /\ Keeps(v, u)
  BY <1>1, <1>7, <1>9, <1>11 DEF Keeps, Phase, Ordered, Gives, Hears, Rests, SameUp, SameDown, SameMaking
<1> QED
  BY <1>4, <1>5, <1>12, <1>13, <1>14, <1>15, <1>16, <1>17, CalmOfBoth DEF v

\* An offer goes on to the peer.
LEMMA OfferCalm ==
    ASSUME PairInv, Calm, NEW u \in Users, Handled(u, "offer"), SP!OnOffer(Line(u))
    PROVE  Calm' /\ Keeps(u, Peer(u)) /\ Keeps(Peer(u), u)
<1> DEFINE v == Peer(u)
           c == Line(u)
<1>1. /\ v \in Users /\ v # u /\ Ordered(u) /\ Wishes(u) /\ Exchange(u, v)
      /\ Ordered(v) /\ Wishes(v) /\ Exchange(v, u) /\ ServerHolds
      /\ Line(u) \in Conns /\ Line(v) \in Conns /\ Line(v) # Line(u)
  BY CalmBoth
<1>2. /\ SameUp(v) /\ SameMaking(u) /\ SameMaking(v) /\ Gives(u, "offer")
      /\ rtc' = rtc /\ needed' = needed /\ changed' = changed /\ p2pWants' = p2pWants
  BY <1>1 DEF Handled, signals, peerConnection
<1>3. Negotiates(u)
  BY <1>1, <1>2 DEF Exchange, Gives
<1>4. partner[c] = Line(v) /\ partner[c] # None /\ ~Negotiates(v)
  BY <1>1, <1>3, Arbitrated, Bounds
<1>5. /\ UNCHANGED <<live, partner, wants, active, offers, answers, failed>>
      /\ out' = [SP!Quiet EXCEPT ![Line(v)] = Append(@, "offer")]
  BY <1>1, <1>4, Bounds, SP!OfferEffect DEF PairInv
<1>6. UNCHANGED <<conn, regToken>>
  BY DEF SP!OnOffer, SP!registry
<1>7. ServerHolds'
  BY <1>1, <1>5, <1>6 DEF ServerHolds, Handled
<1>8. ClientHolds(u)' /\ ClientHolds(v)'
  BY <1>1, <1>5, <1>6, HandledHolds
<1>9. SameDown(u) /\ Hears(v, "offer")
  <2>1. /\ SP!Quiet[Line(u)] = <<>> /\ SP!Quiet[Line(v)] = <<>>
        /\ "offer" \in S!Messages \ {"ice_candidate"}
    BY <1>1 DEF SP!Quiet, S!Messages
  <2>2. out'[Line(u)] = <<>> /\ out'[Line(v)] = Append(<<>>, "offer")
    BY <1>1, <1>5, <2>1 DEF SP!Quiet
  <2> QED
    BY <1>1, <2>1, <2>2, OutEffect DEF Handled
<1>10. SameServer(u) /\ SameServer(v)
  BY <1>5, Unchanged
<1> HIDE DEF v, c
<1>11. Ordered(u)' /\ Wishes(u)'
  BY <1>1, <1>2, <1>9, <1>10 DEF Ordered, Wishes, Gives, SameDown, SameMaking, SameServer
<1>12. Ordered(v)' /\ Wishes(v)'
  BY <1>1, <1>2, <1>9, <1>10 DEF Ordered, Wishes, Gives, Exchange, Hears, SameUp, SameMaking, SameServer
<1>13. Exchange(u, v)'
  BY <1>1, <1>2, <1>3, <1>4, <1>9, <1>10
     DEF Exchange, Gives, Hears, Ordered, SameUp, SameDown, SameMaking, SameServer
<1>14. Exchange(v, u)'
  BY <1>1, <1>2, <1>3, <1>4, <1>9, <1>10
     DEF Exchange, Gives, Hears, Ordered, SameUp, SameDown, SameMaking, SameServer
<1>15. Keeps(u, v) /\ Keeps(v, u)
  BY <1>1, <1>2, <1>9 DEF Keeps, Phase, Ordered, Gives, Hears, SameUp, SameDown, SameMaking
<1> QED
  BY <1>7, <1>8, <1>11, <1>12, <1>13, <1>14, <1>15, CalmOfBoth DEF v

\* An answer goes on to the peer and ends its negotiation; the next one, of
\* either, begins at once when it was wished for.
LEMMA AnswerCalm ==
    ASSUME PairInv, Calm, NEW u \in Users, Handled(u, "answer"), SP!OnAnswer(Line(u))
    PROVE  Calm' /\ Keeps(u, Peer(u)) /\ Keeps(Peer(u), u)
<1> DEFINE v == Peer(u)
           c == Line(u)
           p == Line(v)
<1>1. /\ v \in Users /\ v # u /\ Ordered(u) /\ Wishes(u) /\ Exchange(u, v)
      /\ Ordered(v) /\ Wishes(v) /\ Exchange(v, u) /\ ServerHolds
      /\ c \in Conns /\ p \in Conns /\ p # c /\ Peer(v) = u
  BY CalmBoth, Both
<1>2. /\ SameUp(v) /\ SameMaking(u) /\ SameMaking(v) /\ Gives(u, "answer")
      /\ rtc' = rtc /\ needed' = needed /\ changed' = changed /\ p2pWants' = p2pWants
  BY <1>1 DEF Handled, signals, peerConnection
<1>3. Negotiates(v) /\ SentAnswer(u) /\ ~SentAnswer(u)' /\ Clear(Uplink(u))'
      /\ (SentOffer(u)' <=> SentOffer(u)) /\ (SentWish(u) => SentWish(u)')
  BY <1>1, <1>2 DEF Exchange, Gives, Ordered
<1>4. partner[c] = p /\ p \in active /\ ~Negotiates(u)
  BY <1>1, <1>3, Arbitrated DEF Negotiates
<1>5. /\ UNCHANGED <<live, partner, offers, answers, failed>>
      /\ \/ /\ p \in wants /\ active' = active /\ wants' = wants \ {p}
            /\ out' = [SP!Quiet EXCEPT ![p] = Append(Append(<<>>, "answer"), "create_offer")]
         \/ /\ c \in wants /\ active' = (active \ {p}) \cup {c} /\ wants' = wants \ {c}
            /\ out' = [SP!Quiet EXCEPT ![p] = Append(<<>>, "answer"),
                                       ![c] = Append(<<>>, "create_offer")]
         \/ /\ p \notin wants /\ c \notin wants /\ active' = active \ {p} /\ wants' = wants
            /\ out' = [SP!Quiet EXCEPT ![p] = Append(<<>>, "answer")]
  <2> HIDE DEF c, p
  <2> QED
    BY <1>1, <1>4, Bounds, SP!AnswerEffect DEF PairInv, c
<1>6. UNCHANGED <<conn, regToken>>
  BY DEF SP!OnAnswer, SP!registry
<1>7. ServerHolds'
  BY <1>1, <1>5, <1>6 DEF ServerHolds, Handled
<1>8. ClientHolds(u)' /\ ClientHolds(v)'
  BY <1>1, <1>5, <1>6, HandledHolds
<1>9. \/ /\ HearsBoth(v) /\ SameDown(u) /\ Negotiates(v)' /\ ~Negotiates(u)'
         /\ Waits(u)' <=> Waits(u)
      \/ /\ Hears(v, "answer") /\ Hears(u, "create_offer") /\ ~Negotiates(v)' /\ Negotiates(u)'
         /\ Waits(v)' <=> Waits(v)
      \/ /\ Hears(v, "answer") /\ SameDown(u) /\ ~Negotiates(v)' /\ ~Negotiates(u)'
         /\ Waits(v)' <=> Waits(v)
         /\ Waits(u)' <=> Waits(u)
  <2>1. /\ SP!Quiet[c] = <<>> /\ SP!Quiet \in [Conns -> {<<>>}]
        /\ "answer" \in S!Messages \ {"ice_candidate"}
        /\ "create_offer" \in S!Messages \ {"ice_candidate"}
    BY <1>1 DEF SP!Quiet, S!Messages
  <2>2. CASE /\ p \in wants /\ active' = active /\ wants' = wants \ {p}
             /\ out' = [SP!Quiet EXCEPT ![p] = Append(Append(<<>>, "answer"), "create_offer")]
    <3>1. out'[c] = <<>> /\ out'[p] = Append(Append(<<>>, "answer"), "create_offer")
      <4> HIDE DEF c, p
      <4> QED
        BY <1>1, <2>1, <2>2
    <3>2. SameDown(u) /\ HearsBoth(v)
      BY <1>1, <3>1, OutEffect DEF Handled
    <3>3. Negotiates(v)' /\ ~Negotiates(u)' /\ (Waits(u)' <=> Waits(u))
      BY <1>1, <1>3, <1>4, <2>2 DEF Negotiates, Waits
    <3> QED
      BY <3>2, <3>3
  <2>3. CASE /\ c \in wants /\ active' = (active \ {p}) \cup {c} /\ wants' = wants \ {c}
             /\ out' = [SP!Quiet EXCEPT ![p] = Append(<<>>, "answer"),
                                        ![c] = Append(<<>>, "create_offer")]
    <3>1. out'[c] = Append(<<>>, "create_offer") /\ out'[p] = Append(<<>>, "answer")
      <4> HIDE DEF c, p
      <4> QED
        BY <1>1, <2>1, <2>3
    <3>2. Hears(v, "answer") /\ Hears(u, "create_offer")
      BY <1>1, <2>1, <3>1, OutEffect DEF Handled
    <3>3. ~Negotiates(v)' /\ Negotiates(u)' /\ (Waits(v)' <=> Waits(v))
      BY <1>1, <2>3 DEF Negotiates, Waits
    <3> QED
      BY <3>2, <3>3
  <2>4. CASE /\ p \notin wants /\ c \notin wants /\ active' = active \ {p} /\ wants' = wants
             /\ out' = [SP!Quiet EXCEPT ![p] = Append(<<>>, "answer")]
    <3>1. out'[c] = <<>> /\ out'[p] = Append(<<>>, "answer")
      <4> HIDE DEF c, p
      <4> QED
        BY <1>1, <2>1, <2>4
    <3>2. SameDown(u) /\ Hears(v, "answer")
      BY <1>1, <2>1, <3>1, OutEffect DEF Handled
    <3>3. ~Negotiates(v)' /\ ~Negotiates(u)' /\ (Waits(v)' <=> Waits(v)) /\ (Waits(u)' <=> Waits(u))
      BY <1>1, <1>4, <2>4 DEF Negotiates, Waits
    <3> QED
      BY <3>2, <3>3
  <2> QED
    BY <1>5, <2>2, <2>3, <2>4
<1> HIDE DEF v, c, p
<1>10. /\ ~Told(v) /\ ~GetsAnswer(v) /\ ~GetsOffer(v) /\ ~MakesOffer(v) /\ ~SentOffer(v)
       /\ ~MakesAnswer(v) /\ ~SentAnswer(v) /\ ~GetsOffer(u) /\ ~MakesAnswer(u)
       /\ ~Told(u) /\ ~MakesOffer(u) /\ ~SentOffer(u) /\ ~GetsAnswer(u)
  BY <1>1, <1>3, <1>4 DEF Exchange
<1>11. Ordered(u)'
  BY <1>1, <1>2, <1>3, <1>9, <1>10 DEF Ordered, Hears, SameDown, SameMaking
<1>12. Ordered(v)'
  BY <1>1, <1>2, <1>9, <1>10 DEF Ordered, Hears, HearsBoth, SameUp, SameMaking
<1>13. Wishes(u)'
  BY <1>1, <1>2, <1>3, <1>9, <1>10 DEF Wishes, Hears, SameDown, SameMaking
<1>14. Wishes(v)'
  BY <1>1, <1>2, <1>9, <1>10 DEF Wishes, Hears, HearsBoth, SameUp, SameMaking
<1>15. Exchange(u, v)'
  BY <1>1, <1>2, <1>3, <1>4, <1>9, <1>10
     DEF Exchange, Hears, HearsBoth, SameUp, SameDown, SameMaking
<1>16. Exchange(v, u)'
  BY <1>1, <1>2, <1>3, <1>4, <1>9, <1>10
     DEF Exchange, Hears, HearsBoth, SameUp, SameDown, SameMaking
<1>17. Keeps(u, v) /\ Keeps(v, u)
  BY <1>2, <1>3, <1>9, <1>10 DEF Keeps, Phase, Hears, HearsBoth, SameUp, SameDown, SameMaking
<1> QED
  BY <1>7, <1>8, <1>11, <1>12, <1>13, <1>14, <1>15, <1>16, <1>17, CalmOfBoth DEF v

\* A candidate goes on to the peer, or is cached.
LEMMA IceCalm ==
    ASSUME PairInv, Calm, NEW u \in Users, Handled(u, "ice_candidate"), SP!OnIceCandidate(Line(u))
    PROVE  Calm' /\ Keeps(u, Peer(u)) /\ Keeps(Peer(u), u)
<1> DEFINE v == Peer(u)
<1>1. /\ v \in Users /\ v # u /\ Ordered(u) /\ Wishes(u) /\ Exchange(u, v)
      /\ Ordered(v) /\ Wishes(v) /\ Exchange(v, u) /\ ServerHolds
      /\ Line(u) \in Conns /\ Line(v) \in Conns
  BY CalmBoth
<1>2. /\ SameUp(v) /\ SameMaking(u) /\ SameMaking(v) /\ Gives(u, "ice_candidate")
      /\ rtc' = rtc /\ needed' = needed /\ changed' = changed /\ p2pWants' = p2pWants
  BY <1>1 DEF Handled, signals, peerConnection
<1>3. /\ UNCHANGED <<live, partner, wants, active, offers, answers, failed>>
      /\ \A d \in Conns : SP!OnlyCandidates(out'[d])
  BY <1>1, Bounds, SP!IceEffect DEF PairInv
<1>4. UNCHANGED <<conn, regToken>>
  BY DEF SP!OnIceCandidate, SP!registry
<1>5. ServerHolds'
  BY <1>1, <1>3, <1>4 DEF ServerHolds, Handled
<1>6. ClientHolds(u)' /\ ClientHolds(v)'
  BY <1>1, <1>3, <1>4, HandledHolds
<1>7. SameDown(u) /\ SameDown(v) /\ SameServer(u) /\ SameServer(v)
  BY <1>1, <1>3, OutEffect, Unchanged DEF Handled
<1> HIDE DEF v
<1>8. Ordered(u)' /\ Wishes(u)'
  BY <1>1, <1>2, <1>7 DEF Ordered, Wishes, Gives, SameDown, SameMaking, SameServer
<1>9. Ordered(v)' /\ Wishes(v)'
  BY <1>1, <1>2, <1>7 DEF Ordered, Wishes, SameUp, SameDown, SameMaking, SameServer
<1>10. Exchange(u, v)' /\ Exchange(v, u)'
  BY <1>1, <1>2, <1>7 DEF Exchange, Ordered, Gives, SameUp, SameDown, SameMaking, SameServer
<1>11. Keeps(u, v) /\ Keeps(v, u)
  BY <1>1, <1>2, <1>7 DEF Keeps, Phase, Ordered, Gives, SameUp, SameDown, SameMaking
<1> QED
  BY <1>5, <1>6, <1>8, <1>9, <1>10, <1>11, CalmOfBoth DEF v

\* A client that registers for the first time replaces nobody, and the only
\* device it may find is the one of its peer.
LEMMA RegistersAsNew ==
    ASSUME PairInv, Calm, NEW u \in Users, Line(u) \notin live
    PROVE  /\ SP!OldOf(Users, u) = None
           /\ \A d \in live : d = Line(Peer(u))
<1>1. \A d \in live : d = Line(Peer(u))
  <2> TAKE d \in live
  <2>1. d \in Conns /\ conn[d] = "open"
    BY DEF PairInv, SP!IInv, SP!ServerTypeOK, SP!RegistryHoldsTheLive
  <2>2. d = Line(d[1]) /\ d[1] \in Users
    BY <2>1, Lines DEF Calm, ServerHolds
  <2> QED
    BY <2>2, Both
<1>2. \A i \in SP!Index : slot[Users][i] # None => slot[Users][i] = Line(Peer(u))
  BY <1>1 DEF PairInv, SP!IInv, SP!RegistryHoldsTheLive
<1>3. \A i \in SP!Index : ~SP!HasToken(Users, i, u)
  <2> SUFFICES ASSUME NEW i \in SP!Index, SP!HasToken(Users, i, u) PROVE FALSE
    OBVIOUS
  <2>1. slot[Users][i] \in live /\ slot[Users][i] = Line(Peer(u)) /\ regToken[Line(Peer(u))] = u
    BY <1>2 DEF SP!HasToken, PairInv, SP!IInv, SP!RegistryHoldsTheLive
  <2>2. regToken[Line(Peer(u))] = Peer(u)
    BY <2>1, Lines, Both DEF Calm, ServerHolds
  <2> QED
    BY <2>1, <2>2, Both
<1>4. slot[Users][0] # None /\ slot[Users][1] # None => slot[Users][0] # slot[Users][1]
  BY DEF PairInv, SP!IInv, SP!TokensDiffer
<1>5. SP!OldOf(Users, u) = None
  BY <1>2, <1>3, <1>4 DEF SP!OldOf, SP!SlotOf, SP!Index
<1> QED
  BY <1>1, <1>5

\* A client registers; a wish of its peer is taken up.
LEMMA RegisterCalm ==
    ASSUME PairInv, Calm, NEW u \in Users, Handled(u, "registration"),
           SP!Register(Line(u), Users, u)
    PROVE  Calm' /\ Keeps(u, Peer(u)) /\ Keeps(Peer(u), u)
<1> DEFINE v == Peer(u)
           c == Line(u)
           p == Line(v)
           other == SP!OtherOf(Users, u)
<1>1. /\ v \in Users /\ v # u /\ Ordered(u) /\ Wishes(u) /\ Exchange(u, v)
      /\ Ordered(v) /\ Wishes(v) /\ Exchange(v, u) /\ ServerHolds
      /\ c \in Conns /\ p \in Conns /\ p # c
  BY CalmBoth
<1>2. /\ SameUp(v) /\ SameMaking(u) /\ SameMaking(v) /\ Gives(u, "registration")
      /\ rtc' = rtc /\ needed' = needed /\ changed' = changed /\ p2pWants' = p2pWants
      /\ delegate[u] = "open"
  BY <1>1 DEF Handled, signals, peerConnection
<1>3. c \notin live
  BY DEF SP!Register
<1>4. SP!OldOf(Users, u) = None /\ \A d \in live : d = p
  BY <1>3, RegistersAsNew
<1>5. /\ live' = live \cup {c} /\ UNCHANGED <<conn, offers, answers, failed>>
      /\ regToken' = [regToken EXCEPT ![c] = u]
      /\ \A d \in Conns \ {other} : SP!OnlyCandidates(out'[d])
      /\ \/ /\ active' = active /\ wants' = wants
            /\ \A d \in Conns : SP!OnlyCandidates(out'[d])
         \/ /\ other \in live /\ other \notin active
            /\ active' = active \cup {other} /\ wants' = wants \ {other}
            /\ \E w \in Seq(SP!Messages) :
                  SP!OnlyCandidates(w) /\ out'[other] = Append(w, "create_offer")
  <2> HIDE DEF c, other
  <2>1. offers = {} /\ answers = {} /\ Users \in {Users} /\ SP!Register(c, Users, u)
    BY <1>1 DEF ServerHolds, c
  <2>2. \A o : o = SP!OtherOf(Users, u) => o = other
    BY DEF other
  <2> QED
    BY <1>1, <1>4, <2>1, <2>2, Bounds, SP!RegisterEffect DEF PairInv, other
<1>6. ServerHolds'
  <2>1. regToken'[c] = u /\ c[1] = u /\ \A d \in Conns : d # c => regToken'[d] = regToken[d]
    BY <1>1, <1>5, Lines DEF PairInv, SP!IInv, SP!ServerTypeOK
  <2>2. \A d \in live' : regToken'[d] = d[1]
    <3> HIDE DEF c, p
    <3>1. live \subseteq Conns
      BY DEF PairInv, SP!IInv, SP!ServerTypeOK
    <3>2. \A d \in live : regToken'[d] = d[1]
      BY <1>1, <1>3, <2>1, <3>1 DEF ServerHolds
    <3> QED
      BY <1>5, <2>1, <3>2
  <2> QED
    BY <1>1, <1>5, <2>2 DEF ServerHolds, Handled
<1>7. ClientHolds(u)' /\ ClientHolds(v)'
  BY <1>1, <1>2, <1>5, HandledHolds
<1>8. SameServer(u) /\ SameDown(u)
      /\ \/ SameServer(v) /\ SameDown(v)
         \/ ~Negotiates(v) /\ Negotiates(v)' /\ Hears(v, "create_offer")
  <2>1. CASE /\ active' = active /\ wants' = wants
             /\ \A d \in Conns : SP!OnlyCandidates(out'[d])
    BY <1>1, <2>1, OutEffect, Unchanged DEF Handled
  <2>2. CASE /\ other \in live /\ other \notin active
             /\ active' = active \cup {other} /\ wants' = wants \ {other}
             /\ \E w \in Seq(SP!Messages) :
                   SP!OnlyCandidates(w) /\ out'[other] = Append(w, "create_offer")
    <3>1. other = p
      BY <1>4, <2>2
    <3> HIDE DEF other
    <3>2. SameDown(u)
      BY <1>1, <1>5, <3>1, OutEffect DEF Handled
    <3>3. "create_offer" \in S!Messages \ {"ice_candidate"} /\ S!Messages = SP!Messages
      BY DEF S!Messages, SP!Messages
    <3>4. Hears(v, "create_offer")
      BY <1>1, <2>2, <3>1, <3>3, OutEffect DEF Handled
    <3>5. SameServer(u) /\ ~Negotiates(v) /\ Negotiates(v)'
      BY <1>1, <2>2, <3>1 DEF SameServer, Negotiates, Waits
    <3> QED
      BY <3>2, <3>4, <3>5
  <2> QED
    BY <1>5, <2>1, <2>2
<1> HIDE DEF v, c, p, other
<1>9. Ordered(u)' /\ Wishes(u)'
  BY <1>1, <1>2, <1>8 DEF Ordered, Wishes, Gives, SameDown, SameMaking, SameServer
<1>10. Ordered(v)'
  BY <1>1, <1>2, <1>8 DEF Ordered, Exchange, SameUp, SameDown, SameMaking, Hears
<1>11. Wishes(v)'
  BY <1>1, <1>2, <1>8 DEF Wishes, SameUp, SameDown, SameMaking, SameServer, Hears
<1>12. Exchange(u, v)'
  BY <1>1, <1>2, <1>8
     DEF Exchange, Ordered, Gives, Hears, SameUp, SameDown, SameMaking, SameServer
<1>13. Exchange(v, u)'
  BY <1>1, <1>2, <1>8
     DEF Exchange, Ordered, Gives, Hears, SameUp, SameDown, SameMaking, SameServer
<1>14. Keeps(u, v) /\ Keeps(v, u)
  BY <1>1, <1>2, <1>8 DEF Keeps, Phase, Ordered, Gives, Hears, SameUp, SameDown, SameMaking
<1> QED
  BY <1>6, <1>7, <1>9, <1>10, <1>11, <1>12, <1>13, <1>14, CalmOfBoth DEF v

\* Whatever the server reads, the pair stays calm.
LEMMA ServerReceivesCalm ==
    ASSUME PairInv, PairInv', Calm, NEW c \in Conns, ServerReceives(c)
    PROVE  Calm' /\ Keeps(c[1], Peer(c[1])) /\ Keeps(Peer(c[1]), c[1])
<1> DEFINE u == c[1]
           m == Head(toServer[c])
<1>1. u \in Users /\ c = Line(u) /\ Handled(u, m) /\ m \in C!Sendable
  BY ServerReads
<1>2. CASE m = "registration"
  BY <1>1, <1>2, SameRegister, RegisterCalm DEF ServerReceives
<1>3. CASE m = "want_to_negotiate"
  BY <1>1, <1>3, SameMessages, WantCalm DEF ServerReceives
<1>4. CASE m = "offer"
  BY <1>1, <1>4, SameMessages, OfferCalm DEF ServerReceives
<1>5. CASE m = "answer"
  BY <1>1, <1>5, SameMessages, AnswerCalm DEF ServerReceives
<1>6. CASE m = "ice_candidate"
  BY <1>1, <1>6, SameMessages, IceCalm DEF ServerReceives
<1> QED
  BY <1>1, <1>2, <1>3, <1>4, <1>5, <1>6 DEF C!Sendable

-----------------------------------------------------------------------------
(* The theorems about a pair whose connections hold.                       *)

\* A connection that nobody cut is up as long as no assertion fails.
LEMMA NobodyIsDown == ASSUME Calm, NEW c \in Conns PROVE ~Down(c) /\ conn[c] # "closed"
<1>1. c \notin cut /\ S!Running /\ conn[c] # "closed"
  BY DEF Calm, ServerHolds, S!Running
<1>2. C!Alive(c[1])
  BY ConnParts DEF Calm, Holds, ClientHolds, C!Alive, C!Fatal
<1> QED
  BY <1>1, <1>2 DEF Down

\* Two processes and a server that just started are calm.
LEMMA CalmInit == Init => Calm
<1> SUFFICES ASSUME Init PROVE Calm
  OBVIOUS
<1>1. ServerHolds
  BY DEF Init, S!ServerInit, ServerHolds
<1>2. ASSUME NEW u \in Users PROVE Holds(u)
  <2> DEFINE v == Peer(u)
  <2>1. v \in Users
    BY Both
  <2>2. \A x \in Users : Uplink(x) = <<>> /\ Downlink(x) = <<>> /\ making[x] = <<>> /\ rtc[x] = "stable"
    BY Lines DEF Init, Uplink, Downlink
  <2>3. Clear(<<>>) /\ AnswerFirst(<<>>) /\ \A m : ~Has(<<>>, m)
    BY DEF Clear, Once, AnswerFirst, Has
  <2>4. Append(<<>>, "offer") # <<>> /\ Append(<<>>, "answer") # <<>>
    OBVIOUS
  <2>5. ASSUME NEW x \in Users
        PROVE  /\ ~Told(x) /\ ~MakesOffer(x) /\ ~SentOffer(x) /\ ~GetsAnswer(x)
               /\ ~GetsOffer(x) /\ ~MakesAnswer(x) /\ ~SentAnswer(x) /\ ~Negotiates(x)
    BY <2>2, <2>3, <2>4 DEF Told, MakesOffer, SentOffer, GetsAnswer, GetsOffer, MakesAnswer,
                            SentAnswer, Negotiates, Init, S!ServerInit
  <2>6. Exchange(u, v)
    BY <2>1, <2>2, <2>5 DEF Exchange
  <2>7. Ordered(u)
    BY <2>2, <2>3 DEF Ordered
  <2>8. Wishes(u)
    BY DEF Wishes, Init
  <2>9. ClientHolds(u)
    BY <2>2 DEF ClientHolds, Init, C!ClientInit, C!NoFault, S!ServerInit
  <2> QED
    BY <2>6, <2>7, <2>8, <2>9 DEF Holds
<1> QED
  BY <1>1, <1>2 DEF Calm

\* A step that changes nothing keeps them calm.
LEMMA StillCalm ==
    ASSUME Calm, UNCHANGED vars
    PROVE  Calm' /\ \A u \in Users : Keeps(u, Peer(u))
<1>1. UNCHANGED <<server, clients, net, signals, peerConnection>>
  BY DEF vars
<1>2. ServerHolds'
  BY <1>1, ServerRests DEF net
<1>3. ASSUME NEW u \in Users PROVE Holds(u)' /\ Keeps(u, Peer(u))
  <2>1. Peer(u) \in Users /\ Ordered(u) /\ Wishes(u) /\ Exchange(u, Peer(u)) /\ ClientHolds(u)
    BY CalmBoth DEF Calm, Holds
  <2>2. Rests(u) /\ Rests(Peer(u))
    BY <1>1, Unchanged DEF Rests, server, net, signals, peerConnection, Uplink, Downlink
  <2>3. Ordered(u)' /\ Wishes(u)' /\ Exchange(u, Peer(u))' /\ Keeps(u, Peer(u))
    BY <2>1, <2>2, RestsWell, RestsExchange, RestsKeeps
  <2>4. ClientHolds(u)'
    BY <1>1, <2>1 DEF ClientHolds, clients, server, net, signals, peerConnection, Uplink
  <2> QED
    BY <2>3, <2>4 DEF Holds
<1> QED
  BY <1>2, <1>3 DEF Calm

\* What a step may do to the exchanges of two peers: nothing, or what one of
\* the steps of OfferAnswer does.
Alternates(u, v) ==
    \/ Keeps(u, v) /\ Keeps(v, u)
    \/ Turns(u, v, "none", "offered") /\ Phase(v, u) \in {"none", "answered"}
    \/ Turns(u, v, "offered", "received") /\ Phase(v, u) = "none"
    \/ Turns(u, v, "received", "answered")
    \/ Turns(u, v, "answered", "none")

\* Every step of either end, of the server or of the network that cuts nothing
\* keeps them calm, and takes at most one exchange one step further.
LEMMA CalmNext ==
    ASSUME PairInv, PairInv', Calm, cut' = {}, [Next]_vars
    PROVE  Calm' /\ \E u \in Users : Alternates(u, Peer(u))
<1> DEFINE Goal == Calm' /\ \E u \in Users : Alternates(u, Peer(u))
<1>1. ASSUME NEW u \in Users, Calm',
             Alternates(u, Peer(u)) \/ Alternates(Peer(u), u)
      PROVE  Goal
  <2>1. Peer(u) \in Users /\ Peer(Peer(u)) = u
    BY Both
  <2> QED
    BY <1>1, <2>1
<1>2. CASE UNCHANGED vars
  <2>1. Calm' /\ \A u \in Users : Keeps(u, Peer(u))
    BY <1>2, StillCalm
  <2>2. Users # {}
    BY TwoUsers, FS_EmptySet
  <2> PICK u \in Users : TRUE
    BY <2>2
  <2>3. Peer(u) \in Users /\ Peer(Peer(u)) = u
    BY Both
  <2> QED
    BY <1>1, <2>1, <2>3 DEF Alternates
<1>3. ASSUME NEW c \in Conns, Server(c) PROVE Goal
  <2>1. ServerReceives(c)
    BY <1>3, NobodyIsDown DEF Server, ServerLoses
  <2>2. c[1] \in Users /\ Calm' /\ Keeps(c[1], Peer(c[1])) /\ Keeps(Peer(c[1]), c[1])
    BY <2>1, ServerReads, ServerReceivesCalm
  <2> QED
    BY <1>1, <2>2 DEF Alternates
<1>4. ASSUME NEW u \in Users, Accept(u) \/ CutLink(u) \/ Change(u) \/ SendIceCandidate(u)
      PROVE  Goal
  <2>1. ~CutLink(u)
    BY DEF CutLink
  <2>2. Calm' /\ Keeps(u, Peer(u)) /\ Keeps(Peer(u), u)
    BY <1>4, <2>1, AcceptCalm, ChangeCalm, SendIceCandidateCalm
  <2> QED
    BY <1>1, <2>2 DEF Alternates
<1>5. ASSUME NEW u \in Users, Client(u) PROVE Goal
  <2>1. ASSUME HasLink(u) PROVE ~Down(Link(u)) /\ conn[Link(u)] # "closed"
    BY <2>1, LinkTyped, NobodyIsDown DEF PairInv
  <2>2. ~ConnectFailed(u)
    BY <2>1 DEF ConnectFailed
  <2>3. ~ClientLoses(u)
    BY <2>1 DEF ClientLoses, PairInv, Linked
  <2>4. ~Timer(u)
    BY DEF Timer, C!Expire, C!OnTimeout, Calm, Holds, ClientHolds
  <2>5. CASE Connect(u) \/ Connected(u) \/ OnCreateOffer(u) \/ OnIceCandidate(u)
    BY <1>1, <2>5, ConnectCalm, ConnectedCalm, OnCreateOfferCalm, OnIceCandidateCalm DEF Alternates
  <2>6. CASE OnOffer(u)
    BY <1>1, <2>6, OnOfferCalm DEF Alternates
  <2>7. CASE OnAnswer(u)
    BY <1>1, <2>7, OnAnswerCalm DEF Alternates
  <2>8. CASE SendOffer(u)
    BY <1>1, <2>8, SendOfferCalm DEF Alternates
  <2>9. CASE SendAnswer(u)
    BY <1>1, <2>9, SendAnswerCalm DEF Alternates
  <2> QED
    BY <1>5, <2>2, <2>3, <2>4, <2>5, <2>6, <2>7, <2>8, <2>9 DEF Client
<1> QED
  BY <1>2, <1>3, <1>4, <1>5 DEF Next

\* When everybody is idle nothing of an exchange or a wish is left.
LEMMA IdleLeavesNothing ==
    ASSUME PairInv, Calm, SP!NothingLiesIdle PROVE NothingLeftBehind
<1> SUFFICES ASSUME Idle
             PROVE  /\ wants = {} /\ active = {}
                    /\ changed = {} /\ needed = {} /\ p2pWants = {}
                    /\ \A u \in Users : rtc[u] = "stable"
  BY DEF NothingLeftBehind
<1>1. \A c \in Conns : toServer[c] = <<>> /\ toClient[c] = <<>>
  BY DEF Idle
<1>2. \A u \in Users : /\ delegate[u] = "open" /\ making[u] = <<>>
                       /\ Uplink(u) = <<>> /\ Downlink(u) = <<>>
  BY <1>1, Lines DEF Idle, Uplink, Downlink
<1>3. ASSUME NEW u \in Users
      PROVE  /\ ~Told(u) /\ ~MakesOffer(u) /\ ~SentOffer(u) /\ ~GetsAnswer(u)
             /\ ~GetsOffer(u) /\ ~MakesAnswer(u) /\ ~SentAnswer(u) /\ ~SentWish(u)
  <2>1. \A m : ~Has(<<>>, m)
    BY DEF Has
  <2>2. Append(<<>>, "offer") # <<>> /\ Append(<<>>, "answer") # <<>>
    OBVIOUS
  <2> QED
    BY <1>2, <2>1, <2>2 DEF Told, MakesOffer, SentOffer, GetsAnswer, GetsOffer, MakesAnswer,
                            SentAnswer, SentWish
<1>4. ASSUME NEW u \in Users PROVE ~Negotiates(u) /\ rtc[u] = "stable"
  <2>1. Exchange(u, Peer(u)) /\ Peer(u) \in Users
    BY CalmBoth
  <2>2. rtc[u] \in {"stable", "have-local-offer", "have-remote-offer"}
    BY DEF PairInv, PeersTyped
  <2> QED
    BY <1>3, <2>1, <2>2 DEF Exchange
<1>5. ASSUME NEW u \in Users
      PROVE  Link(u) = Line(u) /\ conn[Line(u)] = "open" /\ ~Down(Line(u)) /\ u \notin p2pWants
  BY <1>2, Lines, NobodyIsDown DEF Calm, Holds, ClientHolds, Link, Line
<1>6. ASSUME NEW u \in Users PROVE Line(u) \in live /\ partner[Line(u)] # None
  <2>1. S!Running
    BY DEF Calm, ServerHolds, S!Running
  <2>2. /\ \A x \in Users : delegate[x] = "open" /\ conn[Link(x)] = "open" /\ ~Down(Link(x))
        /\ \A c \in Conns : conn[c] = "open" => toServer[c] = <<>>
    BY <1>1, <1>2, <1>5
  <2>3. Link(u) \in live /\ partner[Link(u)] = Link(Peer(u))
    BY <2>1, <2>2, Restored DEF PairIsRestored
  <2> QED
    BY <1>5, <2>3, Both, Lines, Bounds
<1>7. \A c \in live : c = Line(c[1]) /\ c[1] \in Users
  <2> TAKE c \in live
  <2>1. c \in Conns /\ conn[c] = "open"
    BY DEF PairInv, SP!IInv, SP!ServerTypeOK, SP!RegistryHoldsTheLive
  <2> QED
    BY <2>1, Lines DEF Calm, ServerHolds
<1>8. active = {}
  BY <1>4, <1>7 DEF Negotiates, PairInv, SP!IInv, SP!ServerTypeOK
<1>9. wants = {}
  BY <1>6, <1>7, <1>8 DEF SP!NothingLiesIdle, SP!NoWishIdle, PairInv, SP!IInv, SP!ServerTypeOK
<1>10. \A u \in Users : u \notin needed /\ u \notin changed
  BY <1>3, <1>4, <1>5, <1>9 DEF Calm, Holds, Wishes, Waits
<1> QED
  BY <1>4, <1>5, <1>8, <1>9, <1>10 DEF PairInv, PeersTyped

\* No connection is cut.
NothingCut == cut = {}

\* As long as none is, the pair stays calm, and nothing lies idle at the server.
LEMMA CalmInvariant == Spec /\ []NothingCut => [](Calm /\ SP!NothingLiesIdle)
<1>1. Init => Calm
  BY CalmInit
<1>2. Init => SP!NothingLiesIdle
  BY ServerStarts DEF SP!ServerInit, SP!NothingLiesIdle, SP!NoWishIdle, SP!CachesOnlyAlone
<1>3. PairInv /\ PairInv' /\ Calm /\ NothingCut' /\ [Next]_vars => Calm'
  BY CalmNext DEF NothingCut
<1>4. PairInv /\ SP!NothingLiesIdle /\ [Next]_vars => SP!NothingLiesIdle'
  BY PairNext, Bounds, SP!SmoothNext DEF PairInv, SP!Smooth
<1> QED
  BY <1>1, <1>2, <1>3, <1>4, PairInvariant, PTL DEF Spec

\* While connections hold the pair is sound, for any number of changes and of
\* candidates: no assertion of the server, of a client or of the p2p layer fails,
\* no remote offer meets an own one (offer_answer.cpp:83), and when everybody is
\* idle no wish, no negotiation and no change is left behind.
THEOREM PairSound == Spec /\ []NothingCut => []PairIsSound
<1>1. TypeOK /\ PairInv /\ Calm /\ SP!NothingLiesIdle => PairIsSound
  <2> SUFFICES ASSUME TypeOK, PairInv, Calm, SP!NothingLiesIdle PROVE PairIsSound
    OBVIOUS
  <2>1. NothingFails
    BY DEF NothingFails, Calm, ServerHolds, Holds, ClientHolds, PairInv, PeersTyped
  <2> QED
    BY <2>1, IdleLeavesNothing DEF PairIsSound
<1> QED
  BY <1>1, CalmInvariant, PairInvariant, PairTyped, PTL

-----------------------------------------------------------------------------
(* Offers and answers alternate.                                           *)

\* Where the exchange of u is, as the refinement mapping sees it.
LEMMA PhaseIsExchange ==
    ASSUME PairInv, Calm, NEW u \in Users
    PROVE  ExchangeOf(u) = Phase(u, Peer(u))
<1> DEFINE v == Peer(u)
<1>1. /\ v \in Users /\ v # u /\ Exchange(u, v) /\ Exchange(v, u)
      /\ ClientHolds(u) /\ ClientHolds(v) /\ Line(u) \in Conns /\ Line(v) \in Conns
  BY CalmBoth
<1>2. CASE rtc[u] # "have-local-offer"
  BY <1>1, <1>2 DEF ExchangeOf, Phase, Exchange
<1>3. CASE rtc[u] = "have-local-offer" /\ MakesAnswer(v)
  BY <1>1, <1>3 DEF ExchangeOf, Phase, Exchange
<1>4. CASE rtc[u] = "have-local-offer" /\ ~MakesAnswer(v)
  <2>1. rtc[v] # "have-remote-offer"
    BY <1>1, <1>4 DEF Exchange
  <2>2. Link(u) = Line(u)
    BY <1>1, <1>4 DEF ClientHolds, Link, Line
  <2>3. GetsAnswer(u) <=> \E i \in DOMAIN toClient[Link(u)] : toClient[Link(u)][i] = "answer"
    <3>1. toClient[Line(u)] \in Seq(S!Messages)
      BY <1>1 DEF PairInv, ChannelsTyped
    <3>2. DOMAIN toClient[Line(u)] = 1..Len(toClient[Line(u)])
      BY <3>1
    <3> QED
      BY <2>2, <3>2 DEF GetsAnswer, Downlink, Has
  <2>4. CASE GetsAnswer(u)
    <3>1. AnswerUnderWay(u)
      BY <2>3, <2>4 DEF AnswerUnderWay
    <3> QED
      BY <1>1, <1>4, <2>1, <2>4, <3>1 DEF ExchangeOf, Phase, Exchange
  <2>5. CASE ~GetsAnswer(u)
    <3>1. Negotiates(u)
      BY <1>1, <1>4, <2>5 DEF Exchange
    <3>2. Line(v) \in live
      BY <3>1, Arbitrated
    <3>3. Link(v) = Line(v)
      BY <1>1, <3>2 DEF ClientHolds, Link, Line
    <3>4. SentAnswer(v) <=> \E i \in DOMAIN toServer[Link(v)] : toServer[Link(v)][i] = "answer"
      <4>1. toServer[Line(v)] \in Seq(C!Sendable)
        BY <1>1 DEF PairInv, ChannelsTyped
      <4>2. DOMAIN toServer[Line(v)] = 1..Len(toServer[Line(v)])
        BY <4>1
      <4> QED
        BY <3>3, <4>2 DEF SentAnswer, Uplink, Has
    <3>5. AnswerUnderWay(u) <=> SentAnswer(v)
      BY <2>3, <2>5, <3>4 DEF AnswerUnderWay
    <3> QED
      BY <1>1, <1>4, <2>1, <2>5, <3>5 DEF ExchangeOf, Phase, Exchange
  <2> QED
    BY <2>4, <2>5
<1> QED
  BY <1>2, <1>3, <1>4

PhasesAreSeen == \A u \in Users : ExchangeOf(u) = Phase(u, Peer(u))

\* In a calm pair a step of the code is a step of OfferAnswer, or none.
LEMMA StepAlternates ==
    ASSUME PairInv, PairInv', Calm, PhasesAreSeen, PhasesAreSeen', cut' = {}, [Next]_vars
    PROVE  [OA!Next]_([u \in Users |-> ExchangeOf(u)])
<1> DEFINE ex == [u \in Users |-> ExchangeOf(u)]
<1>1. PICK u \in Users : Alternates(u, Peer(u))
  BY CalmNext
<1> DEFINE v == Peer(u)
<1>2. v \in Users /\ v # u /\ Peer(v) = u /\ \A x \in Users : x = u \/ x = v
  BY Both
<1>3. /\ ex = [x \in Users |-> Phase(x, Peer(x))]
      /\ ex' = [x \in Users |-> Phase(x, Peer(x))']
  BY DEF PhasesAreSeen
<1> HIDE DEF ex
<1>4. /\ ex[u] = Phase(u, v) /\ ex[v] = Phase(v, u) /\ OA!Others(u) = {v}
      /\ ex'[u] = Phase(u, v)' /\ ex'[v] = Phase(v, u)'
  BY <1>2, <1>3 DEF OA!Others
<1>5. ASSUME ex'[v] = ex[v] PROVE ex' = [ex EXCEPT ![u] = ex'[u]]
  BY <1>2, <1>3, <1>5
<1>6. CASE Keeps(u, v) /\ Keeps(v, u)
  BY <1>2, <1>3, <1>4, <1>6 DEF Keeps, ex
<1>7. CASE Turns(u, v, "none", "offered") /\ Phase(v, u) \in {"none", "answered"}
  <2>1. OA!Offer(u)
    BY <1>4, <1>5, <1>7 DEF Turns, Keeps, OA!Offer, OA!Step, ex
  <2> QED
    BY <2>1 DEF OA!Next
<1>8. CASE Turns(u, v, "offered", "received") /\ Phase(v, u) = "none"
  <2>1. OA!Receive(u)
    BY <1>4, <1>5, <1>8 DEF Turns, Keeps, OA!Receive, OA!Step, ex
  <2> QED
    BY <2>1 DEF OA!Next
<1>9. CASE Turns(u, v, "received", "answered")
  <2>1. OA!Answer(u)
    BY <1>4, <1>5, <1>9 DEF Turns, Keeps, OA!Answer, OA!Step, ex
  <2> QED
    BY <2>1 DEF OA!Next
<1>10. CASE Turns(u, v, "answered", "none")
  <2>1. OA!Complete(u)
    BY <1>4, <1>5, <1>10 DEF Turns, Keeps, OA!Complete, OA!Step, ex
  <2> QED
    BY <2>1 DEF OA!Next
<1> QED
  BY <1>1, <1>6, <1>7, <1>8, <1>9, <1>10 DEF Alternates

\* While connections hold the pair implements OfferAnswer: the two peers take
\* turns, whatever the interleaving of wishes, the server's arbitration, the
\* network and the asynchronous steps of the PeerConnections.
THEOREM PairAlternates == Spec /\ []NothingCut => ExchangesAlternate
<1>1. Init => OA!Init
  BY DEF Init, OA!Init, ExchangeOf
<1>2. PairInv /\ Calm => PhasesAreSeen
  BY PhaseIsExchange DEF PhasesAreSeen
<1>3. PairInv /\ PairInv' /\ Calm /\ PhasesAreSeen /\ PhasesAreSeen' /\ NothingCut' /\ [Next]_vars
      => [OA!Next]_([u \in Users |-> ExchangeOf(u)])
  BY StepAlternates DEF NothingCut
<1> QED
  BY <1>1, <1>2, <1>3, CalmInvariant, PairInvariant, PTL DEF Spec, ExchangesAlternate, OA!Spec

=============================================================================
