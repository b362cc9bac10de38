----------------------- MODULE SignalingClientProofs -----------------------
(***************************************************************************)
(* The reconnecting client and the timer its process shares, proved for    *)
(* any number of clients and processes: no message is left in a cache      *)
(* beside a connection, a lost connection is never forgotten, a client     *)
(* that was closed never connects, and a cache goes out in order.          *)
(*                                                                         *)
(* A handler works on the record Client; the lemmas follow its methods,    *)
(* then SendBy, which ends the process when an assertion failed, and then  *)
(* the actions.                                                            *)
(***************************************************************************)
EXTENDS SignalingClient, TLAPS

-----------------------------------------------------------------------------
(* The inductive invariant.  RetryIsArmed needs that a client that was      *)
(* closed is never one that waits to reconnect: the timer would find it     *)
(* stopped and leave it.                                                    *)

StoppedHasDelegate == \A c \in stopped : delegate[c] \notin {"absent", "none"}

ClientInv == /\ ClientTypeOK
             /\ NothingCachedOnline
             /\ RetryIsArmed
             /\ StoppedHasDelegate

-----------------------------------------------------------------------------
(* The methods                                                             *)

ClientStates ==
    [delegate : [Clients -> Delegates], offer : SUBSET Clients,
     answer : SUBSET Clients, want : SUBSET Clients,
     candidates : [Clients -> 0..MaxCandidates],
     sent : [Clients -> Seq(Sendable)], faults : [Processes -> SUBSET Faults]]

\* c has something in a cache of s.
CachesIn(s, c) == c \in s.offer \cup s.answer \cup s.want \/ s.candidates[c] > 0

\* s is the state of the clients after methods of c only, which forgot nothing
\* that was cached and left no cache beside a connection.
Own(s, c) ==
    /\ s \in ClientStates
    /\ \A d \in Clients \ {c} :
          s.delegate[d] = delegate[d] /\ (CachesIn(s, d) <=> Caches(d))
    /\ Caches(c) => CachesIn(s, c)
    /\ s.delegate[c] \in {"open", "ended"} => ~CachesIn(s, c)

\* t is s but for what was sent, and the assertions.
SameButSent(s, t) ==
    /\ t.delegate = s.delegate /\ t.offer = s.offer /\ t.answer = s.answer
    /\ t.want = s.want /\ t.candidates = s.candidates

\* An assertion only adds to the faults.
LEMMA FaultLemma ==
    ASSUME NEW s \in ClientStates, NEW c \in Clients, NEW b, NEW w \in Faults
    PROVE  /\ Fault(s, c, b, w) \in ClientStates
           /\ SameButSent(s, Fault(s, c, b, w))
           /\ Fault(s, c, b, w).sent = s.sent
<1>1. CASE b
  BY <1>1 DEF Fault, SameButSent
<1>2. CASE ~b
  <2> DEFINE p == ProcessOf[c]
             more == [s.faults EXCEPT ![p] = @ \cup {w}]
             t == Fault(s, c, b, w)
  <2>1. p \in Processes /\ s.faults \in [Processes -> SUBSET Faults]
    BY ClientAssumption DEF ClientStates
  <2>2. s.faults[p] \cup {w} \in SUBSET Faults
    BY <2>1
  <2>3. more \in [Processes -> SUBSET Faults]
    BY <2>1, <2>2
  <2>4. t = [s EXCEPT !.faults = more]
    BY <1>2 DEF Fault, ClientStates
  <2> HIDE DEF more, t
  <2>5. t \in ClientStates /\ SameButSent(s, t) /\ t.sent = s.sent
    BY <2>3, <2>4 DEF ClientStates, SameButSent
  <2> QED
    BY <2>5 DEF t
<1> QED
  BY <1>1, <1>2

\* Handing a message to the connection changes no cache; with a connection it
\* is sent, and nothing fails.
LEMMA TransmitLemma ==
    ASSUME NEW s \in ClientStates, NEW c \in Clients, NEW m \in Sendable
    PROVE  /\ Transmit(s, c, m) \in ClientStates
           /\ SameButSent(s, Transmit(s, c, m))
           /\ s.delegate[c] \in {"open", "ended"} =>
                 /\ Transmit(s, c, m).sent[c] = Append(s.sent[c], m)
                 /\ Transmit(s, c, m).faults = s.faults
<1>1. CASE s.delegate[c] \in {"open", "ended"}
  <2> DEFINE longer == Append(s.sent[c], m)
             more == [s.sent EXCEPT ![c] = longer]
             t == Transmit(s, c, m)
  <2>1. longer \in Seq(Sendable)
    BY DEF ClientStates
  <2>2. t = [s EXCEPT !.sent = more]
    BY <1>1 DEF Transmit, ClientStates
  <2> HIDE DEF longer
  <2>3. more \in [Clients -> Seq(Sendable)] /\ more[c] = longer
    BY <2>1 DEF ClientStates
  <2> HIDE DEF more, t
  <2>4. t \in ClientStates /\ SameButSent(s, t) /\ t.sent = more /\ t.faults = s.faults
    BY <2>2, <2>3 DEF ClientStates, SameButSent
  <2> QED
    BY <2>3, <2>4 DEF longer, t
<1>2. CASE s.delegate[c] \notin {"open", "ended"}
  <2>1. "connection_" \in Faults
    BY DEF Faults, Lethal
  <2>2. Transmit(s, c, m) = Fault(s, c, FALSE, "connection_")
    BY <1>2 DEF Transmit
  <2> QED
    BY <1>2, <2>1, <2>2, FaultLemma
<1> QED
  BY <1>1, <1>2

\* Own does not see what is sent.
LEMMA OwnStays ==
    ASSUME NEW c \in Clients, NEW s, Own(s, c), NEW t \in ClientStates, SameButSent(s, t)
    PROVE  Own(t, c)
BY DEF Own, SameButSent, CachesIn

\* A sending method transmits, or caches while there is no delegate.
LEMMA SendLemma ==
    ASSUME NEW c \in Clients, NEW s, Own(s, c),
           NEW t \in {SendOffer(s, c), SendAnswer(s, c), SendWantToNegotiate(s, c)}
    PROVE  Own(t, c) /\ t.delegate = s.delegate /\ t.candidates = s.candidates
<1>0. s \in ClientStates
  BY DEF Own
<1>m. /\ {"offer", "answer", "want_to_negotiate"} \subseteq Sendable
      /\ {"send_offer:186", "send_answer:195", "send_want:212"} \subseteq Faults
  BY DEF Sendable, Faults
<1>1. CASE IsConnected(s, c)
  <2>1. PICK m \in {"offer", "answer", "want_to_negotiate"} : t = Transmit(s, c, m)
    BY <1>1 DEF SendOffer, SendAnswer, SendWantToNegotiate
  <2>2. t \in ClientStates /\ SameButSent(s, t)
    BY <1>0, <1>m, <2>1, TransmitLemma
  <2> QED
    BY <2>2, OwnStays DEF SameButSent
<1>2. CASE ~IsConnected(s, c)
  <2>1. PICK w \in {"send_offer:186", "send_answer:195", "send_want:212"}, b \in BOOLEAN :
           LET f == Fault(s, c, b, w) IN
           \/ t = [f EXCEPT !.offer = @ \cup {c}]
           \/ t = [f EXCEPT !.answer = @ \cup {c}]
           \/ t = [f EXCEPT !.want = @ \cup {c}]
    BY <1>2 DEF SendOffer, SendAnswer, SendWantToNegotiate
  <2> DEFINE f == Fault(s, c, b, w)
  <2>2. f \in ClientStates /\ SameButSent(s, f)
    BY <1>0, <1>m, FaultLemma
  <2>3. Own(f, c) /\ f.delegate[c] = "none"
    BY <1>2, <2>2, OwnStays DEF SameButSent, IsConnected
  <2> HIDE DEF f
  <2>4. /\ t \in ClientStates /\ t.delegate = f.delegate /\ t.candidates = f.candidates
        /\ \A d \in Clients \ {c} : CachesIn(t, d) <=> CachesIn(f, d)
        /\ CachesIn(f, c) => CachesIn(t, c)
    <3>1. CASE t = [f EXCEPT !.offer = @ \cup {c}]
      BY <2>2, <3>1 DEF ClientStates, CachesIn
    <3>2. CASE t = [f EXCEPT !.answer = @ \cup {c}]
      BY <2>2, <3>2 DEF ClientStates, CachesIn
    <3>3. CASE t = [f EXCEPT !.want = @ \cup {c}]
      BY <2>2, <3>3 DEF ClientStates, CachesIn
    <3> QED
      BY <2>1, <3>1, <3>2, <3>3 DEF f
  <2> QED
    BY <2>2, <2>3, <2>4 DEF Own, SameButSent
<1> QED
  BY <1>1, <1>2

\* So does send_ice_candidate, within the bound.
LEMMA SendCandidateLemma ==
    ASSUME NEW c \in Clients, NEW s, Own(s, c), s.candidates[c] < MaxCandidates,
           NEW t, t = SendIceCandidate(s, c)
    PROVE  /\ Own(t, c) /\ t.delegate = s.delegate
           /\ t.candidates \in {s.candidates, [s.candidates EXCEPT ![c] = @ + 1]}
<1>0. s \in ClientStates
  BY DEF Own
<1>1. CASE IsConnected(s, c)
  <2>1. t \in ClientStates /\ SameButSent(s, t)
    BY <1>0, <1>1, TransmitLemma DEF SendIceCandidate, Sendable
  <2> QED
    BY <2>1, OwnStays DEF SameButSent
<1>2. CASE ~IsConnected(s, c)
  <2> DEFINE more == [s.candidates EXCEPT ![c] = @ + 1]
  <2>1. more \in [Clients -> 0..MaxCandidates]
          /\ \A d \in Clients \ {c} : more[d] = s.candidates[d]
    BY <1>0, ClientAssumption DEF ClientStates
  <2>2. t = [s EXCEPT !.candidates = more]
    BY <1>0, <1>2 DEF SendIceCandidate, ClientStates
  <2>c. more[c] = s.candidates[c] + 1 /\ s.candidates[c] \in Nat
    BY <1>0, ClientAssumption DEF ClientStates
  <2>p. more[c] > 0
    BY <2>c
  <2>m. more = [s.candidates EXCEPT ![c] = @ + 1]
    OBVIOUS
  <2> HIDE DEF more
  <2>3. /\ t \in ClientStates /\ t.delegate = s.delegate /\ t.candidates = more
        /\ \A d \in Clients \ {c} : CachesIn(t, d) <=> CachesIn(s, d)
    BY <1>0, <2>1, <2>2 DEF ClientStates, CachesIn
  <2>4. CachesIn(t, c)
    <3>1. t.candidates = more
      BY <1>0, <2>2 DEF ClientStates
    <3> QED
      BY <2>p, <3>1 DEF CachesIn
  <2> QED
    BY <1>2, <2>3, <2>4, <2>m DEF Own, IsConnected
<1> QED
  BY <1>1, <1>2

-----------------------------------------------------------------------------
(* Handlers and the processes they end                                      *)

\* Between two handlers the clients are in a state of their own.
LEMMA ClientLemma ==
    ASSUME ClientTypeOK, NothingCachedOnline, NEW c \in Clients
    PROVE  Own(Client, c) /\ Client.delegate = delegate /\ Client.faults = NoFault
           /\ Client.candidates = candidates
<1>1. Silent \in [Clients -> Seq(Sendable)] /\ NoFault \in [Processes -> SUBSET Faults]
  BY DEF Silent, NoFault
<1>2. Client \in ClientStates
  BY <1>1 DEF Client, ClientStates, ClientTypeOK
<1>3. \A d \in Clients : CachesIn(Client, d) <=> Caches(d)
  BY DEF CachesIn, Caches, Client
<1>4. Client.delegate = delegate /\ Client.faults = NoFault /\ Client.candidates = candidates
  BY DEF Client
<1> QED
  BY <1>2, <1>3, <1>4 DEF Own, NothingCachedOnline

\* A process that ended stays so.
LEMMA FatalGrows ==
    ASSUME NEW f, NEW g, f \subseteq g, Fatal(f)
    PROVE  Fatal(g)
BY DEF Fatal

\* A handler that ended its process changed nothing else; the others did what
\* their methods did.
LEMMA SendByLemma ==
    ASSUME ClientTypeOK, NothingCachedOnline, NEW c \in Clients, NEW s, Own(s, c),
           SendBy(c, s)
    PROVE  /\ delegate' \in [Clients -> Delegates]
           /\ offerCache' \subseteq Clients /\ answerCache' \subseteq Clients
           /\ wantCache' \subseteq Clients
           /\ candidates' \in [Clients -> 0..MaxCandidates]
           /\ sent' \in [Clients -> Seq(Sendable)]
           /\ faults' \in [Processes -> SUBSET Faults]
           /\ NothingCachedOnline'
           /\ \A p \in Processes : Alive(p)' => Alive(p)
           /\ \A d \in Clients : Caches(d) => Caches(d)'
           /\ \A d \in Clients \ {c} : delegate'[d] = delegate[d]
           /\ IF Fatal(s.faults[ProcessOf[c]])
              THEN delegate' = delegate /\ ~Alive(ProcessOf[c])'
              ELSE delegate' = s.delegate
<1> DEFINE dead == Fatal(s.faults[ProcessOf[c]])
           q == [Client EXCEPT !.faults = s.faults]
           r == IF dead THEN q ELSE s
           all == [p \in Processes |-> faults[p] \cup r.faults[p]]
<1>1. Own(Client, c) /\ Client.delegate = delegate /\ s \in ClientStates
        /\ ProcessOf[c] \in Processes
  BY ClientLemma, ClientAssumption DEF Own
<1>2. q \in ClientStates /\ SameButSent(Client, q) /\ q.faults = s.faults
  BY <1>1 DEF Own, ClientStates, SameButSent
<1>3. Own(q, c) /\ q.delegate = delegate
  BY <1>1, <1>2, OwnStays DEF SameButSent
<1>4. /\ delegate' = r.delegate /\ offerCache' = r.offer /\ answerCache' = r.answer
      /\ wantCache' = r.want /\ candidates' = r.candidates /\ sent' = r.sent
      /\ faults' = all
  BY DEF SendBy
<1>5. Own(r, c) /\ r.faults = s.faults /\ (dead => r.delegate = delegate)
        /\ (~dead => r.delegate = s.delegate)
  BY <1>2, <1>3
<1> HIDE DEF q, r
<1>6. r \in ClientStates /\ faults \in [Processes -> SUBSET Faults]
  BY <1>5 DEF Own, ClientTypeOK
<1>7. /\ all \in [Processes -> SUBSET Faults]
      /\ \A p \in Processes : faults[p] \subseteq all[p] /\ r.faults[p] \subseteq all[p]
  BY <1>6 DEF ClientStates
<1> HIDE DEF all
<1>8. /\ delegate' \in [Clients -> Delegates]
      /\ offerCache' \subseteq Clients /\ answerCache' \subseteq Clients
      /\ wantCache' \subseteq Clients
      /\ candidates' \in [Clients -> 0..MaxCandidates]
      /\ sent' \in [Clients -> Seq(Sendable)]
      /\ faults' \in [Processes -> SUBSET Faults]
  BY <1>4, <1>6, <1>7 DEF ClientStates
<1>9. NothingCachedOnline'
  <2> SUFFICES ASSUME NEW d \in Clients, delegate'[d] \in {"open", "ended"}
               PROVE  ~Caches(d)'
    BY DEF NothingCachedOnline
  <2>1. Caches(d)' <=> CachesIn(r, d)
    BY <1>4 DEF Caches, CachesIn
  <2>2. CASE d = c
    BY <1>4, <1>5, <2>1, <2>2 DEF Own
  <2>3. CASE d # c
    BY <1>4, <1>5, <2>1, <2>3 DEF Own, NothingCachedOnline
  <2> QED
    BY <2>2, <2>3
<1>10. \A p \in Processes : Alive(p)' => Alive(p)
  BY <1>4, <1>7, FatalGrows DEF Alive
<1>11. \A d \in Clients \ {c} : delegate'[d] = delegate[d]
  BY <1>4, <1>5 DEF Own
<1>c. ASSUME NEW d \in Clients, Caches(d) PROVE Caches(d)'
  <2>1. CachesIn(r, d)
    BY <1>5, <1>c DEF Own
  <2> QED
    BY <1>4, <2>1 DEF Caches, CachesIn
<1>12. dead => ~Alive(ProcessOf[c])'
  BY <1>1, <1>4, <1>5, <1>7, FatalGrows DEF Alive
<1> QED
  BY <1>4, <1>5, <1>8, <1>9, <1>10, <1>11, <1>12, <1>c

\* RetryIsArmed outlives a step of c that does not make c wait, and one of
\* nobody, when the timer stays as it is.
LEMMA RetryStays ==
    ASSUME ClientInv, NEW c \in Clients, delegate[c] # "absent",
           \A d \in Clients \ {c} : delegate'[d] = delegate[d],
           delegate'[c] # "absent",
           delegate'[c] = "none" => delegate[c] = "none",
           \A p \in Processes : Alive(p)' => Alive(p),
           UNCHANGED timer
    PROVE  RetryIsArmed'
<1> SUFFICES ASSUME NEW d \in Clients, delegate'[d] = "none", Alone(d)',
                    Alive(ProcessOf[d])'
             PROVE  /\ callback[ProcessOf[d]] = d
                    /\ waiting[ProcessOf[d]] \/ expired[ProcessOf[d]]
  BY DEF RetryIsArmed, timer
<1>1. delegate[d] = "none"
  OBVIOUS
<1>2. Alone(d)
  BY DEF Alone
<1>3. Alive(ProcessOf[d])
  BY ClientAssumption
<1> QED
  BY <1>1, <1>2, <1>3 DEF ClientInv, RetryIsArmed

-----------------------------------------------------------------------------
(* The actions                                                             *)

\* What the methods did to a client that runs becomes its state, however many
\* of them one handler called.
LEMMA SendsStep ==
    ASSUME ClientInv, NEW c \in Clients, Runs(c), NEW t, Own(t, c), t.delegate = delegate,
           SendBy(c, t), UNCHANGED <<connects, registered, stopped, timer>>
    PROVE  /\ ClientInv' /\ \A d \in Clients : Caches(d) => Caches(d)'
           /\ candidates' \in {candidates, t.candidates}
           /\ delegate' = delegate /\ \A p \in Processes : Alive(p)' => Alive(p)
<1>3. ClientTypeOK /\ NothingCachedOnline
  BY DEF ClientInv
<1>4. delegate' = delegate
  BY <1>3, SendByLemma
<1>a. \A p \in Processes : Alive(p)' => Alive(p)
  BY <1>3, SendByLemma
<1>5. RetryIsArmed'
  BY <1>4, <1>a, RetryStays DEF Runs
<1>6. ClientTypeOK'
  BY <1>3, SendByLemma DEF ClientTypeOK, timer
<1>7. NothingCachedOnline'
  BY <1>3, SendByLemma
<1>8. \A d \in Clients : Caches(d) => Caches(d)'
  BY <1>3, SendByLemma
<1>9. StoppedHasDelegate'
  BY <1>4 DEF ClientInv, StoppedHasDelegate
<1>10. candidates' \in {candidates, t.candidates}
  BY DEF SendBy, Client
<1> QED
  BY <1>4, <1>5, <1>6, <1>7, <1>8, <1>9, <1>10, <1>a DEF ClientInv

\* The p2p layer sends: the client transmits, or caches.
LEMMA SendStep ==
    ASSUME ClientInv, NEW c \in Clients, NEW m \in Sendable \ {"registration"}, Send(c, m)
    PROVE  ClientInv' /\ \A d \in Clients : Caches(d) => Caches(d)'
<1>1. /\ Runs(c) /\ UNCHANGED <<connects, registered, stopped, timer>>
      /\ \E t \in {SendOffer(Client, c), SendAnswer(Client, c),
                   SendWantToNegotiate(Client, c), SendIceCandidate(Client, c)} :
            /\ SendBy(c, t)
            /\ t = SendIceCandidate(Client, c) =>
                  \/ candidates[c] < MaxCandidates
                  \/ t \in {SendOffer(Client, c), SendAnswer(Client, c),
                            SendWantToNegotiate(Client, c)}
  BY DEF Send, Sendable
<1>2. PICK t : /\ Own(t, c) /\ t.delegate = delegate
               /\ SendBy(c, t)
  <2>1. Own(Client, c) /\ Client.delegate = delegate /\ Client.candidates = candidates
    BY ClientLemma DEF ClientInv
  <2>2. PICK t \in {SendOffer(Client, c), SendAnswer(Client, c),
                    SendWantToNegotiate(Client, c), SendIceCandidate(Client, c)} :
            /\ SendBy(c, t)
            /\ t = SendIceCandidate(Client, c) =>
                  \/ candidates[c] < MaxCandidates
                  \/ t \in {SendOffer(Client, c), SendAnswer(Client, c),
                            SendWantToNegotiate(Client, c)}
    BY <1>1
  <2>3. Own(t, c) /\ t.delegate = delegate
    BY <2>1, <2>2, SendLemma, SendCandidateLemma
  <2> QED
    BY <2>2, <2>3
<1> QED
  BY <1>1, <1>2, SendsStep

\* close() marks a client that has a delegate.
LEMMA CloseStep ==
    ASSUME ClientInv, NEW c \in Clients, Close(c)
    PROVE  ClientInv' /\ \A d \in Clients : Caches(d) => Caches(d)'
<1> DEFINE one == Fault(Client, c, delegate[c] # "none", "close:173")
           two == Fault(one, c, delegate[c] = "none" \/ c \notin stopped, "close:176")
<1>1. /\ Runs(c) /\ SendBy(c, two) /\ UNCHANGED <<connects, registered, timer>>
      /\ stopped' = IF delegate[c] = "none" THEN stopped ELSE stopped \cup {c}
  BY DEF Close
<1>2. ClientTypeOK /\ NothingCachedOnline
  BY DEF ClientInv
<1>3. {"close:173", "close:176"} \subseteq Faults
  BY DEF Faults
<1>4. Own(one, c) /\ one.delegate = delegate
  <2>1. Own(Client, c) /\ Client.delegate = delegate /\ Client \in ClientStates
    BY <1>2, ClientLemma DEF Own
  <2>2. one \in ClientStates /\ SameButSent(Client, one)
    BY <1>3, <2>1, FaultLemma
  <2> QED
    BY <2>1, <2>2, OwnStays DEF SameButSent
<1> HIDE DEF one
<1>5. Own(two, c) /\ two.delegate = delegate
  <2>1. one \in ClientStates
    BY <1>4 DEF Own
  <2>2. two \in ClientStates /\ SameButSent(one, two)
    BY <1>3, <2>1, FaultLemma
  <2> QED
    BY <1>4, <2>2, OwnStays DEF SameButSent
<1> HIDE DEF two
<1>6. delegate' = delegate
  BY <1>1, <1>2, <1>5, SendByLemma
<1>7. RetryIsArmed'
  <2>1. \A p \in Processes : Alive(p)' => Alive(p)
    BY <1>1, <1>2, <1>5, SendByLemma
  <2> QED
    BY <1>1, <1>6, <2>1, RetryStays DEF Runs
<1>8. ClientTypeOK'
  BY <1>1, <1>2, <1>5, SendByLemma DEF ClientTypeOK, timer
<1>9. StoppedHasDelegate'
  BY <1>1, <1>6 DEF ClientInv, StoppedHasDelegate, Runs
<1>10. NothingCachedOnline' /\ \A d \in Clients : Caches(d) => Caches(d)'
  BY <1>1, <1>2, <1>5, SendByLemma
<1> QED
  BY <1>7, <1>8, <1>9, <1>10 DEF ClientInv

\* A step that leaves the caches alone, and gives a client no connection, keeps
\* them apart from the connections.
LEMMA NothingCached ==
    ASSUME ClientInv, UNCHANGED caches,
           \A d \in Clients : delegate'[d] \in {"open", "ended"} =>
               delegate[d] \in {"open", "ended"}
    PROVE  NothingCachedOnline' /\ \A d \in Clients : Caches(d) <=> Caches(d)'
BY DEF ClientInv, NothingCachedOnline, Caches, caches

\* A client is made.
LEMMA ConnectStep ==
    ASSUME ClientInv, NEW c \in Clients, Connect(c)
    PROVE  ClientInv' /\ \A d \in Clients : Caches(d) => Caches(d)'
<1>1. /\ delegate[c] = "absent" /\ delegate' = [delegate EXCEPT ![c] = "connecting"]
      /\ connects[c] < MaxConnects /\ connects' = [connects EXCEPT ![c] = @ + 1]
      /\ sent' = Silent /\ UNCHANGED <<registered, stopped, caches, timer, faults>>
  BY DEF Connect
<1>2. /\ \A d \in Clients \ {c} : delegate'[d] = delegate[d]
      /\ delegate'[c] = "connecting" /\ delegate' \in [Clients -> Delegates]
  BY <1>1 DEF ClientInv, ClientTypeOK, Delegates
<1>3. ClientTypeOK'
  <2>1. connects' \in [Clients -> 0..MaxConnects]
    BY <1>1, ClientAssumption DEF ClientInv, ClientTypeOK
  <2>2. sent' \in [Clients -> Seq(Sendable)]
    BY <1>1 DEF Silent
  <2> QED
    BY <1>1, <1>2, <2>1, <2>2 DEF ClientInv, ClientTypeOK, caches, timer
<1>4. NothingCachedOnline' /\ \A d \in Clients : Caches(d) <=> Caches(d)'
  BY <1>1, <1>2, NothingCached
<1>5. StoppedHasDelegate'
  BY <1>1, <1>2 DEF ClientInv, ClientTypeOK, StoppedHasDelegate
<1>6. RetryIsArmed'
  <2> SUFFICES ASSUME NEW d \in Clients, delegate'[d] = "none", Alone(d)',
                      Alive(ProcessOf[d])'
               PROVE  /\ callback[ProcessOf[d]] = d
                      /\ waiting[ProcessOf[d]] \/ expired[ProcessOf[d]]
    BY <1>1 DEF RetryIsArmed, timer
  <2>1. d # c /\ delegate[d] = "none"
    BY <1>2
  <2>2. Alone(d)
    BY <1>1, <1>2 DEF Alone
  <2> QED
    BY <1>1, <2>1, <2>2 DEF ClientInv, RetryIsArmed, Alive
<1> QED
  BY <1>3, <1>4, <1>5, <1>6 DEF ClientInv

\* The connector gives an error.
LEMMA ConnectFailedStep ==
    ASSUME ClientInv, NEW c \in Clients, ConnectFailed(c)
    PROVE  ClientInv' /\ \A d \in Clients : Caches(d) => Caches(d)'
<1>1. /\ delegate[c] = "connecting" /\ delegate' = [delegate EXCEPT ![c] = "failed"]
      /\ sent' = Silent /\ UNCHANGED <<connects, registered, stopped, caches, timer, faults>>
  BY DEF ConnectFailed
<1>2. /\ \A d \in Clients \ {c} : delegate'[d] = delegate[d]
      /\ delegate'[c] = "failed" /\ delegate' \in [Clients -> Delegates]
  BY <1>1 DEF ClientInv, ClientTypeOK, Delegates
<1>3. ClientTypeOK'
  <2>1. sent' \in [Clients -> Seq(Sendable)]
    BY <1>1 DEF Silent
  <2> QED
    BY <1>1, <1>2, <2>1 DEF ClientInv, ClientTypeOK, caches, timer
<1>4. NothingCachedOnline' /\ \A d \in Clients : Caches(d) <=> Caches(d)'
  BY <1>1, <1>2, NothingCached
<1>5. StoppedHasDelegate'
  BY <1>1, <1>2 DEF ClientInv, ClientTypeOK, StoppedHasDelegate
<1>6. RetryIsArmed'
  <2>1. \A p \in Processes : Alive(p)' => Alive(p)
    BY <1>1 DEF Alive
  <2> QED
    BY <1>1, <1>2, <2>1, RetryStays
<1> QED
  BY <1>3, <1>4, <1>5, <1>6 DEF ClientInv

\* Another client of the process waits alone only while nobody else is there:
\* what c does with the timer is of no matter to those of other processes.
LEMMA RetryElsewhere ==
    ASSUME ClientInv, NEW c \in Clients, delegate'[c] # "absent",
           \A d \in Clients \ {c} : delegate'[d] = delegate[d],
           delegate[c] # "absent",
           \A p \in Processes : Alive(p)' => Alive(p),
           \A p \in Processes \ {ProcessOf[c]} :
               callback'[p] = callback[p] /\ waiting'[p] = waiting[p] /\ expired'[p] = expired[p],
           NEW d \in Clients \ {c}, delegate'[d] = "none", Alone(d)', Alive(ProcessOf[d])'
    PROVE  /\ callback'[ProcessOf[d]] = d
           /\ waiting'[ProcessOf[d]] \/ expired'[ProcessOf[d]]
<1>1. ProcessOf[d] # ProcessOf[c] /\ ProcessOf[d] \in Processes
  BY ClientAssumption DEF Alone
<1>2. delegate[d] = "none" /\ Alone(d) /\ Alive(ProcessOf[d])
  BY <1>1 DEF Alone
<1> QED
  BY <1>1, <1>2 DEF ClientInv, RetryIsArmed

\* A connection is lost: the client arms the timer, or was asked to close.
LEMMA ClosedStep ==
    ASSUME ClientInv, NEW c \in Clients, Closed(c)
    PROVE  /\ ClientInv' /\ \A d \in Clients : Caches(d) => Caches(d)'
           /\ candidates' = candidates /\ \A p \in Processes : Alive(p)' => Alive(p)
           /\ \A d \in Clients : delegate'[d] = "open" => delegate[d] = "open"
<1> DEFINE p == ProcessOf[c]
           none == [Client EXCEPT !.delegate[c] = "none"]
           lost == Fault(none, c, callback[p] = None, "start:12")
<1>0. ClientTypeOK /\ NothingCachedOnline /\ p \in Processes
  BY ClientAssumption DEF ClientInv
<1>1. delegate[c] = "open" /\ UNCHANGED <<connects, registered, stopped>>
  BY DEF Closed
<1>2. CASE c \in stopped
  <2>1. /\ delegate' = [delegate EXCEPT ![c] = "ended"]
        /\ sent' = Silent /\ UNCHANGED <<caches, timer, faults>>
    BY <1>2 DEF Closed
  <2>2. /\ \A d \in Clients \ {c} : delegate'[d] = delegate[d]
        /\ delegate'[c] = "ended" /\ delegate' \in [Clients -> Delegates]
    BY <1>0, <2>1 DEF ClientTypeOK, Delegates
  <2>3. ClientTypeOK'
    <3>1. sent' \in [Clients -> Seq(Sendable)]
      BY <2>1 DEF Silent
    <3> QED
      BY <1>0, <1>1, <2>1, <2>2, <3>1 DEF ClientTypeOK, caches, timer
  <2>4. NothingCachedOnline' /\ \A d \in Clients : Caches(d) <=> Caches(d)'
    BY <1>1, <2>1, <2>2, NothingCached
  <2>5. StoppedHasDelegate'
    BY <1>0, <1>1, <2>2 DEF ClientInv, ClientTypeOK, StoppedHasDelegate
  <2>7. \A x \in Processes : Alive(x)' => Alive(x)
    BY <2>1 DEF Alive
  <2>6. RetryIsArmed'
    BY <1>1, <2>1, <2>2, <2>7, RetryStays
  <2>8. candidates' = candidates
    BY <2>1 DEF caches
  <2> QED
    BY <1>1, <2>2, <2>3, <2>4, <2>5, <2>6, <2>7, <2>8 DEF ClientInv
<1>3. CASE c \notin stopped
  <2>1. /\ SendBy(c, lost)
        /\ IF Fatal(lost.faults[p]) THEN UNCHANGED timer
           ELSE /\ callback' = [callback EXCEPT ![p] = c]
                /\ waiting' = [waiting EXCEPT ![p] = TRUE]
                /\ UNCHANGED expired
    BY <1>3 DEF Closed
  <2>2. Own(none, c) /\ none.delegate[c] = "none" /\ none.candidates = candidates
    <3>1. Own(Client, c) /\ Client \in ClientStates
      BY <1>0, ClientLemma DEF Own
    <3> DEFINE fewer == [Client.delegate EXCEPT ![c] = "none"]
    <3>2. fewer \in [Clients -> Delegates] /\ fewer[c] = "none"
            /\ \A d \in Clients \ {c} : fewer[d] = Client.delegate[d]
      BY <3>1 DEF ClientStates, Delegates
    <3>3. none = [Client EXCEPT !.delegate = fewer]
      BY <3>1 DEF ClientStates
    <3> HIDE DEF fewer, none
    <3>4. /\ none \in ClientStates /\ none.delegate = fewer /\ none.offer = Client.offer
          /\ none.answer = Client.answer /\ none.want = Client.want
          /\ none.candidates = Client.candidates
      BY <3>1, <3>2, <3>3 DEF ClientStates
    <3>5. Client.candidates = candidates
      BY DEF Client
    <3> QED
      BY <3>1, <3>2, <3>4, <3>5 DEF Own, CachesIn
  <2> HIDE DEF none
  <2>3. Own(lost, c) /\ lost.delegate = none.delegate /\ lost.candidates = candidates
    <3>1. none \in ClientStates /\ "start:12" \in Faults
      BY <2>2 DEF Own, Faults
    <3>2. lost \in ClientStates /\ SameButSent(none, lost)
      BY <3>1, FaultLemma
    <3> QED
      BY <2>2, <3>2, OwnStays DEF SameButSent
  <2> HIDE DEF lost
  <2>4. /\ delegate' \in [Clients -> Delegates] /\ NothingCachedOnline'
        /\ \A x \in Processes : Alive(x)' => Alive(x)
        /\ \A d \in Clients : Caches(d) => Caches(d)'
        /\ \A d \in Clients \ {c} : delegate'[d] = delegate[d]
        /\ IF Fatal(lost.faults[p]) THEN delegate' = delegate /\ ~Alive(p)'
           ELSE delegate'[c] = "none"
    BY <1>0, <2>1, <2>2, <2>3, SendByLemma
  <2>5. ClientTypeOK'
    <3>1. /\ callback' \in [Processes -> Clients \cup {None}]
          /\ waiting' \in [Processes -> BOOLEAN] /\ expired' \in [Processes -> BOOLEAN]
      <4>1. CASE Fatal(lost.faults[p])
        BY <1>0, <2>1, <4>1 DEF ClientTypeOK, timer
      <4>2. CASE ~Fatal(lost.faults[p])
        BY <1>0, <2>1, <4>2 DEF ClientTypeOK
      <4> QED
        BY <4>1, <4>2
    <3> QED
      BY <1>0, <1>1, <2>1, <2>3, <3>1, SendByLemma DEF ClientTypeOK
  <2>6. StoppedHasDelegate'
    BY <1>0, <1>1, <1>3, <2>4 DEF ClientInv, ClientTypeOK, StoppedHasDelegate
  <2>7. RetryIsArmed'
    <3>1. CASE Fatal(lost.faults[p])
      BY <1>1, <2>1, <2>4, <3>1, RetryStays
    <3>2. CASE ~Fatal(lost.faults[p])
      <4>1. /\ callback'[p] = c /\ waiting'[p]
            /\ \A x \in Processes \ {p} : /\ callback'[x] = callback[x]
                                          /\ waiting'[x] = waiting[x]
                                          /\ expired'[x] = expired[x]
        BY <1>0, <2>1, <3>2 DEF ClientTypeOK
      <4>2. delegate'[c] = "none"
        BY <2>4, <3>2
      <4> SUFFICES ASSUME NEW d \in Clients, delegate'[d] = "none", Alone(d)',
                          Alive(ProcessOf[d])'
                   PROVE  /\ callback'[ProcessOf[d]] = d
                          /\ waiting'[ProcessOf[d]] \/ expired'[ProcessOf[d]]
        BY DEF RetryIsArmed
      <4>3. CASE d = c
        BY <4>1, <4>3
      <4>4. CASE d # c
        BY <1>1, <2>4, <4>1, <4>2, <4>4, RetryElsewhere
      <4> QED
        BY <4>3, <4>4
    <3> QED
      BY <3>1, <3>2
  <2>8. candidates' = candidates
    BY <2>1, <2>3 DEF SendBy, Client
  <2>9. ASSUME NEW d \in Clients, delegate'[d] = "open" PROVE delegate[d] = "open"
    BY <1>1, <2>4, <2>9
  <2> QED
    BY <2>4, <2>5, <2>6, <2>7, <2>8, <2>9 DEF ClientInv
<1> QED
  BY <1>2, <1>3

\* A client is destroyed, its cache with it, and whoever the timer waits for is
\* not called; it is alone, or somebody else is not.
LEMMA DestroyStep ==
    ASSUME ClientInv, NEW c \in Clients, Destroy(c)
    PROVE  /\ ClientInv'
           /\ \A d \in Clients : Caches(d) /\ delegate'[d] # "destroyed" => Caches(d)'
<1> DEFINE p == ProcessOf[c]
<1>0. ClientTypeOK /\ p \in Processes
  BY ClientAssumption DEF ClientInv
<1>1. /\ delegate[c] # "absent"
      /\ delegate' = [delegate EXCEPT ![c] = "destroyed"]
      /\ waiting' = [waiting EXCEPT ![p] = FALSE]
      /\ offerCache' = offerCache \ {c} /\ answerCache' = answerCache \ {c}
      /\ wantCache' = wantCache \ {c} /\ candidates' = [candidates EXCEPT ![c] = 0]
      /\ sent' = Silent
      /\ UNCHANGED <<connects, registered, stopped, callback, expired, faults>>
  BY DEF Destroy, Runs
<1>2. /\ \A d \in Clients \ {c} : delegate'[d] = delegate[d]
      /\ delegate'[c] = "destroyed" /\ delegate' \in [Clients -> Delegates]
  BY <1>0, <1>1 DEF ClientTypeOK, Delegates
<1>3. /\ \A d \in Clients \ {c} : candidates'[d] = candidates[d]
      /\ candidates' \in [Clients -> 0..MaxCandidates]
  BY <1>0, <1>1, ClientAssumption DEF ClientTypeOK
<1>4. /\ \A x \in Processes \ {p} : waiting'[x] = waiting[x]
      /\ waiting' \in [Processes -> BOOLEAN]
  BY <1>0, <1>1 DEF ClientTypeOK
<1>5. ClientTypeOK'
  <2>1. sent' \in [Clients -> Seq(Sendable)]
    BY <1>1 DEF Silent
  <2>2. offerCache' \subseteq Clients /\ answerCache' \subseteq Clients
          /\ wantCache' \subseteq Clients
    BY <1>0, <1>1 DEF ClientTypeOK
  <2> QED
    BY <1>0, <1>1, <1>2, <1>3, <1>4, <2>1, <2>2 DEF ClientTypeOK
<1>6. \A d \in Clients \ {c} : Caches(d) <=> Caches(d)'
  BY <1>1, <1>3 DEF Caches
<1>7. NothingCachedOnline'
  BY <1>2, <1>6 DEF ClientInv, NothingCachedOnline
<1>8. StoppedHasDelegate'
  BY <1>0, <1>1, <1>2 DEF ClientInv, ClientTypeOK, StoppedHasDelegate
<1>9. RetryIsArmed'
  <2> SUFFICES ASSUME NEW d \in Clients, delegate'[d] = "none", Alone(d)',
                      Alive(ProcessOf[d])'
               PROVE  /\ callback'[ProcessOf[d]] = d
                      /\ waiting'[ProcessOf[d]] \/ expired'[ProcessOf[d]]
    BY DEF RetryIsArmed
  <2>1. \A x \in Processes : Alive(x)' => Alive(x)
    BY <1>1 DEF Alive
  <2>2. d # c
    BY <1>2
  <2> QED
    BY <1>1, <1>2, <1>4, <2>1, <2>2, RetryElsewhere
<1> QED
  BY <1>2, <1>5, <1>6, <1>7, <1>8, <1>9 DEF ClientInv

\* The deadline passes.
LEMMA ExpireStep ==
    ASSUME ClientInv, NEW p \in Processes, Expire(p)
    PROVE  ClientInv' /\ \A d \in Clients : Caches(d) => Caches(d)'
<1>0. ClientTypeOK
  BY DEF ClientInv
<1>1. /\ waiting' = [waiting EXCEPT ![p] = FALSE] /\ expired' = [expired EXCEPT ![p] = TRUE]
      /\ sent' = Silent
      /\ UNCHANGED <<delegate, connects, registered, stopped, caches, callback, faults>>
  BY DEF Expire
<1>2. /\ expired'[p] /\ expired' \in [Processes -> BOOLEAN]
      /\ waiting' \in [Processes -> BOOLEAN]
      /\ \A x \in Processes \ {p} : waiting'[x] = waiting[x] /\ expired'[x] = expired[x]
  BY <1>0, <1>1 DEF ClientTypeOK
<1>3. ClientTypeOK'
  <2>1. sent' \in [Clients -> Seq(Sendable)]
    BY <1>1 DEF Silent
  <2> QED
    BY <1>0, <1>1, <1>2, <2>1 DEF ClientTypeOK, caches
<1>4. NothingCachedOnline' /\ \A d \in Clients : Caches(d) <=> Caches(d)'
  BY <1>1, NothingCached
<1>5. RetryIsArmed'
  <2> SUFFICES ASSUME NEW d \in Clients, delegate[d] = "none", Alone(d), Alive(ProcessOf[d])
               PROVE  /\ callback[ProcessOf[d]] = d
                      /\ waiting'[ProcessOf[d]] \/ expired'[ProcessOf[d]]
    BY <1>1 DEF RetryIsArmed, Alone, Alive
  <2>1. /\ callback[ProcessOf[d]] = d
        /\ waiting[ProcessOf[d]] \/ expired[ProcessOf[d]]
    BY DEF ClientInv, RetryIsArmed
  <2>2. ProcessOf[d] \in Processes
    BY ClientAssumption
  <2> QED
    BY <1>2, <2>1, <2>2
<1>6. StoppedHasDelegate'
  BY <1>1 DEF ClientInv, StoppedHasDelegate
<1> QED
  BY <1>3, <1>4, <1>5, <1>6 DEF ClientInv

\* The timer calls its client, which connects again unless it was closed.
LEMMA OnTimeoutStep ==
    ASSUME ClientInv, NEW p \in Processes, OnTimeout(p)
    PROVE  ClientInv' /\ \A d \in Clients : Caches(d) => Caches(d)'
<1> DEFINE c == callback[p]
<1>0. ClientTypeOK
  BY DEF ClientInv
<1>1. /\ expired[p] /\ c # None /\ delegate[c] # "destroyed"
      /\ c \in stopped \/ connects[c] < MaxConnects
      /\ IF c \in stopped THEN UNCHANGED <<delegate, connects>>
         ELSE /\ delegate' = [delegate EXCEPT ![c] = "connecting"]
              /\ connects' = [connects EXCEPT ![c] = @ + 1]
      /\ callback' = [callback EXCEPT ![p] = None]
      /\ expired' = [expired EXCEPT ![p] = FALSE]
      /\ sent' = Silent
      /\ UNCHANGED <<registered, stopped, caches, waiting, faults>>
  BY DEF OnTimeout
<1>2. c \in Clients
  BY <1>0, <1>1 DEF ClientTypeOK
<1> HIDE DEF c
<1>3. /\ \A d \in Clients \ {c} : delegate'[d] = delegate[d]
      /\ delegate' \in [Clients -> Delegates] /\ connects' \in [Clients -> 0..MaxConnects]
      /\ c \notin stopped => delegate'[c] = "connecting"
      /\ c \in stopped => delegate' = delegate
  <2>1. CASE c \in stopped
    BY <1>0, <1>1, <2>1 DEF ClientTypeOK
  <2>2. CASE c \notin stopped
    <3>1. connects[c] \in 0..MaxConnects /\ connects[c] < MaxConnects
      BY <1>0, <1>1, <1>2, <2>2 DEF ClientTypeOK
    <3>2. connects[c] + 1 \in 0..MaxConnects
      BY <3>1, ClientAssumption
    <3>3. connects' \in [Clients -> 0..MaxConnects]
      BY <1>0, <1>1, <2>2, <3>2 DEF ClientTypeOK
    <3>4. /\ \A d \in Clients \ {c} : delegate'[d] = delegate[d]
          /\ delegate' \in [Clients -> Delegates] /\ delegate'[c] = "connecting"
      BY <1>0, <1>1, <1>2, <2>2 DEF ClientTypeOK, Delegates
    <3> QED
      BY <2>2, <3>3, <3>4
  <2> QED
    BY <2>1, <2>2
<1>4. /\ callback' \in [Processes -> Clients \cup {None}]
      /\ expired' \in [Processes -> BOOLEAN]
      /\ \A x \in Processes \ {p} : callback'[x] = callback[x] /\ expired'[x] = expired[x]
  BY <1>0, <1>1 DEF ClientTypeOK
<1>5. ClientTypeOK'
  <2>1. sent' \in [Clients -> Seq(Sendable)]
    BY <1>1 DEF Silent
  <2> QED
    BY <1>0, <1>1, <1>3, <1>4, <2>1 DEF ClientTypeOK, caches
<1>6. \A d \in Clients : delegate'[d] \in {"open", "ended", "none", "absent"} =>
                             delegate'[d] = delegate[d]
  BY <1>3
<1>7. NothingCachedOnline' /\ \A d \in Clients : Caches(d) <=> Caches(d)'
  BY <1>1, <1>6, NothingCached
<1>8. StoppedHasDelegate'
  BY <1>1, <1>3 DEF ClientInv, ClientTypeOK, StoppedHasDelegate
<1>9. RetryIsArmed'
  <2> SUFFICES ASSUME NEW d \in Clients, delegate'[d] = "none", Alone(d)',
                      Alive(ProcessOf[d])'
               PROVE  /\ callback'[ProcessOf[d]] = d
                      /\ waiting[ProcessOf[d]] \/ expired'[ProcessOf[d]]
    BY <1>1 DEF RetryIsArmed
  <2>1. delegate[d] = "none" /\ Alone(d) /\ Alive(ProcessOf[d])
    BY <1>1, <1>6 DEF Alone, Alive
  <2>2. /\ callback[ProcessOf[d]] = d
        /\ waiting[ProcessOf[d]] \/ expired[ProcessOf[d]]
    BY <2>1 DEF ClientInv, RetryIsArmed
  <2>3. ProcessOf[d] # p
    <3>1. CASE ProcessOf[d] = p
      <4>1. d = c
        BY <2>2, <3>1 DEF c
      <4>2. d \notin stopped
        BY <2>1 DEF ClientInv, StoppedHasDelegate
      <4> QED
        BY <1>3, <4>1, <4>2
    <3> QED
      BY <3>1
  <2>4. ProcessOf[d] \in Processes
    BY ClientAssumption
  <2> QED
    BY <1>4, <2>2, <2>3, <2>4
<1> QED
  BY <1>5, <1>7, <1>8, <1>9 DEF ClientInv

\* The timer calls nobody, or a client that is gone: the process ends.
LEMMA OnTimeoutFailsStep ==
    ASSUME ClientInv, NEW p \in Processes, OnTimeoutFails(p)
    PROVE  ClientInv' /\ \A d \in Clients : Caches(d) => Caches(d)'
<1> DEFINE what == IF callback[p] = None THEN "empty callback" ELSE "dangling callback"
<1>0. ClientTypeOK
  BY DEF ClientInv
<1>1. /\ faults' = [faults EXCEPT ![p] = @ \cup {what}]
      /\ sent' = Silent
      /\ UNCHANGED <<delegate, connects, registered, stopped, caches, timer>>
  BY DEF OnTimeoutFails
<1>2. what \in Faults
  BY DEF Faults, Lethal
<1> HIDE DEF what
<1>3. /\ faults' \in [Processes -> SUBSET Faults]
      /\ \A x \in Processes : faults[x] \subseteq faults'[x]
  <2>1. faults[p] \cup {what} \in SUBSET Faults
    BY <1>0, <1>2 DEF ClientTypeOK
  <2> QED
    BY <1>0, <1>1, <2>1 DEF ClientTypeOK
<1>4. ClientTypeOK'
  <2>1. sent' \in [Clients -> Seq(Sendable)]
    BY <1>1 DEF Silent
  <2> QED
    BY <1>0, <1>1, <1>3, <2>1 DEF ClientTypeOK, caches, timer
<1>5. NothingCachedOnline' /\ \A d \in Clients : Caches(d) <=> Caches(d)'
  BY <1>1, NothingCached
<1>6. RetryIsArmed'
  <2>1. \A x \in Processes : Alive(x)' => Alive(x)
    BY <1>3, FatalGrows DEF Alive
  <2> SUFFICES ASSUME NEW d \in Clients, delegate[d] = "none", Alone(d), Alive(ProcessOf[d])'
               PROVE  /\ callback[ProcessOf[d]] = d
                      /\ waiting[ProcessOf[d]] \/ expired[ProcessOf[d]]
    BY <1>1 DEF RetryIsArmed, Alone, timer
  <2>2. Alive(ProcessOf[d])
    BY <2>1, ClientAssumption
  <2> QED
    BY <2>2 DEF ClientInv, RetryIsArmed
<1>7. StoppedHasDelegate'
  BY <1>1 DEF ClientInv, StoppedHasDelegate
<1> QED
  BY <1>4, <1>5, <1>6, <1>7 DEF ClientInv

-----------------------------------------------------------------------------
(* A connection is there: the cache goes out                                *)

\* What the cache of c in s puts on the connection.
CacheOf(s, c) ==
    [i \in 1..s.candidates[c] |-> "ice_candidate"]
        \o (IF c \in s.offer THEN <<"offer">> ELSE <<>>)
        \o (IF c \in s.answer THEN <<"answer">> ELSE <<>>)
        \o (IF c \in s.want THEN <<"want_to_negotiate">> ELSE <<>>)

\* It is a sequence of messages.
LEMMA CacheTyped ==
    ASSUME NEW s \in ClientStates, NEW c \in Clients PROVE CacheOf(s, c) \in Seq(Sendable)
<1> DEFINE v == [i \in 1..s.candidates[c] |-> "ice_candidate"]
<1>1. s.candidates[c] \in Nat
  BY ClientAssumption DEF ClientStates
<1>2. v \in Seq(Sendable)
  BY <1>1 DEF Sendable
<1>3. \A m \in Sendable : <<m>> \in Seq(Sendable)
  OBVIOUS
<1>4. /\ <<>> \in Seq(Sendable) /\ <<"offer">> \in Seq(Sendable)
      /\ <<"answer">> \in Seq(Sendable) /\ <<"want_to_negotiate">> \in Seq(Sendable)
  BY <1>3 DEF Sendable
<1> HIDE DEF v
<1>5. \A a, b \in Seq(Sendable) : a \o b \in Seq(Sendable)
  OBVIOUS
<1> QED
  BY <1>2, <1>4, <1>5 DEF CacheOf, v

\* The messages of two sequences, one after the other.
LEMMA Joined ==
    ASSUME NEW v \in Seq(Sendable), NEW w \in Seq(Sendable)
    PROVE  /\ v \o w \in Seq(Sendable) /\ Len(v \o w) = Len(v) + Len(w)
           /\ Len(v) \in Nat /\ Len(w) \in Nat
           /\ \A i \in 1..Len(v) : (v \o w)[i] = v[i]
           /\ \A i \in 1..Len(w) : (v \o w)[Len(v) + i] = w[i]
OBVIOUS

\* In out, n candidates come after the first message and the wish comes last,
\* with an offer and an answer between.
InLine(out, first, n, o, a, w) ==
    /\ out[1] = first[1]
    /\ \A m : o = <<m>> \/ a = <<m>> => \E i \in DOMAIN out : out[i] = m
    /\ \A m : w = <<m>> => out[Len(out)] = m
    /\ \E j \in 1..Len(out) - n : \A i \in 1..n : out[j + i] = "ice_candidate"

\* The parts of a cache go out in line.
LEMMA InOrder ==
    ASSUME NEW n \in Nat, NEW v, v = [i \in 1..n |-> "ice_candidate"],
           NEW o \in Seq(Sendable), NEW a \in Seq(Sendable), NEW w \in Seq(Sendable),
           NEW first \in Seq(Sendable), Len(first) > 0,
           NEW out, out = first \o (v \o o \o a \o w)
    PROVE  out \in Seq(Sendable) /\ InLine(out, first, n, o, a, w)
<1> DEFINE vo == v \o o
           voa == vo \o a
           all == voa \o w
<1>1. /\ v \in Seq(Sendable) /\ Len(v) = n
      /\ \A i \in 1..n : v[i] = "ice_candidate"
  BY DEF Sendable
<1>2. /\ vo \in Seq(Sendable) /\ Len(vo) = n + Len(o) /\ Len(o) \in Nat
      /\ \A i \in 1..n : vo[i] = v[i]
      /\ \A i \in 1..Len(o) : vo[n + i] = o[i]
  <2>1. /\ vo \in Seq(Sendable) /\ Len(vo) = Len(v) + Len(o) /\ Len(o) \in Nat
        /\ \A i \in 1..Len(v) : vo[i] = v[i]
        /\ \A i \in 1..Len(o) : vo[Len(v) + i] = o[i]
    <3>1. v \in Seq(Sendable)
      BY <1>1
    <3> QED
      BY <3>1, Joined
  <2>2. Len(v) = n
    BY <1>1
  <2> HIDE DEF vo
  <2> QED
    BY <2>1, <2>2
<1> HIDE DEF vo
<1>3. /\ voa \in Seq(Sendable) /\ Len(voa) = Len(vo) + Len(a) /\ Len(a) \in Nat
      /\ \A i \in 1..Len(vo) : voa[i] = vo[i]
      /\ \A i \in 1..Len(a) : voa[Len(vo) + i] = a[i]
  BY <1>2, Joined
<1> HIDE DEF voa
<1>4. /\ all \in Seq(Sendable) /\ Len(all) = Len(voa) + Len(w) /\ Len(w) \in Nat
      /\ \A i \in 1..Len(voa) : all[i] = voa[i]
      /\ \A i \in 1..Len(w) : all[Len(voa) + i] = w[i]
  BY <1>3, Joined
<1> HIDE DEF all
<1>5. /\ out \in Seq(Sendable) /\ Len(out) = Len(first) + Len(all) /\ Len(first) \in Nat
      /\ \A i \in 1..Len(first) : out[i] = first[i]
      /\ \A i \in 1..Len(all) : out[Len(first) + i] = all[i]
  BY <1>4, Joined DEF all, voa, vo
<1>6. DOMAIN out = 1..Len(out)
  BY <1>5
<1>7. out[1] = first[1]
  BY <1>5
<1>8. ASSUME NEW m, o = <<m>> PROVE \E i \in DOMAIN out : out[i] = m
  <2>1. Len(o) = 1 /\ o[1] = m
    BY <1>8
  <2>2. vo[n + 1] = m /\ n + 1 \in 1..Len(vo)
    BY <1>2, <2>1
  <2>3. voa[n + 1] = m /\ n + 1 \in 1..Len(voa)
    BY <1>2, <1>3, <2>2
  <2>4. all[n + 1] = m /\ n + 1 \in 1..Len(all)
    BY <1>2, <1>3, <1>4, <2>3
  <2>5. out[Len(first) + (n + 1)] = m
    BY <1>5, <2>4
  <2>6. Len(first) + (n + 1) \in 1..Len(out)
    <3>1. Len(all) \in Nat
      BY <1>2, <1>3, <1>4
    <3> QED
      BY <1>5, <2>4, <3>1
  <2> QED
    BY <1>6, <2>5, <2>6
<1>9. ASSUME NEW m, a = <<m>> PROVE \E i \in DOMAIN out : out[i] = m
  <2>1. Len(a) = 1 /\ a[1] = m
    BY <1>9
  <2>2. Len(vo) + 1 \in 1..Len(voa) /\ voa[Len(vo) + 1] = m
    BY <1>2, <1>3, <2>1
  <2>3. Len(vo) + 1 \in 1..Len(all) /\ all[Len(vo) + 1] = m
    BY <1>2, <1>3, <1>4, <2>2
  <2>4. out[Len(first) + (Len(vo) + 1)] = m /\ Len(first) + (Len(vo) + 1) \in 1..Len(out)
    BY <1>2, <1>3, <1>4, <1>5, <2>3, SMTT(30)
  <2> QED
    BY <1>6, <2>4
<1>10. ASSUME NEW m, w = <<m>> PROVE out[Len(out)] = m
  <2>1. Len(w) = 1 /\ w[1] = m
    BY <1>10
  <2>2. all[Len(all)] = m /\ Len(all) \in 1..Len(all)
    BY <1>2, <1>3, <1>4, <2>1
  <2> QED
    BY <1>5, <2>2
<1>11. \E j \in 1..Len(out) - n : \A i \in 1..n : out[j + i] = "ice_candidate"
  <2>1. ASSUME NEW i \in 1..n PROVE out[Len(first) + i] = "ice_candidate"
    <3>1. i \in 1..Len(vo) /\ i \in 1..Len(voa) /\ i \in 1..Len(all)
      BY <1>2, <1>3, <1>4
    <3> QED
      BY <1>1, <1>2, <1>3, <1>4, <1>5, <3>1
  <2>2. Len(first) \in 1..Len(out) - n
    BY <1>2, <1>3, <1>4, <1>5
  <2> QED
    BY <2>1, <2>2
<1> QED
  BY <1>5, <1>7, <1>8, <1>9, <1>10, <1>11 DEF InLine

\* Sending the cache empties it, and touches nobody else's.
LEMMA SendCacheLemma ==
    ASSUME NEW c \in Clients, NEW s \in ClientStates, s.sent[c] # <<>>,
           NEW t, t = SendCache(s, c)
    PROVE  /\ t \in ClientStates
           /\ t.delegate = s.delegate /\ t.faults = s.faults
           /\ \A d \in Clients \ {c} : CachesIn(t, d) <=> CachesIn(s, d)
           /\ \A d \in Clients \ {c} :
                 t.candidates[d] = s.candidates[d] /\ t.sent[d] = s.sent[d]
           /\ ~CachesIn(t, c) /\ t.candidates[c] = 0
           /\ t.sent[c] = s.sent[c] \o CacheOf(s, c)
<1> DEFINE longer == s.sent[c] \o CacheOf(s, c)
           sends == [s.sent EXCEPT ![c] = longer]
           fewer == [s.candidates EXCEPT ![c] = 0]
<1>1. longer \in Seq(Sendable)
  <2> DEFINE v == [i \in 1..s.candidates[c] |-> "ice_candidate"]
             o == IF c \in s.offer THEN <<"offer">> ELSE <<>>
             a == IF c \in s.answer THEN <<"answer">> ELSE <<>>
             w == IF c \in s.want THEN <<"want_to_negotiate">> ELSE <<>>
  <2>1. /\ <<>> \in Seq(Sendable) /\ <<"offer">> \in Seq(Sendable)
        /\ <<"answer">> \in Seq(Sendable) /\ <<"want_to_negotiate">> \in Seq(Sendable)
    <3>1. \A m \in Sendable : <<m>> \in Seq(Sendable)
      OBVIOUS
    <3> QED
      BY <3>1 DEF Sendable
  <2>2. s.candidates[c] \in Nat
    BY ClientAssumption DEF ClientStates
  <2>3. s.sent[c] \in Seq(Sendable) /\ Len(s.sent[c]) > 0
    BY DEF ClientStates
  <2>4. longer = s.sent[c] \o (v \o o \o a \o w)
    BY DEF CacheOf
  <2>5. o \in Seq(Sendable) /\ a \in Seq(Sendable) /\ w \in Seq(Sendable)
    BY <2>1
  <2>6. v = [i \in 1..s.candidates[c] |-> "ice_candidate"]
    OBVIOUS
  <2> HIDE DEF v, o, a, w, longer
  <2>7. longer \in Seq(Sendable)
    <3> DEFINE n == s.candidates[c]
               first == s.sent[c]
    <3>1. /\ n \in Nat /\ v = [i \in 1..n |-> "ice_candidate"]
          /\ first \in Seq(Sendable) /\ Len(first) > 0
          /\ longer = first \o (v \o o \o a \o w)
      BY <2>2, <2>3, <2>4, <2>6
    <3> HIDE DEF n, first
    <3> QED
      BY <2>5, <3>1, InOrder
  <2> QED
    BY <2>7
<1>2. t = [s EXCEPT !.sent = sends, !.candidates = fewer, !.offer = @ \ {c},
                    !.answer = @ \ {c}, !.want = @ \ {c}]
  BY DEF SendCache, CacheOf, ClientStates
<1> HIDE DEF longer
<1>3. /\ sends \in [Clients -> Seq(Sendable)] /\ sends[c] = longer
      /\ \A d \in Clients \ {c} : sends[d] = s.sent[d]
  BY <1>1 DEF ClientStates
<1>4. /\ fewer \in [Clients -> 0..MaxCandidates] /\ fewer[c] = 0
      /\ \A d \in Clients \ {c} : fewer[d] = s.candidates[d]
  BY ClientAssumption DEF ClientStates
<1> HIDE DEF sends, fewer
<1>5. /\ t.delegate = s.delegate /\ t.faults = s.faults
      /\ t.sent = sends /\ t.candidates = fewer /\ t.offer = s.offer \ {c}
      /\ t.answer = s.answer \ {c} /\ t.want = s.want \ {c}
  BY <1>2 DEF ClientStates
<1>6. t \in ClientStates
  BY <1>2, <1>3, <1>4 DEF ClientStates
<1>7. \A d \in Clients \ {c} : CachesIn(t, d) <=> CachesIn(s, d)
  BY <1>4, <1>5 DEF CachesIn
<1>8. ~CachesIn(t, c)
  BY <1>4, <1>5 DEF CachesIn
<1> QED
  BY <1>3, <1>4, <1>5, <1>6, <1>7, <1>8 DEF longer

\* What CachedGoesOut says of one client's step.
GoesOut(c) ==
    LET n == candidates[c] IN
    Caches(c) /\ ~Caches(c)' /\ delegate'[c] # "destroyed" =>
        /\ sent'[c][1] = "registration"
        /\ \A m \in {<<"offer", offerCache>>, <<"answer", answerCache>>} :
             c \in m[2] => \E i \in DOMAIN sent'[c] : sent'[c][i] = m[1]
        /\ c \in wantCache => sent'[c][Len(sent'[c])] = "want_to_negotiate"
        /\ \E j \in 1..Len(sent'[c]) - n :
             \A i \in 1..n : sent'[c][j + i] = "ice_candidate"

\* A client told to send while it has its connection only sends.
LEMMA ToldLemma ==
    ASSUME ClientTypeOK, NEW c \in Clients, NEW wish \in BOOLEAN,
           NEW told,
           LET opened == Transmit([Client EXCEPT !.delegate[c] = "open"], c, "registration")
           IN  told = IF wish /\ c \notin registered THEN SendWantToNegotiate(opened, c)
                      ELSE opened
    PROVE  /\ told \in ClientStates /\ told.faults = NoFault
           /\ told.offer = offerCache /\ told.answer = answerCache /\ told.want = wantCache
           /\ told.candidates = candidates
           /\ told.delegate = [delegate EXCEPT ![c] = "open"]
           /\ Len(told.sent[c]) > 0 /\ told.sent[c][1] = "registration"
<1> DEFINE more == [delegate EXCEPT ![c] = "open"]
           open == [Client EXCEPT !.delegate[c] = "open"]
           opened == Transmit(open, c, "registration")
           again == Transmit(opened, c, "want_to_negotiate")
<1>1. Silent \in [Clients -> Seq(Sendable)] /\ NoFault \in [Processes -> SUBSET Faults]
  BY DEF Silent, NoFault
<1>2. more \in [Clients -> Delegates] /\ more[c] = "open"
  BY DEF ClientTypeOK, Delegates
<1>3. /\ open.delegate = more /\ open.offer = offerCache /\ open.answer = answerCache
      /\ open.want = wantCache /\ open.candidates = candidates /\ open.sent = Silent
      /\ open.faults = NoFault
  BY DEF Client
<1>4. open \in ClientStates
  <2>1. open = [Client EXCEPT !.delegate = more]
    BY DEF Client
  <2> HIDE DEF more, open
  <2> QED
    BY <1>1, <1>2, <2>1 DEF Client, ClientStates, ClientTypeOK
<1> HIDE DEF open, more
<1>m. "registration" \in Sendable /\ "want_to_negotiate" \in Sendable
  BY DEF Sendable
<1>5. /\ opened \in ClientStates /\ SameButSent(open, opened)
      /\ opened.sent[c] = Append(open.sent[c], "registration")
      /\ opened.faults = open.faults
  BY <1>2, <1>3, <1>4, <1>m, TransmitLemma
<1>6. opened.sent[c] = <<"registration">>
  BY <1>3, <1>5 DEF Silent
<1> HIDE DEF opened
<1>7. /\ again \in ClientStates /\ SameButSent(opened, again)
      /\ again.sent[c] = Append(opened.sent[c], "want_to_negotiate")
      /\ again.faults = opened.faults
  BY <1>2, <1>3, <1>5, <1>m, TransmitLemma, SMTT(30) DEF SameButSent
<1>8. again.sent[c] = <<"registration", "want_to_negotiate">>
  BY <1>6, <1>7
<1> HIDE DEF again
<1>9. told = opened \/ told = again
  <2>1. opened.delegate[c] = "open"
    BY <1>2, <1>3, <1>5 DEF SameButSent
  <2>2. SendWantToNegotiate(opened, c) = again
    BY <2>1 DEF SendWantToNegotiate, IsConnected, again
  <2>3. told = IF wish /\ c \notin registered THEN SendWantToNegotiate(opened, c)
               ELSE opened
    BY DEF opened, open
  <2> QED
    BY <2>2, <2>3
<1>10. Len(told.sent[c]) > 0 /\ told.sent[c][1] = "registration"
  <2>1. CASE told = opened
    BY <1>6, <2>1
  <2>2. CASE told = again
    BY <1>8, <2>2, SMTT(30)
  <2> QED
    BY <1>9, <2>1, <2>2
<1>11. told \in ClientStates /\ SameButSent(open, told) /\ told.faults = NoFault
  BY <1>3, <1>5, <1>7, <1>9 DEF SameButSent
<1> QED
  BY <1>3, <1>10, <1>11 DEF SameButSent, more

\* The connection is there: c registers, and what it had cached goes out.
LEMMA ConnectedStep ==
    ASSUME ClientInv, NEW c \in Clients, NEW wish \in BOOLEAN, Connected(c, wish)
    PROVE  /\ ClientInv'
           /\ \A d \in Clients \ {c} : Caches(d) => Caches(d)'
           /\ \A d \in Clients : candidates'[d] \in {0, candidates[d]}
           /\ GoesOut(c)
           /\ delegate' = [delegate EXCEPT ![c] = "open"] /\ faults' = faults
           /\ sent'[c] # <<>>
<1> DEFINE opened == Transmit([Client EXCEPT !.delegate[c] = "open"], c, "registration")
           told == IF wish /\ c \notin registered THEN SendWantToNegotiate(opened, c)
                   ELSE opened
           t == SendCache(told, c)
           more == [delegate EXCEPT ![c] = "open"]
<1>0. ClientTypeOK
  BY DEF ClientInv
<1>1. /\ delegate[c] = "connecting" /\ SendBy(c, t) /\ registered' = registered \cup {c}
      /\ UNCHANGED <<connects, stopped, timer>>
  BY DEF Connected
<1>2. /\ told \in ClientStates /\ told.faults = NoFault
      /\ told.offer = offerCache /\ told.answer = answerCache /\ told.want = wantCache
      /\ told.candidates = candidates /\ told.delegate = more
      /\ Len(told.sent[c]) > 0 /\ told.sent[c][1] = "registration"
  BY <1>0, ToldLemma
<1> HIDE DEF told
<1>3. /\ t \in ClientStates /\ t.delegate = told.delegate /\ t.faults = told.faults
      /\ \A d \in Clients \ {c} : CachesIn(t, d) <=> CachesIn(told, d)
      /\ \A d \in Clients \ {c} : t.candidates[d] = told.candidates[d]
      /\ ~CachesIn(t, c) /\ t.candidates[c] = 0
      /\ t.sent[c] = told.sent[c] \o CacheOf(told, c)
  <2>1. told.sent[c] # <<>>
    BY <1>2
  <2> QED
    BY <1>2, <2>1, SendCacheLemma
<1> HIDE DEF t
<1>4. /\ delegate' = more /\ offerCache' = t.offer /\ answerCache' = t.answer
      /\ wantCache' = t.want /\ candidates' = t.candidates /\ sent' = t.sent
      /\ faults' = faults
  <2>1. ProcessOf[c] \in Processes /\ t.faults = NoFault
    BY <1>2, <1>3, ClientAssumption
  <2>2. ~Fatal(t.faults[ProcessOf[c]])
    BY <2>1 DEF Fatal, NoFault
  <2>3. [p \in Processes |-> faults[p] \cup NoFault[p]] = faults
    BY <1>0 DEF NoFault, ClientTypeOK
  <2> QED
    BY <1>1, <1>2, <1>3, <2>1, <2>2, <2>3 DEF SendBy
<1>14. delegate' = [delegate EXCEPT ![c] = "open"]
  BY <1>4 DEF more
<1>5. /\ more \in [Clients -> Delegates] /\ more[c] = "open"
      /\ \A d \in Clients \ {c} : more[d] = delegate[d]
  BY <1>0 DEF ClientTypeOK, Delegates
<1> HIDE DEF more
<1>6. ClientTypeOK'
  <2>1. /\ offerCache' \subseteq Clients /\ answerCache' \subseteq Clients
        /\ wantCache' \subseteq Clients /\ candidates' \in [Clients -> 0..MaxCandidates]
        /\ sent' \in [Clients -> Seq(Sendable)]
    BY <1>3, <1>4 DEF ClientStates
  <2> QED
    BY <1>0, <1>1, <1>4, <1>5, <2>1 DEF ClientTypeOK, timer
<1>7. \A d \in Clients \ {c} : Caches(d) <=> Caches(d)'
  BY <1>2, <1>3, <1>4 DEF Caches, CachesIn
<1>8. ~Caches(c)'
  BY <1>3, <1>4 DEF Caches, CachesIn
<1>9. NothingCachedOnline'
  BY <1>4, <1>5, <1>7, <1>8 DEF ClientInv, NothingCachedOnline
<1>10. StoppedHasDelegate'
  BY <1>0, <1>1, <1>4, <1>5 DEF ClientInv, ClientTypeOK, StoppedHasDelegate
<1>11. RetryIsArmed'
  <2>1. \A p \in Processes : Alive(p)' => Alive(p)
    BY <1>4 DEF Alive
  <2> QED
    BY <1>1, <1>4, <1>5, <2>1, RetryStays
<1>12. GoesOut(c)
  <2> DEFINE n == candidates[c]
             v == [i \in 1..n |-> "ice_candidate"]
             o == IF c \in offerCache THEN <<"offer">> ELSE <<>>
             a == IF c \in answerCache THEN <<"answer">> ELSE <<>>
             w == IF c \in wantCache THEN <<"want_to_negotiate">> ELSE <<>>
             first == told.sent[c]
             out == sent'[c]
  <2>1. /\ <<>> \in Seq(Sendable) /\ <<"offer">> \in Seq(Sendable)
        /\ <<"answer">> \in Seq(Sendable) /\ <<"want_to_negotiate">> \in Seq(Sendable)
    <3>1. \A m \in Sendable : <<m>> \in Seq(Sendable)
      OBVIOUS
    <3> QED
      BY <3>1 DEF Sendable
  <2>2. o \in Seq(Sendable) /\ a \in Seq(Sendable) /\ w \in Seq(Sendable)
    BY <2>1
  <2>3. n \in Nat
    BY <1>0, ClientAssumption DEF ClientTypeOK
  <2>4. first \in Seq(Sendable) /\ Len(first) > 0 /\ first[1] = "registration"
    BY <1>2 DEF ClientStates
  <2>5. out = first \o (v \o o \o a \o w)
    BY <1>2, <1>3, <1>4 DEF CacheOf
  <2>6. /\ c \in offerCache => o = <<"offer">>
        /\ c \in answerCache => a = <<"answer">>
        /\ c \in wantCache => w = <<"want_to_negotiate">>
    OBVIOUS
  <2>7. v = [i \in 1..n |-> "ice_candidate"]
    OBVIOUS
  <2> HIDE DEF v, o, a, w, first, out, n
  <2>8. InLine(out, first, n, o, a, w)
    BY <2>2, <2>3, <2>4, <2>5, <2>7, InOrder
  <2>9. out[1] = "registration"
    BY <2>4, <2>8 DEF InLine
  <2>10. /\ c \in offerCache => \E i \in DOMAIN out : out[i] = "offer"
         /\ c \in answerCache => \E i \in DOMAIN out : out[i] = "answer"
    BY <2>6, <2>8 DEF InLine
  <2>11. c \in wantCache => out[Len(out)] = "want_to_negotiate"
    BY <2>6, <2>8 DEF InLine
  <2>12. \A m \in {<<"offer", offerCache>>, <<"answer", answerCache>>} :
            c \in m[2] => \E i \in DOMAIN out : out[i] = m[1]
    BY <2>10
  <2> QED
    BY <2>8, <2>9, <2>11, <2>12 DEF GoesOut, InLine, out, n
<1>13. \A d \in Clients : candidates'[d] \in {0, candidates[d]}
  BY <1>2, <1>3, <1>4
<1>15. sent'[c] # <<>>
  <2>1. told.sent[c] \in Seq(Sendable) /\ sent'[c] \in Seq(Sendable)
    BY <1>2, <1>6 DEF ClientStates, ClientTypeOK
  <2>2. CacheOf(told, c) \in Seq(Sendable)
    BY <1>2, CacheTyped
  <2> QED
    BY <1>2, <1>3, <1>4, <2>1, <2>2, Joined
<1> QED
  BY <1>4, <1>6, <1>7, <1>9, <1>10, <1>11, <1>12, <1>13, <1>14, <1>15 DEF ClientInv

-----------------------------------------------------------------------------
(* The theorems                                                            *)

\* No process has run yet.
LEMMA ClientInitially == ClientInit => ClientInv
<1> SUFFICES ASSUME ClientInit PROVE ClientInv
  OBVIOUS
<1>1. Silent \in [Clients -> Seq(Sendable)] /\ NoFault \in [Processes -> SUBSET Faults]
  BY DEF Silent, NoFault
<1>2. ClientTypeOK
  BY <1>1, ClientAssumption DEF ClientInit, ClientTypeOK, Delegates
<1>3. NothingCachedOnline /\ RetryIsArmed /\ StoppedHasDelegate
  BY DEF ClientInit, NothingCachedOnline, RetryIsArmed, StoppedHasDelegate
<1> QED
  BY <1>2, <1>3 DEF ClientInv

\* Every step keeps the invariant, and empties a cache only as GoesOut says.
LEMMA ClientNextLemma ==
    ASSUME ClientInv, [ClientNext]_clientVars
    PROVE  ClientInv' /\ \A c \in Clients : GoesOut(c)
<1>1. ASSUME NEW d \in Clients, Caches(d) => Caches(d)' PROVE GoesOut(d)
  BY <1>1 DEF GoesOut
<1>2. CASE UNCHANGED clientVars
  <2>1. ClientInv'
    BY <1>2 DEF ClientInv, ClientTypeOK, NothingCachedOnline, Caches, RetryIsArmed, Alone,
                Alive, StoppedHasDelegate, clientVars, caches, timer
  <2>2. \A d \in Clients : Caches(d) <=> Caches(d)'
    BY <1>2 DEF Caches, clientVars, caches
  <2> QED
    BY <1>1, <2>1, <2>2
<1>3. ASSUME NEW c \in Clients, Connect(c)
      PROVE  ClientInv' /\ \A d \in Clients : GoesOut(d)
  BY <1>1, <1>3, ConnectStep
<1>4. ASSUME NEW c \in Clients, NEW wish \in BOOLEAN, Connected(c, wish)
      PROVE  ClientInv' /\ \A d \in Clients : GoesOut(d)
  BY <1>1, <1>4, ConnectedStep
<1>5. ASSUME NEW c \in Clients, ConnectFailed(c)
      PROVE  ClientInv' /\ \A d \in Clients : GoesOut(d)
  BY <1>1, <1>5, ConnectFailedStep
<1>6. ASSUME NEW c \in Clients, Closed(c)
      PROVE  ClientInv' /\ \A d \in Clients : GoesOut(d)
  BY <1>1, <1>6, ClosedStep
<1>7. ASSUME NEW c \in Clients, Close(c)
      PROVE  ClientInv' /\ \A d \in Clients : GoesOut(d)
  BY <1>1, <1>7, CloseStep
<1>8. ASSUME NEW c \in Clients, Destroy(c)
      PROVE  ClientInv' /\ \A d \in Clients : GoesOut(d)
  <2>1. /\ ClientInv'
        /\ \A d \in Clients : Caches(d) /\ delegate'[d] # "destroyed" => Caches(d)'
    BY <1>8, DestroyStep
  <2> QED
    BY <2>1 DEF GoesOut
<1>9. ASSUME NEW c \in Clients, NEW m \in Sendable \ {"registration"}, Send(c, m)
      PROVE  ClientInv' /\ \A d \in Clients : GoesOut(d)
  BY <1>1, <1>9, SendStep
<1>10. ASSUME NEW p \in Processes, Expire(p) \/ OnTimeout(p) \/ OnTimeoutFails(p)
       PROVE  ClientInv' /\ \A d \in Clients : GoesOut(d)
  BY <1>1, <1>10, ExpireStep, OnTimeoutStep, OnTimeoutFailsStep
<1> QED
  BY <1>2, <1>3, <1>4, <1>5, <1>6, <1>7, <1>8, <1>9, <1>10 DEF ClientNext

\* ClientInv is inductive.
THEOREM ClientInvariant == ClientSpec => []ClientInv
<1>1. ClientInit => ClientInv
  BY ClientInitially
<1>2. ClientInv /\ [ClientNext]_clientVars => ClientInv'
  BY ClientNextLemma
<1> QED
  BY <1>1, <1>2, PTL DEF ClientSpec

\* What a client cached never stays beside a connection, and the only client of
\* a process that lost its connection is the one its timer will call.
THEOREM ClientSound == ClientSpec => []ClientIsSound
<1>1. ClientInv => ClientIsSound
  BY DEF ClientInv, ClientIsSound
<1> QED
  BY <1>1, ClientInvariant, PTL

\* What StoppedStaysStopped says of a step.
NoneConnects == \A c \in stopped : connects'[c] = connects[c]

\* No client that was closed connects any more: it was made before, and the
\* timer leaves it.
THEOREM StoppedStays == ClientSpec => StoppedStaysStopped
<1>1. ClientInv /\ [ClientNext]_clientVars => [NoneConnects]_clientVars
  <2> SUFFICES ASSUME ClientInv, ClientNext PROVE NoneConnects
    BY DEF NoneConnects, clientVars
  <2> USE DEF NoneConnects
  <2>1. connects \in [Clients -> 0..MaxConnects] /\ stopped \subseteq Clients
    BY DEF ClientInv, ClientTypeOK
  <2>2. ASSUME NEW c \in Clients, Connect(c) PROVE NoneConnects
    BY <2>1, <2>2 DEF Connect, ClientInv, StoppedHasDelegate
  <2>3. ASSUME NEW c \in Clients, NEW wish \in BOOLEAN, Connected(c, wish)
        PROVE  NoneConnects
    BY <2>3 DEF Connected
  <2>4. ASSUME NEW c \in Clients, ConnectFailed(c) \/ Close(c) \/ Destroy(c) \/ Closed(c)
        PROVE  NoneConnects
    BY <2>4 DEF ConnectFailed, Close, Destroy, Closed
  <2>5. ASSUME NEW c \in Clients, NEW m \in Sendable \ {"registration"}, Send(c, m)
        PROVE  NoneConnects
    BY <2>5 DEF Send
  <2>6. ASSUME NEW p \in Processes, OnTimeout(p) PROVE NoneConnects
    BY <2>1, <2>6 DEF OnTimeout
  <2>7. ASSUME NEW p \in Processes, Expire(p) \/ OnTimeoutFails(p) PROVE NoneConnects
    BY <2>7 DEF Expire, OnTimeoutFails
  <2> QED
    BY <2>2, <2>3, <2>4, <2>5, <2>6, <2>7 DEF ClientNext
<1> QED
  BY <1>1, ClientInvariant, PTL DEF ClientSpec, StoppedStaysStopped, NoneConnects

\* What CachedGoesOut says of a step.
CachesGoOut == \A c \in Clients : GoesOut(c)

\* What was cached leaves the cache only onto a new connection, behind the
\* registration and in order, or with the client.
THEOREM CacheGoesOut == ClientSpec => CachedGoesOut
<1>1. ClientInv /\ [ClientNext]_clientVars => [CachesGoOut]_clientVars
  BY ClientNextLemma DEF CachesGoOut
<1> QED
  BY <1>1, ClientInvariant, PTL DEF ClientSpec, CachedGoesOut, CachesGoOut, GoesOut

=============================================================================
