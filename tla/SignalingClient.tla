-------------------------- MODULE SignalingClient --------------------------
(***************************************************************************)
(* The signaling clients of fubble processes: one reconnecting_client per  *)
(* remote participant.  A reconnecting_client holds a delegate, a          *)
(* client_impl for one websocket connection, throws it away when the       *)
(* connection closes and makes another one after a timeout; what is sent   *)
(* meanwhile is cached.                                                    *)
(*                                                                         *)
(* The clients of one process share one one_shot_timer                     *)
(* (client_module::get_reconnect_timer).  A process runs its handlers on   *)
(* one asio thread, so a handler is one step; the timer's expiry and the   *)
(* execution of its handler are two.                                       *)
(***************************************************************************)
EXTENDS Naturals, Sequences

CONSTANTS
    Clients,        \* reconnecting_clients, in all processes
    Processes,      \* fubble processes
    ProcessOf,      \* the process of a client
    None,           \* the null pointer
    MaxConnects,    \* bound: connections one client tries to make
    MaxCandidates,  \* bound: ice candidates one client caches
    Asserts         \* BOOST_ASSERT compiled in (Debug) or not (Release)

ASSUME ClientAssumption ==
    /\ ProcessOf \in [Clients -> Processes]
    /\ None \notin Clients
    /\ MaxConnects \in Nat /\ MaxCandidates \in Nat
    /\ Asserts \in BOOLEAN

VARIABLES
    delegate,     \* the state of a client's delegate, "none" without one
    connects,     \* connections a client tried to make so far
    registered,   \* clients with is_registered
    stopped,      \* clients with ~shall_reconnect
    offerCache, answerCache, wantCache,  \* clients that cached one
    candidates,   \* size of candidates_cache
    callback,     \* one_shot_timer::callback of a process: the client it calls
    waiting,      \* the timer of a process has an async_wait pending
    expired,      \* ... has the handler of an expired wait in the queue
    sent,         \* what the last step gave each client's connection to send
    faults        \* the assertions of a process that did not hold so far

caches == <<offerCache, answerCache, wantCache, candidates>>
timer == <<callback, waiting, expired>>
clientVars == <<delegate, connects, registered, stopped, caches, timer, sent, faults>>

\* absent: not created yet; connecting: client_impl waits for its connector;
\* open: it has a connection and reads; failed: the connector gave an error;
\* ended: the connection is gone and was not replaced; destroyed.
Delegates == {"absent", "none", "connecting", "open", "failed", "ended", "destroyed"}
Sendable == {"registration", "want_to_negotiate", "offer", "answer", "ice_candidate"}

\* What may go wrong in a process.  A connection_ that is null (client.cpp:37,
\* 43, 49 and 55), a callback that is empty or belongs to a client that is gone
\* end a process in any build, the other failed assertions in a Debug build.
Lethal == {"connection_", "empty callback", "dangling callback"}
Faults == Lethal \cup {"start:12", "close:173", "close:176",
                       "send_offer:186", "send_answer:195", "send_want:212"}

Silent == [c \in Clients |-> <<>>]
NoFault == [p \in Processes |-> {}]

-----------------------------------------------------------------------------
(* The sending half of a client, as a record its methods transform.        *)

Client == [delegate |-> delegate, offer |-> offerCache, answer |-> answerCache,
           want |-> wantCache, candidates |-> candidates,
           sent |-> Silent, faults |-> NoFault]

Fault(s, c, holds, which) ==
    IF holds THEN s ELSE [s EXCEPT !.faults[ProcessOf[c]] = @ \cup {which}]

\* client_impl::send_*: hands the message to the connection, which must exist.
Transmit(s, c, m) ==
    IF s.delegate[c] \in {"open", "ended"} THEN [s EXCEPT !.sent[c] = Append(@, m)]
    ELSE Fault(s, c, FALSE, "connection_")

\* reconnecting_client::is_connected: there is a delegate, connected or not.
IsConnected(s, c) == s.delegate[c] # "none"

SendOffer(s, c) ==
    IF IsConnected(s, c) THEN Transmit(s, c, "offer")
    ELSE [Fault(s, c, c \notin s.offer, "send_offer:186") EXCEPT !.offer = @ \cup {c}]

SendAnswer(s, c) ==
    IF IsConnected(s, c) THEN Transmit(s, c, "answer")
    ELSE [Fault(s, c, c \notin s.answer, "send_answer:195") EXCEPT !.answer = @ \cup {c}]

SendWantToNegotiate(s, c) ==
    IF IsConnected(s, c) THEN Transmit(s, c, "want_to_negotiate")
    ELSE [Fault(s, c, c \notin s.want, "send_want:212") EXCEPT !.want = @ \cup {c}]

SendIceCandidate(s, c) ==
    IF IsConnected(s, c) THEN Transmit(s, c, "ice_candidate")
    ELSE [s EXCEPT !.candidates[c] = @ + 1]

\* Mutant: a cached wish is taken for granted once an answer is sent.
SendCacheNoWish(s, c) ==
    LET cached == [i \in 1..s.candidates[c] |-> "ice_candidate"]
                    \o (IF c \in s.offer THEN <<"offer">> ELSE <<>>)
                    \o (IF c \in s.answer THEN <<"answer">> ELSE <<>>)
                    \o (IF c \in s.want \ s.answer THEN <<"want_to_negotiate">> ELSE <<>>)
    IN  [s EXCEPT !.sent[c] = @ \o cached, !.candidates[c] = 0,
                  !.offer = @ \ {c}, !.answer = @ \ {c}, !.want = @ \ {c}]

\* The connection exists when the cache is sent, so nothing is cached again.
SendCache(s, c) ==
    LET cached == [i \in 1..s.candidates[c] |-> "ice_candidate"]
                    \o (IF c \in s.offer THEN <<"offer">> ELSE <<>>)
                    \o (IF c \in s.answer THEN <<"answer">> ELSE <<>>)
                    \o (IF c \in s.want THEN <<"want_to_negotiate">> ELSE <<>>)
    IN  [s EXCEPT !.sent[c] = @ \o cached, !.candidates[c] = 0,
                  !.offer = @ \ {c}, !.answer = @ \ {c}, !.want = @ \ {c}]

-----------------------------------------------------------------------------
(* The effect of a handler: a fatal fault stops the process in mid-step.    *)

Fatal(f) == f \cap Lethal # {} \/ (Asserts /\ f # {})
Alive(p) == ~Fatal(faults[p])
Runs(c) == Alive(ProcessOf[c]) /\ delegate[c] \notin {"absent", "destroyed"}

SendBy(c, s) ==
    LET r == IF Fatal(s.faults[ProcessOf[c]]) THEN [Client EXCEPT !.faults = s.faults]
             ELSE s
    IN  /\ delegate' = r.delegate
        /\ offerCache' = r.offer
        /\ answerCache' = r.answer
        /\ wantCache' = r.want
        /\ candidates' = r.candidates
        /\ sent' = r.sent
        /\ faults' = [p \in Processes |-> faults[p] \cup r.faults[p]]

\* The p2p layer sends something on its own account.
Send(c, m) ==
    /\ Runs(c)
    /\ CASE m = "offer" -> SendBy(c, SendOffer(Client, c))
         [] m = "answer" -> SendBy(c, SendAnswer(Client, c))
         [] m = "want_to_negotiate" -> SendBy(c, SendWantToNegotiate(Client, c))
         [] m = "ice_candidate" -> /\ candidates[c] < MaxCandidates
                                   /\ SendBy(c, SendIceCandidate(Client, c))
    /\ UNCHANGED <<connects, registered, stopped, timer>>

-----------------------------------------------------------------------------
(* Connecting                                                              *)

\* The client is made and told to connect (participant_creator::create).
Connect(c) ==
    /\ Alive(ProcessOf[c])
    /\ delegate[c] = "absent"
    /\ connects[c] < MaxConnects
    /\ delegate' = [delegate EXCEPT ![c] = "connecting"]
    /\ connects' = [connects EXCEPT ![c] = @ + 1]
    /\ sent' = Silent
    /\ UNCHANGED <<registered, stopped, caches, timer, faults>>

\* client_impl::connected and reconnecting_client::got_registered.  The
\* listener of on_registered, emitted once in the life of a client, may send
\* a wish before the cache goes out.
Connected(c, wish) ==
    LET opened == Transmit([Client EXCEPT !.delegate[c] = "open"], c, "registration")
        told   == IF wish /\ c \notin registered THEN SendWantToNegotiate(opened, c)
                  ELSE opened
    IN  /\ Runs(c)
        /\ delegate[c] = "connecting"
        /\ SendBy(c, SendCache(told, c))
        /\ registered' = registered \cup {c}
        /\ UNCHANGED <<connects, stopped, timer>>

\* client_impl::connected with an error: on_error is emitted and nothing else.
ConnectFailed(c) ==
    /\ Runs(c)
    /\ delegate[c] = "connecting"
    /\ delegate' = [delegate EXCEPT ![c] = "failed"]
    /\ sent' = Silent
    /\ UNCHANGED <<connects, registered, stopped, caches, timer, faults>>

\* Mutant: a client that is lost connects at once, asked to close or not.
ClosedReconnect(c) ==
    /\ Runs(c)
    /\ delegate[c] = "open"
    /\ connects[c] < MaxConnects
    /\ delegate' = [delegate EXCEPT ![c] = "connecting"]
    /\ connects' = [connects EXCEPT ![c] = @ + 1]
    /\ sent' = Silent
    /\ UNCHANGED <<registered, stopped, caches, timer, faults>>

\* Mutant: the callback is stored, but the wait is not started.
ClosedNoWait(c) ==
    /\ Runs(c)
    /\ delegate[c] = "open" /\ c \notin stopped
    /\ delegate' = [delegate EXCEPT ![c] = "none"]
    /\ callback' = [callback EXCEPT ![ProcessOf[c]] = c]
    /\ sent' = Silent
    /\ UNCHANGED <<connects, registered, stopped, caches, waiting, expired, faults>>

\* client_impl::run_done, got_closed and reconnect_after_timeout; the start of
\* a timer that still has a callback replaces the callback and the wait.
Closed(c) ==
    LET p == ProcessOf[c]
        lost == Fault([Client EXCEPT !.delegate[c] = "none"], c,
                      callback[p] = None, "start:12")
    IN  /\ Runs(c)
        /\ delegate[c] = "open"
        /\ UNCHANGED <<connects, registered, stopped>>
        /\ IF c \in stopped
           THEN /\ delegate' = [delegate EXCEPT ![c] = "ended"]
                /\ sent' = Silent
                /\ UNCHANGED <<caches, timer, faults>>
           ELSE /\ SendBy(c, lost)
                /\ IF Fatal(lost.faults[p]) THEN UNCHANGED timer
                   ELSE /\ callback' = [callback EXCEPT ![p] = c]
                        /\ waiting' = [waiting EXCEPT ![p] = TRUE]
                        /\ UNCHANGED expired

-----------------------------------------------------------------------------
(* The shared timer                                                        *)

\* The deadline passes: the handler of the wait is queued with success, and no
\* cancel reaches it any more.
Expire(p) ==
    /\ Alive(p)
    /\ waiting[p] /\ ~expired[p]
    /\ waiting' = [waiting EXCEPT ![p] = FALSE]
    /\ expired' = [expired EXCEPT ![p] = TRUE]
    /\ sent' = Silent
    /\ UNCHANGED <<delegate, connects, registered, stopped, caches, callback, faults>>

\* one_shot_timer::on_timeout and reconnecting_client::reconnect.
OnTimeout(p) ==
    LET c == callback[p] IN
    /\ Alive(p)
    /\ expired[p]
    /\ c # None
    /\ delegate[c] # "destroyed"
    /\ c \in stopped \/ connects[c] < MaxConnects
    /\ IF c \in stopped THEN UNCHANGED <<delegate, connects>>
       ELSE /\ delegate' = [delegate EXCEPT ![c] = "connecting"]
            /\ connects' = [connects EXCEPT ![c] = @ + 1]
    /\ callback' = [callback EXCEPT ![p] = None]
    /\ expired' = [expired EXCEPT ![p] = FALSE]
    /\ sent' = Silent
    /\ UNCHANGED <<registered, stopped, caches, waiting, faults>>

\* on_timeout finds no callback, or the one of a client that was destroyed.
OnTimeoutFails(p) ==
    /\ Alive(p)
    /\ expired[p]
    /\ IF callback[p] = None THEN TRUE ELSE delegate[callback[p]] = "destroyed"
    /\ faults' = [faults EXCEPT ![p] = @ \cup
                    {IF callback[p] = None THEN "empty callback" ELSE "dangling callback"}]
    /\ sent' = Silent
    /\ UNCHANGED <<delegate, connects, registered, stopped, caches, timer>>

-----------------------------------------------------------------------------
(* Leaving                                                                 *)

\* reconnecting_client::close; without a delegate it only asserts and returns.
Close(c) ==
    LET closing == Fault(Fault(Client, c, delegate[c] # "none", "close:173"),
                         c, delegate[c] = "none" \/ c \notin stopped, "close:176")
    IN  /\ Runs(c)
        /\ SendBy(c, closing)
        /\ stopped' = IF delegate[c] = "none" THEN stopped ELSE stopped \cup {c}
        /\ UNCHANGED <<connects, registered, timer>>

\* ~reconnecting_client: stops the timer, whoever it is waiting for, and leaves
\* the timer's callback as it is.
Destroy(c) ==
    LET p == ProcessOf[c] IN
    /\ Runs(c)
    /\ delegate' = [delegate EXCEPT ![c] = "destroyed"]
    /\ waiting' = [waiting EXCEPT ![p] = FALSE]
    /\ offerCache' = offerCache \ {c}
    /\ answerCache' = answerCache \ {c}
    /\ wantCache' = wantCache \ {c}
    /\ candidates' = [candidates EXCEPT ![c] = 0]
    /\ sent' = Silent
    /\ UNCHANGED <<connects, registered, stopped, callback, expired, faults>>

-----------------------------------------------------------------------------
ClientInit ==
    /\ delegate = [c \in Clients |-> "absent"]
    /\ connects = [c \in Clients |-> 0]
    /\ registered = {} /\ stopped = {}
    /\ offerCache = {} /\ answerCache = {} /\ wantCache = {}
    /\ candidates = [c \in Clients |-> 0]
    /\ callback = [p \in Processes |-> None]
    /\ waiting = [p \in Processes |-> FALSE]
    /\ expired = [p \in Processes |-> FALSE]
    /\ sent = Silent
    /\ faults = NoFault

ClientNext ==
    \/ \E c \in Clients :
        \/ Connect(c)
        \/ \E wish \in BOOLEAN : Connected(c, wish)
        \/ ConnectFailed(c)
        \/ Closed(c)
        \/ Close(c)
        \/ Destroy(c)
        \/ \E m \in Sendable \ {"registration"} : Send(c, m)
    \/ \E p \in Processes : Expire(p) \/ OnTimeout(p) \/ OnTimeoutFails(p)

ClientSpec == ClientInit /\ [][ClientNext]_clientVars

\* A connector answers, one way or the other, and asio runs what is due.
ClientFairness ==
    /\ \A c \in Clients :
        WF_clientVars((\E wish \in BOOLEAN : Connected(c, wish)) \/ ConnectFailed(c))
    /\ \A p \in Processes :
        WF_clientVars(Expire(p)) /\ WF_clientVars(OnTimeout(p) \/ OnTimeoutFails(p))

ClientFairSpec == ClientSpec /\ ClientFairness

-----------------------------------------------------------------------------
(* Properties                                                              *)

\* Every variable holds values of its type; bounds included.
ClientTypeOK ==
    /\ delegate \in [Clients -> Delegates]
    /\ connects \in [Clients -> 0..MaxConnects]
    /\ registered \subseteq Clients /\ stopped \subseteq Clients
    /\ offerCache \subseteq Clients /\ answerCache \subseteq Clients
    /\ wantCache \subseteq Clients
    /\ candidates \in [Clients -> 0..MaxCandidates]
    /\ callback \in [Processes -> Clients \cup {None}]
    /\ waiting \in [Processes -> BOOLEAN] /\ expired \in [Processes -> BOOLEAN]
    /\ sent \in [Clients -> Seq(Sendable)]
    /\ faults \in [Processes -> SUBSET Faults]

Caches(c) == c \in offerCache \cup answerCache \cup wantCache \/ candidates[c] > 0

\* What was cached while the server was away is gone from the cache once there
\* is a connection again: a later message never overtakes a cached one.
NothingCachedOnline ==
    \A c \in Clients : delegate[c] \in {"open", "ended"} => ~Caches(c)

\* After close() no connection is made any more, whatever the timer, a pending
\* connector or the loss of the connection still bring.
StoppedStaysStopped ==
    [][\A c \in stopped : connects'[c] = connects[c]]_clientVars

\* A message leaves the cache only onto the new connection, behind the
\* registration that makes the server know the sender, and in the order
\* candidates, offer, answer, wish; or with the client itself.
CachedGoesOut ==
    [][\A c \in Clients :
        LET n == candidates[c] IN
        Caches(c) /\ ~Caches(c)' /\ delegate'[c] # "destroyed" =>
            /\ sent'[c][1] = "registration"
            /\ \A m \in {<<"offer", offerCache>>, <<"answer", answerCache>>} :
                 c \in m[2] => \E i \in DOMAIN sent'[c] : sent'[c][i] = m[1]
            /\ c \in wantCache => sent'[c][Len(sent'[c])] = "want_to_negotiate"
            /\ \E j \in 1..Len(sent'[c]) - n :
                 \A i \in 1..n : sent'[c][j + i] = "ice_candidate"]_clientVars

\* A process with one participant has one client: no other one ever used the
\* timer that they share.
Alone(c) == \A d \in Clients \ {c} :
                ProcessOf[d] = ProcessOf[c] => delegate[d] = "absent"

\* The only client of a process that waits to reconnect is the one the timer
\* will call, and the timer is running or about to: a lost connection is never
\* forgotten.
RetryIsArmed ==
    \A c \in Clients : delegate[c] = "none" /\ Alone(c) /\ Alive(ProcessOf[c]) =>
        /\ callback[ProcessOf[c]] = c
        /\ waiting[ProcessOf[c]] \/ expired[ProcessOf[c]]

\* The state of every client is sound: types, no cache beside a connection, and
\* a retry that is armed.
ClientIsSound == ClientTypeOK /\ NothingCachedOnline /\ RetryIsArmed

\* Said of the timer by its assertion (timer.cpp:12): it is started only when
\* no callback is left in it.
TimerStartsIdle == \A p \in Processes : "start:12" \notin faults[p]

=============================================================================
