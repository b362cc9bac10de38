---------------------------------- MODULE Http ----------------------------------
(***************************************************************************)
(* http: each request is an action with a connection and a connector of    *)
(* its own; http::client keeps the actions it started until they are       *)
(* answered.  The other side of the requests to join a temporary room is   *)
(* the server of temporary_room/net, with a session per connection; the    *)
(* sync of matrix is answered by the homeserver, whenever it likes.        *)
(*                                                                         *)
(* Sockets and beast are external: an operation under way ends, with one   *)
(* of the errors the code tells apart or with none.  No handler has a      *)
(* timeout.                                                                *)
(***************************************************************************)
EXTENDS Naturals, FiniteSets

CONSTANTS
    Requests,
    Syncs       \* requests of the sync: not kept by http::client, may be cancelled

ASSUME HttpAssumption == Syncs \subseteq Requests

VARIABLES
    phase,      \* the operation of each action: "none" before do_, "stuck" when
                \* an error was ignored and nothing follows, "done"
    result,     \* the future of each request: "none", "open", "value", "error"
    listed,     \* http::client's actions
    socket,     \* of each action's connection: "none", "open", "closed"
    session,    \* of the server for that connection
    wire,       \* of that connection: "empty", "request", "response", or "cut"
                \* after a write that ended with an ignored error
    cancelled,  \* history: syncs that were cancelled once they had a socket
    stray       \* answers to a promise that had its answer

httpVars == <<phase, result, listed, socket, session, wire, cancelled, stray>>
serverVars == <<session, wire>>

HttpInit ==
    /\ phase = [r \in Requests |-> "none"] /\ result = [r \in Requests |-> "none"]
    /\ listed = {} /\ socket = [r \in Requests |-> "none"]
    /\ session = [r \in Requests |-> "none"] /\ wire = [r \in Requests |-> "empty"]
    /\ cancelled = {}
    /\ stray = {}

Errors == {"eof", "truncated", "other"}
\* check_and_handle_error of the action ignores these.
Ignored == {"eof", "truncated"}
Connecting == {"resolve", "connect", "secure"}

-----------------------------------------------------------------------------
(* action and client                                                       *)

\* http::client::do_action, or matrix::client::do_sync with an own action.
Do(r) ==
    /\ phase[r] = "none"
    /\ phase' = [phase EXCEPT ![r] = "resolve"]
    /\ result' = [result EXCEPT ![r] = "open"]
    /\ listed' = listed \cup ({r} \ Syncs)
    /\ UNCHANGED <<socket, serverVars, cancelled, stray>>

\* The continuation of do_action.
RemoveAction(r) == listed \ {r}

\* The promise is answered; its continuation destroys the action, and that the
\* connection.
Answer(r, how) ==
    /\ result' = [result EXCEPT ![r] = how]
    /\ stray' = stray \cup IF result[r] = "open" THEN {} ELSE {r}
    /\ listed' = RemoveAction(r)
    /\ phase' = [phase EXCEPT ![r] = "done"]
    /\ socket' = [socket EXCEPT ![r] = IF @ = "none" THEN @ ELSE "closed"]

\* Mutant: nobody is told.
FailsQuietly(r) ==
    /\ phase' = [phase EXCEPT ![r] = "done"]
    /\ socket' = [socket EXCEPT ![r] = IF @ = "none" THEN @ ELSE "closed"]
    /\ UNCHANGED <<result, listed, stray>>

\* check_and_handle_error with an error that counts.
Fails(r) == Answer(r, "error")

Continue(r, to) ==
    /\ phase' = [phase EXCEPT ![r] = to]
    /\ UNCHANGED <<result, listed, socket, stray>>

\* What an operation may end with: a socket that was closed aborts it, an answer
\* cannot be read before it is there.
Outcomes(r) ==
    IF socket[r] = "closed" THEN {"other"} ELSE Errors \cup {"none"}

\* The handlers of the connector.  tcp connects before it is secured, if it is.
ConnectorStep(r) ==
    /\ phase[r] \in Connecting
    /\ \E e \in Outcomes(r) :
        \/ e = "none" /\ phase[r] = "resolve"
           /\ socket' = [socket EXCEPT ![r] = "open"]
           /\ phase' = [phase EXCEPT ![r] = "connect"]
           /\ UNCHANGED <<result, listed, stray>>
        \/ e = "none" /\ phase[r] = "connect" /\ Continue(r, "secure")
        \/ e = "none" /\ phase[r] # "resolve" /\ Continue(r, "write")
        \/ e \in Ignored /\ Continue(r, "stuck")
        \/ e = "other" /\ Fails(r)
    /\ UNCHANGED <<serverVars, cancelled>>

\* on_request_send
OnRequestSend(r) ==
    /\ phase[r] = "write"
    /\ \E e \in Outcomes(r) :
        \/ e \in Ignored \cup {"none"} /\ Continue(r, "read")
           /\ wire' = [wire EXCEPT ![r] = IF e = "none" THEN "request" ELSE "cut"]
        \/ e = "other" /\ Fails(r) /\ UNCHANGED wire
    /\ UNCHANGED <<session, cancelled>>

\* on_response_read: whatever was read is parsed, unless an error counts.
OnResponseRead(r) ==
    /\ phase[r] = "read"
    /\ \E e \in Outcomes(r) :
        \/ /\ e \in Ignored \cup {"none"}
           /\ e = "none" => wire[r] = "response"
           /\ \E how \in {"value", "error"} :
                (how = "value" => wire[r] = "response") /\ Answer(r, how)
        \/ e = "other" /\ Fails(r)
    /\ UNCHANGED <<serverVars, cancelled>>

\* Mutant: only a sync that waits for its answer is cancelled.
CanCloseWaiting(r) == socket[r] = "open" /\ phase[r] = "read"

\* matrix::client::stop_sync cancels its action: connection::cancel closes the
\* socket.  There is none while the name is resolved, and then nothing happens.
CanClose(r) == socket[r] = "open"

Cancel(r) ==
    /\ r \in Syncs /\ result[r] = "open"
    /\ socket' = [socket EXCEPT ![r] = IF CanClose(r) THEN "closed" ELSE @]
    /\ cancelled' = cancelled \cup {x \in {r} : socket[r] # "none"}
    /\ UNCHANGED <<phase, result, listed, serverVars, stray>>

\* ~action, with the owner of the sync: handlers that come later find it gone.
Abandon(r) ==
    /\ r \in Syncs /\ result[r] = "open"
    /\ Answer(r, "error")
    /\ UNCHANGED <<serverVars, cancelled>>

-----------------------------------------------------------------------------
(* The server: temporary_room::net::server                                 *)

\* The homeserver answers a sync when there is something to say, or never.
HomeserverAnswers(r) ==
    /\ r \in Syncs /\ socket[r] = "open" /\ wire[r] = "request"
    /\ wire' = [wire EXCEPT ![r] = "response"]
    /\ UNCHANGED <<phase, result, listed, socket, session, cancelled, stray>>

Served(r, s, w) ==
    /\ session' = [session EXCEPT ![r] = s]
    /\ wire' = [wire EXCEPT ![r] = w]
    /\ UNCHANGED <<phase, result, listed, socket, cancelled, stray>>

\* acceptor::accept_next and do_session
Accept(r) ==
    /\ r \notin Syncs /\ session[r] = "none"
    /\ socket[r] # "none" /\ phase[r] \notin Connecting
    /\ Served(r, "reading", wire[r])

OnGotRequest(r) ==
    /\ session[r] = "reading" /\ wire[r] = "request"
    /\ Served(r, "handling", "empty")

\* on_got_response, or send_error for a request that is not understood or
\* fails: there is a response in any case.
Respond(r) ==
    /\ session[r] = "handling"
    /\ Served(r, "writing", wire[r])

\* The handler of send_response reads the next request of the connection.
Responded(r) ==
    /\ session[r] = "writing" /\ socket[r] = "open"
    /\ Served(r, "reading", "response")

\* check_error answers the promise of the session, which owns the connection.
SessionOver(s) == s \in {"reading", "writing"}

SessionEnds(r) ==
    /\ SessionOver(session[r]) /\ wire[r] # "request" /\ socket[r] = "closed"
    /\ Served(r, "ended", "empty")

-----------------------------------------------------------------------------
Handlers(r) == ConnectorStep(r) \/ OnRequestSend(r) \/ OnResponseRead(r)
Server(r) == Accept(r) \/ OnGotRequest(r) \/ Respond(r) \/ Responded(r) \/ SessionEnds(r)

HttpNext ==
    \E r \in Requests :
        Do(r) \/ Handlers(r) \/ Cancel(r) \/ Abandon(r) \/ HomeserverAnswers(r) \/ Server(r)

\* A read goes on until there is something to read.
Due(r) == phase[r] = "read" => wire[r] \in {"response", "cut"} \/ socket[r] = "closed"

\* Operations that are under way end, a read once what it waits for is there,
\* and the server's handlers run.  That the homeserver answers is not assumed.
HttpFairness ==
    \A r \in Requests : WF_httpVars(Handlers(r) /\ Due(r)) /\ WF_httpVars(Server(r))

HttpSpec == HttpInit /\ [][HttpNext]_httpVars /\ HttpFairness

-----------------------------------------------------------------------------
\* The client keeps exactly the actions whose answer is outstanding, however
\* they end, and no promise is answered twice (client.cpp:50-70, action.cpp:144,
\* 187).
ListedAreOpen ==
    /\ listed = {r \in Requests \ Syncs : result[r] = "open"}
    /\ stray = {}

\* Every request is answered, except when connecting failed with an error that
\* is ignored: do_ returns and nothing follows (action.cpp:76-79, 172-184).
RequestsAreAnsweredOrStuck ==
    \A r \in Requests \ Syncs :
        result[r] = "open" ~> result[r] # "open" \/ phase[r] = "stuck"

\* A sync that is cancelled ends, whatever the homeserver does, once it has got
\* as far as connecting (matrix/client.cpp:144-155, action.cpp:85-89).
CancelledSyncsEnd ==
    \A r \in Syncs : r \in cancelled ~> result[r] # "open" \/ phase[r] = "stuck"

\* A session of the server ends after its client is done with the connection
\* (temporary_room/net/acceptor.cpp:15-25).
SessionsEnd ==
    \A r \in Requests : phase[r] = "done" ~> session[r] \in {"none", "ended"}

\* What nobody wants any more ends, on both sides.
AbandonedEnd == CancelledSyncsEnd /\ SessionsEnd

=============================================================================
