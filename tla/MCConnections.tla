---------------------------- MODULE MCConnections ----------------------------
(* Operations that end in another thread of events: a websocket, requests   *)
(* over http, the hardware encoder, the peer connection and the process of  *)
(* the temporary_room server; and the programs that make and destroy the    *)
(* parts of a client.  Each is checked alone.                               *)
EXTENDS Websocket, Http, HardwareEncoder, RtcConnection, Lifetimes, RoomServer

VARIABLE part

MCInit ==
    /\ WebsocketInit /\ HttpInit /\ HardwareInit /\ RtcInit /\ LifetimesInit
    /\ RoomServerInit
    /\ part \in {"websocket", "http", "encoder", "rtc", "programs", "server"}
    /\ part # "rtc" => backend = "google"
    /\ part # "programs" => program = [main |-> "gui", video |-> TRUE]
    /\ part # "server" => ~loginGiven

MCNext ==
    \/ part = "websocket" /\ WebsocketNext /\ UNCHANGED <<part, httpVars, hardwareVars, rtcVars, lifeVars, roomServerVars>>
    \/ part = "http" /\ HttpNext /\ UNCHANGED <<part, websocketVars, hardwareVars, rtcVars, lifeVars, roomServerVars>>
    \/ part = "encoder" /\ HardwareNext /\ UNCHANGED <<part, websocketVars, httpVars, rtcVars, lifeVars, roomServerVars>>
    \/ part = "rtc" /\ RtcNext /\ UNCHANGED <<part, websocketVars, httpVars, hardwareVars, lifeVars, roomServerVars>>
    \/ /\ part = "programs" /\ LifetimesNext
       /\ UNCHANGED <<part, websocketVars, httpVars, hardwareVars, rtcVars, roomServerVars>>
    \/ /\ part = "server" /\ RoomServerNext
       /\ UNCHANGED <<part, websocketVars, httpVars, hardwareVars, rtcVars, lifeVars>>

MCSpec ==
    /\ MCInit /\ [][MCNext]_<<part, websocketVars, httpVars, hardwareVars, rtcVars, lifeVars,
                       roomServerVars>>
    /\ WebsocketFairness /\ HttpFairness /\ HardwareFairness
    /\ RoomServerFairness

\* Promises of the websocket are answered once and its messages come in order;
\* the http client keeps the actions whose answer is outstanding, and no others;
\* a reader that runs has its buffers, and one that is gone no thread; and the
\* server of temporary rooms runs until it is told to close.
OperationsAreSound ==
    /\ PromisesAreKept /\ ReadsAreTheSent /\ ListedAreOpen
    /\ ReadersAreSound /\ RoomServerIsSound

\* What was asked of a websocket or of a server ends with an answer or an
\* error.
OperationsEnd == SendsAreAnswered /\ RequestsAreAnsweredOrStuck

\* What is let go ends: an abandoned request, an encoder that is released, and a
\* server that is told to close.
DeparturesEnd == AbandonedEnd /\ ReleasesEnd /\ ServerCloses

=============================================================================
