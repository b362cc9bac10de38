------------------------------- MODULE RoomServer -------------------------------
(***************************************************************************)
(* The process of the temporary_room server: it logs in or registers,      *)
(* syncs once, and then accepts requests and syncs till it is told to      *)
(* close.  TemporaryRooms has its rooms and Http its sessions; this module *)
(* has what comes before, beside and after them.                           *)
(*                                                                         *)
(* The homeserver and the connections to it are external: a request is     *)
(* answered, refused, lost, or nothing follows (action::do_ returns from a *)
(* failed connector whose error it ignores).                               *)
(***************************************************************************)
EXTENDS Naturals

CONSTANT MaxSessions    \* connections of users at a time

ASSUME RoomServerAssumption == MaxSessions \in Nat \ {0}

VARIABLES
    progress,   \* of main: "login", "register" or "sync" while the constructor of
                \* the application runs the context, "running", and the ends
                \* "returned", "threw", "hangs" (in get) and "spins" (in run_one)
    loginGiven, \* options: whether there is an account of earlier runs
    roomsLeft,  \* whether that account is in rooms of earlier runs
    learned,    \* whether rooms has them, or what was made in their place
    firstSync,  \* "none", "ok", "failed", or "broken" by a handler of its rooms
                \* after the next batch was taken
    naming,     \* whether the request for the display name is under way
    acceptor,   \* "none", "accepting", "stopped" before its handler, "over"
    runResult,  \* future of acceptor.run: "none", "open", "value", "error"
    syncing,    \* the own action of the client: "none", "waiting", "stuck"
    syncActive, \* sync_till_stop_active
    syncResult, \* future of sync_till_stop: as runResult
    sessions,   \* connections of users that read or write
    signalled,  \* whether a signal came
    twice       \* history: whether a room of an earlier run was made again

bootVars == <<loginGiven, roomsLeft, naming, firstSync>>
runVars == <<acceptor, runResult, sessions, signalled>>
syncVars == <<syncing, syncActive, syncResult>>
roomServerVars == <<progress, bootVars, learned, runVars, syncVars, twice>>

RoomServerInit ==
    /\ loginGiven \in BOOLEAN /\ roomsLeft \in {FALSE, loginGiven}
    /\ progress = IF loginGiven THEN "login" ELSE "register"
    /\ learned = FALSE /\ firstSync = "none" /\ naming = FALSE
    /\ acceptor = "none" /\ runResult = "none" /\ sessions = 0 /\ signalled = FALSE
    /\ syncing = "none" /\ syncActive = FALSE /\ syncResult = "none"
    /\ twice = FALSE

-----------------------------------------------------------------------------
(* The constructor                                                         *)

\* What becomes of the future of an account: a client is made of the response,
\* the response is an error, there is none, or the future stays open and the
\* loop around run_one spins.
AccountEnds == {"client", "refused", "lost", "never"}

\* setup_matrix_client with an account: what a refusal throws is a
\* boost::exception and leads to register_; whether a lost connection throws one
\* is up to the build.
LoginLeadsTo ==
    [client |-> {"sync"}, refused |-> {"register"}, lost |-> {"register", "threw"},
     never |-> {"spins"}]

RegisterLeadsTo ==
    [client |-> {"sync"}, refused |-> {"threw"}, lost |-> {"threw"}, never |-> {"spins"}]

\* authentification::login
Login ==
    /\ progress = "login"
    /\ \E end \in AccountEnds : progress' \in LoginLeadsTo[end]
    /\ UNCHANGED <<bootVars, learned, runVars, syncVars, twice>>

\* register_anonymously, or register_ of a name whose login failed: the
\* homeserver refuses one that it has.  Nobody waits for set_display_name.
Register ==
    /\ progress = "register"
    /\ \E end \in AccountEnds :
        /\ end = "client" => ~roomsLeft
        /\ progress' \in RegisterLeadsTo[end]
        /\ naming' = (end = "client")
    /\ UNCHANGED <<loginGiven, roomsLeft, firstSync, learned, runVars, syncVars, twice>>

\* set_display_name ends, in whatever way.
Named ==
    /\ naming /\ progress \in {"sync", "running"}
    /\ naming' = FALSE
    /\ UNCHANGED <<progress, loginGiven, roomsLeft, firstSync, learned, runVars, syncVars, twice>>

\* sync_till_stop, as application::run starts it
SyncTillStop ==
    /\ syncActive' = TRUE /\ syncResult' = "open" /\ syncing' = "waiting"

\* acceptor::run: listen throws when the port is taken.
Run ==
    /\ acceptor' = "accepting" /\ runResult' = "open"
    /\ SyncTillStop

\* sync once: the future is waited for and never asked for its result.  main
\* then runs the application.
SyncedOnce ==
    /\ progress = "sync"
    /\ progress' \in {"running", "threw", "spins"}
    /\ firstSync' \in IF progress' = "spins" THEN {firstSync} ELSE {"ok", "failed", "broken"}
    /\ learned' \in IF firstSync' = "broken" THEN BOOLEAN ELSE {firstSync' = "ok"}
    /\ IF progress' = "running" THEN Run ELSE UNCHANGED <<acceptor, runResult, syncVars>>
    /\ UNCHANGED <<loginGiven, roomsLeft, naming, sessions, signalled, twice>>

-----------------------------------------------------------------------------
(* acceptor                                                                *)

\* accept_next on an acceptor that was closed meanwhile ends with an error that
\* is not operation_aborted.
NextAccept(a) ==
    IF a = "accepting" THEN UNCHANGED <<acceptor, runResult>>
    ELSE acceptor' = "over" /\ runResult' = "error"

\* do_session and accept_next, also of a connection that was accepted before
\* stop was called.
Accepts ==
    /\ progress = "running" /\ acceptor \in {"accepting", "stopped"}
    /\ sessions < MaxSessions
    /\ sessions' = sessions + 1
    /\ NextAccept(acceptor)
    /\ UNCHANGED <<progress, bootVars, learned, signalled, syncVars, twice>>

\* The handler with an error: operation_aborted if stop was called.
AcceptEnds ==
    /\ progress = "running" /\ acceptor \in {"accepting", "stopped"}
    /\ acceptor' = "over"
    /\ runResult' = IF acceptor = "stopped" THEN "value" ELSE "error"
    /\ UNCHANGED <<progress, bootVars, learned, sessions, signalled, syncVars, twice>>

\* A user asks for a room of an earlier run: rooms makes a second one unless it
\* has learned of the first.
JoinsOldRoom ==
    /\ progress = "running" /\ sessions > 0 /\ roomsLeft
    /\ twice' = (twice \/ ~learned)
    /\ learned' = TRUE
    /\ UNCHANGED <<progress, bootVars, runVars, syncVars>>

SessionCloses ==
    /\ progress = "running" /\ sessions > 0
    /\ sessions' = sessions - 1
    /\ UNCHANGED <<progress, bootVars, learned, acceptor, runResult, signalled, syncVars, twice>>

-----------------------------------------------------------------------------
(* sync                                                                    *)

\* on_sync_till_stop.  After a first sync without an answer there is no next
\* batch, and this one brings the rooms; after one whose handlers threw, nothing
\* brings them again.
OnSyncTillStop ==
    /\ progress = "running" /\ syncing = "waiting"
    /\ \/ /\ ~syncActive
          /\ syncing' = "none" /\ syncResult' = "value"
          /\ UNCHANGED <<syncActive, learned>>
       \/ /\ syncActive
          /\ learned' = (learned \/ firstSync # "broken")
          /\ UNCHANGED syncVars
       \/ /\ syncActive
          /\ syncing' = "none" /\ syncActive' = FALSE /\ syncResult' = "error"
          /\ UNCHANGED learned
    /\ UNCHANGED <<progress, bootVars, runVars, twice>>

\* The connector of the next sync ends with an error that is ignored.
SyncStuck ==
    /\ progress = "running" /\ syncing = "waiting"
    /\ syncing' = "stuck"
    /\ UNCHANGED <<progress, bootVars, learned, runVars, syncActive, syncResult, twice>>

-----------------------------------------------------------------------------
(* close and the end                                                       *)

StopAcceptor == acceptor' = IF acceptor = "accepting" THEN "stopped" ELSE acceptor

\* matrix::client::stop_sync: the action is cancelled, its handler runs later.
StopSyncing == syncActive' = FALSE

\* application::close
CloseServer == StopAcceptor /\ StopSyncing

\* The one wait for a signal of main
Signalled ==
    /\ progress = "running" /\ ~signalled
    /\ signalled' = TRUE
    /\ CloseServer
    /\ UNCHANGED <<progress, bootVars, learned, runResult, sessions, syncing, syncResult, twice>>

\* What keeps context.run from returning.
Work ==
    \/ ~signalled \/ acceptor \in {"accepting", "stopped"}
    \/ syncing = "waiting" \/ sessions > 0 \/ naming

\* context.run returns, and the result of the application is waited for: that of
\* when_all, whose get does not look at the two it brings.
RunReturns ==
    /\ progress = "running" /\ ~Work
    /\ progress' = IF "open" \in {runResult, syncResult} THEN "hangs" ELSE "returned"
    /\ UNCHANGED <<bootVars, learned, runVars, syncVars, twice>>

Ended == progress \in {"returned", "threw", "hangs", "spins"}

RoomServerNext ==
    \/ Login \/ Register \/ Named \/ SyncedOnce
    \/ Accepts \/ AcceptEnds \/ JoinsOldRoom \/ SessionCloses
    \/ OnSyncTillStop \/ SyncStuck
    \/ Signalled \/ RunReturns
    \/ Ended /\ UNCHANGED roomServerVars

\* What was stopped ends: an accept is aborted, a sync is cancelled or has its
\* timeout; and users close the connection of a request that was answered, as
\* action::on_response_read does.
RoomServerFairness ==
    /\ WF_roomServerVars(Named) /\ WF_roomServerVars(RunReturns)
    /\ WF_roomServerVars(acceptor = "stopped" /\ AcceptEnds)
    /\ WF_roomServerVars(~syncActive /\ OnSyncTillStop)
    /\ WF_roomServerVars(signalled /\ SessionCloses)

-----------------------------------------------------------------------------
(* Properties                                                              *)

\* Each of the two futures of run is answered when its operation is over, and
\* only then: main waits for both (application.cpp:78, acceptor.cpp:143,
\* matrix/client.cpp:115).
RunResultsAreTrue ==
    /\ runResult = "open" <=> acceptor \in {"accepting", "stopped"}
    /\ syncResult = "open" <=> syncing # "none"

\* The server accepts until it is told to close, or an accept failed.
AcceptsTillTold ==
    progress = "running" /\ ~signalled => acceptor = "accepting" \/ runResult = "error"

\* No room of an earlier run is made a second time, unless the first sync failed
\* unnoticed (application.cpp:39): requests are accepted after it.
OldRoomsAreKept == twice => firstSync # "ok"

\* main leaves only when nothing of the server is under way, and waits for good
\* only for a sync after whose error nothing followed (server.cpp:90).
LeavesNothingBehind ==
    /\ progress = "returned" =>
        signalled /\ ~syncActive /\ sessions = 0 /\ acceptor = "over" /\ syncing = "none"
    /\ progress = "hangs" => signalled /\ syncing = "stuck"

\* The process does what it says, from its first request to its end.
RoomServerIsSound ==
    RunResultsAreTrue /\ AcceptsTillTold /\ OldRoomsAreKept /\ LeavesNothingBehind

\* A server that is told to close ends.
ServerCloses == signalled ~> Ended

=============================================================================
