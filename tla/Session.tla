------------------------------- MODULE Session -------------------------------
(***************************************************************************)
(* A user's session: joiner registers an account, joins the room it is     *)
(* given and makes it the program's room; retrying_client_synchronizer     *)
(* keeps the account's matrix client syncing, whose answers bring and take *)
(* participants; leaver closes the participants and leaves the room.       *)
(*                                                                         *)
(* All of it runs on one thread, but every request to the homeserver is    *)
(* answered or fails in a later turn, and the sync goes on meanwhile.      *)
(* Modelled is a Debug build: a failed assertion ends the process, as does *)
(* the use of a room that is gone.                                         *)
(*                                                                         *)
(* A sync answer brings one event at most: one with several is the same as *)
(* answers in a row with nothing between them.  The own participant and    *)
(* the bot are closed at once and never leave; participants are the others. *)
(***************************************************************************)
EXTENDS Naturals, Sequences

CONSTANTS
    Clients,    \* bound: matrix clients, one account for every attempt to join
    Members,    \* other users of the room
    None,       \* null
    MaxErrors   \* bound: requests that fail

ASSUME SessionAssumption == None \notin Clients /\ MaxErrors \in Nat

VARIABLES
    step,       \* the request the attempt to join waits for
    joining,    \* join::client_ of the attempt
    session,    \* the client of the room in client::rooms
    dropped,    \* the client of the last one, which was left
    leaving,    \* what leave() waits for
    synced,     \* retrying_client_synchronizer::client_
    timer,      \* its reconnect_timer is running
    accounts,   \* clients that were made
    active,     \* clients with sync_till_stop_active
    action,     \* the state of a client's http_sync_action
    known,      \* clients whose matrix::rooms has the room
    people,     \* participants::participants_
    state,      \* join state of the room_participants of its matrix room
    closing,    \* participants whose close() has not finished, while leaving
    failed,     \* assertions that did not hold
    errors,     \* requests that failed so far
    inside,     \* homeserver: accounts of ours that are in the room
    told,       \* homeserver: those whose sync was told so
    members,    \* homeserver: membership of the other users
    news        \* homeserver: changes of it the session has not synced

attempt == <<step, joining>>
room == <<session, dropped, leaving, people, state, closing>>
sync == <<synced, timer, accounts, active, action, known>>
homeserver == <<inside, told, members, news>>
sessionVars == <<attempt, room, sync, failed, errors, homeserver>>

Steps == {"idle", "version", "register", "name", "temporary", "join", "joined"}
Actions == {"none", "connecting", "polling", "cancelled", "done"}
Memberships == {"none", "invite", "join", "leave"}

Running == failed = {}

Fail(what) == failed' = failed \cup {what}

-----------------------------------------------------------------------------
(* matrix::client and client_synchronizer                                  *)

\* client::sync_till_stop and do_sync
StartSync(c) ==
    /\ active' = active \cup {c}
    /\ action' = [action EXCEPT ![c] = "connecting"]

\* The name is resolved and the connection made: from here on the request can
\* be cancelled.
Connect(c) ==
    /\ Running
    /\ action[c] = "connecting"
    /\ action' = [action EXCEPT ![c] = "polling"]
    /\ UNCHANGED <<attempt, room, synced, timer, accounts, active, known,
                   failed, errors, homeserver>>

\* client::stop_sync
StopSync(c) ==
    /\ active' = active \ {c}
    /\ action' = [action EXCEPT
                    ![c] = IF c \in active /\ @ = "polling" THEN "cancelled" ELSE @]

\* on_sync_till_stop of a client that was stopped, and then on_stopped: the
\* answer, whatever it is, is dropped.
Stopped(c) ==
    /\ Running
    /\ c \notin active /\ action[c] \in {"polling", "cancelled"}
    /\ action' = [action EXCEPT ![c] = "done"]
    /\ synced' = None
    /\ UNCHANGED <<attempt, room, timer, accounts, active, known, failed,
                   errors, homeserver>>

\* Mutant: an error ends the sync.
SyncFailsForGood(c) ==
    /\ Running
    /\ c \in active /\ action[c] \in {"connecting", "polling"}
    /\ errors < MaxErrors
    /\ errors' = errors + 1
    /\ active' = active \ {c}
    /\ action' = [action EXCEPT ![c] = "none"]
    /\ UNCHANGED <<attempt, room, synced, timer, accounts, known, failed,
                   homeserver>>

\* on_sync_till_stop with an error, and then on_stopped: the timer is started.
SyncFails(c) ==
    /\ Running
    /\ c \in active /\ action[c] \in {"connecting", "polling"}
    /\ errors < MaxErrors
    /\ errors' = errors + 1
    /\ active' = active \ {c}
    /\ action' = [action EXCEPT ![c] = "none"]
    /\ IF timer THEN Fail("start:12") /\ UNCHANGED timer
       ELSE timer' = TRUE /\ UNCHANGED failed
    /\ UNCHANGED <<attempt, room, synced, accounts, known, homeserver>>

\* The timer's callback: start_sync
Retry ==
    /\ Running
    /\ timer
    /\ timer' = FALSE
    /\ IF synced = None \/ synced \in active
       THEN Fail("start_sync") /\ UNCHANGED <<active, action>>
       ELSE StartSync(synced) /\ UNCHANGED failed
    /\ UNCHANGED <<attempt, room, synced, accounts, known, errors, homeserver>>

-----------------------------------------------------------------------------
(* participants                                                            *)

\* participants::add
Add(m) ==
    IF m \in people THEN Fail("add:180") /\ UNCHANGED people
    ELSE people' = people \cup {m} /\ UNCHANGED failed

\* participants::remove_by_id
Remove(m) ==
    IF m \notin people THEN Fail("remove_by_id:125") /\ UNCHANGED people
    ELSE people' = people \ {m} /\ UNCHANGED failed

\* Mutant: a member that was invited first is not added when it joins.
MemberChangesNewOnly(m, to) ==
    /\ state' = [state EXCEPT ![m] = to]
    /\ IF to = "join" /\ state[m] = "none" THEN Add(m)
       ELSE IF to = "leave" /\ m \in people THEN Remove(m)
       ELSE UNCHANGED <<people, failed>>

\* room::on_event_m_room_member, and then on_matrix_room_participant_joins for
\* a member that is new or on_join_state_changed for one that is not.
MemberChanges(m, to) ==
    /\ state' = [state EXCEPT ![m] = to]
    /\ IF to = state[m] THEN UNCHANGED <<people, failed>>
       ELSE IF to = "join" THEN Add(m)
       ELSE IF to = "leave" /\ state[m] # "none" THEN Remove(m)
       ELSE UNCHANGED <<people, failed>>

\* close_waiter: when the last one is closed room::leave asks the homeserver,
\* with the id of a room that must still be there.
WaitFor(rest) ==
    /\ closing' = rest
    /\ IF rest # {} THEN leaving' = "participants" /\ UNCHANGED failed
       ELSE /\ leaving' = "room"
            /\ IF session \in known THEN UNCHANGED failed ELSE Fail("leave:44")

\* Mutant: the participant that is closed is waited for again.
ParticipantClosedKeep(m) ==
    /\ Running
    /\ m \in closing
    /\ m \in people
    /\ people' = people \ {m}
    /\ WaitFor(closing)
    /\ UNCHANGED <<attempt, session, dropped, state, sync, errors, homeserver>>

\* participants::on_async_closed and close_waiter::do_next: the others'
\* signaling connections take a while to close.
ParticipantClosed(m) ==
    /\ Running
    /\ m \in closing
    /\ IF m \notin people
       THEN Fail("on_async_closed:167") /\ UNCHANGED <<people, closing, leaving>>
       ELSE people' = people \ {m} /\ WaitFor(closing \ {m})
    /\ UNCHANGED <<attempt, session, dropped, state, sync, errors, homeserver>>

-----------------------------------------------------------------------------
(* What a sync answer brings                                               *)

\* A sync of a client that is still to be told where it is, or of the session
\* while there are changes, is answered with that.
HasNews(c) == \/ c \in inside /\ c \notin told
              \/ c \in told /\ c \notin inside
              \/ /\ c \in {session, dropped} /\ c \in told
                 /\ \E m \in Members : news[m] # <<>>

NothingHappened(c) ==
    /\ ~HasNews(c)
    /\ UNCHANGED <<known, people, state, failed, told, news>>

\* rooms::on_sync: the room is there, or is created.
RoomAppears(c) ==
    /\ c \in inside /\ c \notin told
    /\ told' = told \cup {c}
    /\ known' = known \cup {c}
    /\ UNCHANGED <<people, state, failed, news>>

\* rooms::on_sync: the own user was removed from the room.
RoomVanishes(c) ==
    /\ c \in told /\ c \notin inside
    /\ told' = told \ {c}
    /\ IF c \in known THEN known' = known \ {c} /\ UNCHANGED failed
       ELSE Fail("on_sync:44") /\ UNCHANGED known
    /\ UNCHANGED <<people, state, news>>

\* A member of a room that was left: participants, which is gone, was never
\* disconnected from those it knew.
StrayChanges(m, to) ==
    /\ state' = [state EXCEPT ![m] = to]
    /\ IF state[m] \in {"none", to} THEN UNCHANGED failed ELSE Fail("participants:112")
    /\ UNCHANGED people

\* room::sync
MemberEvent(c) ==
    /\ c \in {session, dropped} /\ c \in told \cap inside
    /\ \E m \in Members :
        /\ news[m] # <<>>
        /\ news' = [news EXCEPT ![m] = Tail(@)]
        /\ IF c = session THEN MemberChanges(m, Head(news[m]))
           ELSE StrayChanges(m, Head(news[m]))
    /\ UNCHANGED <<known, told>>

\* Mutant: the answer of a client that was stopped counts.
SyncedLate(c) ==
    /\ Running
    /\ action[c] = "polling"
    /\ action' = [action EXCEPT ![c] = IF c \in active THEN "connecting" ELSE "done"]
    /\ synced' = IF c \in active THEN synced ELSE None
    /\ NothingHappened(c) \/ RoomAppears(c) \/ RoomVanishes(c) \/ MemberEvent(c)
    /\ UNCHANGED <<attempt, session, dropped, leaving, closing, timer,
                   accounts, active, errors, inside, members>>

\* on_sync_till_stop with an answer: it is read, and the next request is made.
Synced(c) ==
    /\ Running
    /\ c \in active /\ action[c] = "polling"
    /\ action' = [action EXCEPT ![c] = "connecting"]
    /\ NothingHappened(c) \/ RoomAppears(c) \/ RoomVanishes(c) \/ MemberEvent(c)
    /\ UNCHANGED <<attempt, session, dropped, leaving, closing, synced, timer,
                   accounts, active, errors, inside, members>>

-----------------------------------------------------------------------------
(* joiner                                                                  *)

\* joiner::join; the user interface offers it when there is no room.
Join ==
    /\ Running
    /\ step = "idle" /\ session = None
    /\ accounts # Clients
    /\ step' = "version"
    /\ UNCHANGED <<joining, room, sync, failed, errors, homeserver>>

\* join::on_version
VersionIsFine ==
    /\ Running
    /\ step = "version"
    /\ step' = "register"
    /\ UNCHANGED <<joining, room, sync, failed, errors, homeserver>>

NewAccount == CHOOSE c \in Clients : c \notin accounts

\* join::on_connected and client_synchronizer::set
Registered ==
    /\ Running
    /\ step = "register"
    /\ accounts' = accounts \cup {NewAccount}
    /\ joining' = NewAccount
    /\ step' = "name"
    /\ IF synced # None THEN Fail("set:17") /\ UNCHANGED <<synced, active, action>>
       ELSE synced' = NewAccount /\ StartSync(NewAccount) /\ UNCHANGED failed
    /\ UNCHANGED <<room, timer, known, errors, homeserver>>

\* join::on_name_set, on_temporary_room_joined
NameSet ==
    /\ Running
    /\ step = "name"
    /\ step' = "temporary"
    /\ UNCHANGED <<joining, room, sync, failed, errors, homeserver>>

TemporaryRoomJoined ==
    /\ Running
    /\ step = "temporary"
    /\ step' = "join"
    /\ UNCHANGED <<joining, room, sync, failed, errors, homeserver>>

\* The homeserver takes the account in: what it syncs begins with the state of
\* the room.
TakenIn ==
    /\ step = "join"
    /\ step' = "joined"
    /\ inside' = inside \cup {joining}
    /\ news' = [m \in Members |->
                    IF members[m] = "none" THEN <<>> ELSE <<members[m]>>]
    /\ UNCHANGED <<joining, room, sync, failed, errors, told, members>>

\* rooms::join_room_by_id, join::on_room_joined and joiner::on_joined.
RoomJoined ==
    /\ Running
    /\ step = "joined"
    /\ step' = "idle"
    /\ joining' = None
    /\ IF joining \in known
       THEN Fail("on_room_created:127") /\ UNCHANGED <<known, room>>
       ELSE /\ known' = known \cup {joining}
            /\ session' = joining /\ dropped' = None
            /\ people' = {} /\ closing' = {} /\ leaving' = "no"
            /\ state' = [m \in Members |-> "none"]
            /\ UNCHANGED failed
    /\ UNCHANGED <<synced, timer, accounts, active, action, errors, homeserver>>

\* Any request of the attempt fails: the exception goes through to the user,
\* and the attempt is gone.
JoinFails ==
    /\ Running
    /\ step # "idle"
    /\ errors < MaxErrors
    /\ errors' = errors + 1
    /\ step' = "idle"
    /\ joining' = None
    /\ UNCHANGED <<room, sync, failed, homeserver>>

-----------------------------------------------------------------------------
(* leaver                                                                  *)

\* leaver::leave and room::leave
Leave ==
    /\ Running
    /\ session # None /\ leaving = "no"
    /\ StopSync(session)
    /\ WaitFor(people)
    /\ UNCHANGED <<attempt, session, dropped, people, state, synced, timer,
                   accounts, known, errors, homeserver>>

\* rooms::leave_room was answered, or failed: leaver::on_left drops the room.
Left(success) ==
    /\ Running
    /\ leaving = "room"
    /\ success \/ errors < MaxErrors
    /\ errors' = IF success THEN errors ELSE errors + 1
    /\ inside' = IF success THEN inside \ {session} ELSE inside
    /\ session' = None /\ dropped' = session
    /\ leaving' = "no"
    /\ people' = {} /\ closing' = {}
    /\ UNCHANGED <<attempt, state, sync, failed, told, members, news>>

-----------------------------------------------------------------------------
(* The other users                                                         *)

Becomes(m, to) ==
    /\ members' = [members EXCEPT ![m] = to]
    /\ news' = IF inside = {} THEN news ELSE [news EXCEPT ![m] = Append(@, to)]
    /\ UNCHANGED <<attempt, room, sync, failed, errors, inside, told>>

IsInvited(m) == members[m] = "none" /\ Becomes(m, "invite")
Joins(m) == members[m] = "invite" /\ Becomes(m, "join")

\* Of its own will, or kicked by the temporary_room server.
Leaves(m) == members[m] \in {"invite", "join"} /\ Becomes(m, "leave")

\* The temporary_room server takes the own user for gone.
IsKicked ==
    /\ session \in inside
    /\ inside' = inside \ {session}
    /\ UNCHANGED <<attempt, room, sync, failed, errors, told, members, news>>

-----------------------------------------------------------------------------
SessionInit ==
    /\ step = "idle" /\ joining = None
    /\ session = None /\ dropped = None /\ leaving = "no"
    /\ people = {} /\ closing = {}
    /\ state = [m \in Members |-> "none"]
    /\ synced = None /\ timer = FALSE
    /\ accounts = {} /\ active = {} /\ known = {}
    /\ action = [c \in Clients |-> "none"]
    /\ failed = {} /\ errors = 0
    /\ inside = {} /\ told = {}
    /\ members = [m \in Members |-> "none"]
    /\ news = [m \in Members |-> <<>>]

Attempt ==
    \/ VersionIsFine \/ Registered \/ NameSet \/ TemporaryRoomJoined
    \/ TakenIn \/ RoomJoined

Sync(c) == Connect(c) \/ Synced(c) \/ Stopped(c)

SessionNext ==
    \/ Join \/ Attempt \/ JoinFails
    \/ \E c \in Clients : Sync(c) \/ SyncFails(c)
    \/ Retry
    \/ Leave \/ \E success \in BOOLEAN : Left(success)
    \/ \E m \in Members : ParticipantClosed(m) \/ IsInvited(m) \/ Joins(m) \/ Leaves(m)
    \/ IsKicked

SessionSpec == SessionInit /\ [][SessionNext]_sessionVars

\* Requests are answered or fail, the timer expires, a participant's connection
\* is closed in the end.  No user has to join or leave.
SessionFairness ==
    /\ WF_sessionVars(Attempt) /\ WF_sessionVars(Retry)
    /\ \A c \in Clients : WF_sessionVars(Sync(c))
    /\ \A m \in Members : WF_sessionVars(ParticipantClosed(m))
    /\ WF_sessionVars(\E success \in BOOLEAN : Left(success))

SessionFairSpec == SessionSpec /\ SessionFairness

-----------------------------------------------------------------------------
(* Properties                                                              *)

\* Every variable has values of its kind.
SessionTypeOK ==
    /\ step \in Steps /\ joining \in Clients \cup {None}
    /\ {session, dropped} \subseteq Clients \cup {None}
    /\ leaving \in {"no", "participants", "room"}
    /\ synced \in Clients \cup {None} /\ timer \in BOOLEAN
    /\ accounts \subseteq Clients /\ active \subseteq accounts
    /\ action \in [Clients -> Actions] /\ known \subseteq accounts
    /\ people \subseteq Members /\ closing \subseteq Members
    /\ state \in [Members -> Memberships]
    /\ errors \in 0..MaxErrors
    /\ inside \subseteq accounts /\ told \subseteq accounts
    /\ members \in [Members -> Memberships]
    /\ news \in [Members -> Seq(Memberships)]

\* While the user is in a room, its client is the one that is synced, and
\* either a request is under way or the timer that makes the next is running:
\* no failure silently ends the updates (client_synchronizer.cpp:22-50).
SyncNeverStalls ==
    Running /\ session # None /\ leaving = "no" =>
        /\ synced = session
        /\ \/ session \in active /\ action[session] \in {"connecting", "polling"}
           \/ timer

\* At most one client of the process talks to the homeserver, however often
\* the user joins and leaves: a request under way is one of the synchronizer's
\* client, and while the timer runs there is none
\* (client_synchronizer.cpp:15-20, 52-55; the assertions of client.cpp:97-99).
OneSync ==
    Running =>
        /\ \A c \in Clients :
            action[c] \in {"connecting", "polling", "cancelled"} => c = synced
        /\ timer => synced # None /\ synced \notin active /\ action[synced] = "none"

\* Those the room shows are the members that are joined, and nobody twice,
\* whatever way a member came: new, by invitation, before or after us
\* (participants.cpp:106-135 over matrix/room.cpp:138-145).
ParticipantsAreMembers ==
    Running /\ session \in known /\ leaving = "no" =>
        people = {m \in Members : state[m] = "join"}

\* The session is sound: types, one sync that never stalls, and the right people.
SessionIsSound ==
    SessionTypeOK /\ SyncNeverStalls /\ OneSync /\ ParticipantsAreMembers

\* Once the user leaves and no request is to be retried, nobody appears any
\* more: the answer that was under way is dropped (client.cpp:118-122, 144-155).
NoUpdatesOnceStopped ==
    [][leaving # "no" /\ session \notin active /\ ~timer => people' \subseteq people]_sessionVars

\* A user that leaves comes out in the end, though the homeserver refuses
\* (participants.cpp:27-51, leaver.cpp:18-23).
LeavesEnd == leaving # "no" ~> leaving = "no" \/ ~Running

\* An attempt to join ends, with a room or an error (joiner.cpp:30-52).
AttemptsEnd == step # "idle" ~> step = "idle" \/ ~Running

\* Whatever the user asks for comes to an end.
RequestsEnd == LeavesEnd /\ AttemptsEnd

\* The room comes to show those who are in it, over any failures of the sync,
\* unless the user leaves or is removed (client_synchronizer.cpp:49).
MembersConverge ==
    session # None ~>
        \/ people = {m \in Members : members[m] = "join"}
        \/ leaving # "no" \/ session \notin inside \/ ~Running

\* The assertion of client_synchronizer.cpp:17: when an account is to be synced
\* no other is.
SynchronizerIsFree == "set:17" \notin failed

=============================================================================
