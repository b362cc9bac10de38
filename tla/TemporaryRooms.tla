--------------------------- MODULE TemporaryRooms ---------------------------
(***************************************************************************)
(* The temporary_room server: rooms turns the name a user asks for into a  *)
(* matrix room, which it creates when there is none, and invites the user; *)
(* rooms_room_matrix_adapter watches the members of a matrix room and says *)
(* when it is empty, upon which rooms forgets it.                          *)
(*                                                                         *)
(* The server runs its handlers on one thread.  Between it and a user is   *)
(* the matrix homeserver: what the server sends it (create, invite, kick)  *)
(* is under way for a while, and what happens there reaches the server     *)
(* through the sync stream, in the order of each room.                     *)
(*                                                                         *)
(* A user is an account.  joiner registers one for every attempt to join   *)
(* (client/joiner.cpp:36), so an account asks once.                        *)
(***************************************************************************)
EXTENDS Naturals, Sequences, FiniteSets

CONSTANTS
    Names,        \* normalised room names
    Users,        \* accounts of users
    Rooms,        \* matrix rooms the homeserver may ever create
    None,         \* nothing
    MaxFailures,  \* bound: requests to the homeserver that fail
    Asserts       \* BOOST_ASSERT compiled in (Debug) or not (Release)

ASSUME RoomAssumption ==
    /\ None \notin Rooms \cup Names \cup Users \cup {"waiting"}
    /\ "waiting" \notin Rooms
    /\ MaxFailures \in Nat
    /\ Asserts \in BOOLEAN

VARIABLES
    entry,     \* rooms::rooms_: nothing, an adapter without room, or its room
    waiting,   \* waiting_for_room of a name's adapter
    named,     \* rooms whose name it knows, and whose on_empty is set
    member,    \* the members of a room as the server knows them
    seen,      \* users whose presence the server has as online
    syncing,   \* the server's sync goes on
    failed,    \* the assertions that did not hold so far
    creating,  \* createRoom requests under way, per name
    invites,   \* invitations under way to the homeserver
    answers,   \* replies to invitations under way back, with their success
    kicks,     \* kicks under way to the homeserver
    failures,  \* requests that failed so far
    roomName,  \* homeserver: the name a room was created with
    hsMember,  \* homeserver: membership of a user in a room
    stream,    \* homeserver: events of a room the server has not synced
    phase,     \* how far a user has come
    target,    \* the name a user asked for, later the room it was given
    online     \* users that are there

rooms == <<entry, waiting>>
matrix == <<named, member, seen, syncing>>
requests == <<creating, invites, answers, kicks, failures>>
homeserver == <<roomName, hsMember, stream>>
users == <<phase, target, online>>
tempVars == <<rooms, matrix, failed, requests, homeserver, users>>

Phases == {"new", "asking", "answered", "refused", "inside", "gone"}
Memberships == {"none", "invite", "join", "leave"}
Name == [user |-> None, state |-> "name"]
Events == {Name} \cup [user : Users, state : Memberships \ {"none"}]
Assertions == {"on_empty:85", "on_empty:88"}

Running == ~Asserts \/ failed = {}

-----------------------------------------------------------------------------
(* rooms                                                                   *)

\* rooms::get_or_create_room_id, called by the http server for a request.
GetOrCreate(u, n) ==
    /\ Running
    /\ phase[u] = "new"
    /\ phase' = [phase EXCEPT ![u] = "asking"]
    /\ target' = [target EXCEPT ![u] = n]
    /\ online' = online \cup {u}
    /\ CASE entry[n] = None ->
              /\ entry' = [entry EXCEPT ![n] = "waiting"]
              /\ waiting' = [waiting EXCEPT ![n] = {u}]
              /\ creating' = [creating EXCEPT ![n] = @ + 1]
              /\ UNCHANGED invites
         [] entry[n] = "waiting" ->
              /\ waiting' = [waiting EXCEPT ![n] = @ \cup {u}]
              /\ UNCHANGED <<entry, creating, invites>>
         [] OTHER ->
              /\ invites' = invites \cup {<<entry[n], u>>}
              /\ UNCHANGED <<entry, waiting, creating>>
    /\ UNCHANGED <<matrix, failed, answers, kicks, failures, homeserver>>

\* Mutant: nobody who waited for the room is invited.
OnNewRoomForget(r) ==
    LET n == roomName[r] IN
    /\ named' = named \cup {r}
    /\ entry' = [entry EXCEPT ![n] = r]
    /\ waiting' = [waiting EXCEPT ![n] = {}]
    /\ UNCHANGED <<invites, member, failed, phase>>

\* Mutant: those who waited are invited, and wait on.
OnNewRoomKeep(r) ==
    LET n == roomName[r] IN
    /\ named' = named \cup {r}
    /\ entry' = [entry EXCEPT ![n] = r]
    /\ invites' = invites \cup ({r} \X waiting[n])
    /\ UNCHANGED <<waiting, member, failed, phase>>

\* rooms::on_new_room: the room's name came, which is what the adapter of a
\* new room waits for (matrix_rooms_factory_adapter::on_room_joined).
OnNewRoom(r) ==
    LET n == roomName[r] IN
    /\ named' = named \cup {r}
    /\ entry' = [entry EXCEPT ![n] = r]
    /\ waiting' = [waiting EXCEPT ![n] = {}]
    /\ invites' = invites \cup ({r} \X waiting[n])
    /\ UNCHANGED <<member, failed, phase>>

\* rooms::on_empty: whoever still waits for the name gets a broken promise.
OnEmpty(n) ==
    LET fails == IF entry[n] = None THEN {"on_empty:85"}
                 ELSE IF waiting[n] # {} THEN {"on_empty:88"} ELSE {}
    IN  /\ failed' = failed \cup fails
        /\ IF Asserts /\ fails # {} THEN UNCHANGED <<rooms, phase>>
           ELSE /\ entry' = [entry EXCEPT ![n] = None]
                /\ waiting' = [waiting EXCEPT ![n] = {}]
                /\ phase' = [u \in Users |->
                                IF u \in waiting[n] THEN "refused" ELSE phase[u]]

\* rooms::on_invited
OnInvited(u, success) ==
    /\ Running
    /\ <<u, success>> \in answers
    /\ answers' = answers \ {<<u, success>>}
    /\ phase' = [phase EXCEPT ![u] =
                    IF @ # "asking" THEN @
                    ELSE IF success THEN "answered" ELSE "refused"]
    /\ UNCHANGED <<rooms, matrix, failed, creating, invites, kicks,
                   failures, homeserver, target, online>>

-----------------------------------------------------------------------------
(* matrix_rooms_factory_adapter and rooms_room_matrix_adapter              *)

\* rooms_room_matrix_adapter::is_empty
IsEmpty(members) == \A u \in Users : members[u] \in {"none", "leave"}

\* Mutant: the adapter hears of new members only.
OnMemberJoinOnly(r, u, state) ==
    /\ member' = [member EXCEPT ![r][u] = state]
    /\ IF member[r][u] = "none" /\ IsEmpty(member'[r]) THEN OnEmpty(roomName[r])
       ELSE UNCHANGED <<rooms, failed, phase>>
    /\ UNCHANGED <<named, invites>>

\* room::on_event_m_room_member, then on_join or on_join_state_changed of the
\* adapter, which rooms may have forgotten but which still hears its room.
OnMember(r, u, state) ==
    /\ member' = [member EXCEPT ![r][u] = state]
    /\ IF member[r][u] # state /\ IsEmpty(member'[r]) THEN OnEmpty(roomName[r])
       ELSE UNCHANGED <<rooms, failed, phase>>
    /\ UNCHANGED <<named, invites>>

\* One event of the sync stream.
Sync(r) ==
    /\ Running /\ syncing
    /\ stream[r] # <<>>
    /\ stream' = [stream EXCEPT ![r] = Tail(@)]
    /\ IF Head(stream[r]) = Name THEN OnNewRoom(r)
       ELSE OnMember(r, Head(stream[r]).user, Head(stream[r]).state)
    /\ UNCHANGED <<seen, syncing, creating, answers, kicks, failures,
                   roomName, hsMember, target, online>>

\* The server is sent the presence of users it shares a room with.
Shares(u) == \E r \in Rooms : hsMember[r][u] = "join"

Pending(r, event) == \E i \in DOMAIN stream[r] : stream[r][i] = event

\* Mutant: nobody is kicked for being offline.
SyncPresenceIdle(u) ==
    /\ Running /\ syncing
    /\ Shares(u)
    /\ u \in online \ seen
    /\ seen' = seen \cup {u}
    /\ UNCHANGED <<rooms, named, member, syncing, failed, requests,
                   homeserver, users>>

\* user::on_m_presence and the adapters' on_update: a user that goes offline
\* is kicked from every room in which its membership was ever heard of.  A
\* sync answer brings all that happened before it, the presence first.
SyncPresence(u) ==
    /\ Running /\ syncing
    /\ Shares(u)
    /\ (u \in online) # (u \in seen)
    /\ u \in seen => \A r \in Rooms : ~Pending(r, [user |-> u, state |-> "join"])
    /\ IF u \in online
       THEN /\ seen' = seen \cup {u}
            /\ UNCHANGED kicks
       ELSE /\ seen' = seen \ {u}
            /\ kicks' = kicks \cup ({r \in Rooms : member[r][u] # "none"} \X {u})
    /\ UNCHANGED <<rooms, named, member, syncing, failed, creating, invites,
                   answers, failures, homeserver, users>>

\* A sync request of the server fails: client::on_sync_till_stop stops, and
\* nobody starts it again.
SyncEnds ==
    /\ syncing /\ failures < MaxFailures
    /\ syncing' = FALSE
    /\ failures' = failures + 1
    /\ UNCHANGED <<rooms, named, member, seen, failed, creating, invites,
                   answers, kicks, homeserver, users>>

-----------------------------------------------------------------------------
(* The homeserver                                                          *)

Changes(r, u, state) ==
    /\ hsMember' = [hsMember EXCEPT ![r][u] = state]
    /\ stream' = [stream EXCEPT ![r] = Append(@, [user |-> u, state |-> state])]

\* The reply to createRoom makes the room known to the server, or the first
\* sync does (rooms::do_create_room); either way the name is still to come.
CreateRoom(n, r) ==
    /\ creating[n] > 0
    /\ roomName[r] = None
    /\ creating' = [creating EXCEPT ![n] = @ - 1]
    /\ roomName' = [roomName EXCEPT ![r] = n]
    /\ stream' = [stream EXCEPT ![r] = <<Name>>]
    /\ UNCHANGED <<rooms, matrix, failed, invites, answers, kicks, failures,
                   hsMember, users>>

\* The error of a request that fails is logged (on_room_created).
CreateFails(n) ==
    /\ creating[n] > 0 /\ failures < MaxFailures
    /\ creating' = [creating EXCEPT ![n] = @ - 1]
    /\ failures' = failures + 1
    /\ UNCHANGED <<rooms, matrix, failed, invites, answers, kicks,
                   homeserver, users>>

Invite(r, u) ==
    /\ <<r, u>> \in invites
    /\ invites' = invites \ {<<r, u>>}
    /\ answers' = answers \cup {<<u, TRUE>>}
    /\ target' = [target EXCEPT ![u] = r]
    /\ Changes(r, u, "invite")
    /\ UNCHANGED <<rooms, matrix, failed, creating, kicks, failures,
                   roomName, phase, online>>

InviteFails(r, u) ==
    /\ <<r, u>> \in invites /\ failures < MaxFailures
    /\ invites' = invites \ {<<r, u>>}
    /\ answers' = answers \cup {<<u, FALSE>>}
    /\ failures' = failures + 1
    /\ UNCHANGED <<rooms, matrix, failed, creating, kicks,
                   homeserver, users>>

Kick(r, u) ==
    /\ <<r, u>> \in kicks
    /\ kicks' = kicks \ {<<r, u>>}
    /\ IF hsMember[r][u] \in {"invite", "join"} THEN Changes(r, u, "leave")
       ELSE UNCHANGED <<hsMember, stream>>
    /\ UNCHANGED <<rooms, matrix, failed, creating, invites, answers,
                   failures, roomName, users>>

-----------------------------------------------------------------------------
(* The users                                                               *)

\* join::on_temporary_room_joined
Join(u) ==
    /\ phase[u] = "answered" /\ u \in online
    /\ hsMember[target[u]][u] = "invite"
    /\ phase' = [phase EXCEPT ![u] = "inside"]
    /\ Changes(target[u], u, "join")
    /\ UNCHANGED <<rooms, matrix, failed, requests, roomName, target, online>>

Leave(u) ==
    /\ phase[u] = "inside" /\ u \in online
    /\ hsMember[target[u]][u] = "join"
    /\ phase' = [phase EXCEPT ![u] = "gone"]
    /\ Changes(target[u], u, "leave")
    /\ UNCHANGED <<rooms, matrix, failed, requests, roomName, target, online>>

\* The user's program ends without leaving.
Crash(u) ==
    /\ u \in online
    /\ online' = online \ {u}
    /\ UNCHANGED <<rooms, matrix, failed, requests, homeserver, phase, target>>

-----------------------------------------------------------------------------
TempInit ==
    /\ entry = [n \in Names |-> None]
    /\ waiting = [n \in Names |-> {}]
    /\ named = {} /\ seen = {} /\ syncing = TRUE
    /\ member = [r \in Rooms |-> [u \in Users |-> "none"]]
    /\ failed = {}
    /\ creating = [n \in Names |-> 0]
    /\ invites = {} /\ answers = {} /\ kicks = {}
    /\ failures = 0
    /\ roomName = [r \in Rooms |-> None]
    /\ hsMember = [r \in Rooms |-> [u \in Users |-> "none"]]
    /\ stream = [r \in Rooms |-> <<>>]
    /\ phase = [u \in Users |-> "new"]
    /\ target = [u \in Users |-> None]
    /\ online = {}

ServerStep ==
    \/ \E u \in Users, success \in BOOLEAN : OnInvited(u, success)
    \/ \E r \in Rooms : Sync(r)
    \/ \E u \in Users : SyncPresence(u)

HomeserverStep ==
    \/ \E n \in Names, r \in Rooms : CreateRoom(n, r)
    \/ \E r \in Rooms, u \in Users : Invite(r, u) \/ Kick(r, u)

Failure ==
    \/ SyncEnds
    \/ \E n \in Names : CreateFails(n)
    \/ \E r \in Rooms, u \in Users : InviteFails(r, u)

TempNext ==
    \/ ServerStep \/ HomeserverStep \/ Failure
    \/ \E u \in Users :
        \/ \E n \in Names : GetOrCreate(u, n)
        \/ Join(u) \/ Leave(u) \/ Crash(u)

TempSpec == TempInit /\ [][TempNext]_tempVars

\* The homeserver serves what it is asked, and the server reads its replies
\* and the sync stream; no user has to do anything.
TempFairness ==
    /\ \A u \in Users :
        /\ WF_tempVars(\E success \in BOOLEAN : OnInvited(u, success))
        /\ WF_tempVars(SyncPresence(u))
        /\ \A r \in Rooms : WF_tempVars(Invite(r, u)) /\ WF_tempVars(Kick(r, u))
    /\ \A r \in Rooms : WF_tempVars(Sync(r))
    /\ \A n \in Names : WF_tempVars(\E r \in Rooms : CreateRoom(n, r))

TempFairSpec == TempSpec /\ TempFairness

-----------------------------------------------------------------------------
(* Properties                                                              *)

\* Every variable holds values of its type; those who wait for a name are part
\* of its adapter without room.
TempTypeOK ==
    /\ entry \in [Names -> Rooms \cup {None, "waiting"}]
    /\ waiting \in [Names -> SUBSET Users]
    /\ \A n \in Names : waiting[n] # {} => entry[n] = "waiting"
    /\ named \subseteq Rooms /\ seen \subseteq Users /\ syncing \in BOOLEAN
    /\ member \in [Rooms -> [Users -> Memberships]]
    /\ failed \subseteq Assertions
    /\ creating \in [Names -> Nat] /\ failures \in 0..MaxFailures
    /\ invites \subseteq Rooms \X Users /\ kicks \subseteq Rooms \X Users
    /\ answers \subseteq Users \X BOOLEAN
    /\ roomName \in [Rooms -> Names \cup {None}]
    /\ hsMember \in [Rooms -> [Users -> Memberships]]
    /\ stream \in [Rooms -> Seq(Events)]
    /\ phase \in [Users -> Phases]
    /\ target \in [Users -> Names \cup Rooms \cup {None}]
    /\ online \subseteq Users

\* A name leads to a room the server knows by that name, and somebody is in
\* it, invited or joined, or nobody was heard of yet: an emptied room is not
\* handed out again, also when another room of the name is emptied late.
EntryIsInhabited ==
    \A n \in Names : entry[n] \in Rooms =>
        /\ entry[n] \in named /\ roomName[entry[n]] = n
        /\ \/ \A u \in Users : member[entry[n]][u] = "none"
           \/ ~IsEmpty(member[entry[n]])

\* Nobody waits for nothing: while a user waits for the room of a name, a
\* room of that name is being created, or its name is still to be synced.
WaitersAreServed ==
    failures = 0 =>
        \A n \in Names : waiting[n] # {} =>
            creating[n] > 0 \/ \E r \in Rooms \ named : roomName[r] = n

\* Every user that asks is somewhere on the way to its answer: it waits, or its
\* invitation or the reply to it is under way, in exactly one of these places.
AskersAreSomewhere ==
    \A u \in Users : phase[u] = "asking" =>
        Cardinality({n \in Names : u \in waiting[n]}
                    \cup {r \in Rooms : <<r, u>> \in invites}
                    \cup {a \in answers : a[1] = u}) = 1

\* The rooms are sound: types, names that lead to rooms in use, and nobody who
\* asked is lost or answered twice.
RoomsAreSound ==
    TempTypeOK /\ EntryIsInhabited /\ WaitersAreServed /\ AskersAreSomewhere

\* Every request is answered in the end, unless a request to the homeserver
\* failed (matrix_rooms_factory_adapter::on_room_created only logs that).
RequestsAreAnswered ==
    \A u \in Users : phase[u] = "asking" ~> phase[u] # "asking" \/ failures > 0

\* A room everybody left is forgotten, unless somebody is invited to it first
\* or the server's sync has ended.
Deserted(r) == /\ \E u \in Users : hsMember[r][u] = "leave"
               /\ IsEmpty(hsMember[r])

EmptyIsForgotten ==
    \A n \in Names, r \in Rooms :
        entry[n] = r /\ Deserted(r)
            ~> entry[n] # r \/ ~Deserted(r) \/ ~syncing

\* A user that was seen online and whose program ends is out of its room in
\* the end, though nobody else is there and it never said so, unless the
\* server's sync has ended.
CrashedIsKicked ==
    \A u \in Users, r \in Rooms :
        u \in seen \ online /\ hsMember[r][u] = "join"
            ~> hsMember[r][u] # "join" \/ ~syncing

=============================================================================
