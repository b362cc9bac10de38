------------------------------- MODULE MatrixRooms -------------------------------
(***************************************************************************)
(* A matrix room as its clients see it.  The homeserver keeps the events   *)
(* of the room in order; a sync answer brings a client the last Limit of   *)
(* them (the timeline) and, for what came before those, the state they     *)
(* begin from.  matrix::room reads the timeline first and trusts the       *)
(* timestamps (a position in the log stands for the timestamp).  The       *)
(* states carry what mute_deaf_communicator tells the others.              *)
(*                                                                         *)
(* Admin makes the room and invites, as the temporary_room server does.  A *)
(* user registers anew for every join, so it joins and leaves once.        *)
(***************************************************************************)
EXTENDS Naturals, Sequences, SequencesExt, FiniteSetsExt

CONSTANTS
    Users,      \* users that join
    Admin,      \* the account of the temporary_room server
    Switches,   \* "muted", "deafed"
    Limit,      \* events in a timeline at most
    MaxLog,     \* bound: events of the room
    MaxPuts     \* bound: requests of a client that are on their way

ASSUME MatrixAssumption ==
    /\ Admin \notin Users
    /\ Limit \in Nat \ {0} /\ MaxLog \in Nat \ {0} /\ MaxPuts \in Nat \ {0}

Clients == Users \cup {Admin}

VARIABLES
    log,        \* external: the events of the room
    phase,      \* "out", "asked" for the room, "in", "left", "crashed"
    room,       \* rooms_ has the room
    since,      \* sync_next_batch
    member,     \* members: the event their join_state_ is from, or 0
    audio,      \* customs: the event a state is from, or 0
    chat,       \* messages_
    flags,      \* self_muted, self_deafed
    puts,       \* requests on their way, each on a connection of its own
    raced       \* history: a state was sent while another was on its way

viewVars == <<room, since, member, audio, chat>>
sentVars == <<flags, puts, raced>>
matrixVars == <<log, phase, viewVars, sentVars>>

-----------------------------------------------------------------------------
(* The homeserver (external)                                               *)

Flags == SUBSET Switches
Event(kind, who, value) == [kind |-> kind, who |-> who, value |-> value]

Of(kind, u, n) == log[n].kind = kind /\ log[n].who = u

\* The last event of a kind and user among some events, or 0.
Latest(kind, u, events) == Max({0} \cup {n \in events : Of(kind, u, n)})

MemberSince(c) ==
    LET joins == {n \in DOMAIN log : Of("member", c, n) /\ log[n].value = {"join"}}
    IN  Max({0} \cup joins)

Joined(c) ==
    LET n == Latest("member", c, DOMAIN log)
    IN  n > 0 /\ log[n].value = {"join"}

Appended(event) == Len(log) < MaxLog /\ log' = Append(log, event)

-----------------------------------------------------------------------------
(* room_participant, room_states and chat, for the event at n              *)

\* Mutant: the order of arrival counts.
LastWins(old, n) == IF log[old].value = log[n].value THEN old ELSE n

SetJoinState(old, n) ==
    IF log[old].value = log[n].value \/ n < old THEN old ELSE n

\* on_event_m_room_member adds a member or changes its state.
OnMember(old, n) == IF old = 0 THEN n ELSE SetJoinState(old, n)

SyncCustom(old, n) == IF n > old THEN n ELSE old

\* on_events, for one event: the handler of its kind.
Handled(view, n) ==
    CASE log[n].kind = "member" -> [view EXCEPT !.member[log[n].who] = OnMember(@, n)]
      [] log[n].kind = "audio" -> [view EXCEPT !.audio[log[n].who] = SyncCustom(@, n)]
      [] log[n].kind = "chat" -> [view EXCEPT !.chat = Append(@, n)]

\* The loop of on_events: what client c has after each event.
View(c) == [member |-> member[c], audio |-> audio[c], chat |-> chat[c]]

OnEvents(c, events) ==
    LET after[i \in 0..Len(events)] ==
            IF i = 0 THEN View(c) ELSE Handled(after[i - 1], events[i])
    IN  after[Len(events)]

\* What the communicator of c says of u.
Hears(c, u) == IF audio[c][u] = 0 THEN {} ELSE log[audio[c][u]].value

-----------------------------------------------------------------------------
(* The sync of client c, up to event `to`                                  *)

First(c, to) ==
    Max({since[c], MemberSince(c) - 1, IF to > Limit THEN to - Limit ELSE 0})

Timeline(c, to) == [i \in 1..to - First(c, to) |-> First(c, to) + i]

\* The state at the start of the timeline: all of it for a room that was just
\* joined, else what changed since the last sync.
State(c, to) ==
    LET from == IF MemberSince(c) > since[c] THEN 0 ELSE since[c]
        last(kind, u) == Latest(kind, u, from + 1..First(c, to))
    IN  SetToSeq({last(kind, u) : kind \in {"member", "audio"}, u \in Clients} \ {0})

\* room::sync
Content(c, to) == Timeline(c, to) \o State(c, to)

\* rooms::on_sync for a room under "join".
RoomSynced(c, to) ==
    LET view == OnEvents(c, Content(c, to)) IN
    /\ room' = [room EXCEPT ![c] = TRUE]
    /\ member' = [member EXCEPT ![c] = view.member]
    /\ audio' = [audio EXCEPT ![c] = view.audio]
    /\ chat' = [chat EXCEPT ![c] = view.chat]

Left(c, to) ==
    \E n \in 1..to : Of("member", c, n) /\ log[n].value = {"leave"}

\* An answer the server gave when the log ended at `to`.  Bound: Admin syncs
\* until it has the room, what it sees later is what the users see.
Synced(c) ==
    /\ phase[c] = "asked" \/ (phase[c] = "in" /\ c # Admin)
    /\ \E to \in since[c] + 1..Len(log) :
        /\ MemberSince(c) \in 1..to
        /\ since' = [since EXCEPT ![c] = to]
        /\ IF Left(c, to)
           THEN \* rooms erases the room, and asserts that it had it
                /\ phase' = [phase EXCEPT ![c] = IF room[c] THEN "left" ELSE "crashed"]
                /\ room' = [room EXCEPT ![c] = FALSE]
                /\ UNCHANGED <<member, audio, chat>>
           ELSE RoomSynced(c, to) /\ UNCHANGED phase
    /\ UNCHANGED <<log, sentVars>>

-----------------------------------------------------------------------------
(* rooms                                                                   *)

\* create_room: the sync may have brought the room already.
CreateAnswered ==
    /\ phase[Admin] = "asked"
    /\ phase' = [phase EXCEPT ![Admin] = "in"]
    /\ room' = [room EXCEPT ![Admin] = TRUE]
    /\ UNCHANGED <<log, since, member, audio, chat, sentVars>>

Invite(u) ==
    /\ phase[Admin] = "in" /\ phase[u] = "out"
    /\ Latest("member", u, DOMAIN log) = 0
    /\ Appended(Event("member", u, {"invite"}))
    /\ UNCHANGED <<phase, viewVars, sentVars>>

Kick(u) ==
    /\ phase[Admin] = "in" /\ Joined(u)
    /\ Appended(Event("member", u, {"leave"}))
    /\ UNCHANGED <<phase, viewVars, sentVars>>

Join(u) ==
    /\ phase[u] = "out" /\ Latest("member", u, DOMAIN log) > 0
    /\ Appended(Event("member", u, {"join"}))
    /\ phase' = [phase EXCEPT ![u] = "asked"]
    /\ UNCHANGED <<viewVars, sentVars>>

\* send_state
Sent(u, fs) ==
    /\ puts' = [puts EXCEPT ![u] = Append(@, Event("audio", u, fs))]
    /\ raced' = [raced EXCEPT
            ![u] = @ \/ \E i \in DOMAIN puts[u] : puts[u][i].kind = "audio"]

\* join_room_by_id makes the room whether the sync brought it or not, which
\* on_room_created asserts; then rooms::set tells the communicator.
JoinAnswered(u) ==
    /\ phase[u] = "asked" /\ u # Admin
    /\ phase' = [phase EXCEPT ![u] = IF room[u] THEN "crashed" ELSE "in"]
    /\ room' = [room EXCEPT ![u] = TRUE]
    /\ IF flags[u] = {} \/ room[u] THEN UNCHANGED sentVars
       ELSE Sent(u, flags[u]) /\ UNCHANGED flags
    /\ UNCHANGED <<log, since, member, audio, chat>>

\* leave_room; the sync is stopped.
Leave(u) ==
    /\ phase[u] = "in" /\ Joined(u)
    /\ Appended(Event("member", u, {"leave"}))
    /\ phase' = [phase EXCEPT ![u] = "left"]
    /\ UNCHANGED <<viewVars, sentVars>>

-----------------------------------------------------------------------------
(* mute_deaf_communicator and chat: what a user sends                      *)

\* Mutant: nothing is sent.
ChangeQuietly(u) ==
    /\ phase[u] \in {"out", "in"} /\ Len(puts[u]) < MaxPuts
    /\ \E f \in Switches :
        flags' = [flags EXCEPT ![u] = (@ \ {f}) \cup ({f} \ @)]
    /\ UNCHANGED <<log, phase, viewVars, puts, raced>>

\* on_self_muted and on_self_deafed
ChangeFlags(u) ==
    /\ phase[u] \in {"out", "in"} /\ Len(puts[u]) < MaxPuts
    /\ \E f \in Switches :
        LET fs == (flags[u] \ {f}) \cup ({f} \ flags[u]) IN
        /\ flags' = [flags EXCEPT ![u] = fs]
        /\ IF phase[u] = "in" THEN Sent(u, fs) ELSE UNCHANGED <<puts, raced>>
    /\ UNCHANGED <<log, phase, viewVars>>

SendChat(u) ==
    /\ phase[u] = "in" /\ Len(puts[u]) < MaxPuts
    /\ puts' = [puts EXCEPT ![u] = Append(@, Event("chat", u, {}))]
    /\ UNCHANGED <<log, phase, viewVars, flags, raced>>

\* A request reaches the server, whichever comes first.  One that comes after
\* its sender left is refused: did_set_state asserts success.
PutArrives(u) ==
    \E i \in DOMAIN puts[u] :
        /\ puts' = [puts EXCEPT ![u] = RemoveAt(@, i)]
        /\ IF Joined(u) THEN Appended(puts[u][i]) /\ UNCHANGED phase
           ELSE /\ phase' = IF puts[u][i].kind = "audio"
                            THEN [phase EXCEPT ![u] = "crashed"] ELSE phase
                /\ UNCHANGED log
        /\ UNCHANGED <<viewVars, flags, raced>>

-----------------------------------------------------------------------------
Nothing(x) == [c \in Clients |-> x]

\* The request that makes the room was served.
MatrixInit ==
    /\ log = <<Event("member", Admin, {"join"})>>
    /\ phase = [Nothing("out") EXCEPT ![Admin] = "asked"]
    /\ room = Nothing(FALSE) /\ since = Nothing(0)
    /\ member = Nothing(Nothing(0)) /\ audio = Nothing(Nothing(0))
    /\ chat = Nothing(<<>>)
    /\ flags = Nothing({}) /\ puts = Nothing(<<>>) /\ raced = Nothing(FALSE)

MatrixNext ==
    \/ CreateAnswered
    \/ \E c \in Clients : Synced(c)
    \/ \E u \in Users :
        \/ Invite(u) \/ Kick(u) \/ Join(u) \/ JoinAnswered(u) \/ Leave(u)
        \/ ChangeFlags(u) \/ SendChat(u) \/ PutArrives(u)

MatrixSpec == MatrixInit /\ [][MatrixNext]_matrixVars

-----------------------------------------------------------------------------
(* Every variable has its type.                                            *)
MatrixTypeOK ==
    /\ Len(log) <= MaxLog
    /\ phase \in [Clients -> {"out", "asked", "in", "left", "crashed"}]
    /\ room \in [Clients -> BOOLEAN] /\ raced \in [Clients -> BOOLEAN]
    /\ \A c \in Clients :
        /\ since[c] \in 0..Len(log)
        /\ member[c] \in [Clients -> 0..since[c]]
        /\ audio[c] \in [Clients -> 0..since[c]]
        /\ flags[c] \in Flags /\ Len(puts[c]) <= MaxPuts

Views == {c \in Clients : phase[c] = "in" /\ since[c] > 0}

(* Whatever part of the log each sync brought, as timeline or as state, a  *)
(* client has the members and the states as they were at the event it is   *)
(* at (matrix/room.cpp:77, room_participant.cpp:37, room_states.cpp:55).   *)
ViewIsTheLog ==
    \A c \in Views, u \in Clients :
        /\ LET n == Latest("member", u, 1..since[c])
           IN  IF n = 0 THEN member[c][u] = 0
               ELSE member[c][u] > 0 /\ log[member[c][u]].value = log[n].value
        /\ audio[c][u] = Latest("audio", u, 1..since[c])

(* Two clients show the messages both have in one order, and none twice.   *)
(* A message that a limited timeline leaves out is never shown             *)
(* (matrix/chat.cpp:39, matrix/room.cpp:77).                               *)
ChatIsInOrder ==
    \A c \in Clients : \A i \in 2..Len(chat[c]) : chat[c][i - 1] < chat[c][i]

(* Once nothing is on its way, a client hears of each user in the room the *)
(* muting and deafness that user set last, changes before the join         *)
(* included, provided no two changes were on their way at once             *)
(* (client/mute_deaf_communicator.cpp:61, :77).                            *)
SettledIsHeard ==
    \A c \in Views, u \in Users :
        /\ phase[u] = "in" /\ puts[u] = <<>> /\ ~raced[u]
        /\ since[c] = Len(log)
        => Hears(c, u) = flags[u]

(* The room of the creator is made once, whether the sync or the answer to *)
(* the request comes first (matrix/rooms.cpp:137).                         *)
CreatorGoesOn == phase[Admin] # "crashed"

(* A client's picture of a room is sound: members and states are those of  *)
(* the log, messages are in its order, and no sync is fatal.               *)
ViewsAreSound == MatrixTypeOK /\ ViewIsTheLog /\ ChatIsInOrder /\ CreatorGoesOn

=============================================================================
