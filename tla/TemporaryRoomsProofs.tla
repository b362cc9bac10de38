------------------------ MODULE TemporaryRoomsProofs ------------------------
(***************************************************************************)
(* The rooms of TemporaryRooms are sound for any number of names, accounts *)
(* and rooms, for Debug and Release builds, and with any number of failed  *)
(* requests: the invariant that a run checks on a small instance, made     *)
(* inductive and proved action by action.                                  *)
(***************************************************************************)
EXTENDS TemporaryRooms, FiniteSetTheorems, TLAPS

-----------------------------------------------------------------------------
(* The inductive invariant                                                 *)

\* A room's name is the first thing the server hears of it, and is heard once:
\* until then it has no members, and the server knows none.
NameComesFirst ==
    \A r \in Rooms :
        /\ roomName[r] = None => r \notin named
        /\ r \notin named =>
              /\ stream[r] = IF roomName[r] = None THEN <<>> ELSE <<Name>>
              /\ \A u \in Users : hsMember[r][u] = "none" /\ member[r][u] = "none"
        /\ r \in named => \A i \in DOMAIN stream[r] : stream[r][i] # Name

\* Only rooms whose name is known are invited to and kicked from.
NamedOnly ==
    \A r \in Rooms, u \in Users :
        <<r, u>> \in invites \cup kicks => r \in named

\* An adapter without room waits for one that is being created or whose name
\* is to come, also when nobody waits for it any more.
AdaptersAreServed ==
    failures = 0 =>
        \A n \in Names : entry[n] = "waiting" =>
            creating[n] > 0 \/ \E r \in Rooms \ named : roomName[r] = n

\* The places of a user on the way to its answer.
Waits(u) == \E n \in Names : u \in waiting[n]
Invited(u) == \E r \in Rooms : <<r, u>> \in invites
Replied(u) == \E b \in BOOLEAN : <<u, b>> \in answers

\* No place holds a user twice, no two places hold it, and who is in none of
\* them does not ask.
OnTheWay ==
    \A u \in Users :
        /\ \A n, m \in Names : u \in waiting[n] /\ u \in waiting[m] => n = m
        /\ \A r, q \in Rooms : <<r, u>> \in invites /\ <<q, u>> \in invites => r = q
        /\ \A b, c \in BOOLEAN : <<u, b>> \in answers /\ <<u, c>> \in answers => b = c
        /\ ~(Waits(u) /\ Invited(u)) /\ ~(Waits(u) /\ Replied(u))
        /\ ~(Invited(u) /\ Replied(u))
        /\ phase[u] = "asking" <=> Waits(u) \/ Invited(u) \/ Replied(u)

RoomsInv ==
    /\ TempTypeOK /\ EntryIsInhabited
    /\ NameComesFirst /\ NamedOnly /\ AdaptersAreServed /\ OnTheWay

-----------------------------------------------------------------------------
\* In the beginning nothing is known and nobody asked.
LEMMA RoomsInit == TempInit => RoomsInv
<1> SUFFICES ASSUME TempInit PROVE RoomsInv
  OBVIOUS
<1> USE RoomAssumption DEF TempInit
<1>1. TempTypeOK
  BY DEF TempTypeOK, Memberships, Phases
<1>2. EntryIsInhabited
  BY DEF EntryIsInhabited
<1>3. NameComesFirst /\ NamedOnly
  BY DEF NameComesFirst, NamedOnly
<1>4. AdaptersAreServed
  BY DEF AdaptersAreServed
<1>5. OnTheWay
  BY DEF OnTheWay, Waits, Invited, Replied
<1> QED
  BY <1>1, <1>2, <1>3, <1>4, <1>5 DEF RoomsInv

\* A change of a member is the last event of its room's stream, and not a name.
LEMMA ChangesLemma ==
    ASSUME TempTypeOK, NEW r \in Rooms, NEW u \in Users,
           NEW state \in Memberships \ {"none"}, Changes(r, u, state)
    PROVE  /\ stream' \in [Rooms -> Seq(Events)]
           /\ hsMember' \in [Rooms -> [Users -> Memberships]]
           /\ \A q \in Rooms \ {r} :
                stream'[q] = stream[q] /\ hsMember'[q] = hsMember[q]
           /\ \A i \in DOMAIN stream'[r] :
                \/ i \in DOMAIN stream[r] /\ stream'[r][i] = stream[r][i]
                \/ stream'[r][i] # Name
<1> DEFINE event == [user |-> u, state |-> state]
<1>1. event \in Events /\ event # Name
  BY RoomAssumption DEF Events, Name
<1>2. stream[r] \in Seq(Events)
  BY DEF TempTypeOK
<1> HIDE DEF event
<1>3. Append(stream[r], event) \in Seq(Events)
  BY <1>1, <1>2
<1>4. stream' = [stream EXCEPT ![r] = Append(stream[r], event)]
  BY DEF Changes, TempTypeOK, event
<1>5. hsMember' \in [Rooms -> [Users -> Memberships]]
  BY DEF Changes, TempTypeOK
<1>6. \A q \in Rooms \ {r} : hsMember'[q] = hsMember[q]
  BY DEF Changes, TempTypeOK
<1>7. stream'[r] = Append(stream[r], event)
  BY <1>4 DEF TempTypeOK
<1>8. \A i \in DOMAIN stream'[r] :
        \/ i \in DOMAIN stream[r] /\ stream'[r][i] = stream[r][i]
        \/ stream'[r][i] # Name
  BY <1>1, <1>2, <1>7
<1> QED
  BY <1>3, <1>4, <1>5, <1>6, <1>8 DEF TempTypeOK

\* So it keeps the types, and the order of every stream.
LEMMA MemberChanges ==
    ASSUME TempTypeOK, NameComesFirst, NEW r \in Rooms, r \in named,
           NEW u \in Users, NEW state \in Memberships \ {"none"},
           Changes(r, u, state), UNCHANGED <<roomName, named, member>>
    PROVE  /\ stream' \in [Rooms -> Seq(Events)]
           /\ hsMember' \in [Rooms -> [Users -> Memberships]]
           /\ NameComesFirst'
<1>1. \A q \in Rooms \ {r} :
        stream'[q] = stream[q] /\ hsMember'[q] = hsMember[q]
  BY ChangesLemma
<1>2. \A i \in DOMAIN stream'[r] :
        \/ i \in DOMAIN stream[r] /\ stream'[r][i] = stream[r][i]
        \/ stream'[r][i] # Name
  BY ChangesLemma
<1>3. NameComesFirst'
  BY <1>1, <1>2 DEF NameComesFirst
<1> QED
  BY <1>3, ChangesLemma

\* A user asks for a name and takes its first place.
LEMMA AskStep ==
    ASSUME RoomsInv, NEW u \in Users, NEW n \in Names, GetOrCreate(u, n)
    PROVE  RoomsInv'
<1> USE RoomAssumption DEF RoomsInv
<1>1. /\ phase[u] = "new" /\ phase' = [phase EXCEPT ![u] = "asking"]
      /\ target' = [target EXCEPT ![u] = n] /\ online' = online \cup {u}
      /\ UNCHANGED <<matrix, failed, answers, kicks, failures, homeserver>>
  BY DEF GetOrCreate
<1>2. \/ /\ entry[n] = None
         /\ entry' = [entry EXCEPT ![n] = "waiting"]
         /\ waiting' = [waiting EXCEPT ![n] = {u}]
         /\ creating' = [creating EXCEPT ![n] = @ + 1]
         /\ UNCHANGED invites
      \/ /\ entry[n] = "waiting"
         /\ waiting' = [waiting EXCEPT ![n] = waiting[n] \cup {u}]
         /\ UNCHANGED <<entry, creating, invites>>
      \/ /\ entry[n] \in Rooms
         /\ invites' = invites \cup {<<entry[n], u>>}
         /\ UNCHANGED <<entry, waiting, creating>>
  BY DEF GetOrCreate, TempTypeOK
<1> USE DEF matrix, homeserver
<1>3. TempTypeOK'
  <2>1. /\ entry' \in [Names -> Rooms \cup {None, "waiting"}]
        /\ waiting' \in [Names -> SUBSET Users]
        /\ \A m \in Names : waiting'[m] # {} => entry'[m] = "waiting"
    <3>1. {u} \in SUBSET Users /\ waiting[n] \cup {u} \in SUBSET Users
      BY DEF TempTypeOK
    <3>2. waiting' \in [Names -> SUBSET Users]
      BY <1>2, <3>1 DEF TempTypeOK
    <3>3. entry' \in [Names -> Rooms \cup {None, "waiting"}]
      BY <1>2 DEF TempTypeOK
    <3>4. \A m \in Names : waiting'[m] # {} => entry'[m] = "waiting"
      BY <1>2 DEF TempTypeOK
    <3> QED
      BY <3>2, <3>3, <3>4
  <2>2. creating' \in [Names -> Nat] /\ invites' \subseteq Rooms \X Users
    BY <1>2 DEF TempTypeOK
  <2>3. /\ phase' \in [Users -> Phases]
        /\ target' \in [Users -> Names \cup Rooms \cup {None}]
        /\ online' \subseteq Users
    BY <1>1 DEF TempTypeOK, Phases
  <2> QED
    BY <1>1, <2>1, <2>2, <2>3 DEF TempTypeOK
<1>4. EntryIsInhabited'
  <2>1. \A m \in Names : entry'[m] \in Rooms => entry[m] = entry'[m]
    BY <1>2 DEF TempTypeOK
  <2> QED
    BY <1>1, <2>1 DEF EntryIsInhabited
<1>5. NameComesFirst'
  BY <1>1, <1>2 DEF NameComesFirst
<1>6. NamedOnly'
  BY <1>1, <1>2 DEF TempTypeOK, NamedOnly, EntryIsInhabited
<1>7. AdaptersAreServed'
  BY <1>1, <1>2 DEF TempTypeOK, AdaptersAreServed
<1>8. OnTheWay'
  <2>1. ~Waits(u) /\ ~Invited(u) /\ ~Replied(u)
    BY <1>1 DEF OnTheWay
  <2>2. \A v \in Users \ {u} :
          /\ phase'[v] = phase[v]
          /\ \A m \in Names : v \in waiting'[m] <=> v \in waiting[m]
          /\ \A r \in Rooms : <<r, v>> \in invites' <=> <<r, v>> \in invites
    <3>1. \A v \in Users \ {u} : phase'[v] = phase[v]
      BY <1>1 DEF TempTypeOK
    <3>2. \A v \in Users \ {u}, m \in Names : v \in waiting'[m] <=> v \in waiting[m]
      <4>1. waiting' = waiting \/ \A m \in Names \ {n} : waiting'[m] = waiting[m]
        BY <1>2 DEF TempTypeOK
      <4>2. \/ waiting'[n] = waiting[n] \/ waiting'[n] = waiting[n] \cup {u}
            \/ waiting'[n] = {u} /\ waiting[n] = {}
        BY <1>2 DEF TempTypeOK
      <4> QED
        BY <4>1, <4>2
    <3>3. \A v \in Users \ {u}, r \in Rooms :
            <<r, v>> \in invites' <=> <<r, v>> \in invites
      BY <1>2
    <3> QED
      BY <3>1, <3>2, <3>3
  <2>3. phase'[u] = "asking"
    BY <1>1 DEF TempTypeOK
  <2>4. CASE entry[n] \in Rooms
    <3>1. waiting' = waiting /\ invites' = invites \cup {<<entry[n], u>>}
      BY <1>2, <2>4
    <3> QED
      BY <1>1, <2>1, <2>2, <2>3, <2>4, <3>1 DEF OnTheWay, Waits, Invited, Replied
  <2>5. CASE entry[n] \notin Rooms
    <3>1. invites' = invites
      BY <1>2, <2>5
    <3>2. \A m \in Names : u \in waiting'[m] <=> m = n
      BY <1>2, <2>1, <2>5 DEF TempTypeOK, Waits
    <3>4. answers' = answers
      BY <1>1
    <3>5. ~Invited(u)' /\ ~Replied(u)' /\ Waits(u)'
      BY <2>1, <3>1, <3>2, <3>4 DEF Waits, Invited, Replied
    <3>6. \A r, q \in Rooms : <<r, u>> \notin invites'
      BY <2>1, <3>1 DEF Invited
    <3>7. \A b \in BOOLEAN : <<u, b>> \notin answers'
      BY <2>1, <3>4 DEF Replied
    <3>8. \A v \in Users \ {u} :
            /\ Waits(v)' <=> Waits(v)
            /\ Invited(v)' <=> Invited(v)
            /\ Replied(v)' <=> Replied(v)
      BY <2>2, <3>4 DEF Waits, Invited, Replied
    <3>9. \A v \in Users \ {u} :
            /\ \A m, k \in Names : v \in waiting'[m] /\ v \in waiting'[k] => m = k
            /\ \A r, q \in Rooms : <<r, v>> \in invites' /\ <<q, v>> \in invites' => r = q
            /\ \A b, c \in BOOLEAN : <<v, b>> \in answers' /\ <<v, c>> \in answers' => b = c
      BY <2>2, <3>1, <3>4 DEF OnTheWay
    <3> QED
      BY <2>2, <2>3, <3>2, <3>5, <3>6, <3>7, <3>8, <3>9 DEF OnTheWay
  <2> QED
    BY <2>4, <2>5
<1> QED
  BY <1>3, <1>4, <1>5, <1>6, <1>7, <1>8

\* The reply to an invitation is the last place; it is left with an answer.
LEMMA InvitedStep ==
    ASSUME RoomsInv, NEW u \in Users, NEW success \in BOOLEAN, OnInvited(u, success)
    PROVE  RoomsInv'
<1> USE RoomAssumption DEF RoomsInv, OnInvited, matrix, homeserver, rooms
<1>1. TempTypeOK'
  BY DEF TempTypeOK, Memberships, Phases, Events, Name
<1>2. EntryIsInhabited'
  BY DEF TempTypeOK, EntryIsInhabited, IsEmpty
<1>3. NameComesFirst'
  BY DEF TempTypeOK, NameComesFirst, Name
<1>4. NamedOnly'
  BY DEF TempTypeOK, NamedOnly, NameComesFirst
<1>5. AdaptersAreServed'
  BY DEF TempTypeOK, AdaptersAreServed
<1>6. OnTheWay'
  BY DEF TempTypeOK, OnTheWay, Waits, Invited, Replied
<1> QED
  BY <1>1, <1>2, <1>3, <1>4, <1>5, <1>6

\* Presence sends kicks, to rooms that have a name only.
LEMMA PresenceStep ==
    ASSUME RoomsInv, NEW u \in Users, SyncPresence(u)
    PROVE  RoomsInv'
<1> USE RoomAssumption DEF RoomsInv, SyncPresence, matrix, homeserver, rooms, users
<1>1. TempTypeOK'
  BY DEF TempTypeOK, Memberships, Phases, Events, Name
<1>2. EntryIsInhabited'
  BY DEF TempTypeOK, EntryIsInhabited, IsEmpty
<1>3. NameComesFirst'
  BY DEF TempTypeOK, NameComesFirst, Name
<1>4. NamedOnly'
  BY DEF TempTypeOK, NamedOnly, NameComesFirst
<1>5. AdaptersAreServed'
  BY DEF TempTypeOK, AdaptersAreServed
<1>6. OnTheWay'
  BY DEF TempTypeOK, OnTheWay, Waits, Invited, Replied
<1> QED
  BY <1>1, <1>2, <1>3, <1>4, <1>5, <1>6

\* A failed sync counts as a failed request.
LEMMA SyncEndsStep ==
    ASSUME RoomsInv, SyncEnds
    PROVE  RoomsInv'
<1> USE RoomAssumption DEF RoomsInv, SyncEnds, matrix, homeserver, rooms, users
<1>1. TempTypeOK'
  <2>1. failures' \in 0..MaxFailures
    BY DEF TempTypeOK
  <2> QED
    BY <2>1 DEF TempTypeOK
<1>2. EntryIsInhabited'
  BY DEF TempTypeOK, EntryIsInhabited, IsEmpty
<1>3. NameComesFirst'
  BY DEF TempTypeOK, NameComesFirst, Name
<1>4. NamedOnly'
  BY DEF TempTypeOK, NamedOnly, NameComesFirst
<1>5. AdaptersAreServed'
  BY DEF TempTypeOK, AdaptersAreServed
<1>6. OnTheWay'
  BY DEF TempTypeOK, OnTheWay, Waits, Invited, Replied
<1> QED
  BY <1>1, <1>2, <1>3, <1>4, <1>5, <1>6

\* A new room of a name is not known by that name yet.
LEMMA CreateStep ==
    ASSUME RoomsInv, NEW n \in Names, NEW r \in Rooms, CreateRoom(n, r)
    PROVE  RoomsInv'
<1> USE RoomAssumption DEF RoomsInv, CreateRoom, matrix, homeserver, rooms, users
<1>1. TempTypeOK'
  <2>1. <<Name>> \in Seq(Events)
    BY DEF Events
  <2>2. stream' \in [Rooms -> Seq(Events)]
    BY <2>1 DEF TempTypeOK
  <2>3. creating' \in [Names -> Nat]
    BY DEF TempTypeOK
  <2>4. roomName' \in [Rooms -> Names \cup {None}]
    BY DEF TempTypeOK
  <2> QED
    BY <2>2, <2>3, <2>4 DEF TempTypeOK
<1>2. EntryIsInhabited'
  BY ZenonT(30) DEF TempTypeOK, EntryIsInhabited, IsEmpty
<1>3. NameComesFirst'
  BY DEF TempTypeOK, NameComesFirst, Name
<1>4. NamedOnly'
  BY DEF TempTypeOK, NamedOnly, NameComesFirst
<1>5. AdaptersAreServed'
  <2>1. r \notin named /\ roomName'[r] = n
    BY DEF TempTypeOK, NameComesFirst
  <2>2. \A q \in Rooms \ {r} : roomName'[q] = roomName[q]
    BY DEF TempTypeOK
  <2>3. \A m \in Names \ {n} : creating'[m] = creating[m]
    BY DEF TempTypeOK
  <2>4. \A m \in Names : m # n /\ (\E q \in Rooms \ named : roomName[q] = m)
                           => \E q \in Rooms \ named : roomName'[q] = m
    BY <2>2
  <2> QED
    BY <2>1, <2>3, <2>4 DEF AdaptersAreServed
<1>6. OnTheWay'
  BY DEF TempTypeOK, OnTheWay, Waits, Invited, Replied
<1> QED
  BY <1>1, <1>2, <1>3, <1>4, <1>5, <1>6

\* A failed creation counts as one.
LEMMA CreateFailsStep ==
    ASSUME RoomsInv, NEW n \in Names, CreateFails(n)
    PROVE  RoomsInv'
<1> USE RoomAssumption DEF RoomsInv, CreateFails, matrix, homeserver, rooms, users
<1>1. TempTypeOK'
  BY DEF TempTypeOK, Memberships, Phases, Events, Name
<1>2. EntryIsInhabited'
  BY DEF TempTypeOK, EntryIsInhabited, IsEmpty
<1>3. NameComesFirst'
  BY DEF TempTypeOK, NameComesFirst, Name
<1>4. NamedOnly'
  BY DEF TempTypeOK, NamedOnly, NameComesFirst
<1>5. AdaptersAreServed'
  BY DEF TempTypeOK, AdaptersAreServed
<1>6. OnTheWay'
  BY DEF TempTypeOK, OnTheWay, Waits, Invited, Replied
<1> QED
  BY <1>1, <1>2, <1>3, <1>4, <1>5, <1>6

\* An invitation becomes an event of the room and a reply.
LEMMA InviteStep ==
    ASSUME RoomsInv, NEW r \in Rooms, NEW u \in Users, Invite(r, u)
    PROVE  RoomsInv'
<1> USE RoomAssumption DEF RoomsInv
<1>1. /\ <<r, u>> \in invites /\ invites' = invites \ {<<r, u>>}
      /\ answers' = answers \cup {<<u, TRUE>>}
      /\ target' = [target EXCEPT ![u] = r]
      /\ Changes(r, u, "invite")
      /\ UNCHANGED <<rooms, matrix, failed, creating, kicks, failures,
                     roomName, phase, online>>
  BY DEF Invite
<1>2. r \in named
  BY <1>1 DEF NamedOnly
<1>3. /\ stream' \in [Rooms -> Seq(Events)]
      /\ hsMember' \in [Rooms -> [Users -> Memberships]]
      /\ NameComesFirst'
  <2>1. "invite" \in Memberships \ {"none"}
    BY DEF Memberships
  <2> QED
    BY <1>1, <1>2, <2>1, MemberChanges DEF matrix
<1>4. TempTypeOK'
  <2>1. <<u, TRUE>> \in Users \X BOOLEAN
    OBVIOUS
  <2>2. answers' \subseteq Users \X BOOLEAN
    BY <1>1, <2>1 DEF TempTypeOK
  <2>3. target' \in [Users -> Names \cup Rooms \cup {None}]
    BY <1>1 DEF TempTypeOK
  <2> QED
    BY <1>1, <1>3, <2>2, <2>3 DEF TempTypeOK, rooms, matrix
<1>5. EntryIsInhabited'
  BY <1>1 DEF EntryIsInhabited, rooms, matrix
<1>6. NamedOnly'
  BY <1>1 DEF NamedOnly, matrix
<1>7. AdaptersAreServed'
  BY <1>1 DEF AdaptersAreServed, rooms, matrix
<1>8. OnTheWay'
  BY <1>1 DEF TempTypeOK, OnTheWay, Waits, Invited, Replied, rooms
<1> QED
  BY <1>3, <1>4, <1>5, <1>6, <1>7, <1>8

\* A failed invitation is a reply too.
LEMMA InviteFailsStep ==
    ASSUME RoomsInv, NEW r \in Rooms, NEW u \in Users, InviteFails(r, u)
    PROVE  RoomsInv'
<1> USE RoomAssumption DEF RoomsInv, InviteFails, matrix, homeserver, rooms, users
<1>1. TempTypeOK'
  <2>1. answers' \subseteq Users \X BOOLEAN
    <3>1. <<u, FALSE>> \in Users \X BOOLEAN
      OBVIOUS
    <3> QED
      BY <3>1 DEF TempTypeOK
  <2>2. failures' \in 0..MaxFailures
    BY DEF TempTypeOK
  <2> QED
    BY <2>1, <2>2 DEF TempTypeOK
<1>2. EntryIsInhabited'
  BY DEF TempTypeOK, EntryIsInhabited, IsEmpty
<1>3. NameComesFirst'
  BY DEF TempTypeOK, NameComesFirst, Name
<1>4. NamedOnly'
  BY DEF TempTypeOK, NamedOnly, NameComesFirst
<1>5. AdaptersAreServed'
  BY DEF TempTypeOK, AdaptersAreServed
<1>6. OnTheWay'
  BY DEF TempTypeOK, OnTheWay, Waits, Invited, Replied
<1> QED
  BY <1>1, <1>2, <1>3, <1>4, <1>5, <1>6

\* A kick is an event of the room, or none when the user is gone.
LEMMA KickStep ==
    ASSUME RoomsInv, NEW r \in Rooms, NEW u \in Users, Kick(r, u)
    PROVE  RoomsInv'
<1> USE RoomAssumption DEF RoomsInv
<1>1. /\ <<r, u>> \in kicks /\ kicks' = kicks \ {<<r, u>>}
      /\ Changes(r, u, "leave") \/ UNCHANGED <<hsMember, stream>>
      /\ UNCHANGED <<rooms, matrix, failed, creating, invites, answers,
                     failures, roomName, users>>
  BY DEF Kick
<1>2. r \in named
  BY <1>1 DEF NamedOnly
<1>3. /\ stream' \in [Rooms -> Seq(Events)]
      /\ hsMember' \in [Rooms -> [Users -> Memberships]]
      /\ NameComesFirst'
  <2>1. "leave" \in Memberships \ {"none"}
    BY DEF Memberships
  <2>2. CASE Changes(r, u, "leave")
    BY <1>1, <1>2, <2>1, <2>2, MemberChanges DEF matrix
  <2>3. CASE UNCHANGED <<hsMember, stream>>
    BY <1>1, <2>3 DEF TempTypeOK, NameComesFirst, matrix
  <2> QED
    BY <1>1, <2>2, <2>3
<1>4. TempTypeOK'
  BY <1>1, <1>3 DEF TempTypeOK, rooms, matrix, users
<1>5. EntryIsInhabited'
  BY <1>1 DEF EntryIsInhabited, rooms, matrix
<1>6. NamedOnly'
  BY <1>1 DEF NamedOnly, matrix
<1>7. AdaptersAreServed'
  BY <1>1 DEF AdaptersAreServed, rooms, matrix
<1>8. OnTheWay'
  BY <1>1 DEF OnTheWay, Waits, Invited, Replied, rooms, users
<1> QED
  BY <1>3, <1>4, <1>5, <1>6, <1>7, <1>8

\* A user that was answered joins.
LEMMA JoinStep ==
    ASSUME RoomsInv, NEW u \in Users, Join(u)
    PROVE  RoomsInv'
<1> USE RoomAssumption DEF RoomsInv
<1> DEFINE r == target[u]
<1>1. /\ phase[u] = "answered" /\ hsMember[r][u] = "invite"
      /\ phase' = [phase EXCEPT ![u] = "inside"]
      /\ Changes(r, u, "join")
      /\ UNCHANGED <<rooms, matrix, failed, requests, roomName, target, online>>
  BY DEF Join
<1> HIDE DEF r
<1>3. /\ stream' \in [Rooms -> Seq(Events)]
      /\ hsMember' \in [Rooms -> [Users -> Memberships]]
      /\ NameComesFirst'
  <2>1. "join" \in Memberships \ {"none"}
    BY DEF Memberships
  <2>2. CASE r \in Rooms
    <3>1. r \in named
      BY <1>1, <2>2 DEF NameComesFirst
    <3> QED
      BY <1>1, <2>1, <2>2, <3>1, MemberChanges DEF matrix
  <2>3. CASE r \notin Rooms
    <3>1. UNCHANGED <<stream, hsMember>>
      BY <1>1, <2>3 DEF Changes, TempTypeOK
    <3> QED
      BY <1>1, <3>1 DEF TempTypeOK, NameComesFirst, matrix
  <2> QED
    BY <2>2, <2>3
<1>4. TempTypeOK'
  BY <1>1, <1>3 DEF TempTypeOK, Phases, rooms, matrix, requests
<1>5. EntryIsInhabited'
  BY <1>1 DEF EntryIsInhabited, rooms, matrix
<1>6. NamedOnly'
  BY <1>1 DEF NamedOnly, matrix, requests
<1>7. AdaptersAreServed'
  BY <1>1 DEF AdaptersAreServed, rooms, matrix, requests
<1>8. OnTheWay'
  BY <1>1 DEF TempTypeOK, OnTheWay, Waits, Invited, Replied, rooms, requests
<1> QED
  BY <1>3, <1>4, <1>5, <1>6, <1>7, <1>8

\* A user leaves.
LEMMA LeaveStep ==
    ASSUME RoomsInv, NEW u \in Users, Leave(u)
    PROVE  RoomsInv'
<1> USE RoomAssumption DEF RoomsInv
<1> DEFINE r == target[u]
<1>1. /\ phase[u] = "inside" /\ hsMember[r][u] = "join"
      /\ phase' = [phase EXCEPT ![u] = "gone"]
      /\ Changes(r, u, "leave")
      /\ UNCHANGED <<rooms, matrix, failed, requests, roomName, target, online>>
  BY DEF Leave
<1> HIDE DEF r
<1>3. /\ stream' \in [Rooms -> Seq(Events)]
      /\ hsMember' \in [Rooms -> [Users -> Memberships]]
      /\ NameComesFirst'
  <2>1. "leave" \in Memberships \ {"none"}
    BY DEF Memberships
  <2>2. CASE r \in Rooms
    <3>1. r \in named
      BY <1>1, <2>2 DEF NameComesFirst
    <3> QED
      BY <1>1, <2>1, <2>2, <3>1, MemberChanges DEF matrix
  <2>3. CASE r \notin Rooms
    <3>1. UNCHANGED <<stream, hsMember>>
      BY <1>1, <2>3 DEF Changes, TempTypeOK
    <3> QED
      BY <1>1, <3>1 DEF TempTypeOK, NameComesFirst, matrix
  <2> QED
    BY <2>2, <2>3
<1>4. TempTypeOK'
  BY <1>1, <1>3 DEF TempTypeOK, Phases, rooms, matrix, requests
<1>5. EntryIsInhabited'
  BY <1>1 DEF EntryIsInhabited, rooms, matrix
<1>6. NamedOnly'
  BY <1>1 DEF NamedOnly, matrix, requests
<1>7. AdaptersAreServed'
  BY <1>1 DEF AdaptersAreServed, rooms, matrix, requests
<1>8. OnTheWay'
  BY <1>1 DEF TempTypeOK, OnTheWay, Waits, Invited, Replied, rooms, requests
<1> QED
  BY <1>3, <1>4, <1>5, <1>6, <1>7, <1>8

\* A crash changes nothing the server knows.
LEMMA CrashStep ==
    ASSUME RoomsInv, NEW u \in Users, Crash(u)
    PROVE  RoomsInv'
<1> USE RoomAssumption DEF RoomsInv, Crash, matrix, requests, homeserver, rooms, users
<1>1. TempTypeOK'
  BY DEF TempTypeOK, Memberships, Phases, Events, Name
<1>2. EntryIsInhabited'
  BY DEF TempTypeOK, EntryIsInhabited, IsEmpty
<1>3. NameComesFirst'
  BY DEF TempTypeOK, NameComesFirst, Name
<1>4. NamedOnly'
  BY DEF TempTypeOK, NamedOnly, NameComesFirst
<1>5. AdaptersAreServed'
  BY DEF TempTypeOK, AdaptersAreServed
<1>6. OnTheWay'
  BY DEF TempTypeOK, OnTheWay, Waits, Invited, Replied
<1> QED
  BY <1>1, <1>2, <1>3, <1>4, <1>5, <1>6

\* The name comes: the adapter has its room, and who waited is invited.
LEMMA NameStep ==
    ASSUME RoomsInv, NEW r \in Rooms, Sync(r), Head(stream[r]) = Name
    PROVE  RoomsInv'
<1> USE RoomAssumption DEF RoomsInv
<1> DEFINE n == roomName[r]
<1>1. /\ stream[r] # <<>> /\ stream' = [stream EXCEPT ![r] = Tail(@)]
      /\ named' = named \cup {r}
      /\ entry' = [entry EXCEPT ![n] = r]
      /\ waiting' = [waiting EXCEPT ![n] = {}]
      /\ invites' = invites \cup ({r} \X waiting[n])
      /\ UNCHANGED <<member, failed, phase, seen, syncing, creating, answers,
                     kicks, failures, roomName, hsMember, target, online>>
  BY DEF Sync, OnNewRoom
<1>2. r \notin named
  BY <1>1 DEF NameComesFirst, TempTypeOK
<1>3. n \in Names /\ stream[r] = <<Name>>
  BY <1>1, <1>2 DEF NameComesFirst, TempTypeOK
<1>4. stream'[r] = <<>>
  BY <1>1, <1>3 DEF TempTypeOK
<1> HIDE DEF n
<1>5. TempTypeOK'
  <2>1. /\ stream' \in [Rooms -> Seq(Events)]
        /\ waiting' \in [Names -> SUBSET Users]
        /\ entry' \in [Names -> Rooms \cup {None, "waiting"}]
    BY <1>1, <1>3, <1>4 DEF TempTypeOK
  <2>2. invites' \subseteq Rooms \X Users
    BY <1>1, <1>3 DEF TempTypeOK
  <2>3. \A m \in Names : waiting'[m] # {} => entry'[m] = "waiting"
    BY <1>1, <1>3 DEF TempTypeOK
  <2> QED
    BY <1>1, <2>1, <2>2, <2>3 DEF TempTypeOK
<1>6. EntryIsInhabited'
  BY <1>1, <1>2, <1>3 DEF EntryIsInhabited, NameComesFirst, TempTypeOK, n
<1>7. NameComesFirst'
  BY <1>1, <1>3, <1>4 DEF NameComesFirst, TempTypeOK, n
<1>8. NamedOnly'
  BY <1>1 DEF NamedOnly
<1>9. AdaptersAreServed'
  BY <1>1, <1>3 DEF AdaptersAreServed, TempTypeOK, n
<1>10. OnTheWay'
  BY <1>1, <1>3 DEF OnTheWay, Waits, Invited, Replied, TempTypeOK
<1> QED
  BY <1>5, <1>6, <1>7, <1>8, <1>9, <1>10

\* A member changes: the last one that leaves empties the room, and its name's
\* adapter goes, be it the adapter of this room or of another.
LEMMA EventStep ==
    ASSUME RoomsInv, NEW r \in Rooms, Sync(r), Head(stream[r]) # Name
    PROVE  RoomsInv'
<1> USE RoomAssumption DEF RoomsInv
<1> DEFINE n == roomName[r]
           u == Head(stream[r]).user
           state == Head(stream[r]).state
           empties == member[r][u] # state /\ IsEmpty(member'[r])
<1>1. /\ stream[r] # <<>> /\ stream' = [stream EXCEPT ![r] = Tail(@)]
      /\ member' = [member EXCEPT ![r][u] = state]
      /\ empties => OnEmpty(n)
      /\ ~empties => UNCHANGED <<rooms, failed, phase>>
      /\ UNCHANGED <<named, invites, seen, syncing, creating, answers, kicks,
                     failures, roomName, hsMember, target, online>>
  BY DEF Sync, OnMember
<1>2. Head(stream[r]) \in Events /\ Tail(stream[r]) \in Seq(Events)
  BY <1>1 DEF TempTypeOK
<1>3. u \in Users /\ state \in Memberships \ {"none"}
  BY <1>2 DEF Events
<1>4. r \in named /\ n \in Names
  BY <1>1 DEF NameComesFirst, TempTypeOK
<1>5. /\ member' \in [Rooms -> [Users -> Memberships]]
      /\ \A q \in Rooms \ {r} : member'[q] = member[q]
      /\ member[r][u] = state => member' = member
  BY <1>1, <1>3 DEF TempTypeOK
<1> HIDE DEF n, u, state, empties
<1>6. \/ UNCHANGED <<rooms, phase>> /\ (empties => entry[n] \notin Rooms)
      \/ /\ entry' = [entry EXCEPT ![n] = None]
         /\ waiting' = [waiting EXCEPT ![n] = {}]
         /\ phase' = [v \in Users |-> IF v \in waiting[n] THEN "refused" ELSE phase[v]]
  BY <1>1, <1>4 DEF OnEmpty, TempTypeOK, rooms
<1>7. failed' \subseteq Assertions
  BY <1>1 DEF OnEmpty, TempTypeOK, Assertions
<1>8. TempTypeOK'
  <2>1. stream' \in [Rooms -> Seq(Events)]
    BY <1>1, <1>2 DEF TempTypeOK
  <2>2. /\ waiting' \in [Names -> SUBSET Users]
        /\ entry' \in [Names -> Rooms \cup {None, "waiting"}]
        /\ phase' \in [Users -> Phases]
    BY <1>4, <1>6 DEF TempTypeOK, Phases, rooms
  <2>3. \A m \in Names : waiting'[m] # {} => entry'[m] = "waiting"
    BY <1>4, <1>6 DEF TempTypeOK, rooms
  <2> QED
    BY <1>1, <1>5, <1>7, <2>1, <2>2, <2>3 DEF TempTypeOK
<1>9. EntryIsInhabited'
  <2>1. \A m \in Names : entry'[m] \in Rooms => entry'[m] = entry[m]
    BY <1>4, <1>6 DEF TempTypeOK, rooms
  <2>2. \A m \in Names : entry'[m] = r => m = n
    BY <2>1 DEF EntryIsInhabited, n
  <2>3. ASSUME entry'[n] = r PROVE ~empties
    BY <1>4, <1>6, <2>3 DEF TempTypeOK, rooms
  <2>4. ASSUME entry'[n] = r
        PROVE  \/ \A v \in Users : member'[r][v] = "none"
               \/ ~IsEmpty(member'[r])
    BY <1>4, <1>5, <2>1, <2>3, <2>4 DEF EntryIsInhabited, empties
  <2> QED
    BY <1>1, <1>5, <2>1, <2>2, <2>4 DEF EntryIsInhabited
<1>10. NameComesFirst'
  <2>1. \A i \in DOMAIN Tail(stream[r]) : Tail(stream[r])[i] # Name
    BY <1>1, <1>4 DEF NameComesFirst, TempTypeOK
  <2> QED
    BY <1>1, <1>4, <1>5, <2>1 DEF NameComesFirst, TempTypeOK
<1>11. NamedOnly'
  BY <1>1 DEF NamedOnly
<1>12. AdaptersAreServed'
  BY <1>1, <1>4, <1>6 DEF AdaptersAreServed, TempTypeOK, rooms
<1>13. OnTheWay'
  <2>1. CASE UNCHANGED <<rooms, phase>>
    BY <1>1, <2>1 DEF OnTheWay, Waits, Invited, Replied, rooms
  <2>2. CASE /\ waiting' = [waiting EXCEPT ![n] = {}]
             /\ phase' = [v \in Users |->
                             IF v \in waiting[n] THEN "refused" ELSE phase[v]]
    <3>1. \A v \in Users, m \in Names :
            v \in waiting'[m] <=> v \in waiting[m] /\ m # n
      BY <1>4, <2>2 DEF TempTypeOK
    <3>2. \A v \in Users : (Invited(v)' <=> Invited(v)) /\ (Replied(v)' <=> Replied(v))
      BY <1>1 DEF Invited, Replied
    <3>3. \A v \in Users : v \in waiting[n] =>
            Waits(v) /\ ~Waits(v)' /\ phase'[v] = "refused"
      BY <1>4, <2>2, <3>1 DEF OnTheWay, Waits
    <3>4. \A v \in Users : v \notin waiting[n] =>
            (Waits(v)' <=> Waits(v)) /\ phase'[v] = phase[v]
      BY <2>2, <3>1 DEF Waits
    <3>5. \A v \in Users :
            /\ ~(Waits(v)' /\ Invited(v)') /\ ~(Waits(v)' /\ Replied(v)')
            /\ ~(Invited(v)' /\ Replied(v)')
            /\ phase'[v] = "asking" <=> Waits(v)' \/ Invited(v)' \/ Replied(v)'
      BY <3>2, <3>3, <3>4 DEF OnTheWay
    <3>6. \A v \in Users :
            /\ \A m, k \in Names : v \in waiting'[m] /\ v \in waiting'[k] => m = k
            /\ \A q, k \in Rooms : <<q, v>> \in invites' /\ <<k, v>> \in invites' => q = k
            /\ \A b, c \in BOOLEAN : <<v, b>> \in answers' /\ <<v, c>> \in answers' => b = c
      BY <1>1, <3>1 DEF OnTheWay
    <3> QED
      BY <3>5, <3>6 DEF OnTheWay
  <2> QED
    BY <1>6, <2>1, <2>2
<1> QED
  BY <1>8, <1>9, <1>10, <1>11, <1>12, <1>13

\* The invariant is inductive.
LEMMA RoomsNext == RoomsInv /\ [TempNext]_tempVars => RoomsInv'
<1> SUFFICES ASSUME RoomsInv, [TempNext]_tempVars PROVE RoomsInv'
  OBVIOUS
<1>1. CASE ServerStep
  BY <1>1, InvitedStep, NameStep, EventStep, PresenceStep DEF ServerStep
<1>2. CASE HomeserverStep
  BY <1>2, CreateStep, InviteStep, KickStep DEF HomeserverStep
<1>3. CASE Failure
  BY <1>3, SyncEndsStep, CreateFailsStep, InviteFailsStep DEF Failure
<1>4. ASSUME NEW u \in Users,
             (\E n \in Names : GetOrCreate(u, n)) \/ Join(u) \/ Leave(u) \/ Crash(u)
      PROVE  RoomsInv'
  BY <1>4, AskStep, JoinStep, LeaveStep, CrashStep
<1>5. CASE UNCHANGED tempVars
  <2> USE <1>5 DEF RoomsInv, tempVars, rooms, matrix, requests, homeserver, users
  <2>1. TempTypeOK' /\ EntryIsInhabited' /\ NameComesFirst' /\ NamedOnly'
    BY DEF TempTypeOK, EntryIsInhabited, IsEmpty, NameComesFirst, NamedOnly
  <2>2. AdaptersAreServed'
    BY DEF AdaptersAreServed
  <2>3. OnTheWay'
    BY DEF OnTheWay, Waits, Invited, Replied
  <2> QED
    BY <2>1, <2>2, <2>3
<1> QED
  BY <1>1, <1>2, <1>3, <1>4, <1>5 DEF TempNext

\* The invariant holds in every behaviour.
LEMMA RoomsInvariant == TempSpec => []RoomsInv
BY RoomsInit, RoomsNext, PTL DEF TempSpec

-----------------------------------------------------------------------------
(* The theorems                                                            *)

\* In every reachable state each variable holds values of its type.
THEOREM RoomsTypeCorrect == TempSpec => []TempTypeOK
<1>1. RoomsInv => TempTypeOK
  BY DEF RoomsInv
<1> QED
  BY <1>1, RoomsInvariant, PTL

\* A set whose members are all equal to one of them has one member.
LEMMA OneMember ==
    ASSUME NEW S, NEW x \in S, \A y \in S : y = x
    PROVE  Cardinality(S) = 1
<1>1. S = {x}
  OBVIOUS
<1> QED
  BY <1>1, FS_Singleton

\* A user that asks is in exactly one place.
LEMMA OnePlace == RoomsInv => AskersAreSomewhere
<1> SUFFICES ASSUME RoomsInv, NEW u \in Users, phase[u] = "asking"
             PROVE  Cardinality({n \in Names : u \in waiting[n]}
                                \cup {r \in Rooms : <<r, u>> \in invites}
                                \cup {a \in answers : a[1] = u}) = 1
  BY DEF AskersAreSomewhere
<1> DEFINE W == {n \in Names : u \in waiting[n]}
           I == {r \in Rooms : <<r, u>> \in invites}
           A == {a \in answers : a[1] = u}
<1>1. \A a \in A : \E b \in BOOLEAN : a = <<u, b>>
  BY DEF RoomsInv, TempTypeOK
<1>2. /\ \A n, m \in W : n = m
      /\ \A r, q \in I : r = q
      /\ \A a, b \in A : a = b
  BY <1>1 DEF RoomsInv, OnTheWay
<1>3. /\ W # {} => Waits(u)
      /\ I # {} => Invited(u)
      /\ A # {} => Replied(u)
  BY <1>1 DEF Waits, Invited, Replied
<1>4. W # {} \/ I # {} \/ A # {}
  <2>1. Waits(u) => W # {}
    BY DEF Waits
  <2>2. Invited(u) => I # {}
    BY DEF Invited
  <2>3. Replied(u) => A # {}
    BY DEF Replied
  <2> QED
    BY <2>1, <2>2, <2>3 DEF RoomsInv, OnTheWay
<1>5. /\ ~(W # {} /\ I # {}) /\ ~(W # {} /\ A # {}) /\ ~(I # {} /\ A # {})
  BY <1>3 DEF RoomsInv, OnTheWay
<1> HIDE DEF W, I, A
<1>6. PICK x \in W \cup I \cup A : TRUE
  BY <1>4
<1>7. \A y \in W \cup I \cup A : y = x
  BY <1>2, <1>5, <1>6
<1>8. Cardinality(W \cup I \cup A) = 1
  BY <1>7, OneMember
<1> QED
  BY <1>8 DEF W, I, A

\* The rooms are sound: a name leads to a room of that name that is in use,
\* nobody waits for nothing, and a request is in one place until it is answered
\* (temporary_room/rooms/rooms.cpp:23-111), however the handlers interleave
\* with the homeserver, whatever fails, and however many users ask.
THEOREM RoomsSound == TempSpec => []RoomsAreSound
<1>1. RoomsInv => WaitersAreServed
  BY DEF RoomsInv, TempTypeOK, AdaptersAreServed, WaitersAreServed
<1>2. RoomsInv => RoomsAreSound
  BY <1>1, OnePlace DEF RoomsInv, RoomsAreSound
<1> QED
  BY <1>2, RoomsInvariant, PTL

=============================================================================
