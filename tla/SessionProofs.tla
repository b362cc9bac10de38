---------------------------- MODULE SessionProofs ----------------------------
(***************************************************************************)
(* A user's session, proved for any number of attempts to join, of other   *)
(* users and of failing requests: the sync never stalls and is the only    *)
(* one, those the room shows are its members, and nobody appears once the  *)
(* user leaves.                                                            *)
(***************************************************************************)
EXTENDS Session, TLAPS

-----------------------------------------------------------------------------
(* The inductive invariant                                                 *)

\* A membership comes after another: nobody that joined is invited, and who
\* left does not come back.
Precedes(a, b) ==
    \/ a = "none" /\ b \in {"invite", "join", "leave"}
    \/ a = "invite" /\ b \in {"join", "leave"}
    \/ a = "join" /\ b = "leave"

\* The requests of an attempt before and after its account is there.
Asking == {"version", "register"}
Entering == {"name", "temporary", "join", "joined"}

\* There is an account for the attempt, to be made or made, and one for whom
\* the synchronizer has.
Accounts == /\ step \in Asking => accounts # Clients
            /\ step \in Entering => joining \in accounts
            /\ synced \in accounts \cup {None}

\* A client has a room in the homeserver, in matrix and in the program, in this
\* order; there is one room, and an attempt to join only while there is none.
OneRoom ==
    /\ session \in accounts \cup {None} /\ dropped \in accounts \cup {None}
    /\ session = None \/ dropped = None
    /\ step # "idle" => session = None
    /\ step \in Entering => dropped # joining
    /\ session \in inside => session \in known
    /\ closing # {} => leaving # "no"

\* A client whose sync is on has a request under way.
ActiveAsks == \A c \in active : action[c] \in {"connecting", "polling"}

\* c is the synchronizer's, which asks or waits to ask.
Served(c) == synced = c /\ (c \in active \/ timer)

\* The client of the attempt is served, and then that of the room.
AllServed == /\ step \in Entering => Served(joining)
             /\ session # None /\ leaving = "no" => Served(session)

\* What the session is still to hear of m is in order, up to what m is now.
InOrder(m) ==
    /\ \A i \in 1..Len(news[m]) :
        /\ Precedes("none", news[m][i])
        /\ news[m][i] = members[m] \/ Precedes(news[m][i], members[m])
    /\ \A i, j \in 1..Len(news[m]) : i < j => Precedes(news[m][i], news[m][j])

\* It comes after what the session knows.
IsNew(m) ==
    /\ \A i \in 1..Len(news[m]) : Precedes(state[m], news[m][i])
    /\ state[m] = members[m] \/ Precedes(state[m], members[m])

NewsIsNew == /\ session # None \/ step = "joined" => \A m \in Members : InOrder(m)
             /\ session # None => \A m \in Members : IsNew(m)

\* What holds until an assertion fails.
Sound == /\ OneRoom /\ ActiveAsks /\ OneSync /\ AllServed
         /\ NewsIsNew /\ ParticipantsAreMembers

SessionInv == SessionTypeOK /\ Accounts /\ (Running => Sound)

-----------------------------------------------------------------------------
(* The attempt to join                                                     *)

\* An assertion that failed stays so.
LEMMA FailLemma ==
    ASSUME NEW what, Fail(what) \/ UNCHANGED failed
    PROVE  /\ Running' => Running /\ UNCHANGED failed
           /\ Fail(what) => ~Running'
BY DEF Fail, Running

\* The user asks for a room, and the first answers come.
LEMMA AskStep ==
    ASSUME SessionInv, Join \/ VersionIsFine
    PROVE  SessionInv'
<1>1. /\ step' \in Asking /\ Running
      /\ session = None /\ accounts # Clients
      /\ UNCHANGED <<joining, room, sync, failed, errors, homeserver>>
  BY DEF SessionInv, Sound, OneRoom, Accounts, Join, VersionIsFine, Asking
<1> USE DEF room, sync, homeserver
<1>2. SessionTypeOK'
  BY <1>1 DEF SessionInv, SessionTypeOK, Asking, Steps
<1>3. Accounts'
  BY <1>1 DEF SessionInv, Accounts, Asking, Entering
<1>4. OneRoom'
  BY <1>1 DEF SessionInv, Sound, OneRoom, Asking, Entering
<1>5. ActiveAsks' /\ OneSync' /\ ParticipantsAreMembers'
  BY <1>1 DEF SessionInv, Sound, ActiveAsks, OneSync, ParticipantsAreMembers, Running
<1>6. AllServed'
  BY <1>1 DEF AllServed, Asking, Entering
<1>7. NewsIsNew'
  BY <1>1 DEF NewsIsNew, Asking
<1> QED
  BY <1>2, <1>3, <1>4, <1>5, <1>6, <1>7 DEF SessionInv, Sound

\* The account is there: its client is new, and becomes the synchronizer's, if
\* that has none.
LEMMA RegisteredStep ==
    ASSUME SessionInv, Registered
    PROVE  SessionInv'
<1> DEFINE c == NewAccount
<1>0. SessionTypeOK /\ Accounts /\ Sound
  BY DEF SessionInv, Registered
<1>1. c \in Clients /\ c \notin accounts
  BY <1>0 DEF NewAccount, Accounts, Registered, Asking, SessionTypeOK
<1> HIDE DEF c
<1>2. /\ step = "register" /\ step' = "name" /\ joining' = c /\ accounts' = accounts \cup {c}
      /\ UNCHANGED <<room, timer, known, errors, homeserver>>
      /\ \/ Fail("set:17") /\ UNCHANGED <<synced, active, action>>
         \/ synced = None /\ synced' = c /\ StartSync(c) /\ UNCHANGED failed
  BY DEF Registered, c
<1> USE DEF room, homeserver
<1>3. /\ synced' \in Clients \cup {None} /\ active' \subseteq accounts'
      /\ action' \in [Clients -> Actions]
  BY <1>0, <1>1, <1>2 DEF SessionTypeOK, StartSync, Actions
<1>4. SessionTypeOK'
  BY <1>0, <1>1, <1>2, <1>3 DEF SessionTypeOK, Steps
<1>5. Accounts'
  BY <1>0, <1>1, <1>2 DEF Accounts, Asking, Entering
<1> SUFFICES ASSUME Running' PROVE Sound'
  BY <1>4, <1>5 DEF SessionInv
<1>6. /\ synced = None /\ synced' = c /\ active' = active \cup {c} /\ UNCHANGED failed
      /\ action' = [action EXCEPT ![c] = "connecting"]
  BY <1>2, FailLemma DEF StartSync
<1>7. action'[c] = "connecting" /\ \A d \in Clients \ {c} : action'[d] = action[d]
  BY <1>0, <1>1, <1>6 DEF SessionTypeOK
<1>8. active \subseteq Clients /\ None \notin Clients
  BY <1>0, SessionAssumption DEF SessionTypeOK
<1>r. Running
  BY <1>6 DEF Running
<1>9. OneRoom'
  BY <1>0, <1>1, <1>2, <1>8 DEF Sound, OneRoom, SessionTypeOK, Entering
<1>10. ActiveAsks'
  BY <1>0, <1>6, <1>7, <1>8 DEF Sound, ActiveAsks
<1>11. ~timer /\ \A d \in Clients : action[d] \notin {"connecting", "polling", "cancelled"}
  BY <1>0, <1>6, <1>8, <1>r DEF Sound, OneSync
<1>12. OneSync'
  BY <1>2, <1>6, <1>7, <1>11 DEF OneSync
<1>13. AllServed'
  BY <1>0, <1>2, <1>6 DEF AllServed, Served, Sound, OneRoom
<1>14. NewsIsNew'
  BY <1>0, <1>2 DEF Sound, NewsIsNew, OneRoom
<1>15. ParticipantsAreMembers'
  BY <1>0, <1>2, <1>r DEF Sound, ParticipantsAreMembers
<1> QED
  BY <1>9, <1>10, <1>12, <1>13, <1>14, <1>15 DEF Sound

\* The name is set, and the temporary room found.
LEMMA EnterStep ==
    ASSUME SessionInv, NameSet \/ TemporaryRoomJoined
    PROVE  SessionInv'
<1>1. /\ step \in Entering /\ step' \in {"temporary", "join"} /\ Running
      /\ UNCHANGED <<joining, room, sync, failed, errors, homeserver>>
  BY DEF NameSet, TemporaryRoomJoined, Entering
<1> USE DEF room, sync, homeserver
<1>2. SessionTypeOK'
  BY <1>1 DEF SessionInv, SessionTypeOK, Steps
<1>3. Accounts'
  BY <1>1 DEF SessionInv, Accounts, Asking, Entering
<1>4. OneRoom'
  BY <1>1 DEF SessionInv, Sound, OneRoom, Entering
<1>5. ActiveAsks' /\ OneSync' /\ ParticipantsAreMembers'
  BY <1>1 DEF SessionInv, Sound, ActiveAsks, OneSync, ParticipantsAreMembers, Running
<1>6. AllServed'
  BY <1>1 DEF SessionInv, Sound, AllServed, Served, Entering
<1>7. NewsIsNew'
  BY <1>1 DEF SessionInv, Sound, NewsIsNew, OneRoom, Entering
<1> QED
  BY <1>2, <1>3, <1>4, <1>5, <1>6, <1>7 DEF SessionInv, Sound

\* The homeserver takes the account in, and will tell it how the others are.
LEMMA TakenInStep ==
    ASSUME SessionInv, TakenIn
    PROVE  SessionInv'
<1>1. /\ step = "join" /\ step' = "joined" /\ inside' = inside \cup {joining}
      /\ news' = [m \in Members |-> IF members[m] = "none" THEN <<>> ELSE <<members[m]>>]
      /\ UNCHANGED <<joining, room, sync, failed, errors, told, members>>
  BY DEF TakenIn
<1>0. SessionTypeOK /\ Accounts /\ joining \in accounts
  BY <1>1 DEF SessionInv, Accounts, Entering
<1> USE DEF room, sync
<1>2. news' \in [Members -> Seq(Memberships)]
  <2>1. \A m \in Members : members[m] \in Memberships
    BY <1>0 DEF SessionTypeOK
  <2> QED
    BY <1>1, <2>1
<1>3. SessionTypeOK'
  BY <1>0, <1>1, <1>2 DEF SessionTypeOK, Steps
<1>4. Accounts'
  BY <1>0, <1>1 DEF Accounts, Asking, Entering
<1> SUFFICES ASSUME Running' PROVE Sound'
  BY <1>3, <1>4 DEF SessionInv
<1>5. Running /\ Sound
  BY <1>1 DEF SessionInv, Running
<1>6. OneRoom'
  <2>1. session = None /\ None \notin accounts
    BY <1>0, <1>1, <1>5, SessionAssumption DEF Sound, OneRoom, SessionTypeOK
  <2> QED
    BY <1>0, <1>1, <1>5, <2>1 DEF Sound, OneRoom, Entering, SessionTypeOK
<1>7. ActiveAsks' /\ OneSync' /\ ParticipantsAreMembers'
  BY <1>1, <1>5 DEF Sound, ActiveAsks, OneSync, ParticipantsAreMembers
<1>8. AllServed'
  BY <1>1, <1>5 DEF Sound, AllServed, Served, Entering
<1>9. NewsIsNew'
  <2>1. session' = None
    BY <1>1, <1>5 DEF Sound, OneRoom
  <2>2. ASSUME NEW m \in Members PROVE InOrder(m)'
    <3>1. members[m] \in Memberships
      BY <1>0 DEF SessionTypeOK
    <3>2. CASE members[m] = "none"
      <4>1. news'[m] = <<>>
        BY <1>1, <3>2
      <4> QED
        BY <4>1 DEF InOrder
    <3>3. CASE members[m] # "none"
      <4>1. news'[m] = <<members[m]>> /\ members'[m] = members[m]
        BY <1>1, <3>3
      <4>2. Len(news'[m]) = 1 /\ news'[m][1] = members[m]
        BY <4>1
      <4>3. Precedes("none", members[m])
        BY <3>1, <3>3 DEF Precedes, Memberships
      <4> QED
        BY <4>1, <4>2, <4>3 DEF InOrder
    <3> QED
      BY <3>2, <3>3
  <2> QED
    BY <2>1, <2>2 DEF NewsIsNew
<1> QED
  BY <1>6, <1>7, <1>8, <1>9 DEF Sound

\* The room is the program's; nothing of it was heard yet.
LEMMA RoomJoinedStep ==
    ASSUME SessionInv, RoomJoined
    PROVE  SessionInv'
<1>0. SessionTypeOK /\ Accounts /\ Running /\ Sound /\ step = "joined" /\ joining \in accounts
  BY DEF SessionInv, RoomJoined, Accounts, Entering
<1>1. /\ step' = "idle" /\ joining' = None
      /\ UNCHANGED <<synced, timer, accounts, active, action, errors, homeserver>>
  BY DEF RoomJoined
<1>2. Accounts'
  BY <1>0, <1>1 DEF Accounts, Asking, Entering
<1> USE DEF homeserver
<1>3. CASE joining \in known
  <2>1. Fail("on_room_created:127") /\ UNCHANGED <<known, room>>
    BY <1>3 DEF RoomJoined
  <2>2. SessionTypeOK'
    BY <1>0, <1>1, <2>1 DEF SessionTypeOK, Steps, room
  <2> QED
    BY <1>2, <2>1, <2>2, FailLemma DEF SessionInv
<1>4. CASE joining \notin known
  <2>1. /\ known' = known \cup {joining} /\ session' = joining /\ dropped' = None
        /\ people' = {} /\ closing' = {} /\ leaving' = "no"
        /\ state' = [m \in Members |-> "none"] /\ UNCHANGED failed
    BY <1>4 DEF RoomJoined
  <2>2. state' \in [Members -> Memberships] /\ \A m \in Members : state'[m] = "none"
    BY <2>1 DEF Memberships
  <2>3. SessionTypeOK'
    BY <1>0, <1>1, <2>1, <2>2 DEF SessionTypeOK, Steps
  <2>4. OneRoom'
    BY <1>0, <1>1, <2>1 DEF OneRoom, Entering
  <2>5. ActiveAsks' /\ OneSync'
    BY <1>0, <1>1, <2>1 DEF Sound, ActiveAsks, OneSync
  <2>6. AllServed'
    BY <1>0, <1>1, <2>1 DEF Sound, AllServed, Served, Entering
  <2>7. NewsIsNew'
    <3> SUFFICES ASSUME NEW m \in Members PROVE InOrder(m)' /\ IsNew(m)'
      BY DEF NewsIsNew
    <3>1. InOrder(m)
      BY <1>0 DEF Sound, NewsIsNew
    <3>2. InOrder(m)'
      BY <1>1, <3>1 DEF InOrder
    <3>3. members[m] \in Memberships /\ state'[m] = "none"
      BY <1>0, <2>2 DEF SessionTypeOK
    <3>4. IsNew(m)'
      BY <1>1, <3>1, <3>3 DEF InOrder, IsNew, Memberships, Precedes
    <3> QED
      BY <3>2, <3>4
  <2>8. ParticipantsAreMembers'
    BY <2>1, <2>2 DEF ParticipantsAreMembers
  <2> QED
    BY <1>2, <2>3, <2>4, <2>5, <2>6, <2>7, <2>8 DEF SessionInv, Sound
<1> QED
  BY <1>3, <1>4

\* The attempt is given up.
LEMMA JoinFailsStep ==
    ASSUME SessionInv, JoinFails
    PROVE  SessionInv'
<1>0. SessionTypeOK /\ Accounts /\ Running /\ Sound
  BY DEF SessionInv, JoinFails
<1>1. /\ step' = "idle" /\ joining' = None /\ errors' = errors + 1 /\ errors < MaxErrors
      /\ session = None
      /\ UNCHANGED <<room, sync, failed, homeserver>>
  BY <1>0 DEF JoinFails, Sound, OneRoom
<1> USE DEF room, sync, homeserver
<1>2. errors' \in 0..MaxErrors
  BY <1>0, <1>1, SessionAssumption DEF SessionTypeOK
<1>3. SessionTypeOK'
  BY <1>0, <1>1, <1>2 DEF SessionTypeOK, Steps
<1>4. Accounts'
  BY <1>0, <1>1 DEF Accounts, Asking, Entering
<1>5. OneRoom'
  BY <1>0, <1>1 DEF Sound, OneRoom, Entering
<1>6. ActiveAsks' /\ OneSync' /\ ParticipantsAreMembers'
  BY <1>0, <1>1 DEF Sound, ActiveAsks, OneSync, ParticipantsAreMembers
<1>7. AllServed' /\ NewsIsNew'
  BY <1>1 DEF AllServed, NewsIsNew, Entering
<1> QED
  BY <1>3, <1>4, <1>5, <1>6, <1>7 DEF SessionInv, Sound

-----------------------------------------------------------------------------
(* The sync                                                                *)

\* A step of the sync alone, which leaves the homeserver, the room and the
\* members as they are.
LEMMA SyncAlone ==
    ASSUME SessionInv, Running, NEW c \in accounts \cup {None},
           UNCHANGED <<attempt, room, accounts, known, homeserver>>,
           errors' \in 0..MaxErrors, timer' \in BOOLEAN, synced' \in accounts \cup {None},
           active' \subseteq accounts, action' \in [Clients -> Actions],
           Running' => ActiveAsks' /\ OneSync' /\ AllServed'
    PROVE  SessionInv'
<1> USE DEF attempt, room, homeserver
<1>1. SessionTypeOK'
  BY DEF SessionInv, SessionTypeOK
<1>2. Accounts'
  BY DEF SessionInv, Accounts
<1>3. OneRoom' /\ NewsIsNew'
  BY DEF SessionInv, Sound, OneRoom, NewsIsNew, InOrder, IsNew
<1>4. Running' => ParticipantsAreMembers'
  BY DEF SessionInv, Sound, ParticipantsAreMembers
<1> QED
  BY <1>1, <1>2, <1>3, <1>4 DEF SessionInv, Sound

\* A request is under way.
LEMMA ConnectStep ==
    ASSUME SessionInv, NEW c \in Clients, Connect(c)
    PROVE  SessionInv'
<1>0. SessionTypeOK /\ Accounts /\ Running /\ Sound
  BY DEF SessionInv, Connect
<1>1. /\ action[c] = "connecting" /\ action' = [action EXCEPT ![c] = "polling"]
      /\ UNCHANGED <<attempt, room, synced, timer, accounts, active, known,
                     failed, errors, homeserver>>
  BY DEF Connect
<1>2. /\ action' \in [Clients -> Actions] /\ action'[c] = "polling"
      /\ \A d \in Clients \ {c} : action'[d] = action[d]
  BY <1>0, <1>1 DEF SessionTypeOK, Actions
<1>3. ActiveAsks'
  BY <1>0, <1>1, <1>2 DEF Sound, ActiveAsks, SessionTypeOK
<1>4. OneSync'
  BY <1>0, <1>1, <1>2 DEF Sound, OneSync
<1>5. AllServed'
  BY <1>0, <1>1 DEF Sound, AllServed, Served, attempt, room
<1>6. /\ errors' \in 0..MaxErrors /\ timer' \in BOOLEAN /\ synced' \in accounts \cup {None}
      /\ active' \subseteq accounts
  BY <1>0, <1>1 DEF SessionTypeOK, Accounts
<1> QED
  BY <1>0, <1>1, <1>2, <1>3, <1>4, <1>5, <1>6, SyncAlone

\* The client of a sync that was stopped is dropped: nobody counts on it.
LEMMA StoppedStep ==
    ASSUME SessionInv, NEW c \in Clients, Stopped(c)
    PROVE  SessionInv'
<1>0. SessionTypeOK /\ Accounts /\ Running /\ Sound
  BY DEF SessionInv, Stopped
<1>1. /\ c \notin active /\ action[c] \in {"polling", "cancelled"}
      /\ action' = [action EXCEPT ![c] = "done"] /\ synced' = None
      /\ UNCHANGED <<attempt, room, timer, accounts, active, known, failed,
                     errors, homeserver>>
  BY DEF Stopped
<1>2. /\ action' \in [Clients -> Actions] /\ action'[c] = "done"
      /\ \A d \in Clients \ {c} : action'[d] = action[d]
  BY <1>0, <1>1 DEF SessionTypeOK, Actions
<1>3. c = synced /\ ~timer
  BY <1>0, <1>1 DEF Sound, OneSync
<1>4. ActiveAsks'
  BY <1>0, <1>1, <1>2 DEF Sound, ActiveAsks, SessionTypeOK
<1>5. OneSync'
  BY <1>0, <1>1, <1>2, <1>3 DEF Sound, OneSync
<1>6. AllServed'
  BY <1>0, <1>1, <1>3 DEF Sound, AllServed, Served, attempt, room
<1>7. /\ errors' \in 0..MaxErrors /\ timer' \in BOOLEAN /\ synced' \in accounts \cup {None}
      /\ active' \subseteq accounts
  BY <1>0, <1>1 DEF SessionTypeOK, Accounts
<1> QED
  BY <1>0, <1>1, <1>2, <1>4, <1>5, <1>6, <1>7, SyncAlone

\* A request fails: it is the synchronizer's, whose timer is not running yet.
LEMMA SyncFailsStep ==
    ASSUME SessionInv, NEW c \in Clients, SyncFails(c)
    PROVE  SessionInv'
<1>0. SessionTypeOK /\ Accounts /\ Running /\ Sound
  BY DEF SessionInv, SyncFails
<1>1. /\ c \in active /\ action[c] \in {"connecting", "polling"} /\ errors < MaxErrors
      /\ errors' = errors + 1 /\ active' = active \ {c}
      /\ action' = [action EXCEPT ![c] = "none"]
      /\ UNCHANGED <<attempt, room, synced, accounts, known, homeserver>>
  BY DEF SyncFails
<1>2. c = synced /\ ~timer
  BY <1>0, <1>1 DEF Sound, OneSync
<1>3. timer' = TRUE /\ UNCHANGED failed
  BY <1>2 DEF SyncFails
<1>4. /\ action' \in [Clients -> Actions] /\ action'[c] = "none"
      /\ \A d \in Clients \ {c} : action'[d] = action[d]
  BY <1>0, <1>1 DEF SessionTypeOK, Actions
<1>5. None \notin Clients /\ errors' \in 0..MaxErrors
  BY <1>0, <1>1, SessionAssumption DEF SessionTypeOK
<1>6. ActiveAsks'
  BY <1>0, <1>1, <1>4 DEF Sound, ActiveAsks, SessionTypeOK
<1>7. OneSync'
  BY <1>0, <1>1, <1>2, <1>4, <1>5 DEF Sound, OneSync
<1>8. AllServed'
  BY <1>0, <1>1, <1>2, <1>3 DEF Sound, AllServed, Served, attempt, room
<1>9. synced' \in accounts \cup {None} /\ active' \subseteq accounts /\ timer' \in BOOLEAN
  BY <1>0, <1>1, <1>3 DEF SessionTypeOK, Accounts
<1> QED
  BY <1>0, <1>1, <1>4, <1>5, <1>6, <1>7, <1>8, <1>9, SyncAlone

\* The timer makes the next request.
LEMMA RetryStep ==
    ASSUME SessionInv, Retry
    PROVE  SessionInv'
<1>0. SessionTypeOK /\ Accounts /\ Running /\ Sound
  BY DEF SessionInv, Retry
<1>1. /\ timer /\ timer' = FALSE
      /\ UNCHANGED <<attempt, room, synced, accounts, known, errors, homeserver>>
  BY DEF Retry
<1>2. synced # None /\ synced \notin active /\ synced \in Clients
  BY <1>0, <1>1 DEF Sound, OneSync, SessionTypeOK
<1>3. /\ active' = active \cup {synced} /\ action' = [action EXCEPT ![synced] = "connecting"]
      /\ UNCHANGED failed
  BY <1>2 DEF Retry, StartSync
<1>4. /\ action' \in [Clients -> Actions] /\ action'[synced] = "connecting"
      /\ \A d \in Clients \ {synced} : action'[d] = action[d]
  BY <1>0, <1>2, <1>3 DEF SessionTypeOK, Actions
<1>5. ActiveAsks'
  BY <1>0, <1>3, <1>4 DEF Sound, ActiveAsks, SessionTypeOK
<1>6. OneSync'
  BY <1>0, <1>1, <1>4 DEF Sound, OneSync
<1>7. AllServed'
  BY <1>0, <1>1, <1>3 DEF Sound, AllServed, Served, attempt, room
<1>8. /\ errors' \in 0..MaxErrors /\ timer' \in BOOLEAN /\ synced' \in accounts \cup {None}
  BY <1>0, <1>1 DEF SessionTypeOK, Accounts
<1>9. active' \subseteq accounts
  BY <1>0, <1>2, <1>3 DEF SessionTypeOK, Accounts
<1> QED
  BY <1>0, <1>1, <1>4, <1>5, <1>6, <1>7, <1>8, <1>9, SyncAlone

-----------------------------------------------------------------------------
(* What a sync answer brings                                               *)

\* The next request is made, whatever the answer was.
LEMMA AsksAgain ==
    ASSUME SessionInv, NEW c \in Clients, Synced(c)
    PROVE  /\ c = synced /\ c \in active /\ Sound /\ Running /\ SessionTypeOK /\ Accounts
           /\ action' \in [Clients -> Actions]
           /\ UNCHANGED <<attempt, session, dropped, leaving, closing, synced, timer,
                          accounts, active, errors, inside, members>>
           /\ ActiveAsks' /\ (Running' => OneSync') /\ AllServed'
<1>0. SessionTypeOK /\ Accounts /\ Running /\ Sound
  BY DEF SessionInv, Synced
<1>1. /\ c \in active /\ action[c] = "polling"
      /\ action' = [action EXCEPT ![c] = "connecting"]
      /\ UNCHANGED <<attempt, session, dropped, leaving, closing, synced, timer,
                     accounts, active, errors, inside, members>>
  BY DEF Synced
<1>2. c = synced
  BY <1>0, <1>1 DEF Sound, OneSync
<1>3. /\ action' \in [Clients -> Actions] /\ action'[c] = "connecting"
      /\ \A d \in Clients \ {c} : action'[d] = action[d]
  BY <1>0, <1>1 DEF SessionTypeOK, Actions
<1>4. ActiveAsks'
  BY <1>0, <1>1, <1>3 DEF Sound, ActiveAsks, SessionTypeOK
<1>5. Running' => OneSync'
  BY <1>0, <1>1, <1>3 DEF Sound, OneSync
<1>6. AllServed'
  BY <1>0, <1>1 DEF Sound, AllServed, Served, attempt
<1> QED
  BY <1>0, <1>1, <1>2, <1>3, <1>4, <1>5, <1>6

\* The members and those the room shows are as they were.
LEMMA SyncedNothing ==
    ASSUME SessionInv, NEW c \in Clients, Synced(c),
           NothingHappened(c) \/ RoomAppears(c) \/ RoomVanishes(c)
    PROVE  SessionInv'
<1>0. /\ c = synced /\ c \in active /\ Sound /\ Running /\ SessionTypeOK /\ Accounts
      /\ action' \in [Clients -> Actions]
      /\ UNCHANGED <<attempt, session, dropped, leaving, closing, synced, timer,
                     accounts, active, errors, inside, members>>
      /\ ActiveAsks' /\ (Running' => OneSync') /\ AllServed'
  BY AsksAgain
<1>1. UNCHANGED <<people, state, news>>
  BY DEF NothingHappened, RoomAppears, RoomVanishes
<1>2. /\ known' \subseteq known \cup {c} /\ told' \subseteq told \cup {c}
      /\ \A d \in inside : d \in known => d \in known'
      /\ c \in known' \ known => c \in inside
  BY DEF NothingHappened, RoomAppears, RoomVanishes
<1> USE DEF attempt
<1>3. SessionTypeOK'
  BY <1>0, <1>1, <1>2 DEF SessionTypeOK
<1>4. Accounts'
  BY <1>0 DEF Accounts
<1>5. OneRoom'
  BY <1>0, <1>1, <1>2 DEF Sound, OneRoom
<1>6. NewsIsNew'
  BY <1>0, <1>1 DEF Sound, NewsIsNew, InOrder, IsNew
<1>7. ParticipantsAreMembers'
  <2>1. session \in known' => session \in known
    BY <1>0, <1>2 DEF Sound, OneRoom
  <2> QED
    BY <1>0, <1>1, <2>1 DEF Sound, ParticipantsAreMembers
<1> QED
  BY <1>0, <1>3, <1>4, <1>5, <1>6, <1>7 DEF SessionInv, Sound

\* The session hears of a member: those the room shows stay those that joined.
LEMMA MemberLemma ==
    ASSUME SessionTypeOK, NEW m \in Members, NEW to \in Memberships,
           Precedes(state[m], to), MemberChanges(m, to)
    PROVE  /\ state' \in [Members -> Memberships] /\ people' \subseteq Members
           /\ state'[m] = to /\ \A o \in Members \ {m} : state'[o] = state[o]
           /\ (Running' => Running /\ UNCHANGED failed)
           /\ Running' /\ people = {o \in Members : state[o] = "join"} =>
                  people' = {o \in Members : state'[o] = "join"}
<1>1. /\ state' = [state EXCEPT ![m] = to]
      /\ \/ UNCHANGED <<people, failed>> /\ to # "join" /\ (to = "leave" => state[m] = "none")
         \/ to = "join" /\ Add(m)
         \/ to = "leave" /\ Remove(m)
  BY DEF MemberChanges, Precedes
<1>2. /\ state' \in [Members -> Memberships]
      /\ state'[m] = to /\ \A o \in Members \ {m} : state'[o] = state[o]
  BY <1>1 DEF SessionTypeOK
<1>3. people' \subseteq Members
  BY <1>1 DEF SessionTypeOK, Add, Remove
<1>4. Running' => Running /\ UNCHANGED failed
  BY <1>1 DEF Add, Remove, Fail, Running
<1>5. ASSUME Running', people = {o \in Members : state[o] = "join"}
      PROVE  people' = {o \in Members : state'[o] = "join"}
  <2>1. CASE UNCHANGED people /\ to # "join" /\ (to = "leave" => state[m] = "none")
    <3>1. state[m] # "join"
      BY <2>1 DEF Precedes
    <3> QED
      BY <1>2, <1>5, <2>1, <3>1
  <2>2. CASE to = "join" /\ Add(m)
    <3>1. people' = people \cup {m}
      BY <1>5, <2>2 DEF Add, Fail, Running
    <3> QED
      BY <1>2, <1>5, <2>2, <3>1
  <2>3. CASE to = "leave" /\ Remove(m)
    <3>1. people' = people \ {m}
      BY <1>5, <2>3 DEF Remove, Fail, Running
    <3> QED
      BY <1>2, <1>5, <2>3, <3>1
  <2> QED
    BY <1>1, <2>1, <2>2, <2>3
<1> QED
  BY <1>2, <1>3, <1>4, <1>5

\* What is left of the news is in order, and new.
LEMMA TailLemma ==
    ASSUME SessionTypeOK, NEW m \in Members, news[m] # <<>>, InOrder(m), IsNew(m)
    PROVE  /\ Head(news[m]) \in Memberships /\ Tail(news[m]) \in Seq(Memberships)
           /\ Precedes(state[m], Head(news[m]))
           /\ Head(news[m]) = members[m] \/ Precedes(Head(news[m]), members[m])
           /\ Len(Tail(news[m])) = Len(news[m]) - 1 /\ Len(news[m]) \in Nat
           /\ \A i \in 1..Len(Tail(news[m])) :
                  /\ Tail(news[m])[i] = news[m][i + 1] /\ i + 1 \in 1..Len(news[m])
                  /\ Precedes(Head(news[m]), Tail(news[m])[i])
<1> DEFINE n == news[m]
<1>1. n \in Seq(Memberships) /\ n # <<>>
  BY DEF SessionTypeOK
<1>2. /\ 1 \in 1..Len(n) /\ Head(n) = n[1] /\ Len(n) \in Nat
      /\ Head(n) \in Memberships /\ Tail(n) \in Seq(Memberships) /\ Len(Tail(n)) = Len(n) - 1
      /\ \A i \in 1..Len(Tail(n)) : Tail(n)[i] = n[i + 1] /\ i + 1 \in 1..Len(n) /\ 1 < i + 1
  BY <1>1
<1>3. /\ \A i \in 1..Len(n) : Precedes(state[m], n[i])
      /\ \A i \in 1..Len(n) : n[i] = members[m] \/ Precedes(n[i], members[m])
      /\ \A i, j \in 1..Len(n) : i < j => Precedes(n[i], n[j])
  BY DEF InOrder, IsNew
<1> HIDE DEF n
<1>4. Precedes(state[m], Head(n)) /\ (Head(n) = members[m] \/ Precedes(Head(n), members[m]))
  BY <1>2, <1>3
<1>5. \A i \in 1..Len(Tail(n)) : Precedes(Head(n), Tail(n)[i])
  BY <1>2, <1>3
<1> QED
  BY <1>2, <1>4, <1>5 DEF n

\* An event of the session; the one that was left is no longer synced, or the
\* homeserver still tells it.
LEMMA SyncedEvent ==
    ASSUME SessionInv, NEW c \in Clients, Synced(c), MemberEvent(c)
    PROVE  SessionInv'
<1>0. /\ c = synced /\ c \in active /\ Sound /\ Running /\ SessionTypeOK /\ Accounts
      /\ action' \in [Clients -> Actions]
      /\ UNCHANGED <<attempt, session, dropped, leaving, closing, synced, timer,
                     accounts, active, errors, inside, members>>
      /\ ActiveAsks' /\ (Running' => OneSync') /\ AllServed'
  BY AsksAgain
<1> USE DEF attempt
<1>1. /\ c \in {session, dropped} /\ UNCHANGED <<known, told>>
  BY DEF MemberEvent
<1>2. PICK m \in Members :
        /\ news[m] # <<>> /\ news' = [news EXCEPT ![m] = Tail(@)]
        /\ IF c = session THEN MemberChanges(m, Head(news[m])) ELSE StrayChanges(m, Head(news[m]))
  BY DEF MemberEvent
<1> DEFINE to == Head(news[m])
<1>3. news[m] \in Seq(Memberships) /\ to \in Memberships /\ Tail(news[m]) \in Seq(Memberships)
  BY <1>0, <1>2 DEF SessionTypeOK
<1> HIDE DEF to
<1>4. /\ news' \in [Members -> Seq(Memberships)] /\ news'[m] = Tail(news[m])
      /\ \A o \in Members \ {m} : news'[o] = news[o]
  BY <1>0, <1>2, <1>3 DEF SessionTypeOK
<1>5. Accounts'
  BY <1>0 DEF Accounts
<1>6. OneRoom'
  BY <1>0, <1>1 DEF Sound, OneRoom
<1>7. CASE c = session
  <2>1. session # None
    BY <1>0, <1>7, SessionAssumption DEF SessionTypeOK
  <2>2. \A o \in Members : InOrder(o) /\ IsNew(o)
    BY <1>0, <2>1 DEF Sound, NewsIsNew
  <2> DEFINE n == news[m]
             t == Tail(news[m])
  <2>3. /\ Precedes(state[m], to) /\ (to = members[m] \/ Precedes(to, members[m]))
        /\ Len(t) = Len(n) - 1 /\ Len(n) \in Nat
        /\ \A i \in 1..Len(t) : t[i] = n[i + 1] /\ i + 1 \in 1..Len(n) /\ Precedes(to, t[i])
    BY <1>0, <1>2, <2>2, TailLemma DEF to
  <2>4. MemberChanges(m, to)
    BY <1>2, <1>7 DEF to
  <2>5. /\ state' \in [Members -> Memberships] /\ people' \subseteq Members
        /\ state'[m] = to /\ \A o \in Members \ {m} : state'[o] = state[o]
        /\ Running' /\ people = {o \in Members : state[o] = "join"} =>
               people' = {o \in Members : state'[o] = "join"}
    BY <1>0, <1>3, <2>3, <2>4, MemberLemma
  <2>6. SessionTypeOK'
    BY <1>0, <1>1, <1>4, <2>5 DEF SessionTypeOK
  <2>7. NewsIsNew'
    <3>1. ASSUME NEW o \in Members, o # m PROVE InOrder(o)' /\ IsNew(o)'
      BY <1>0, <1>4, <2>2, <2>5, <3>1 DEF InOrder, IsNew
    <3>2. InOrder(m)' /\ IsNew(m)'
      <4>1. /\ \A i \in 1..Len(n) : /\ Precedes("none", n[i])
                                    /\ n[i] = members[m] \/ Precedes(n[i], members[m])
            /\ \A i, j \in 1..Len(n) : i < j => Precedes(n[i], n[j])
        BY <2>2 DEF InOrder
      <4> HIDE DEF n, t
      <4>2. /\ \A i \in 1..Len(t) : /\ Precedes("none", t[i])
                                    /\ t[i] = members[m] \/ Precedes(t[i], members[m])
        BY <2>3, <4>1
      <4>3. ASSUME NEW i \in 1..Len(t), NEW j \in 1..Len(t), i < j PROVE Precedes(t[i], t[j])
        <5>1. i + 1 \in 1..Len(n) /\ j + 1 \in 1..Len(n) /\ i + 1 < j + 1
          BY <2>3, <4>3
        <5> QED
          BY <2>3, <4>1, <5>1
      <4>4. InOrder(m)'
        BY <1>0, <1>4, <4>2, <4>3 DEF InOrder, t
      <4>5. IsNew(m)'
        BY <1>0, <1>4, <2>3, <2>5 DEF IsNew, t
      <4> QED
        BY <4>4, <4>5
    <3> QED
      BY <3>1, <3>2 DEF NewsIsNew
  <2>8. Running' => ParticipantsAreMembers'
    BY <1>0, <1>1, <2>5 DEF Sound, ParticipantsAreMembers
  <2> QED
    BY <1>0, <1>5, <1>6, <2>6, <2>7, <2>8 DEF SessionInv, Sound
<1>8. CASE c # session
  <2>1. c = dropped /\ dropped # None /\ session = None
    BY <1>0, <1>1, <1>8, SessionAssumption DEF SessionTypeOK, Sound, OneRoom
  <2>2. step # "joined"
    BY <1>0, <2>1 DEF Sound, OneRoom, AllServed, Served, Entering
  <2>3. state' = [state EXCEPT ![m] = to] /\ UNCHANGED people
    BY <1>2, <1>8 DEF StrayChanges, to
  <2>4. state' \in [Members -> Memberships]
    BY <1>0, <1>3, <2>3 DEF SessionTypeOK
  <2>5. SessionTypeOK'
    BY <1>0, <1>1, <1>4, <2>3, <2>4 DEF SessionTypeOK
  <2>6. NewsIsNew'
    BY <1>0, <2>1, <2>2 DEF NewsIsNew
  <2>7. ParticipantsAreMembers'
    BY <1>0, <1>1, <2>1, SessionAssumption DEF ParticipantsAreMembers, SessionTypeOK
  <2> QED
    BY <1>0, <1>5, <1>6, <2>5, <2>6, <2>7 DEF SessionInv, Sound
<1> QED
  BY <1>7, <1>8

-----------------------------------------------------------------------------
(* Leaving, and the other users                                            *)

\* The sync of the session is stopped, the participants are waited for.
LEMMA LeaveStep ==
    ASSUME SessionInv, Leave
    PROVE  SessionInv'
<1>0. SessionTypeOK /\ Accounts /\ Running /\ Sound
  BY DEF SessionInv, Leave
<1>1. /\ session # None /\ leaving = "no" /\ active' = active \ {session}
      /\ action' = [action EXCEPT ![session] = IF session \in active /\ @ = "polling"
                                               THEN "cancelled" ELSE @]
      /\ closing' = people /\ leaving' \in {"participants", "room"}
      /\ UNCHANGED <<attempt, session, dropped, people, state, synced, timer,
                     accounts, known, errors, homeserver>>
  BY DEF Leave, StopSync, WaitFor
<1> USE DEF attempt, homeserver
<1>2. session \in Clients /\ step = "idle"
  BY <1>0, <1>1 DEF SessionTypeOK, Sound, OneRoom
<1>3. /\ action' \in [Clients -> Actions]
      /\ action'[session] \in {action[session], "cancelled"}
      /\ session \notin active => action'[session] = action[session]
      /\ \A d \in Clients \ {session} : action'[d] = action[d]
  BY <1>0, <1>1, <1>2 DEF SessionTypeOK, Actions
<1>4. SessionTypeOK'
  BY <1>0, <1>1, <1>3 DEF SessionTypeOK
<1>5. Accounts'
  BY <1>0, <1>1 DEF Accounts
<1>6. OneRoom'
  BY <1>0, <1>1 DEF Sound, OneRoom
<1>7. ActiveAsks'
  BY <1>0, <1>1, <1>3 DEF Sound, ActiveAsks, SessionTypeOK
<1>8. OneSync'
  <2>1. synced = session
    BY <1>0, <1>1 DEF Sound, AllServed, Served
  <2>2. /\ \A d \in Clients : action[d] \in {"connecting", "polling", "cancelled"} => d = synced
        /\ timer => synced # None /\ synced \notin active /\ action[synced] = "none"
    BY <1>0 DEF Sound, OneSync
  <2> QED
    BY <1>1, <1>3, <2>1, <2>2 DEF OneSync
<1>9. AllServed' /\ ParticipantsAreMembers'
  BY <1>1, <1>2 DEF AllServed, ParticipantsAreMembers, Entering
<1>10. NewsIsNew'
  BY <1>0, <1>1 DEF Sound, NewsIsNew, InOrder, IsNew
<1> QED
  BY <1>4, <1>5, <1>6, <1>7, <1>8, <1>9, <1>10 DEF SessionInv, Sound

\* The room is left and gone, though the homeserver may still have the user.
LEMMA LeftStep ==
    ASSUME SessionInv, NEW success \in BOOLEAN, Left(success)
    PROVE  SessionInv'
<1>0. SessionTypeOK /\ Accounts /\ Running /\ Sound
  BY DEF SessionInv, Left
<1>1. /\ leaving = "room" /\ (success \/ errors < MaxErrors)
      /\ errors' = (IF success THEN errors ELSE errors + 1)
      /\ inside' = (IF success THEN inside \ {session} ELSE inside)
      /\ session' = None /\ dropped' = session /\ leaving' = "no"
      /\ people' = {} /\ closing' = {}
      /\ UNCHANGED <<attempt, state, sync, failed, told, members, news>>
  BY DEF Left
<1> USE DEF attempt, sync
<1>2. errors' \in 0..MaxErrors
  BY <1>0, <1>1, SessionAssumption DEF SessionTypeOK
<1>3. SessionTypeOK'
  BY <1>0, <1>1, <1>2 DEF SessionTypeOK
<1>4. Accounts'
  BY <1>0, <1>1 DEF Accounts
<1>5. None \notin accounts
  BY <1>0, SessionAssumption DEF SessionTypeOK
<1>6. OneRoom'
  <2>1. step \in Entering => session # joining
    BY <1>0, <1>5 DEF Sound, OneRoom, Accounts, Entering
  <2>2. None \notin inside'
    BY <1>0, <1>1, <1>5 DEF SessionTypeOK
  <2> QED
    BY <1>0, <1>1, <2>1, <2>2 DEF Sound, OneRoom
<1>7. ActiveAsks' /\ OneSync'
  BY <1>0, <1>1 DEF Sound, ActiveAsks, OneSync
<1>8. AllServed'
  BY <1>0, <1>1 DEF Sound, AllServed, Served
<1>9. NewsIsNew'
  BY <1>0, <1>1 DEF Sound, NewsIsNew, InOrder
<1>10. ParticipantsAreMembers'
  BY <1>0, <1>1, <1>5 DEF ParticipantsAreMembers, SessionTypeOK
<1> QED
  BY <1>3, <1>4, <1>6, <1>7, <1>8, <1>9, <1>10 DEF SessionInv, Sound

\* A participant is closed while the user leaves.
LEMMA ParticipantClosedStep ==
    ASSUME SessionInv, NEW m \in Members, ParticipantClosed(m)
    PROVE  SessionInv'
<1>0. SessionTypeOK /\ Accounts /\ Running /\ Sound
  BY DEF SessionInv, ParticipantClosed
<1>1. /\ leaving # "no" /\ leaving' \in {"participants", "room"}
      /\ people' \subseteq people /\ closing' \subseteq closing
      /\ UNCHANGED <<attempt, session, dropped, state, sync, errors, homeserver>>
  BY <1>0 DEF ParticipantClosed, WaitFor, Sound, OneRoom, SessionTypeOK
<1> USE DEF attempt, sync, homeserver
<1>2. SessionTypeOK'
  BY <1>0, <1>1 DEF SessionTypeOK
<1>3. Accounts'
  BY <1>0, <1>1 DEF Accounts
<1>4. OneRoom'
  BY <1>0, <1>1 DEF Sound, OneRoom
<1>5. ActiveAsks' /\ OneSync'
  BY <1>0, <1>1 DEF Sound, ActiveAsks, OneSync
<1>6. AllServed' /\ ParticipantsAreMembers'
  BY <1>0, <1>1 DEF Sound, AllServed, Served, ParticipantsAreMembers
<1>7. NewsIsNew'
  BY <1>0, <1>1 DEF Sound, NewsIsNew, InOrder, IsNew
<1> QED
  BY <1>2, <1>3, <1>4, <1>5, <1>6, <1>7 DEF SessionInv, Sound

\* Another user comes or goes: what is appended to the news is newer still.
LEMMA MemberStep ==
    ASSUME SessionInv, NEW m \in Members, IsInvited(m) \/ Joins(m) \/ Leaves(m)
    PROVE  SessionInv'
<1>0. SessionTypeOK /\ Accounts
  BY DEF SessionInv
<1>1. PICK to \in Memberships : Precedes(members[m], to) /\ Becomes(m, to)
  BY DEF IsInvited, Joins, Leaves, Precedes, Memberships
<1>2. /\ members' = [members EXCEPT ![m] = to]
      /\ news' = IF inside = {} THEN news ELSE [news EXCEPT ![m] = Append(@, to)]
      /\ UNCHANGED <<attempt, room, sync, failed, errors, inside, told>>
  BY <1>1 DEF Becomes
<1> USE DEF attempt, sync, room
<1>3. /\ members' \in [Members -> Memberships] /\ members'[m] = to
      /\ \A o \in Members \ {m} : members'[o] = members[o]
  BY <1>0, <1>2 DEF SessionTypeOK
<1> DEFINE n == news[m]
           longer == Append(n, to)
<1>4. n \in Seq(Memberships) /\ longer \in Seq(Memberships)
  BY <1>0 DEF SessionTypeOK
<1>5. /\ Len(n) \in Nat /\ Len(longer) = Len(n) + 1 /\ longer[Len(n) + 1] = to
      /\ \A i \in 1..Len(n) : longer[i] = n[i]
  BY <1>4
<1> HIDE DEF longer
<1>6. /\ news' \in [Members -> Seq(Memberships)] /\ news'[m] \in {n, longer}
      /\ \A o \in Members \ {m} : news'[o] = news[o]
  <2>1. CASE inside = {}
    BY <1>0, <1>2, <2>1 DEF SessionTypeOK
  <2>2. CASE inside # {}
    <3>1. news' = [news EXCEPT ![m] = longer]
      BY <1>2, <2>2 DEF longer
    <3> QED
      BY <1>0, <1>4, <3>1 DEF SessionTypeOK
  <2> QED
    BY <2>1, <2>2
<1>7. SessionTypeOK'
  BY <1>0, <1>2, <1>3, <1>6 DEF SessionTypeOK
<1>8. Accounts'
  BY <1>0, <1>2 DEF Accounts
<1> SUFFICES ASSUME Running' PROVE Sound'
  BY <1>7, <1>8 DEF SessionInv
<1>9. Running /\ Sound
  BY <1>2 DEF SessionInv, Running
<1>10. OneRoom'
  BY <1>2, <1>9 DEF Sound, OneRoom
<1>11. ActiveAsks' /\ OneSync'
  BY <1>2, <1>9 DEF Sound, ActiveAsks, OneSync
<1>12. AllServed' /\ ParticipantsAreMembers'
  BY <1>2, <1>9 DEF Sound, AllServed, Served, ParticipantsAreMembers
<1>13. NewsIsNew'
  <2>1. ASSUME NEW o \in Members \ {m}
        PROVE  (InOrder(o) => InOrder(o)') /\ (IsNew(o) => IsNew(o)')
    BY <1>2, <1>3, <1>6 DEF InOrder, IsNew
  <2>2. \A a : a = members[m] \/ Precedes(a, members[m]) => Precedes(a, to)
    BY <1>1 DEF Precedes
  <2>3. ASSUME InOrder(m) PROVE InOrder(m)'
    <3>1. /\ \A i \in 1..Len(n) : Precedes("none", n[i]) /\ Precedes(n[i], to)
          /\ \A i, j \in 1..Len(n) : i < j => Precedes(n[i], n[j])
      BY <2>2, <2>3 DEF InOrder
    <3>2. Precedes("none", to)
      BY <1>1 DEF Precedes
    <3> HIDE DEF n
    <3>3. CASE news'[m] = n
      BY <1>3, <3>1, <3>3 DEF InOrder
    <3>4. CASE news'[m] = longer
      <4>1. \A i \in 1..Len(longer) : i \in 1..Len(n) \/ i = Len(n) + 1
        BY <1>5
      <4>2. \A i \in 1..Len(longer) :
               Precedes("none", longer[i]) /\ (longer[i] = to \/ Precedes(longer[i], to))
        BY <1>5, <3>1, <3>2, <4>1
      <4>3. ASSUME NEW i \in 1..Len(longer), NEW j \in 1..Len(longer), i < j
            PROVE  Precedes(longer[i], longer[j])
        <5>1. i \in 1..Len(n)
          BY <1>5, <4>3
        <5>2. CASE j \in 1..Len(n)
          BY <1>5, <3>1, <4>3, <5>1, <5>2
        <5>3. CASE j = Len(n) + 1
          BY <1>5, <3>1, <5>1, <5>3
        <5> QED
          BY <4>1, <5>2, <5>3
      <4> QED
        BY <1>3, <3>4, <4>2, <4>3 DEF InOrder
    <3> QED
      BY <1>6, <3>3, <3>4
  <2>4. ASSUME IsNew(m) PROVE IsNew(m)'
    <3>1. (\A i \in 1..Len(n) : Precedes(state[m], n[i])) /\ Precedes(state[m], to)
      BY <2>2, <2>4 DEF IsNew
    <3> HIDE DEF n
    <3>2. CASE news'[m] = n
      BY <1>2, <1>3, <3>1, <3>2 DEF IsNew
    <3>3. CASE news'[m] = longer
      <4>1. \A i \in 1..Len(longer) : i \in 1..Len(n) \/ i = Len(n) + 1
        BY <1>5
      <4>2. \A i \in 1..Len(longer) : Precedes(state[m], longer[i])
        BY <1>5, <3>1, <4>1
      <4> QED
        BY <1>2, <1>3, <3>1, <3>3, <4>2 DEF IsNew
    <3> QED
      BY <1>6, <3>2, <3>3
  <2> QED
    BY <1>2, <1>9, <2>1, <2>3, <2>4 DEF Sound, NewsIsNew
<1> QED
  BY <1>10, <1>11, <1>12, <1>13 DEF Sound

\* The own user is taken out of the room by the homeserver.
LEMMA IsKickedStep ==
    ASSUME SessionInv, IsKicked
    PROVE  SessionInv'
<1>1. /\ inside' = inside \ {session}
      /\ UNCHANGED <<attempt, room, sync, failed, errors, told, members, news>>
  BY DEF IsKicked
<1> USE DEF attempt, room, sync
<1>2. SessionTypeOK'
  BY <1>1 DEF SessionInv, SessionTypeOK
<1>3. Accounts'
  BY <1>1 DEF SessionInv, Accounts
<1> SUFFICES ASSUME Running' PROVE Sound'
  BY <1>2, <1>3 DEF SessionInv
<1>4. Running /\ Sound
  BY <1>1 DEF SessionInv, Running
<1>5. OneRoom'
  BY <1>1, <1>4 DEF Sound, OneRoom
<1>6. ActiveAsks' /\ OneSync' /\ AllServed' /\ ParticipantsAreMembers'
  BY <1>1, <1>4 DEF Sound, ActiveAsks, OneSync, AllServed, Served, ParticipantsAreMembers
<1>7. NewsIsNew'
  BY <1>1, <1>4 DEF Sound, NewsIsNew, InOrder, IsNew
<1> QED
  BY <1>5, <1>6, <1>7 DEF Sound

-----------------------------------------------------------------------------
(* The theorems                                                            *)

\* The program starts with no room and no account.
LEMMA SessionInitially == SessionInit => SessionInv
<1> SUFFICES ASSUME SessionInit PROVE SessionInv
  OBVIOUS
<1>1. SessionTypeOK
  <2>1. /\ action \in [Clients -> Actions]
        /\ state \in [Members -> Memberships] /\ members \in [Members -> Memberships]
    BY DEF SessionInit, Actions, Memberships
  <2>2. news \in [Members -> Seq(Memberships)]
    BY DEF SessionInit
  <2>3. step \in Steps /\ errors \in 0..MaxErrors
    BY SessionAssumption DEF SessionInit, Steps
  <2>4. /\ joining = None /\ session = None /\ dropped = None /\ leaving = "no"
        /\ synced = None /\ timer = FALSE /\ accounts = {} /\ active = {} /\ known = {}
        /\ people = {} /\ closing = {} /\ inside = {} /\ told = {}
    BY DEF SessionInit
  <2> QED
    BY <2>1, <2>2, <2>3, <2>4 DEF SessionTypeOK
<1>2. Accounts /\ OneRoom /\ ActiveAsks /\ OneSync /\ AllServed /\ NewsIsNew
  BY SessionAssumption DEF SessionInit, Accounts, OneRoom, ActiveAsks, OneSync, AllServed, NewsIsNew,
     Asking, Entering
<1>3. ParticipantsAreMembers
  BY DEF SessionInit, ParticipantsAreMembers
<1> QED
  BY <1>1, <1>2, <1>3 DEF SessionInv, Sound

\* Every step keeps the invariant.
LEMMA SessionNextLemma ==
    ASSUME SessionInv, [SessionNext]_sessionVars
    PROVE  SessionInv'
<1>1. CASE UNCHANGED sessionVars
  <2> USE <1>1 DEF sessionVars, attempt, room, sync, homeserver
  <2>1. SessionTypeOK' /\ Accounts'
    BY DEF SessionInv, SessionTypeOK, Accounts
  <2>2. Running' => Running /\ Sound
    BY DEF SessionInv, Running
  <2>3. Sound => OneRoom' /\ ActiveAsks' /\ OneSync' /\ AllServed' /\ ParticipantsAreMembers'
    BY DEF Sound, OneRoom, ActiveAsks, OneSync, AllServed, Served, ParticipantsAreMembers, Running
  <2>4. Sound => NewsIsNew'
    BY DEF Sound, NewsIsNew, InOrder, IsNew
  <2> QED
    BY <2>1, <2>2, <2>3, <2>4 DEF SessionInv, Sound
<1>2. CASE Join \/ Attempt \/ JoinFails
  BY <1>2, AskStep, RegisteredStep, EnterStep, TakenInStep, RoomJoinedStep, JoinFailsStep
     DEF Attempt
<1>3. ASSUME NEW c \in Clients, Sync(c) \/ SyncFails(c) PROVE SessionInv'
  <2>1. CASE Synced(c)
    <3>1. NothingHappened(c) \/ RoomAppears(c) \/ RoomVanishes(c) \/ MemberEvent(c)
      BY <2>1 DEF Synced
    <3> QED
      BY <2>1, <3>1, SyncedNothing, SyncedEvent
  <2> QED
    BY <1>3, <2>1, ConnectStep, StoppedStep, SyncFailsStep DEF Sync
<1>4. CASE Retry \/ Leave \/ IsKicked \/ \E success \in BOOLEAN : Left(success)
  BY <1>4, RetryStep, LeaveStep, IsKickedStep, LeftStep
<1>5. ASSUME NEW m \in Members,
             ParticipantClosed(m) \/ IsInvited(m) \/ Joins(m) \/ Leaves(m)
      PROVE  SessionInv'
  BY <1>5, ParticipantClosedStep, MemberStep
<1> QED
  BY <1>1, <1>2, <1>3, <1>4, <1>5 DEF SessionNext

\* SessionInv is inductive.
THEOREM SessionInvariant == SessionSpec => []SessionInv
<1>1. SessionInit => SessionInv
  BY SessionInitially
<1>2. SessionInv /\ [SessionNext]_sessionVars => SessionInv'
  BY SessionNextLemma
<1> QED
  BY <1>1, <1>2, PTL DEF SessionSpec

\* Until an assertion fails the client of the room is synced or about to be, no
\* other one is, and the room shows exactly the members that joined.
THEOREM SessionSound == SessionSpec => []SessionIsSound
<1>1. SessionInv => SessionIsSound
  <2> SUFFICES ASSUME SessionInv PROVE SessionIsSound
    OBVIOUS
  <2>1. SyncNeverStalls
    BY DEF SyncNeverStalls, SessionInv, Sound, AllServed, Served, ActiveAsks
  <2>2. OneSync
    BY DEF OneSync, SessionInv, Sound
  <2>3. ParticipantsAreMembers
    BY DEF ParticipantsAreMembers, SessionInv, Sound
  <2> QED
    BY <2>1, <2>2, <2>3 DEF SessionIsSound, SessionInv
<1> QED
  BY <1>1, SessionInvariant, PTL

\* What NoUpdatesOnceStopped says of a step.
NobodyAppears == leaving # "no" /\ session \notin active /\ ~timer => people' \subseteq people

\* Once the user leaves nobody appears: only an answer to the session's own sync
\* shows anybody, and it is dropped once that sync was stopped.
THEOREM NobodyAppearsOnceStopped == SessionSpec => NoUpdatesOnceStopped
<1>1. [SessionNext]_sessionVars => [NobodyAppears]_sessionVars
  <2> SUFFICES ASSUME SessionNext, leaving # "no", session \notin active
               PROVE  people' \subseteq people
    BY DEF NobodyAppears
  <2> USE DEF room
  <2>1. CASE Join \/ Attempt \/ JoinFails
    BY <2>1 DEF Join, Attempt, JoinFails, VersionIsFine, Registered, NameSet,
       TemporaryRoomJoined, TakenIn, RoomJoined
  <2>2. ASSUME NEW c \in Clients, Sync(c) \/ SyncFails(c) PROVE people' \subseteq people
    <3>1. CASE Synced(c)
      <4>1. c # session
        BY <3>1 DEF Synced
      <4> QED
        BY <3>1, <4>1 DEF Synced, NothingHappened, RoomAppears, RoomVanishes, MemberEvent,
           StrayChanges
    <3> QED
      BY <2>2, <3>1 DEF Sync, Connect, Stopped, SyncFails
  <2>3. CASE Retry \/ Leave \/ IsKicked \/ \E success \in BOOLEAN : Left(success)
    BY <2>3 DEF Retry, Leave, IsKicked, Left
  <2>4. ASSUME NEW m \in Members,
               ParticipantClosed(m) \/ IsInvited(m) \/ Joins(m) \/ Leaves(m)
        PROVE  people' \subseteq people
    BY <2>4 DEF ParticipantClosed, IsInvited, Joins, Leaves, Becomes
  <2> QED
    BY <2>1, <2>2, <2>3, <2>4 DEF SessionNext
<1> QED
  BY <1>1, PTL DEF SessionSpec, NoUpdatesOnceStopped, NobodyAppears

=============================================================================
