------------------------------ MODULE Lifetimes ------------------------------
(***************************************************************************)
(* How the programs are put together and taken apart.  Modules make their  *)
(* parts when they are first asked for and share them; a part is held by   *)
(* shared_ptr members and is referred to plainly by others.  When the last *)
(* holder goes its destructor runs, and then its members go, the last      *)
(* declared first, which may run further destructors.                      *)
(*                                                                         *)
(* Sequences of parts are in the order of their declaration.               *)
(***************************************************************************)
EXTENDS Naturals, Sequences, FiniteSets, SequencesExt, TLC

CONSTANT Programs       \* a subset of "gui", "cli", "audio"

ASSUME LifetimesAssumption == Programs \subseteq {"gui", "cli", "audio"}

VARIABLES
    program,    \* which one runs, and whether with video
    statement,  \* the next statement of its start
    mode,       \* what it is doing
    living,     \* parts that exist
    edges,      \* <<h, p>>: h holds p by a shared_ptr
    unwinding,  \* destructors under way, the innermost last
    results,    \* how often run_promise was set
    busy        \* history: a request was under way when the program quit

lifeVars == <<program, statement, mode, living, edges, unwinding, results, busy>>

\* What a part holds, what it refers to, and what its making takes.
Wire(holds, refers, takes) == [holds |-> holds, refers |-> refers, takes |-> takes]
Refer(refers) == Wire(<<>>, refers, {})
Alone == Wire(<<>>, {}, {})

-----------------------------------------------------------------------------
(* The modules of the core: what they hold, and how they wire their parts  *)

ExecutorMembers == <<"io_context", "boost_executor", "timer_factory">>
ExecutorWires ==
    [io_context |-> Alone, boost_executor |-> Refer({"io_context"}),
     timer_factory |-> Refer({"io_context"})]

HttpMembers == <<"executor_module", "http_connections", "action_factory">>
HttpWires ==
    [http_connections |-> Refer({"io_context"}),
     action_factory |-> Refer({"http_connections"})]

SignalingMembers ==
    <<"executor_module", "websocket_connectors", "websocket_connections", "json_message",
      "client_connections", "client_creator", "reconnect_timer", "client_creator_reconnecting">>
SignalingWires ==
    [websocket_connectors |-> Refer({"io_context", "websocket_connections"}),
     websocket_connections |-> Refer({"io_context"}),
     json_message |-> Alone,
     client_connections |-> Refer({"io_context", "boost_executor", "json_message"}),
     client_creator |-> Refer({"websocket_connectors", "client_connections"}),
     reconnect_timer |-> Refer({"io_context"}),
     client_creator_reconnecting |-> Refer({"client_creator", "reconnect_timer"})]

MatrixMembers ==
    <<"executor_module", "http_module", "matrix_factory", "client_factory",
      "authentification", "http_client_factory">>
MatrixWires ==      \* every caller gets a synchronizer of its own
    [matrix_factory |-> Alone,
     client_factory |-> Refer({"matrix_factory", "http_client_factory"}),
     authentification |-> Wire(<<"action_factory">>, {"http_client_factory", "client_factory"}, {}),
     http_client_factory |-> Wire(<<"action_factory">>, {}, {}),
     client_synchronizer |-> Wire(<<"matrix_client">>, {"io_context"}, {"timer_factory"})]

RoomClientMembers == <<"http_module", "room_client", "room_http_client">>
RoomClientWires ==
    [room_client |-> Refer({"room_http_client"}),
     room_http_client |-> Wire(<<"action_factory">>, {}, {})]

VersionMembers == <<"http_module", "version_getter">>
VersionWires == [version_getter |-> Wire(<<"action_factory">>, {}, {})]

RtcMembers ==
    <<"executor_module", "signaling_thread", "rtc_factory", "audio_device_creator",
      "audio_device", "video_device_creator", "encoder_factories">>
RtcWires ==
    [signaling_thread |-> Refer({"io_context"}),
     rtc_factory |-> Wire(<<"encoder_factories", "audio_devices">>, {"signaling_thread"}, {}),
     audio_devices |-> Alone,
     audio_device_creator |-> Refer({"rtc_factory"}),
     audio_device |-> Wire(<<>>, {}, {"audio_device_creator"}),
     video_device_creator |-> Alone, encoder_factories |-> Alone]

SessionMembers ==
    <<"executor_module", "matrix_module", "rtc_module", "signaling_module",
      "temporary_room_module", "version_module", "joiner", "leaver", "tracks_adder",
      "rooms", "own_media", "factory", "room_creator",
      "participant_creators", "peer_creator", "peers">>
SessionWires ==
    [joiner |-> Wire(<<"version_getter", "client_synchronizer">>,
                     {"room_creator", "rooms", "authentification", "room_client"}, {}),
     leaver |-> Refer({"rooms"}),
     tracks_adder |-> Wire(<<"audio_track_adder", "camera_adder", "screen_adder">>, {}, {}),
     rooms |-> Wire(<<"room">>, {}, {}),
     own_media |-> Wire(<<"own_audio_track", "own_video", "desktop_sharing">>, {}, {}),
     peers |-> Wire(<<"peer">>, {}, {}),
     room_creator |-> Refer({"participant_creators"}),
     factory |-> Alone,
     peer_creator |-> Wire(<<"rtc_factory">>, {"boost_executor", "client_creator_reconnecting"}, {}),
     participant_creators |->
        Wire(<<"peers">>, {"factory", "peer_creator", "tracks_adder", "own_media"}, {})]

CoreMembers ==
    <<"crash_catcher", "executor_module", "http_module", "signaling_module", "matrix_module",
      "temporary_room_module", "version_module", "rtc_module", "session_module">>

-----------------------------------------------------------------------------
(* The modules the programs add                                            *)

AudioMembers ==
    <<"executor_module", "rtc_module", "own_audio_track", "audio_track_adder",
      "loopback_audio", "level_calculators", "own_audio_information">>
AudioWires ==
    [own_audio_track |-> Wire(<<>>, {}, {"rtc_factory", "audio_device"}),
     audio_track_adder |-> Wire(<<>>, {}, {"own_audio_track"}),
     loopback_audio |-> Wire(<<"boost_executor">>, {"rtc_factory"}, {"own_audio_track"}),
     level_calculators |-> Refer({"boost_executor"}),
     own_audio_information |-> Wire(<<>>, {"level_calculators"}, {"loopback_audio"})]

AudioSettingsMembers ==
    <<"executor_module", "rtc_module", "audio_module", "session_module",
      "audio_tracks_volume", "settings_audio_track", "loopback_test_factory",
      "loopback_audio_test", "own_microphone_tester", "own_audio_test_information",
      "audio_device_settings">>
AudioSettingsWires ==
    [audio_tracks_volume |-> Wire(<<"audio_track_adder", "room">>,
                                  {"rooms", "tracks_adder", "own_audio_track"}, {}),
     own_audio_test_information |->
        Wire(<<>>, {"level_calculators"}, {"loopback_audio_test"}),
     own_microphone_tester |-> Refer({"loopback_audio_test", "audio_tracks_volume"}),
     audio_device_settings |-> Wire(<<"audio_devices">>, {}, {"rtc_factory"}),
     settings_audio_track |-> Wire(<<>>, {}, {"rtc_factory", "audio_device"}),
     loopback_test_factory |->
        Wire(<<"settings_audio_track", "boost_executor">>, {"rtc_factory"}, {}),
     loopback_audio_test |-> Refer({"loopback_test_factory"})]

\* Mutant: the enumerator is declared before the timer that it stops.
VideoMembersSwapped ==
    <<"executor_module", "rtc_module", "session_module", "enumerator_google",
      "video_enumerator", "enumerator_timer", "add_video_factory", "own_video",
      "video_settings">>

VideoMembers ==
    <<"executor_module", "rtc_module", "session_module", "enumerator_timer",
      "enumerator_google", "video_enumerator", "add_video_factory", "own_video",
      "video_settings">>
VideoWires ==
    [enumerator_timer |-> Refer({"io_context"}), enumerator_google |-> Alone,
     video_enumerator |-> Wire(<<"enumerator_google">>, {"enumerator_timer"}, {}),
     add_video_factory |-> Wire(<<"rtc_factory">>, {}, {}),
     own_video |-> Alone,
     video_settings |->
        Wire(<<"video_device_creator", "camera_adder">>,
             {"video_enumerator", "own_video", "tracks_adder", "add_video_factory"}, {})]

DesktopMembers ==
    <<"executor_module", "session_module", "video_module",
      "desktop_sharing", "desktop_sharing_previews">>
DesktopWires ==
    [desktop_sharing |->
        Wire(<<"timer_factory", "screen_adder", "tracks_adder", "add_video_factory",
               "video_settings", "leaver">>, {}, {}),
     desktop_sharing_previews |-> Wire(<<"timer_factory">>, {"io_context"}, {})]

UiMembers ==
    <<"executor_module", "rtc_module", "audio_module", "audio_settings_module",
      "mute_deaf_communicator", "video_module", "desktop_sharing_module", "session_module",
      "app", "engine", "model_creator", "utils_model", "join_model", "rooms_model",
      "language_model", "share_desktop_model", "error_model", "leave_model",
      "own_media_model", "settings_model", "version_context">>
UiWires ==
    [app |-> Alone, engine |-> Alone, utils_model |-> Alone, error_model |-> Alone,
     version_context |-> Alone,
     model_creator |->
        Wire(<<"mute_deaf_communicator">>,
             {"level_calculators", "audio_device_settings", "video_settings",
              "own_audio_information", "audio_tracks_volume"}, {}),
     join_model |-> Refer({"model_creator", "error_model", "joiner"}),
     rooms_model |-> Wire(<<"rooms", "model_creator", "room_model">>, {}, {}),
     language_model |-> Refer({"engine"}),
     share_desktop_model |-> Wire(<<"desktop_sharing", "desktop_sharing_previews">>, {}, {}),
     leave_model |-> Refer({"leaver"}),
     own_media_model |->
        Wire(<<>>, {"audio_device_settings", "video_settings", "own_microphone_tester",
                    "audio_tracks_volume", "own_audio_information", "own_media"},
             {"own_audio_test_information"}),
     settings_model |->
        Wire(<<"audio_devices", "video_enumerator", "video_device_creator", "timer_factory">>,
             {"audio_device_settings", "video_settings", "error_model", "io_context"},
             {"rtc_factory"})]

-----------------------------------------------------------------------------
(* What comes and goes while a program runs, and the programs themselves   *)

RoomWires ==
    [room |-> Wire(<<"matrix_client", "participants">>, {}, {}),
     matrix_client |-> Wire(<<"action_factory">>, {"matrix_factory", "http_client_factory"}, {}),
     participants |->
        Wire(<<"participant_creator", "own_participant", "remote_participant">>, {}, {}),
     participant_creator |->
        Wire(<<"peers">>, {"factory", "peer_creator", "tracks_adder", "own_media"}, {}),
     own_participant |-> Wire(<<"desktop_sharing">>, {"own_media"}, {}),
     remote_participant |-> Wire(<<"peers", "peer">>, {"factory", "tracks_adder"}, {}),
     peer |-> Refer({"boost_executor", "client_creator", "reconnect_timer"}),
     room_model |-> Wire(<<"room">>, {"model_creator"}, {})]

AdderWires ==
    [camera_adder |-> Wire(<<"rtc_factory">>, {}, {}),
     screen_adder |-> Wire(<<"rtc_factory">>, {}, {})]

ProgramWires ==
    [crash_catcher |-> Alone,
     mute_deaf_communicator |-> Wire(<<"rooms", "audio_tracks_volume", "room">>, {}, {}),
     cli_client |-> Wire(<<"core_module", "audio_settings_module", "video_module">>, {}, {}),
     audio_client |-> Wire(<<"core_module", "audio_settings_module", "stats_timer">>, {}, {}),
     stats_timer |-> Wire(<<>>, {"io_context"}, {"timer_factory"}),
     exit_signals |-> Refer({"io_context"})]

Members ==
    [core_module |-> CoreMembers, executor_module |-> ExecutorMembers,
     http_module |-> HttpMembers, signaling_module |-> SignalingMembers,
     matrix_module |-> MatrixMembers, temporary_room_module |-> RoomClientMembers,
     version_module |-> VersionMembers, rtc_module |-> RtcMembers,
     session_module |-> SessionMembers, audio_module |-> AudioMembers,
     audio_settings_module |-> AudioSettingsMembers, video_module |-> VideoMembers,
     desktop_sharing_module |-> DesktopMembers, ui_module |-> UiMembers]

Wires ==
    ExecutorWires @@ HttpWires @@ SignalingWires @@ MatrixWires @@ RoomClientWires
    @@ VersionWires @@ RtcWires @@ SessionWires @@ AudioWires @@ AudioSettingsWires
    @@ VideoWires @@ DesktopWires @@ UiWires @@ RoomWires @@ AdderWires @@ ProgramWires

Modules == DOMAIN Members
Parts == Modules \cup DOMAIN Wires

\* Members that are set later than their holder is made.
Later ==
    {<<"own_media", p>> : p \in {"own_audio_track", "own_video", "desktop_sharing"}}
    \cup {<<"tracks_adder", p>> : p \in {"audio_track_adder", "camera_adder", "screen_adder"}}
    \cup {<<h, "room">> : h \in {"rooms", "audio_tracks_volume", "mute_deaf_communicator"}}
    \cup {<<"cli_client", p>> : p \in Modules}
    \cup {<<"audio_client", p>> : p \in Modules \cup {"stats_timer"}}
    \cup {<<"rooms_model", "room_model">>, <<"peers", "peer">>,
          <<"client_synchronizer", "matrix_client">>, <<"own_participant", "desktop_sharing">>,
          <<"video_settings", "camera_adder">>, <<"desktop_sharing", "screen_adder">>}

\* Without video the enumerator is video_devices_noop.
WireOf(p) == IF p = "video_enumerator" /\ ~program.video THEN Alone ELSE Wires[p]

\* What a constructor is given: a module gets the modules it uses, and makes
\* its parts when they are asked for, except the user interface's.
AtOnce(p) ==
    CASE p = "core_module" -> {}
      [] p = "ui_module" -> ToSet(UiMembers)
      [] p \in Modules \ {"core_module", "ui_module"} -> ToSet(Members[p]) \cap Modules
      [] OTHER -> {q \in ToSet(WireOf(p).holds) : <<p, q>> \notin Later}

Takes(p) == AtOnce(p) \cup IF p \in Modules THEN {} ELSE WireOf(p).refers \cup WireOf(p).takes

Needed(S) ==
    LET more(R, i) == R \cup UNION {Takes(p) : p \in R}
    IN  FoldLeft(more, S, [i \in 1..12 |-> i])

\* The module that keeps a part it was asked for.
Keepers(p) == {m \in Modules : p \in ToSet(Members[m]) \ AtOnce(m)}

\* A getter makes the parts that are not there and keeps them: audio_tracks_volume
\* adds the audio to the tracks, a room is told to everybody who asked for it.
EdgesOf(new) ==
    UNION {{<<p, q>> : q \in AtOnce(p)} \cup {<<m, p>> : m \in Keepers(p)} : p \in new}
    \cup IF "audio_tracks_volume" \in new THEN {<<"tracks_adder", "audio_track_adder">>} ELSE {}

-----------------------------------------------------------------------------
(* Start                                                                   *)

\* The statements of main and of the constructors: who keeps what.
GuiMain ==
    <<<<"main", "core_module">>, <<"main", "crash_catcher">>, <<"main", "audio_module">>,
      <<"own_media", "own_audio_track">>, <<"main", "audio_settings_module">>,
      <<"main", "mute_deaf_communicator">>, <<"main", "video_module">>,
      <<"own_media", "own_video">>, <<"main", "video_settings">>,
      <<"main", "desktop_sharing_module">>, <<"own_media", "desktop_sharing">>,
      <<"main", "ui_module">>, <<"main", "io_context">>>>

CliMain ==
    <<<<"main", "cli_client">>, <<"cli_client", "core_module">>,
      <<"constructor", "audio_module">>, <<"own_media", "own_audio_track">>,
      <<"cli_client", "audio_settings_module">>, <<"nobody", "audio_tracks_volume">>,
      <<"cli_client", "video_module">>, <<"constructor", "video_settings">>,
      <<"constructor", "end">>, <<"main", "exit_signals">>, <<"nobody", "joiner">>>>

AudioMain ==
    <<<<"main", "audio_client">>, <<"audio_client", "core_module">>,
      <<"constructor", "audio_module">>, <<"own_media", "own_audio_track">>,
      <<"audio_client", "audio_settings_module">>, <<"nobody", "audio_tracks_volume">>,
      <<"audio_client", "stats_timer">>, <<"constructor", "end">>,
      <<"main", "io_context">>, <<"main", "exit_signals">>, <<"nobody", "joiner">>>>

Statements ==
    CASE program.main = "gui" -> GuiMain
      [] program.main = "cli" -> CliMain
      [] OTHER -> AudioMain

\* use_crash_catcher and send_audio
Optional == {"crash_catcher", "audio_tracks_volume"}

\* The order in which something holds what it may hold.
Order(h) ==
    IF h \in Modules THEN Members[h]
    ELSE IF h \in Parts THEN WireOf(h).holds
    ELSE [i \in DOMAIN Statements |->
            IF Statements[i][1] = h THEN Statements[i][2] ELSE "nothing"]

\* The destructor of h: its body, and then the members that are left.
Frame(h, body) ==
    [who |-> h, body |-> body, left |-> SelectSeq(Order(h), LAMBDA p : <<h, p>> \in edges)]

MakeNeeded(S, kept) ==
    LET new == Needed(S) \ living
    IN  /\ living' = living \cup new
        /\ edges' = edges \cup EdgesOf(new) \cup kept

Execute ==
    /\ mode = "starting" /\ unwinding = <<>> /\ statement <= Len(Statements)
    /\ LET s == Statements[statement] IN
        /\ statement' = statement + 1
        /\ \/ /\ s[2] # "end"
              /\ MakeNeeded({s[1], s[2]} \cap Parts, IF s[1] = "nobody" THEN {} ELSE {s})
              /\ UNCHANGED unwinding
           \/ /\ s[2] \in Optional
              /\ UNCHANGED <<living, edges, unwinding>>
           \/ /\ s[2] = "end"
              /\ unwinding' = <<Frame(s[1], FALSE)>>
              /\ UNCHANGED <<living, edges>>
    /\ UNCHANGED <<program, mode, results, busy>>

\* cli_client_impl::run and audio_client_impl::run join first.
Started ==
    /\ mode = "starting" /\ unwinding = <<>> /\ statement > Len(Statements)
    /\ mode' = IF program.main = "gui" THEN "up" ELSE "joining"
    /\ UNCHANGED <<program, statement, living, edges, unwinding, results, busy>>

-----------------------------------------------------------------------------
(* While the program runs                                                  *)

\* Holders let go; who is held by nobody then is destroyed.
LetGo(es) ==
    LET rest == edges \ es
        gone == {e[2] : e \in es \cap edges} \ {e[2] : e \in rest}
    IN  /\ edges' = rest
        /\ unwinding' = unwinding \o [i \in 1..Cardinality(gone) |-> Frame(SetToSeq(gone)[i], TRUE)]

Still == unwinding = <<>>
Gui == program.main = "gui"

Join ==     \* join_model, the other programs do it at once
    /\ Still /\ Gui /\ mode = "up" /\ "room" \notin living
    /\ mode' = "joining"
    /\ UNCHANGED <<program, statement, living, edges, unwinding, results, busy>>

\* The room is made, rooms is told of it, and tells who connected to on_set.
Told ==
    {<<h, "room">> : h \in {"rooms", "audio_tracks_volume", "mute_deaf_communicator"} \cap living}
    \cup {<<"peers", "peer">>, <<"client_synchronizer", "matrix_client">>}
    \cup (IF Gui THEN {<<"rooms_model", "room_model">>} ELSE {})
    \cup (IF <<"own_media", "desktop_sharing">> \in edges
          THEN {<<"own_participant", "desktop_sharing">>} ELSE {})

RoomMade ==
    /\ Still /\ mode = "joining"
    /\ MakeNeeded(DOMAIN RoomWires \ (IF Gui THEN {} ELSE {"room_model"}), Told)
    /\ mode' = "up"
    /\ UNCHANGED <<program, statement, unwinding, results, busy>>

JoinFails ==
    /\ Still /\ mode = "joining"
    /\ mode' = IF Gui THEN "up" ELSE "stopped"
    /\ results' = IF Gui THEN results ELSE results + 1
    /\ UNCHANGED <<program, statement, living, edges, unwinding, busy>>

Toggle(p, holders) ==
    /\ Still /\ mode \in {"up", "joining"} /\ holders \subseteq living
    /\ LET es == {<<h, p>> : h \in holders} IN
        IF p \in living
        THEN LetGo(es) /\ UNCHANGED living
        ELSE MakeNeeded({p}, es) /\ UNCHANGED unwinding
    /\ UNCHANGED <<program, statement, mode, results, busy>>

Camera == Toggle("camera_adder", {"video_settings", "tracks_adder"})
Share == Toggle("screen_adder", {"desktop_sharing", "tracks_adder"})

MemberLeaves ==
    /\ Still /\ mode = "up" /\ <<"participants", "remote_participant">> \in edges
    /\ LetGo({<<"participants", "remote_participant">>})
    /\ UNCHANGED <<program, statement, mode, living, results, busy>>

\* Leaving: the sharing stops, and the synchronizer with it. A signal leaves
\* the room whether there is one or not.
Leave ==
    /\ Still /\ mode \in (IF Gui THEN {"up"} ELSE {"up", "joining"})
    /\ Gui => "room" \in living
    /\ IF "room" \in living
       THEN /\ mode' = "leaving"
            /\ LetGo({<<"client_synchronizer", "matrix_client">>,
                      <<"desktop_sharing", "screen_adder">>, <<"tracks_adder", "screen_adder">>})
       ELSE mode' = "crashed" /\ UNCHANGED <<edges, unwinding>>
    /\ UNCHANGED <<program, statement, living, results, busy>>

Left ==
    /\ Still /\ mode = "leaving"
    /\ LetGo({<<h, "room">> : h \in {"rooms", "audio_tracks_volume", "mute_deaf_communicator"}})
    /\ mode' = IF Gui THEN "up" ELSE "stopped"
    /\ results' = IF Gui THEN results ELSE results + 1
    /\ UNCHANGED <<program, statement, living, busy>>

ModelDeleted ==     \* deleteLater
    /\ Still /\ <<"rooms", "room">> \notin edges /\ <<"rooms_model", "room_model">> \in edges
    /\ LetGo({<<"rooms_model", "room_model">>})
    /\ UNCHANGED <<program, statement, mode, living, results, busy>>

Quit ==
    /\ Still /\ mode \in (IF Gui THEN {"up", "joining", "leaving"} ELSE {"stopped"})
    /\ busy' = (mode \in {"joining", "leaving"})
    /\ mode' = "unwinding"
    /\ unwinding' = <<Frame("main", FALSE)>>
    /\ UNCHANGED <<program, statement, living, edges, results>>

-----------------------------------------------------------------------------
(* Destruction                                                             *)

Top == Last(unwinding)

\* What the body of a destructor, or what it aborts, uses: a request that is
\* under way continues in the joiner, or by telling that there is no room.
DestructorUses(p) ==
    CASE p \in {"reconnect_timer", "enumerator_timer", "signaling_thread", "client_synchronizer",
                "desktop_sharing_previews", "settings_model", "exit_signals", "stats_timer"}
            -> {"io_context"}
      [] p = "video_enumerator" -> IF program.video THEN {"enumerator_timer"} ELSE {}
      [] p = "peer" -> {"reconnect_timer", "io_context", "rtc_factory"}
      [] p = "remote_participant" -> {"tracks_adder", "peers", "peer"}
      [] p = "matrix_client" ->
            {"client_synchronizer", "io_context"} \cup IF busy THEN {"audio_tracks_volume"} ELSE {}
      [] p = "room_http_client" -> IF busy THEN {"joiner"} ELSE {}
      [] p \in {"audio_device", "own_audio_track", "audio_track_adder", "loopback_audio",
                "settings_audio_track", "camera_adder", "screen_adder"} -> {"rtc_factory"}
      [] OTHER -> {}

RunDestructor ==    \* a remote participant removes its peer
    /\ unwinding # <<>> /\ Top.body
    /\ LET ran == [unwinding EXCEPT ![Len(unwinding)].body = FALSE]
           peer == {<<"peers", "peer">>} \cap edges
       IN  IF Top.who = "remote_participant"
           THEN /\ edges' = edges \ peer
                /\ unwinding' = ran
           ELSE unwinding' = ran /\ UNCHANGED edges
    /\ UNCHANGED <<program, statement, mode, living, results, busy>>

DropMember ==
    /\ unwinding # <<>> /\ ~Top.body /\ Top.left # <<>>
    /\ LET p == Last(Top.left)
           rest == edges \ {<<Top.who, p>>}
           held == \E e \in rest : e[2] = p
           under == [unwinding EXCEPT ![Len(unwinding)].left = Front(Top.left)]
       IN  /\ edges' = rest
           /\ unwinding' = IF held THEN under ELSE Append(under, Frame(p, TRUE))
    /\ UNCHANGED <<program, statement, mode, living, results, busy>>

EndOfDestructor ==
    /\ unwinding # <<>> /\ ~Top.body /\ Top.left = <<>>
    /\ unwinding' = Front(unwinding)
    /\ living' = living \ {Top.who}
    /\ mode' = IF Top.who = "main" THEN "ended" ELSE mode
    /\ UNCHANGED <<program, statement, edges, results, busy>>

-----------------------------------------------------------------------------
LifetimesInit ==
    /\ program \in [main : Programs, video : BOOLEAN]
    /\ statement = 1 /\ mode = "starting"
    /\ living = {} /\ edges = {} /\ unwinding = <<>>
    /\ results = 0 /\ busy = FALSE

LifetimesNext ==
    \/ Execute \/ Started
    \/ Join \/ RoomMade \/ JoinFails \/ Camera \/ Share \/ MemberLeaves
    \/ Leave \/ Left \/ ModelDeleted \/ Quit
    \/ RunDestructor \/ DropMember \/ EndOfDestructor

-----------------------------------------------------------------------------
(* Properties                                                              *)

\* No destructor uses what is gone, wherever the program ends except with a
\* request under way (rtc/video_devices.cpp:19, remote_participant.cpp:31).
DestructorsAreSafe ==
    ~busy => \A i \in DOMAIN unwinding :
                unwinding[i].body => DestructorUses(unwinding[i].who) \subseteq living

\* As long as a program runs, what its parts refer to is there, and so is what
\* they hold.
ReferencesHold ==
    mode \in {"up", "joining", "leaving"} /\ Still =>
        /\ \A p \in living \cap DOMAIN Wires : WireOf(p).refers \subseteq living
        /\ \A e \in edges : e[2] \in living

\* Every part goes in the end: none is held in a circle.
NothingLeaks == mode = "ended" /\ ~busy => living = {} /\ edges = {}

\* The programs without a window end with one result (cli_client.cpp:140).
OneResult ==
    /\ results <= 1
    /\ ~Gui /\ mode \in {"unwinding", "ended"} => results = 1

\* From the first statement of main to the last destructor: destructors find
\* what they use (video_module.hpp:43), references hold while the program
\* runs, nothing is left, and run has one result (cli_client.cpp:140).
LifetimesAreSound ==
    /\ living \subseteq Parts \cup {"main", "constructor"} /\ results \in 0..2
    /\ DestructorsAreSafe /\ ReferencesHold /\ NothingLeaks /\ OneResult

=============================================================================
