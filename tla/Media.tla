-------------------------------- MODULE Media --------------------------------
(***************************************************************************)
(* The pictures a user sends: the camera of video_settings, the window or  *)
(* screen of desktop_sharing, and tracks_adder, which hands both to every  *)
(* connection.  Sharing pauses the camera and gives it back.               *)
(*                                                                         *)
(* Handlers run one at a time; each operator below is a method, from the   *)
(* record of the program's objects to the record after the call, signals   *)
(* and their slots included.  An exception that nobody catches ends the    *)
(* process (app/gui.cpp runs the event loop without a handler).            *)
(***************************************************************************)
EXTENDS Naturals, FiniteSets

CONSTANTS
    Devices,    \* cameras
    Windows,    \* windows and screens
    Peers,      \* connections to other participants
    None        \* null

ASSUME MediaAssumption ==
    /\ None \notin Devices \cup Windows
    /\ Devices \cap Windows = {}

VARIABLES
    m,          \* the program's objects
    plugged,    \* cameras that are there
    open        \* windows that are there

mediaVars == <<m, plugged, open>>

Sources == Devices \cup Windows
Only(x) == {x} \ {None}

Blank == [
    paused |-> FALSE,       \* video_settings
    last |-> None,          \*   last_device_id
    device |-> None,        \*   capture_device
    listed |-> {},          \* enumerator::enumerated
    counter |-> [d \in Devices |-> 0],  \* device_with_start_stop_counter
    running |-> {},         \* native devices that capture
    own |-> {},             \* own_video::videos
    view |-> None,          \* own_media_model::video
    shown |-> FALSE,        \*   video_disabled
    viewer |-> None,        \* audio_video_settings_model::video_device
    playing |-> FALSE,      \*   whether it was started
    sharing |-> None,       \* desktop_sharing: set_capturer
    didPause |-> FALSE,     \*   did_pause
    active |-> FALSE,       \* share_desktop_model::active
    adders |-> {},          \* tracks_adder: sources of its track_adders
    peers |-> {},           \*   connections_
    sent |-> [p \in Peers |-> {}],  \* tracks of each connection
    wish |-> FALSE,         \* what the user asked for last: no camera
    silent |-> FALSE,       \* the camera was once unpaused without on_paused
    thrown |-> FALSE,       \* an exception is on its way
    ended |-> FALSE,        \* the process is gone
    failed |-> {}]          \* assertions that did not hold

Ensure(s, holds, what) ==
    IF holds THEN s ELSE [s EXCEPT !.failed = @ \cup {what}]

-----------------------------------------------------------------------------
(* tracks_adder, own_video and the device_wrapper                          *)

\* connection::add_track and remove_track for the sources xs and each connection
\* of ps, with their assertions.
Sends(s, ps, xs) ==
    [Ensure(s, \A p \in ps : xs \cap s.sent[p] = {}, "add_track:198") EXCEPT
        !.sent = [p \in Peers |-> IF p \in ps THEN @[p] \cup xs ELSE @[p]]]

StopsSending(s, ps, xs) ==
    [Ensure(s, \A p \in ps : xs \subseteq s.sent[p], "remove_track:221") EXCEPT
        !.sent = [p \in Peers |-> IF p \in ps THEN @[p] \ xs ELSE @[p]]]

AddTrack(s, x) ==
    Sends([Ensure(s, x \notin s.adders, "add:7") EXCEPT !.adders = @ \cup {x}],
          s.peers, {x})

\* Mutant: the connections keep the track.
RemoveTrackHere(s, x) == [s EXCEPT !.adders = @ \ {x}]

RemoveTrack(s, x) ==
    StopsSending([Ensure(s, x \in s.adders, "remove:15") EXCEPT !.adders = @ \ {x}],
                 s.peers, {x})

AddOwn(s, d) ==
    [Ensure(s, d \notin s.own, "add:12") EXCEPT !.own = @ \cup {d}]

RemoveOwn(s, d) ==
    [Ensure(s, d \in s.own, "remove:22") EXCEPT !.own = @ \ {d}]

\* Starting a device that another wrapper uses does not touch the hardware.
Starts(s, d, works) == s.counter[d] > 0 \/ (works /\ d \in plugged)

StartDevice(s, d) ==
    [s EXCEPT !.counter[d] = @ + 1, !.running = @ \cup {d}]

\* Mutant: the count is not looked at.
StopDeviceAlways(s, d) ==
    [s EXCEPT !.counter[d] = @ - 1, !.running = @ \ {d}]

StopDevice(s, d) ==
    [s EXCEPT !.counter[d] = @ - 1,
              !.running = IF s.counter[d] = 1 THEN @ \ {d} ELSE @]

-----------------------------------------------------------------------------
(* desktop_sharing, the part that video_settings calls back                *)

\* on_removed or on_added reaches share_desktop_model.
UpdateActive(s) == [s EXCEPT !.active = s.sharing # None]

\* stop_or_reset: the capturer is started whenever it is set, and stopping it
\* fulfils its promise, whose continuation resets the instance inline.
StopSharing(s) ==
    RemoveTrack(UpdateActive([s EXCEPT !.sharing = None]), s.sharing)

\* on_paused reaches own_media_model and desktop_sharing.  A reset cannot
\* unpause again here, did_pause is false.
OnPaused(s, paused) ==
    LET r == [s EXCEPT !.shown = paused, !.didPause = @ /\ paused]
    IN  IF ~paused /\ r.sharing # None THEN StopSharing(r) ELSE r

-----------------------------------------------------------------------------
(* video_settings                                                          *)

\* on_video_source_changed reaches own_media_model.
UpdateVideo(s) ==
    [Ensure(s, Cardinality(s.own) <= 1, "update_video:101") EXCEPT
        !.view = IF s.own = {} THEN None ELSE CHOOSE d \in s.own : TRUE]

ResetCapture(s) ==
    IF s.device = None THEN s
    ELSE [StopDevice(RemoveOwn(RemoveTrack(s, s.device), s.device), s.device)
            EXCEPT !.device = None]

ResetVideo(s) == UpdateVideo([ResetCapture(s) EXCEPT !.last = None])

ChangeTo(s, d, works) ==
    LET r == [(IF s.device = None THEN s ELSE ResetVideo(s)) EXCEPT !.last = d]
    IN  CASE s.device = d -> s
          [] s.device # d /\ r.paused -> r
          [] s.device # d /\ ~r.paused /\ ~Starts(r, d, works) ->
                [UpdateVideo([r EXCEPT !.last = None]) EXCEPT !.thrown = TRUE]
          [] OTHER ->
                UpdateVideo(AddOwn(AddTrack(
                    [StartDevice(r, d) EXCEPT !.device = d], d), d))

\* Without a device, or when it fails, the camera counts as unpaused and
\* nobody is told.
Pause(s, paused, works) ==
    LET r == [s EXCEPT !.paused = paused] IN
    IF s.paused = paused THEN s
    ELSE IF paused THEN OnPaused(UpdateVideo(ResetCapture(r)), TRUE)
    ELSE IF r.last = None THEN [r EXCEPT !.silent = TRUE]
    ELSE LET c == ChangeTo(r, r.last, works)
         IN  IF c.thrown THEN [c EXCEPT !.silent = TRUE] ELSE OnPaused(c, FALSE)

-----------------------------------------------------------------------------
(* desktop_sharing                                                         *)

PauseVideo(s) ==
    IF s.didPause \/ s.last = None \/ s.paused THEN s
    ELSE [Pause(s, TRUE, TRUE) EXCEPT !.didPause = TRUE]

UnpauseVideo(s, works) ==
    IF s.didPause THEN Pause([s EXCEPT !.didPause = FALSE], FALSE, works) ELSE s

\* Mutant: a camera the user had paused is unpaused as well.
ResetSharingAlways(s, works) == Pause(StopSharing(s), FALSE, works)

ResetSharing(s, works) == UnpauseVideo(StopSharing(s), works)

SetSharing(s, w, works) ==
    LET r == IF s.sharing = None THEN s ELSE ResetSharing(s, works)
        p == PauseVideo([r EXCEPT !.sharing = w])
    IN  IF r.thrown THEN r
        ELSE IF w \notin open THEN [r EXCEPT !.thrown = TRUE]
        ELSE UpdateActive(AddTrack(p, w))

-----------------------------------------------------------------------------
(* What the user, the hardware and the room do                             *)

\* A step of the program, with exceptions that reach the event loop.
Does(s) ==
    /\ ~m.ended
    /\ m' = [s EXCEPT !.thrown = FALSE, !.ended = s.thrown]
    /\ UNCHANGED <<plugged, open>>

\* own_media_model::set_video_disabled, which QML calls with the opposite of
\* what it shows.
SetVideoDisabled ==
    \E works \in BOOLEAN :
        LET b == ~m.shown
        IN  Does(Pause([m EXCEPT !.shown = b, !.wish = b], b, works))

ShareDesktop == \E w \in Windows, works \in BOOLEAN : Does(SetSharing(m, w, works))

StopShareDesktop ==
    /\ m.sharing # None
    /\ \E works \in BOOLEAN : Does(ResetSharing(m, works))

\* leaver::on_about_to_leave: did_pause stays.
LeaveRoom == m.sharing # None /\ Does(StopSharing(m))

\* interval_capturer: a window that is gone is a permanent error, which stops
\* the timer and fails the promise; any other result is followed by the next
\* interval.
CaptureFails == m.sharing \in Windows \ open /\ Does(StopSharing(m))

\* audio_video_settings_model: the camera is chosen from the list; its preview
\* is made from a second wrapper of the device, and goes on if it was playing.
CloseViewer(s) ==
    [(IF s.playing THEN StopDevice(s, s.viewer) ELSE s) EXCEPT
        !.viewer = None, !.playing = FALSE]

OnVideoDeviceActivated ==
    \E d \in m.listed, works \in BOOLEAN :
        LET c == ChangeTo(m, d, works)
            v == [CloseViewer(c) EXCEPT !.viewer = d]
        IN  Does(IF c.thrown \/ (m.playing /\ ~Starts(v, d, works))
                 THEN [CloseViewer(c) EXCEPT !.thrown = FALSE]
                 ELSE IF m.playing THEN [StartDevice(v, d) EXCEPT !.playing = TRUE]
                 ELSE v)

\* The page with the preview is opened and closed.
Play ==
    /\ m.viewer # None /\ ~m.playing
    /\ \E works \in BOOLEAN :
        Does(IF Starts(m, m.viewer, works)
             THEN [StartDevice(m, m.viewer) EXCEPT !.playing = TRUE]
             ELSE [m EXCEPT !.thrown = TRUE])

StopPlaying ==
    m.playing /\ Does([StopDevice(m, m.viewer) EXCEPT !.playing = FALSE])

\* enumerator::enumerate by the interval timer, then on_video_devices_changed.
Enumerate ==
    /\ m.listed # plugged
    /\ LET s == [m EXCEPT !.listed = plugged]
       IN  Does(IF s.last \in plugged \cup {None} THEN s ELSE ResetVideo(s))

\* remote_participant is made and goes.
AddConnection(p) ==
    /\ p \notin m.peers
    /\ Does(Sends([m EXCEPT !.peers = @ \cup {p}], {p}, m.adders))

RemoveConnection(p) ==
    /\ p \in m.peers
    /\ Does(StopsSending([m EXCEPT !.peers = @ \ {p}], {p}, m.adders))

\* External: the hardware and the desktop.
Plug ==
    \E d \in Devices :
        /\ plugged' = IF d \in plugged THEN plugged \ {d} ELSE plugged \cup {d}
        /\ UNCHANGED <<m, open>>

OpenOrClose ==
    \E w \in Windows :
        /\ open' = IF w \in open THEN open \ {w} ELSE open \cup {w}
        /\ UNCHANGED <<m, plugged>>

-----------------------------------------------------------------------------
(* setup_initial_device takes the first camera that starts, if any.  The   *)
(* devices before it may all have failed.                                  *)
MediaInit ==
    /\ plugged \in SUBSET Devices
    /\ open = Windows
    /\ \E d \in plugged \cup {None} :
        LET s == [Blank EXCEPT !.listed = plugged]
        IN  m = IF d = None THEN s ELSE ChangeTo(s, d, TRUE)

MediaNext ==
    \/ SetVideoDisabled \/ ShareDesktop \/ StopShareDesktop \/ LeaveRoom
    \/ CaptureFails \/ OnVideoDeviceActivated \/ Play \/ StopPlaying
    \/ Enumerate \/ Plug \/ OpenOrClose
    \/ \E p \in Peers : AddConnection(p) \/ RemoveConnection(p)

MediaSpec == MediaInit /\ [][MediaNext]_mediaVars

\* The timer of the capturer goes on as long as something is shared.
MediaFairness == WF_mediaVars(CaptureFails)

-----------------------------------------------------------------------------
(* Every variable has its type, and an exception is not kept.              *)
MediaTypeOK ==
    /\ m.last \in Devices \cup {None} /\ m.device \in Devices \cup {None}
    /\ m.viewer \in Devices \cup {None} /\ m.view \in Devices \cup {None}
    /\ m.sharing \in Windows \cup {None}
    /\ m.counter \in [Devices -> 0..2]
    /\ m.listed \subseteq Devices /\ m.running \subseteq Devices
    /\ m.own \subseteq Devices /\ m.adders \subseteq Sources
    /\ m.peers \subseteq Peers /\ m.sent \in [Peers -> SUBSET Sources]
    /\ plugged \subseteq Devices /\ open \subseteq Windows
    /\ ~m.thrown

(* Every participant is sent the camera in use and the shared window, and  *)
(* nothing else; the own picture is the camera in use; the assertions of   *)
(* tracks_adder, own_video, own_media_model and the connections hold        *)
(* (client/tracks_adder.cpp:7, own_video.cpp:22, own_media_model.cpp:101). *)
SentIsShown ==
    /\ MediaTypeOK
    /\ m.failed = {}
    /\ m.adders = Only(m.device) \cup Only(m.sharing)
    /\ m.sent = [p \in Peers |-> IF p \in m.peers THEN m.adders ELSE {}]
    /\ m.own = Only(m.device) /\ m.view = m.device
    /\ m.device # None => m.last = m.device /\ ~m.paused
    /\ m.active <=> m.sharing # None

(* A camera captures only while it is sent or previewed: the wrappers of a *)
(* device share a count (capture/video/device.cpp:118), which survives     *)
(* failures, unplugging and pausing in any order.                          *)
CameraIsOffUnlessUsed ==
    \A d \in Devices :
        d \in m.running <=> m.device = d \/ (m.viewer = d /\ m.playing)

(* When nothing is shared on the camera's account, the camera is paused    *)
(* exactly if the user paused it last: sharing gives it back as it was     *)
(* (client/desktop_sharing.cpp:206-226).  This needs that the program      *)
(* announced every unpausing.                                              *)
WishIsKept == ~m.silent /\ ~m.didPause => m.paused = m.wish

(* A window that was closed is not shared for ever                         *)
(* (capture/desktop/capturer.cpp:147, client/desktop_sharing.cpp:259).     *)
GoneIsUnshared ==
    \A w \in Windows :
        m.sharing = w /\ w \notin open ~> m.sharing # w \/ w \in open \/ m.ended

=============================================================================
