---------------------------------- MODULE Audio ----------------------------------
(***************************************************************************)
(* What a user hears and lets others hear: audio_tracks_volume switches    *)
(* the tracks of the participants and the own one, own_microphone_tester   *)
(* plays the microphone back through a loopback_audio, and own_media_model *)
(* is what the user sees and clicks.                                       *)
(*                                                                         *)
(* rooms::set gives audio_tracks_volume a room that the sync has not       *)
(* filled yet, so on_room subscribes to no participant, and a track that   *)
(* is added later is left as webrtc makes it: enabled, at full volume.     *)
(* mute_all_except_self has no caller.                                     *)
(***************************************************************************)
EXTENDS Naturals, FiniteSets

CONSTANTS
    Others,         \* remote participants, by id
    Volumes,        \* a few volumes
    FullVolume,     \* the one a track begins with
    MaxHandlers     \* bound: handlers of the loopback that were submitted

ASSUME AudioAssumption == FullVolume \in Volumes /\ MaxHandlers \in Nat \ {0}

VARIABLES
    inRoom,         \* room_ is set
    here,           \* remote participants in the room
    tracks,         \* those whose audio track was added
    enabled,        \* tracks: enabled
    volume,         \* tracks: volume
    settings,       \* settings: muted and volume per id
    deaf,           \* deafned
    mutedSelf,      \* muted_self
    ownTrack,       \* the own track is enabled, the opposite of actually_muted
    shownDeaf,      \* own_media_model::deafed
    didDeafen,      \* own_microphone_tester
    loop,           \* the delegate of loopback_audio_noop_if_disabled
    submitted,      \* handlers it submitted to the executor
    orphans,        \* handlers of delegates that are gone
    untouched,      \* history: tracks nothing was applied to since they came
    wishDeaf,       \* history: deafness the user asked for last
    clicked,        \* history: which was during a test, which undoes it
    broken          \* a handler ran on a delegate that is gone

roomVars == <<inRoom, here, settings>>
trackVars == <<tracks, enabled, volume, untouched>>
ownVars == <<mutedSelf, ownTrack>>
loopVars == <<loop, submitted, orphans, broken>>
audioVars == <<roomVars, trackVars, ownVars, loopVars, deaf, shownDeaf,
               didDeafen, wishDeaf, clicked>>

-----------------------------------------------------------------------------
(* audio_tracks_volume                                                     *)

\* update_audio for the tracks of ps, with settings st and deafness d.  A track
\* that is switched off keeps the volume it has.
Updates(ps, st, d) ==
    LET on(p) == ~d /\ ~st[p].muted
        of == ps \cap here \cap tracks
    IN  /\ enabled' = [p \in Others |-> IF p \in of THEN on(p) ELSE enabled[p]]
        /\ volume' = [p \in Others |->
                        IF p \in of /\ on(p) THEN st[p].volume ELSE volume[p]]
        /\ untouched' = untouched \ of
        /\ UNCHANGED tracks

UpdateSelfMuted(muted, d) == ownTrack' = (~muted /\ ~d)

\* Mutant: only the own track is told.
DeafenSelf(d) ==
    /\ deaf' = d
    /\ UpdateSelfMuted(mutedSelf, d)
    /\ UNCHANGED <<trackVars, mutedSelf>>

\* deafen, which returns early when nothing changes.
Deafen(d) ==
    /\ deaf' = d
    /\ IF d = deaf THEN UNCHANGED <<trackVars, ownTrack>>
       ELSE Updates(Others, settings, d) /\ UpdateSelfMuted(mutedSelf, d)
    /\ UNCHANGED mutedSelf

-----------------------------------------------------------------------------
(* What the user does: own_media_model and participant_model               *)

SetMuted ==
    /\ ~broken
    /\ mutedSelf' = ~mutedSelf
    /\ UpdateSelfMuted(~mutedSelf, deaf)
    /\ UNCHANGED <<roomVars, trackVars, loopVars, deaf, shownDeaf, didDeafen,
                   wishDeaf, clicked>>

\* own_media_model does not follow on_deafed: the user sees and toggles the last
\* thing they asked for.
SetDeafed ==
    /\ ~broken
    /\ shownDeaf' = ~shownDeaf /\ wishDeaf' = ~shownDeaf
    /\ clicked' = (loop # "off")
    /\ Deafen(~shownDeaf)
    /\ UNCHANGED <<roomVars, loopVars, didDeafen>>

\* mute and set_volume, then update_participant.
SetParticipant ==
    /\ ~broken
    /\ \E p \in here, m \in BOOLEAN, v \in Volumes :
        \E st \in {[settings EXCEPT ![p].muted = m],
                   [settings EXCEPT ![p].volume = v]} :
            settings' = st /\ Updates({p}, st, deaf)
    /\ UNCHANGED <<inRoom, here, ownVars, loopVars, deaf, shownDeaf, didDeafen,
                   wishDeaf, clicked>>

-----------------------------------------------------------------------------
(* The room                                                                *)

EnterRoom ==
    /\ ~broken /\ ~inRoom
    /\ inRoom' = TRUE
    /\ UNCHANGED <<here, settings, trackVars, ownVars, loopVars, deaf,
                   shownDeaf, didDeafen, wishDeaf, clicked>>

ForgetTracks(ps) ==
    /\ tracks' = tracks \ ps /\ untouched' = untouched \ ps
    /\ UNCHANGED <<enabled, volume>>

ExitRoom ==
    /\ ~broken /\ inRoom
    /\ inRoom' = FALSE /\ here' = {}
    /\ ForgetTracks(Others)
    /\ UNCHANGED <<settings, ownVars, loopVars, deaf, shownDeaf, didDeafen,
                   wishDeaf, clicked>>

ParticipantComes ==
    /\ ~broken /\ inRoom
    /\ \E p \in Others \ here : here' = here \cup {p}
    /\ UNCHANGED <<inRoom, settings, trackVars, ownVars, loopVars, deaf,
                   shownDeaf, didDeafen, wishDeaf, clicked>>

ParticipantGoes ==
    /\ ~broken
    /\ \E p \in here : here' = here \ {p} /\ ForgetTracks({p})
    /\ UNCHANGED <<inRoom, settings, ownVars, loopVars, deaf, shownDeaf,
                   didDeafen, wishDeaf, clicked>>

\* remote_participant::on_audio_track, which nobody listens to.
AudioTrack ==
    /\ ~broken
    /\ \E p \in here \ tracks :
        /\ tracks' = tracks \cup {p} /\ untouched' = untouched \cup {p}
        /\ enabled' = [enabled EXCEPT ![p] = TRUE]
        /\ volume' = [volume EXCEPT ![p] = FullVolume]
    /\ UNCHANGED <<roomVars, ownVars, loopVars, deaf, shownDeaf, didDeafen,
                   wishDeaf, clicked>>

AudioTrackRemoved ==
    /\ ~broken
    /\ \E p \in tracks : ForgetTracks({p})
    /\ UNCHANGED <<roomVars, ownVars, loopVars, deaf, shownDeaf, didDeafen,
                   wishDeaf, clicked>>

-----------------------------------------------------------------------------
(* own_microphone_tester and loopback_audio                                *)

\* Adding the track to the offering connection submits negotiation_needed.
EnableLoopback ==
    /\ loop' = "made" /\ submitted' = 1
    /\ UNCHANGED <<orphans, broken>>

StartTest ==
    /\ ~broken /\ loop = "off"
    /\ EnableLoopback
    /\ Deafen(TRUE)
    /\ didDeafen' = (didDeafen \/ ~deaf)
    /\ clicked' = (clicked /\ deaf # wishDeaf)
    /\ UNCHANGED <<roomVars, shownDeaf, wishDeaf>>

\* The delegate goes, and what it submitted stays.
DisableLoopback ==
    /\ orphans + submitted <= MaxHandlers
    /\ loop' = "off" /\ submitted' = 0 /\ orphans' = orphans + submitted
    /\ UNCHANGED broken

StopTest ==
    /\ ~broken /\ loop # "off"
    /\ DisableLoopback
    /\ Deafen(deaf /\ ~didDeafen)
    /\ didDeafen' = FALSE
    /\ UNCHANGED <<roomVars, shownDeaf, wishDeaf, clicked>>

\* negotiation_needed, or a candidate that is handed over.
RunSubmitted ==
    /\ ~broken /\ orphans = 0 /\ submitted > 0
    /\ submitted' = submitted - 1
    /\ loop' = IF loop = "made" THEN "negotiating" ELSE loop
    /\ UNCHANGED <<roomVars, trackVars, ownVars, orphans, broken, deaf,
                   shownDeaf, didDeafen, wishDeaf, clicked>>

\* The handlers hold a plain reference: running one whose object is gone is
\* undefined, it may go unnoticed or end the process.
RunOrphan ==
    /\ ~broken /\ orphans > 0
    /\ orphans' = orphans - 1
    /\ broken' \in BOOLEAN
    /\ UNCHANGED <<roomVars, trackVars, ownVars, loop, submitted, deaf,
                   shownDeaf, didDeafen, wishDeaf, clicked>>

\* webrtc finds a candidate of either connection.
IceCandidate ==
    /\ ~broken /\ loop \in {"negotiating", "up"}
    /\ orphans + submitted < MaxHandlers
    /\ submitted' = submitted + 1
    /\ UNCHANGED <<roomVars, trackVars, ownVars, loop, orphans, broken, deaf,
                   shownDeaf, didDeafen, wishDeaf, clicked>>

\* on_audio_track: the microphone is heard.
LoopbackTrack ==
    /\ ~broken /\ loop = "negotiating"
    /\ loop' = "up"
    /\ UNCHANGED <<roomVars, trackVars, ownVars, submitted, orphans, broken,
                   deaf, shownDeaf, didDeafen, wishDeaf, clicked>>

-----------------------------------------------------------------------------
AudioInit ==
    /\ inRoom = FALSE /\ here = {} /\ tracks = {} /\ untouched = {}
    /\ enabled = [p \in Others |-> TRUE]
    /\ volume = [p \in Others |-> FullVolume]
    /\ settings = [p \in Others |-> [muted |-> FALSE, volume |-> FullVolume]]
    /\ deaf = FALSE /\ mutedSelf = FALSE /\ ownTrack = TRUE
    /\ shownDeaf = FALSE /\ wishDeaf = FALSE /\ clicked = FALSE
    /\ didDeafen = FALSE
    /\ loop = "off" /\ submitted = 0 /\ orphans = 0 /\ broken = FALSE

AudioNext ==
    \/ SetMuted \/ SetDeafed \/ SetParticipant
    \/ EnterRoom \/ ExitRoom \/ ParticipantComes \/ ParticipantGoes
    \/ AudioTrack \/ AudioTrackRemoved
    \/ StartTest \/ StopTest \/ RunSubmitted \/ RunOrphan \/ IceCandidate
    \/ LoopbackTrack

AudioSpec == AudioInit /\ [][AudioNext]_audioVars

-----------------------------------------------------------------------------
(* Every variable has its type.                                            *)
AudioTypeOK ==
    /\ here \subseteq Others /\ tracks \subseteq here /\ untouched \subseteq tracks
    /\ enabled \in [Others -> BOOLEAN] /\ volume \in [Others -> Volumes]
    /\ settings \in [Others -> [muted : BOOLEAN, volume : Volumes]]
    /\ {inRoom, deaf, mutedSelf, ownTrack, shownDeaf, didDeafen, wishDeaf,
        clicked, broken} \subseteq BOOLEAN
    /\ loop \in {"off", "made", "negotiating", "up"}
    /\ submitted \in 0..MaxHandlers /\ orphans \in 0..MaxHandlers

(* What is heard is what was asked for: the own track and every track that *)
(* something was applied to since it came obey deafness and the muting and *)
(* volume of their participant, across rooms, returning participants and   *)
(* microphone tests (client/audio_tracks_volume.cpp:169, :190).            *)
TracksObey ==
    /\ ownTrack <=> ~mutedSelf /\ ~deaf
    /\ \A p \in tracks \ untouched :
        /\ enabled[p] <=> ~deaf /\ ~settings[p].muted
        /\ enabled[p] => volume[p] = settings[p].volume

(* A microphone test is heard by nobody else, and leaves the user as deaf  *)
(* as they asked to be, unless they changed that during the test           *)
(* (client/own_microphone_tester.cpp:14-29).                               *)
TestIsPrivate ==
    ~clicked => /\ loop # "off" => ~ownTrack
                /\ loop = "off" => deaf = wishDeaf

(* All of the above: a track that obeys, a test that stays private.         *)
AudioObeys == AudioTypeOK /\ TracksObey /\ TestIsPrivate

=============================================================================
