-------------------------------- MODULE Frames --------------------------------
(***************************************************************************)
(* What a thread of webrtc produces and the main thread shows: the frames  *)
(* that frame_provider_google_video_source brings to a surface of Qt, and  *)
(* the levels and voices audio_level_calculator makes of sound.  Both post *)
(* to the main thread, and what they post may outlive them.                *)
(*                                                                         *)
(* A frame is its size, a datum of sound counts 1.                         *)
(***************************************************************************)
EXTENDS Naturals, Sequences, FiniteSets, SequencesExt

CONSTANTS
    Surfaces, NoSurface,
    Sizes,          \* sizes of frames
    Period,         \* audio_level_values_to_collect
    MaxQueue,       \* bound: posted and not run, of each kind
    MaxCalculators  \* bound: calculators made, one after the other

ASSUME FramesAssumption ==
    /\ NoSurface \notin Surfaces /\ Sizes \subseteq Nat \ {0}
    /\ Period \in Nat \ {0} /\ MaxQueue \in Nat /\ MaxCalculators \in Nat

VARIABLES
    provider,   \* alive, connected to a source, its surface, format and size
    surfaces,   \* the format each surface was started with, 0 when inactive
    frames,     \* frames posted to the provider
    shown,      \* history: the last frame presented and the surface's format
    calculator, \* number, alive, audio_level_counter, what the cache sums, voice
    posts,      \* what calculators submitted to the main thread
    heard       \* history: of this calculator, data not told yet, voice told

videoVars == <<provider, surfaces, frames, shown>>
levelVars == <<calculator, posts, heard>>
framesVars == <<videoVars, levelVars>>

-----------------------------------------------------------------------------
(* frame_provider_google_video_source                                      *)

Blanked(s) == IF s = NoSurface THEN surfaces ELSE [surfaces EXCEPT ![s] = 0]

SetSource ==
    /\ provider.alive
    /\ provider' = [provider EXCEPT !.connected = ~@]
    /\ UNCHANGED <<surfaces, frames, shown, levelVars>>

SetSurface ==
    /\ provider.alive
    /\ \E s \in Surfaces \cup {NoSurface} :
        /\ provider' = [provider EXCEPT !.surface = s]
        /\ surfaces' = IF s # provider.surface THEN Blanked(provider.surface) ELSE surfaces
    /\ UNCHANGED <<frames, shown, levelVars>>

\* On the thread of the source; Qt queues the call for the main thread.
OnFrame ==
    /\ provider.alive /\ provider.connected /\ Len(frames) < MaxQueue
    /\ \E size \in Sizes : frames' = Append(frames, size)
    /\ UNCHANGED <<provider, surfaces, shown, levelVars>>

\* Mutant: a surface that runs keeps its format.
StartSurfaceOnce(s, running, format) == IF running = 0 THEN format ELSE running

\* start_surface: one that runs in another format is stopped first.
StartSurface(s, running, format) == format

\* set_format: the size is looked at first, a new one stops the surface.
SetFormat(p, size) ==
    IF size = p.size THEN p ELSE [p EXCEPT !.size = size, !.format = size]
Stopped(p, size, running) == IF size = p.size THEN running ELSE 0

OnFrameUiThread ==
    /\ frames # <<>>
    /\ frames' = Tail(frames)
    /\ IF provider.surface = NoSurface THEN UNCHANGED <<provider, surfaces, shown>>
       ELSE LET size == Head(frames)
                s == provider.surface
                p == SetFormat(provider, size)
                running == StartSurface(s, Stopped(provider, size, surfaces[s]), p.format)
            IN  /\ provider' = p
                /\ surfaces' = [surfaces EXCEPT ![s] = running]
                /\ shown' = [frame |-> size, format |-> running]
    /\ UNCHANGED levelVars

\* participant_model::video_removed: Qt forgets what is posted to an object
\* that goes.  The surface belongs to the output in QML.
DestroyProvider ==
    /\ provider.alive
    /\ provider' = [provider EXCEPT !.alive = FALSE, !.connected = FALSE, !.surface = NoSurface]
    /\ frames' = <<>>
    /\ UNCHANGED <<surfaces, shown, levelVars>>

\* participant_model::video_added
NewProvider ==
    /\ ~provider.alive
    /\ provider' = [alive |-> TRUE, connected |-> TRUE, surface |-> NoSurface, format |-> 0, size |-> 0]
    /\ frames' = <<>>
    /\ UNCHANGED <<surfaces, shown, levelVars>>

-----------------------------------------------------------------------------
(* audio_level_calculator                                                  *)

Post(kind, value) == [kind |-> kind, value |-> value, of |-> calculator.number]

\* calculate_30times_a_second, on the audio thread.  The counter starts anew
\* with the datum that made it pass, the cache with that datum in it.
Full == calculator.counter + 1 > Period
Level == IF Full THEN <<Post("level", calculator.cache)>> ELSE <<>>

\* Mutant: the voice is remembered only when it is there.
VoiceOnce(c, voice) == [c EXCEPT !.voice = @ \/ voice]

Voice(c, voice) == [c EXCEPT !.voice = voice]

OnData ==
    /\ calculator.alive /\ Len(posts) + 1 < MaxQueue
    /\ \E voice \in BOOLEAN :
        /\ calculator' = Voice([calculator EXCEPT !.counter = IF Full THEN 0 ELSE @ + 1,
                                                  !.cache = IF Full THEN 1 ELSE @ + 1], voice)
        /\ posts' = posts \o Level \o
                    (IF voice = calculator.voice THEN <<>> ELSE <<Post("voice", voice)>>)
        /\ heard' = [heard EXCEPT !.untold = @ + 1, !.spoke = voice]
    /\ UNCHANGED videoVars

\* Mutant: who posted is not asked whether it is alive.
TellsAnyhow(post) == TRUE

\* alive.lock()
Tells(post) == calculator.alive /\ post.of = calculator.number

RunPost ==
    /\ posts # <<>>
    /\ posts' = Tail(posts)
    /\ LET post == Head(posts) IN
        heard' = IF ~Tells(post) THEN heard
                 ELSE IF post.kind = "voice" THEN [heard EXCEPT !.voice = post.value, !.by = post.of]
                 ELSE [heard EXCEPT !.untold = @ - post.value, !.by = post.of]
    /\ UNCHANGED <<calculator, videoVars>>

\* participant_model::audio_added.  The model keeps the voice it was told of.
AudioAdded ==
    /\ ~calculator.alive /\ calculator.number < MaxCalculators
    /\ calculator' = [number |-> calculator.number + 1, alive |-> TRUE,
                      counter |-> 0, cache |-> 0, voice |-> FALSE]
    /\ heard' = [untold |-> 0, voice |-> FALSE, spoke |-> FALSE, by |-> calculator.number + 1]
    /\ UNCHANGED <<posts, videoVars>>

AudioRemoved ==
    /\ calculator.alive
    /\ calculator' = [calculator EXCEPT !.alive = FALSE]
    /\ heard' = [heard EXCEPT !.by = 0]
    /\ UNCHANGED <<posts, videoVars>>

-----------------------------------------------------------------------------
FramesInit ==
    /\ provider = [alive |-> FALSE, connected |-> FALSE, surface |-> NoSurface, format |-> 0, size |-> 0]
    /\ surfaces = [s \in Surfaces |-> 0] /\ frames = <<>>
    /\ shown = [frame |-> 0, format |-> 0]
    /\ calculator = [number |-> 0, alive |-> FALSE, counter |-> 0, cache |-> 0, voice |-> FALSE]
    /\ posts = <<>>
    /\ heard = [untold |-> 0, voice |-> FALSE, spoke |-> FALSE, by |-> 0]

VideoNext ==
    SetSource \/ SetSurface \/ OnFrame \/ OnFrameUiThread \/ DestroyProvider \/ NewProvider

LevelNext == OnData \/ RunPost \/ AudioAdded \/ AudioRemoved

FramesNext == VideoNext \/ LevelNext

FramesSpec == FramesInit /\ [][FramesNext]_framesVars

-----------------------------------------------------------------------------
(* Every variable has its type.                                            *)
FramesTypeOK ==
    /\ provider.surface \in Surfaces \cup {NoSurface}
    /\ surfaces \in [Surfaces -> Sizes \cup {0}]
    /\ frames \in Seq(Sizes) /\ Len(frames) <= MaxQueue
    /\ calculator.counter \in 0..Period /\ calculator.number \in 0..MaxCalculators
    /\ Len(posts) <= MaxQueue

(* A frame is presented on a surface that was started in its size, however *)
(* the sizes of the frames, the surface and the source change meanwhile    *)
(* (client/ui/frame_provider_google_video_frame.cpp:108).                  *)
PresentedFits == shown.frame = shown.format

(* Nobody is told of the sound of a calculator that is gone, although what *)
(* it submitted is still to run (client/audio_level_calculator.cpp:74).    *)
OnlyTheLivingTell == heard.by = IF calculator.alive THEN calculator.number ELSE 0

(* When all that was submitted has run, the voice told is the voice that   *)
(* was detected last, and every datum was counted in one level, or is      *)
(* still in the cache (client/audio_level_calculator.cpp:83, :68).         *)
SoundIsTold ==
    calculator.alive /\ (\A i \in DOMAIN posts : posts[i].of # calculator.number) =>
        heard.voice = heard.spoke /\ heard.untold = calculator.cache

(* What the threads of webrtc post arrives whole, or not at all.           *)
FramesAreSound == FramesTypeOK /\ PresentedFits /\ OnlyTheLivingTell /\ SoundIsTold

=============================================================================
