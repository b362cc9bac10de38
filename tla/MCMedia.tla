------------------------------- MODULE MCMedia -------------------------------
(* What is sent, the selection of what to share, the choice of a microphone *)
(* and a speaker, and what comes out of the threads of webrtc - frames and  *)
(* levels: they share nothing, and each is checked alone.                   *)
EXTENDS Media, Previews, AudioDevices, Frames

VARIABLE part

MCInit ==
    /\ MediaInit /\ PreviewsInit /\ DevicesInit /\ FramesInit
    /\ part \in {"media", "previews", "devices", "video", "levels"}
    /\ part # "media" => m = Blank
    /\ part # "previews" => there = {}
    /\ part # "devices" => \A d \in Directions : ports[d] = <<>>

MCNext ==
    \/ part = "media" /\ MediaNext /\ UNCHANGED <<part, previewsVars, devicesVars, framesVars>>
    \/ part = "previews" /\ PreviewsNext /\ UNCHANGED <<part, mediaVars, devicesVars, framesVars>>
    \/ part = "devices" /\ DevicesNext /\ UNCHANGED <<part, mediaVars, previewsVars, framesVars>>
    \/ part = "video" /\ VideoNext /\ UNCHANGED <<part, mediaVars, previewsVars, devicesVars>>
    \/ part = "levels" /\ LevelNext /\ UNCHANGED <<part, mediaVars, previewsVars, devicesVars>>

MCSpec ==
    /\ MCInit /\ [][MCNext]_<<part, mediaVars, previewsVars, devicesVars, framesVars>>
    /\ MediaFairness /\ PreviewsFairness

\* What is shared, and what is offered to share, follows the windows that come
\* and go.
WindowsAreFollowed == GoneIsUnshared /\ SelectionFollows

=============================================================================
