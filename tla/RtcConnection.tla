----------------------------- MODULE RtcConnection -----------------------------
(***************************************************************************)
(* rtc::connection over the peer connection of a library: the futures of   *)
(* its operations, the tracks it sends and receives, its data channels.    *)
(* There are two backends.  google::connection is the one in use: its      *)
(* observers are called on the main thread (asio_signaling_thread polls    *)
(* there).  gstreamer::connection is not built at present; webrtcbin calls *)
(* back on its own thread.                                                 *)
(***************************************************************************)
EXTENDS Naturals, Sequences, FiniteSets, SequencesExt

CONSTANTS
    Ops,            \* bound: operations under way or just answered
    OwnTracks,      \* tracks to send
    RemoteTracks,   \* tracks the other side may send
    VideoTracks,    \* the remote ones that are video
    Channels,       \* data channels
    MaxPosted       \* bound: submitted functions that have not run

ASSUME RtcAssumption ==
    VideoTracks \subseteq RemoteTracks /\ MaxPosted \in Nat

VARIABLES
    backend,    \* "google" or "gstreamer"
    calls,      \* an operation, its future, and whether the library did it
    chain,      \* operations in the library, the oldest first
    signaling,  \* signaling state of the library
    sendTracks, \* sending_tracks
    senders,    \* tracks the library sends
    receiving,  \* receiving_tracks
    told,       \* history: tracks added and not removed, by signal
    channels,   \* each data channel: in the library, in data_channels, held by a user
    posted,     \* gstreamer: functions submitted to the executor
    flags       \* subset of {"wired", "gone", "crashed", "dangling"}

rtcVars == <<backend, calls, chain, signaling, sendTracks, senders, receiving,
             told, channels, posted, flags>>

Creates == {"createOffer", "createAnswer"}
Locals == {"localOffer", "localAnswer"}
RemoteDescriptions == {"remoteOffer", "remoteAnswer"}
NoCall == [kind |-> "none", future |-> "none", applied |-> FALSE]

-----------------------------------------------------------------------------
(* The library                                                             *)

\* What each operation does to the signaling state, when it succeeds.
Moves ==
    {<<s, "createOffer", s>> : s \in {"stable", "haveLocal"}}
    \cup {<<"haveRemote", "createAnswer", "haveRemote">>,
          <<"haveRemote", "localAnswer", "stable">>, <<"haveLocal", "remoteAnswer", "stable">>}
    \cup {<<s, "localOffer", "haveLocal">> : s \in {"stable", "haveLocal"}}
    \cup {<<s, "remoteOffer", "haveRemote">> : s \in {"stable", "haveRemote"}}

-----------------------------------------------------------------------------
(* Operations                                                              *)

Usable == flags \cap {"gone", "crashed"} = {}

Begin(o, k) ==
    /\ Usable /\ calls[o].future # "open"
    /\ calls' = [calls EXCEPT ![o] = [kind |-> k, future |-> "open", applied |-> FALSE]]
    /\ chain' = Append(chain, o)
    /\ UNCHANGED <<backend, signaling, sendTracks, senders, receiving, told,
                   channels, posted, flags>>

CreateOffer(o) == Begin(o, "createOffer")
CreateAnswer(o) == Begin(o, "createAnswer")

Settled(o, future, ok) ==
    [calls EXCEPT ![o] = [kind |-> "none", future |-> future, applied |-> ok]]

\* A description that cannot be parsed is answered at once, with the error.
Unparsed(o) ==
    /\ Usable /\ calls[o].future # "open"
    /\ calls' = Settled(o, "error", FALSE)
    /\ UNCHANGED <<backend, chain, signaling, sendTracks, senders, receiving, told,
                   channels, posted, flags>>

SetLocal(o) == Unparsed(o) \/ \E k \in Locals : Begin(o, k)
SetRemote(o) == Unparsed(o) \/ \E k \in RemoteDescriptions : Begin(o, k)

-----------------------------------------------------------------------------
(* Answers of the library                                                  *)

AsItIs(ok) == IF ok THEN "value" ELSE "error"

\* create_session_description_observer
Created(o, ok) == Settled(o, AsItIs(ok), ok)

\* set_session_description_observer
LocalSet(o, ok) == Settled(o, AsItIs(ok), ok)

\* Mutant: the error is not looked at.
RemoteSetAnyhow(o, ok) == Settled(o, "value", ok)

\* set_remote_description_observer
RemoteSet(o, ok) == Settled(o, AsItIs(ok), ok)

\* gstreamer: the reply is not looked at.
DescriptionSet(o, ok) == Settled(o, "value", ok)

\* OnRemoveTrack for each that went, OnAddTrack for each that came.
OnRemoveTrack(gone) == [tracks |-> receiving \ gone,
                        told |-> {t \in told : t.track \notin gone}]
OnAddTrack(r, come) ==
    [tracks |-> r.tracks \cup come,
     told |-> r.told \cup {[track |-> t, kind |-> IF t \in VideoTracks THEN "video" ELSE "audio"] :
                            t \in come}]

GoogleAnswers(o, ok) ==
    /\ calls' = IF calls[o].kind \in Creates THEN Created(o, ok)
                ELSE IF calls[o].kind \in Locals THEN LocalSet(o, ok) ELSE RemoteSet(o, ok)
    /\ IF ok /\ calls[o].kind \in RemoteDescriptions
       THEN \E R \in SUBSET RemoteTracks :
                LET r == OnAddTrack(OnRemoveTrack(receiving \ R), R \ receiving)
                IN  receiving' = r.tracks /\ told' = r.told
       ELSE UNCHANGED <<receiving, told>>
    /\ UNCHANGED flags

\* on_offer_created and on_answer_created use the description of the reply
\* whether there is one or not.
GstreamerAnswers(o, ok) ==
    /\ IF calls[o].kind \in Creates /\ ~ok
       THEN flags' = flags \cup {"crashed"} /\ UNCHANGED calls
       ELSE UNCHANGED flags /\ calls' = IF calls[o].kind \in Creates THEN Created(o, ok)
                                        ELSE DescriptionSet(o, ok)
    /\ UNCHANGED <<receiving, told>>

Answers(ok) ==
    /\ chain # <<>> /\ "crashed" \notin flags
    /\ LET o == Head(chain) IN
        /\ IF ok THEN \E move \in Moves :
                        /\ move[1] = signaling /\ move[2] = calls[o].kind
                        /\ signaling' = move[3]
           ELSE UNCHANGED signaling
        /\ IF backend = "google" THEN GoogleAnswers(o, ok) ELSE GstreamerAnswers(o, ok)
    /\ chain' = Tail(chain)
    /\ UNCHANGED <<backend, sendTracks, senders, channels, posted>>

LibrarySucceeds == Answers(TRUE)
LibraryFails == Answers(FALSE)

\* Once closed the library may drop an operation.  google: the observer goes,
\* and its promise breaks.  gstreamer: nobody answers or frees the promise.
Dropped ==
    /\ chain # <<>> /\ signaling = "closed" /\ "crashed" \notin flags
    /\ calls' = IF backend = "google" THEN Settled(Head(chain), "error", FALSE) ELSE calls
    /\ chain' = Tail(chain)
    /\ UNCHANGED <<backend, signaling, sendTracks, senders, receiving, told,
                   channels, posted, flags>>

-----------------------------------------------------------------------------
(* Tracks and channels                                                     *)

\* The library takes no track once it is closed: then the wrapper keeps none.
AddTrack(t) ==
    /\ Usable /\ t \notin sendTracks
    /\ IF backend = "google" /\ signaling = "closed" THEN UNCHANGED <<sendTracks, senders>>
       ELSE sendTracks' = sendTracks \cup {t} /\ senders' = senders \cup {t}
    /\ UNCHANGED <<backend, calls, chain, signaling, receiving, told, channels, posted, flags>>

\* gstreamer: not implemented.
RemoveTrack(t) ==
    /\ backend = "google" /\ t \in sendTracks
    /\ sendTracks' = sendTracks \ {t}
    /\ senders' = IF signaling = "closed" THEN senders ELSE senders \ {t}
    /\ UNCHANGED <<backend, calls, chain, signaling, receiving, told, channels, posted, flags>>

\* Mutant: the connection does not keep the channels it made.
MadeForTheUser(c) == [channels EXCEPT ![c] = [native |-> "connecting", kept |-> FALSE, held |-> TRUE]]

Made(c) == [channels EXCEPT ![c] = [native |-> "connecting", kept |-> TRUE, held |-> TRUE]]

\* create_data_channel, and OnDataChannel for one of the other side.
NewDataChannel(c) ==
    /\ backend = "google" /\ signaling # "closed" /\ channels[c].native = "none"
    /\ channels' = Made(c)
    /\ UNCHANGED <<backend, calls, chain, signaling, sendTracks, senders, receiving,
                   told, posted, flags>>

\* data_channel::OnStateChange and close; a user lets its pointer go.
ChannelStep(c) ==
    /\ \/ channels[c].native = "connecting" /\ channels' = [channels EXCEPT ![c].native = "open"]
       \/ channels[c].native \in {"connecting", "open"} /\ channels' = [channels EXCEPT ![c].native = "closed"]
       \/ channels[c].held /\ channels' = [channels EXCEPT ![c].held = FALSE]
    /\ UNCHANGED <<backend, calls, chain, signaling, sendTracks, senders, receiving,
                   told, posted, flags>>

-----------------------------------------------------------------------------
(* The end                                                                 *)

\* gstreamer: disconnect_signals, then the pipeline stops.
CloseConnection ==
    /\ Usable
    /\ signaling' = "closed"
    /\ flags' = flags \ {"wired"}
    /\ channels' = [c \in Channels |-> [channels[c] EXCEPT !.native = IF @ = "none" THEN @ ELSE "closed"]]
    /\ UNCHANGED <<backend, calls, chain, sendTracks, senders, receiving, told, posted>>

\* The destructor: google releases its channels and then the library,
\* gstreamer closes.
DestroyConnection ==
    /\ Usable
    /\ flags' = (flags \ {"wired"}) \cup {"gone"}
    /\ signaling' = "closed"
    /\ sendTracks' = {} /\ receiving' = {} /\ senders' = {} /\ told' = {}
    /\ channels' = [c \in Channels |-> [channels[c] EXCEPT !.kept = FALSE,
                        !.native = IF @ = "none" THEN @ ELSE "closed"]]
    /\ UNCHANGED <<backend, calls, chain, posted>>

\* gstreamer: on_gst_negotiation_needed and on_gst_ice_candidate submit to the
\* main thread a function that holds the connection as a plain pointer.
OnGst ==
    /\ backend = "gstreamer" /\ "wired" \in flags /\ posted < MaxPosted
    /\ posted' = posted + 1
    /\ UNCHANGED <<backend, calls, chain, signaling, sendTracks, senders, receiving,
                   told, channels, flags>>

RunPosted ==
    /\ posted > 0 /\ "crashed" \notin flags
    /\ posted' = posted - 1
    /\ flags' = IF "gone" \in flags THEN flags \cup {"dangling"} ELSE flags
    /\ UNCHANGED <<backend, calls, chain, signaling, sendTracks, senders, receiving,
                   told, channels>>

-----------------------------------------------------------------------------
RtcInit ==
    /\ backend \in {"google", "gstreamer"}
    /\ calls = [o \in Ops |-> NoCall] /\ chain = <<>>
    /\ signaling = "stable"
    /\ sendTracks = {} /\ senders = {} /\ receiving = {} /\ told = {}
    /\ channels = [c \in Channels |-> [native |-> "none", kept |-> FALSE, held |-> FALSE]]
    /\ posted = 0 /\ flags = IF backend = "gstreamer" THEN {"wired"} ELSE {}

RtcNext ==
    \/ \E o \in Ops : CreateOffer(o) \/ CreateAnswer(o) \/ SetLocal(o) \/ SetRemote(o)
    \/ LibrarySucceeds \/ LibraryFails \/ Dropped
    \/ \E t \in OwnTracks : AddTrack(t) \/ RemoveTrack(t)
    \/ \E c \in Channels : NewDataChannel(c) \/ ChannelStep(c)
    \/ CloseConnection \/ DestroyConnection \/ OnGst \/ RunPosted

RtcSpec == RtcInit /\ [][RtcNext]_rtcVars

-----------------------------------------------------------------------------
(* Every variable has its type.                                            *)
RtcTypeOK ==
    /\ calls \in [Ops -> [kind : {"none"} \cup Creates \cup Locals \cup RemoteDescriptions,
                          future : {"none", "open", "value", "error"}, applied : BOOLEAN]]
    /\ chain \in Seq(Ops) /\ signaling \in {"stable", "haveLocal", "haveRemote", "closed"}
    /\ sendTracks \subseteq OwnTracks /\ senders \subseteq OwnTracks
    /\ receiving \subseteq RemoteTracks /\ posted \in 0..MaxPosted
    /\ flags \subseteq {"wired", "gone", "crashed", "dangling"}

(* A future that succeeds says the truth: the library has the description, *)
(* and the negotiation, which goes on from it, is not a step ahead         *)
(* (rtc/google/connection.cpp:440).  The gstreamer backend does not keep   *)
(* this (rtc/gstreamer/connection.cpp:319).                                *)
AppliedIfSaid ==
    backend = "google" => \A o \in Ops : calls[o].future = "value" => calls[o].applied

(* The wrapper's tracks and the library's are the same, in both            *)
(* directions, as long as the connection is open: nothing is sent that     *)
(* cannot be removed any more, and who listens knows the tracks that are   *)
(* received, as what they are (rtc/google/connection.cpp:214, :323, :335). *)
TracksMatch ==
    /\ signaling # "closed" => sendTracks = senders
    /\ {t.track : t \in told} = receiving
    /\ \A t \in told : (t.kind = "video") = (t.track \in VideoTracks)

(* The library never calls a data channel that is gone: a user may let its *)
(* pointer go at any time, "if we don't save the data_channels,            *)
(* RTCConnection will crash" (rtc/google/connection.hpp:96).               *)
ObserversLive ==
    \A c \in Channels : LET ch == channels[c] IN
        ch.native \in {"connecting", "open"} => ch.kept \/ ch.held

(* Every operation is answered, with a value or an error: what is not      *)
(* answered yet is with the library, once, also while the connection is    *)
(* closed or destroyed.  The gstreamer backend answers only while it is    *)
(* open (rtc/google/connection.cpp:413, rtc/gstreamer/connection.cpp:275). *)
OpenAreUnderWay ==
    /\ IsInjective(chain)
    /\ \A o \in Ops :
        (calls[o].future = "open") = (o \in ToSet(chain))
            \/ (backend = "gstreamer" /\ (signaling = "closed" \/ "crashed" \in flags))

(* The connection keeps what the library and its users rely on.            *)
ConnectionIsSound ==
    RtcTypeOK /\ AppliedIfSaid /\ TracksMatch /\ ObserversLive /\ OpenAreUnderWay

=============================================================================
