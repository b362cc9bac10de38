-------------------------- MODULE ConnectionsProofs --------------------------
(***************************************************************************)
(* Operations that end in another thread of events, proved for any number  *)
(* of operations, tracks, requests, encoders and messages: each alone, and *)
(* all of them beside each other.                                          *)
(***************************************************************************)
EXTENDS MCConnections, FiniteSetTheorems, TLAPS

-----------------------------------------------------------------------------
(* The peer connection.  What is in the library is open, also where not all *)
(* that is open is in the library; and a channel that the library may call  *)
(* is kept by the connection, whoever else holds it.                        *)

Kinds == {"none"} \cup Creates \cup Locals \cup RemoteDescriptions
Calls == [kind : Kinds, future : {"none", "open", "value", "error"}, applied : BOOLEAN]

CallsInv ==
    /\ calls \in [Ops -> Calls] /\ chain \in Seq(Ops)
    /\ \A i, j \in 1..Len(chain) : chain[i] = chain[j] => i = j
    /\ \A i \in 1..Len(chain) : calls[chain[i]].future = "open"
    /\ \A o \in Ops :
        \/ calls[o].future = "open" => \E i \in 1..Len(chain) : chain[i] = o
        \/ backend = "gstreamer" /\ (signaling = "closed" \/ "crashed" \in flags)
    /\ AppliedIfSaid
    /\ signaling \in {"stable", "haveLocal", "haveRemote", "closed"}
    /\ flags \subseteq {"wired", "gone", "crashed", "dangling"}

TracksInv ==
    /\ sendTracks \subseteq OwnTracks /\ senders \subseteq OwnTracks
    /\ receiving \subseteq RemoteTracks
    /\ TracksMatch

ChannelsInv ==
    /\ channels \in [Channels -> [native : {"none", "connecting", "open", "closed"},
                                  kept : BOOLEAN, held : BOOLEAN]]
    /\ \A c \in Channels : channels[c].native \in {"connecting", "open"} => channels[c].kept

RtcInv ==
    /\ CallsInv /\ TracksInv /\ ChannelsInv
    /\ backend \in {"google", "gstreamer"} /\ posted \in 0..MaxPosted

\* The first of a sequence, and what is behind it.
LEMMA RestOf ==
    ASSUME NEW S, NEW s \in Seq(S), s # <<>>
    PROVE  /\ Head(s) = s[1] /\ s[1] \in S /\ Len(s) \in Nat /\ Len(s) > 0
           /\ Tail(s) \in Seq(S) /\ Len(Tail(s)) = Len(s) - 1
           /\ \A i \in 1..Len(Tail(s)) : Tail(s)[i] = s[i + 1] /\ i + 1 \in 1..Len(s)
  OBVIOUS

\* A sequence with one more at its end.
LEMMA WithOne ==
    ASSUME NEW S, NEW s \in Seq(S), NEW x \in S
    PROVE  /\ Append(s, x) \in Seq(S) /\ Len(Append(s, x)) = Len(s) + 1 /\ Len(s) \in Nat
           /\ Append(s, x)[Len(s) + 1] = x
           /\ \A i \in 1..Len(s) : Append(s, x)[i] = s[i]
  OBVIOUS

\* An operation that begins is the last one in the library.
LEMMA BeginStep ==
    ASSUME CallsInv, NEW o \in Ops, NEW k \in Kinds, Begin(o, k) PROVE CallsInv'
<1> DEFINE c == [kind |-> k, future |-> "open", applied |-> FALSE]
<1>1. /\ calls[o].future # "open" /\ calls' = [calls EXCEPT ![o] = c]
      /\ chain' = Append(chain, o) /\ UNCHANGED <<backend, signaling, flags>>
  BY DEF Begin
<1>2. calls \in [Ops -> Calls] /\ chain \in Seq(Ops) /\ c \in Calls
  BY DEF CallsInv, Calls
<1>3. c.future = "open"
  OBVIOUS
<1> HIDE DEF c
<1>4. /\ calls' \in [Ops -> Calls] /\ calls'[o].future = "open"
      /\ \A p \in Ops : p # o => calls'[p] = calls[p]
  BY <1>1, <1>2, <1>3
<1>5. /\ chain' \in Seq(Ops) /\ Len(chain') = Len(chain) + 1 /\ Len(chain) \in Nat
      /\ chain'[Len(chain) + 1] = o /\ \A i \in 1..Len(chain) : chain'[i] = chain[i] /\ chain[i] \in Ops
  BY <1>1, <1>2, WithOne
<1>6. \A i \in 1..Len(chain) : chain[i] # o
  BY <1>1, <1>2 DEF CallsInv
<1>7. \A i \in 1..Len(chain') : i \in 1..Len(chain) \/ i = Len(chain) + 1
  BY <1>5
<1>8. \A i, j \in 1..Len(chain') : chain'[i] = chain'[j] => i = j
  BY <1>5, <1>6, <1>7 DEF CallsInv
<1>9. \A i \in 1..Len(chain') : calls'[chain'[i]].future = "open"
  BY <1>4, <1>5, <1>6, <1>7 DEF CallsInv
<1>10. ASSUME NEW p \in Ops
       PROVE  \/ calls'[p].future = "open" => \E i \in 1..Len(chain') : chain'[i] = p
              \/ backend' = "gstreamer" /\ (signaling' = "closed" \/ "crashed" \in flags')
  <2>1. CASE p = o
    BY <1>5, <2>1
  <2>2. CASE p # o
    BY <1>1, <1>4, <1>5, <2>2 DEF CallsInv
  <2> QED
    BY <2>1, <2>2
<1>11. AppliedIfSaid'
  BY <1>1, <1>4 DEF CallsInv, AppliedIfSaid
<1> QED
  BY <1>1, <1>4, <1>5, <1>8, <1>9, <1>10, <1>11 DEF CallsInv

\* What is answered without the library was not under way.
LEMMA UnparsedStep ==
    ASSUME CallsInv, NEW o \in Ops, Unparsed(o) PROVE CallsInv'
<1> DEFINE c == [kind |-> "none", future |-> "error", applied |-> FALSE]
<1>1. /\ calls[o].future # "open" /\ calls' = [calls EXCEPT ![o] = c]
      /\ UNCHANGED <<chain, backend, signaling, flags>>
  BY DEF Unparsed, Settled
<1>2. calls \in [Ops -> Calls] /\ chain \in Seq(Ops) /\ c \in Calls /\ c.future = "error"
  BY DEF CallsInv, Calls, Kinds
<1> HIDE DEF c
<1>3. /\ calls' \in [Ops -> Calls] /\ calls'[o].future = "error"
      /\ \A p \in Ops : p # o => calls'[p] = calls[p]
  BY <1>1, <1>2
<1>4. \A i \in 1..Len(chain) : chain[i] # o /\ chain[i] \in Ops
  BY <1>1, <1>2 DEF CallsInv
<1> QED
  BY <1>1, <1>3, <1>4 DEF CallsInv, AppliedIfSaid

\* The oldest operation leaves the library, answered, or for good.
LEMMA LeavesStep ==
    ASSUME CallsInv, chain # <<>>, chain' = Tail(chain), UNCHANGED backend,
           signaling' \in {"stable", "haveLocal", "haveRemote", "closed"},
           flags' \subseteq {"wired", "gone", "crashed", "dangling"},
           signaling = "closed" => signaling' = "closed", flags \subseteq flags',
           NEW f \in {"value", "error"}, NEW ok \in BOOLEAN,
           backend = "google" => (f = "value" => ok),
           \/ calls' = Settled(Head(chain), f, ok)
           \/ /\ calls' = calls /\ backend = "gstreamer"
              /\ signaling' = "closed" \/ "crashed" \in flags'
    PROVE  CallsInv'
<1>1. calls \in [Ops -> Calls] /\ chain \in Seq(Ops)
  BY DEF CallsInv
<1> DEFINE o == chain[1]
<1>2. /\ Head(chain) = o /\ o \in Ops /\ Len(chain) \in Nat /\ Len(chain) > 0
      /\ chain' \in Seq(Ops) /\ Len(chain') = Len(chain) - 1
      /\ \A i \in 1..Len(chain') : chain'[i] = chain[i + 1] /\ i + 1 \in 1..Len(chain)
  BY <1>1, RestOf
<1>3. \A i \in 1..Len(chain) : chain[i] \in Ops
  BY <1>1
<1>4. \A i \in 1..Len(chain') : chain'[i] # o /\ chain'[i] \in Ops
                                /\ calls[chain'[i]].future = "open"
  BY <1>2, <1>3 DEF CallsInv
<1>5. \A i, j \in 1..Len(chain') : chain'[i] = chain'[j] => i = j
  <2> TAKE i \in 1..Len(chain'), j \in 1..Len(chain')
  <2> HAVE chain'[i] = chain'[j]
  <2>1. i + 1 = j + 1
    BY <1>2 DEF CallsInv
  <2> QED
    BY <2>1
<1>6. \A p \in Ops : p # o /\ (\E i \in 1..Len(chain) : chain[i] = p)
                        => (\E i \in 1..Len(chain') : chain'[i] = p)
  <2> TAKE p \in Ops
  <2> HAVE p # o /\ \E i \in 1..Len(chain) : chain[i] = p
  <2>1. PICK i \in 1..Len(chain) : chain[i] = p
    OBVIOUS
  <2>2. i # 1
    BY <2>1
  <2>3. i - 1 \in 1..Len(chain') /\ (i - 1) + 1 = i
    BY <1>2, <2>2
  <2>4. chain'[i - 1] = p
    BY <1>2, <2>1, <2>3
  <2> QED
    BY <2>3, <2>4
<1>7. /\ calls' \in [Ops -> Calls] /\ \A p \in Ops : p # o => calls'[p] = calls[p]
      /\ \/ calls'[o].future # "open" /\ (calls'[o].future = "value" => f = "value")
            /\ calls'[o].applied = ok
         \/ /\ calls' = calls /\ backend = "gstreamer"
            /\ signaling' = "closed" \/ "crashed" \in flags'
  <2>1. CASE calls' = Settled(Head(chain), f, ok)
    <3> DEFINE c == [kind |-> "none", future |-> f, applied |-> ok]
    <3>1. calls' = [calls EXCEPT ![o] = c]
      BY <1>2, <2>1 DEF Settled
    <3>2. c \in Calls /\ c.future = f /\ c.applied = ok
      BY DEF Calls, Kinds
    <3> HIDE DEF c, o
    <3> QED
      BY <1>1, <1>2, <3>1, <3>2
  <2>2. CASE ~(calls' = Settled(Head(chain), f, ok))
    BY <1>1, <2>2
  <2> QED
    BY <2>1, <2>2
<1> HIDE DEF o
<1>8. \A i \in 1..Len(chain') : calls'[chain'[i]].future = "open"
  BY <1>4, <1>7
<1>9. ASSUME NEW p \in Ops
      PROVE  \/ calls'[p].future = "open" => \E i \in 1..Len(chain') : chain'[i] = p
             \/ backend' = "gstreamer" /\ (signaling' = "closed" \/ "crashed" \in flags')
  <2>1. CASE p = o
    BY <1>7, <2>1
  <2>2. CASE p # o
    BY <1>6, <1>7, <2>2 DEF CallsInv
  <2> QED
    BY <2>1, <2>2
<1>10. AppliedIfSaid'
  BY <1>7 DEF CallsInv, AppliedIfSaid
<1> QED
  BY <1>2, <1>5, <1>7, <1>8, <1>9, <1>10 DEF CallsInv

\* An answer of the library, with the tracks the other side has since then.
LEMMA AnswersStep ==
    ASSUME RtcInv, NEW ok \in BOOLEAN, Answers(ok)
    PROVE  CallsInv' /\ TracksInv'
<1> DEFINE o == Head(chain)
<1>1. /\ chain # <<>> /\ chain' = Tail(chain)
      /\ UNCHANGED <<backend, sendTracks, senders, channels, posted>>
      /\ IF backend = "google" THEN GoogleAnswers(o, ok) ELSE GstreamerAnswers(o, ok)
      /\ IF ok THEN \E move \in Moves : /\ move[1] = signaling /\ move[2] = calls[o].kind
                                       /\ signaling' = move[3]
         ELSE UNCHANGED signaling
  BY DEF Answers
<1>2. /\ signaling' \in {"stable", "haveLocal", "haveRemote", "closed"}
      /\ signaling = "closed" <=> signaling' = "closed"
  BY <1>1 DEF RtcInv, CallsInv, Moves
<1>3. CallsInv /\ TracksInv /\ flags \subseteq {"wired", "gone", "crashed", "dangling"}
  BY DEF RtcInv, CallsInv
<1>4. CASE backend = "google"
  <2>1. /\ calls' = Settled(o, AsItIs(ok), ok) /\ UNCHANGED flags
        /\ \/ UNCHANGED <<receiving, told>>
           \/ \E R \in SUBSET RemoteTracks :
                LET r == OnAddTrack(OnRemoveTrack(receiving \ R), R \ receiving)
                IN  receiving' = r.tracks /\ told' = r.told
    BY <1>1, <1>4 DEF GoogleAnswers, Created, LocalSet, RemoteSet
  <2>2. AsItIs(ok) \in {"value", "error"} /\ (AsItIs(ok) = "value" => ok)
    BY DEF AsItIs
  <2>3. CallsInv'
    BY <1>1, <1>2, <1>3, <2>1, <2>2, LeavesStep
  <2>4. CASE UNCHANGED <<receiving, told>>
    BY <1>1, <1>2, <1>3, <2>3, <2>4 DEF TracksInv, TracksMatch
  <2>5. ASSUME NEW R \in SUBSET RemoteTracks,
               LET r == OnAddTrack(OnRemoveTrack(receiving \ R), R \ receiving)
               IN  receiving' = r.tracks /\ told' = r.told
        PROVE  TracksInv'
    <3> DEFINE kept == {t \in told : t.track \notin receiving \ R}
               new == {[track |-> t, kind |-> IF t \in VideoTracks THEN "video" ELSE "audio"] :
                            t \in R \ receiving}
    <3>1. /\ receiving' = (receiving \ (receiving \ R)) \cup (R \ receiving)
          /\ told' = kept \cup new
      BY <2>5 DEF OnAddTrack, OnRemoveTrack
    <3>2. receiving' = R
      BY <3>1
    <3>3. /\ {t.track : t \in told} = receiving
          /\ \A t \in told : (t.kind = "video") = (t.track \in VideoTracks)
      BY <1>3 DEF TracksInv, TracksMatch
    <3>4. \A t \in new : t.track \in R \ receiving /\ (t.kind = "video") = (t.track \in VideoTracks)
      OBVIOUS
    <3>5. \A x \in R \ receiving : \E t \in new : t.track = x
      <4> TAKE x \in R \ receiving
      <4> DEFINE t == [track |-> x, kind |-> IF x \in VideoTracks THEN "video" ELSE "audio"]
      <4>1. t \in new /\ t.track = x
        OBVIOUS
      <4> QED
        BY <4>1
    <3> HIDE DEF new
    <3>6. \A t \in told' : (t.kind = "video") = (t.track \in VideoTracks)
      BY <3>1, <3>3, <3>4
    <3>7. {t.track : t \in told'} = R
      <4>1. \A t \in told' : t.track \in R
        BY <3>1, <3>3, <3>4
      <4>2. \A x \in R : \E t \in told' : t.track = x
        <5> TAKE x \in R
        <5>1. CASE x \in receiving
          BY <3>1, <3>3, <5>1
        <5>2. CASE x \notin receiving
          BY <3>1, <3>5, <5>2
        <5> QED
          BY <5>1, <5>2
      <4> QED
        BY <4>1, <4>2
    <3> QED
      BY <1>1, <1>2, <1>3, <3>2, <3>6, <3>7 DEF TracksInv, TracksMatch
  <2> QED
    BY <2>1, <2>3, <2>4, <2>5
<1>5. CASE backend # "google"
  <2>1. /\ UNCHANGED <<receiving, told>>
        /\ \/ flags' = flags \cup {"crashed"} /\ calls' = calls
           \/ UNCHANGED flags /\ calls' = Settled(o, AsItIs(ok), ok)
           \/ UNCHANGED flags /\ calls' = Settled(o, "value", ok)
    BY <1>1, <1>5 DEF GstreamerAnswers, Created, DescriptionSet
  <2>2. backend = "gstreamer"
    BY <1>5 DEF RtcInv
  <2>3. /\ AsItIs(ok) \in {"value", "error"} /\ "value" \in {"value", "error"}
        /\ \A f : backend = "google" => (f = "value" => ok)
    BY <1>5 DEF AsItIs
  <2>4. ASSUME flags' = flags \cup {"crashed"}, calls' = calls PROVE CallsInv'
    <3>1. /\ flags' \subseteq {"wired", "gone", "crashed", "dangling"}
          /\ flags \subseteq flags' /\ "crashed" \in flags'
          /\ chain # <<>> /\ chain' = Tail(chain) /\ UNCHANGED backend /\ TRUE \in BOOLEAN
      BY <1>1, <1>3, <2>4
    <3> QED
      BY <1>2, <1>3, <2>2, <2>3, <2>4, <3>1, LeavesStep
  <2>5. ASSUME UNCHANGED flags, calls' = Settled(o, AsItIs(ok), ok) PROVE CallsInv'
    <3>1. /\ flags' \subseteq {"wired", "gone", "crashed", "dangling"} /\ flags \subseteq flags'
          /\ chain # <<>> /\ chain' = Tail(chain) /\ UNCHANGED backend
      BY <1>1, <1>3, <2>5
    <3> QED
      BY <1>2, <1>3, <2>3, <2>5, <3>1, LeavesStep
  <2>6. ASSUME UNCHANGED flags, calls' = Settled(o, "value", ok) PROVE CallsInv'
    <3>1. /\ flags' \subseteq {"wired", "gone", "crashed", "dangling"} /\ flags \subseteq flags'
          /\ chain # <<>> /\ chain' = Tail(chain) /\ UNCHANGED backend
      BY <1>1, <1>3, <2>6
    <3> QED
      BY <1>2, <1>3, <2>3, <2>6, <3>1, LeavesStep
  <2>7. TracksInv'
    BY <1>1, <1>2, <1>3, <2>1 DEF TracksInv, TracksMatch
  <2> QED
    BY <2>1, <2>4, <2>5, <2>6, <2>7
<1> QED
  BY <1>4, <1>5

\* Every other step of the connection and its library.
LEMMA RtcStep == ASSUME RtcInv, [RtcNext]_rtcVars PROVE RtcInv'
<1>1. /\ CallsInv /\ TracksInv /\ ChannelsInv /\ posted \in 0..MaxPosted /\ MaxPosted \in Nat
      /\ backend \in {"google", "gstreamer"}
  BY RtcAssumption DEF RtcInv
<1>2. ASSUME UNCHANGED <<calls, chain, backend, signaling, flags>> PROVE CallsInv'
  BY <1>1, <1>2 DEF CallsInv, AppliedIfSaid
<1>3. ASSUME UNCHANGED <<sendTracks, senders, receiving, told>>,
             signaling = "closed" => signaling' = "closed"
      PROVE  TracksInv'
  BY <1>1, <1>3 DEF TracksInv, TracksMatch
<1>4. ASSUME UNCHANGED channels PROVE ChannelsInv'
  BY <1>1, <1>4 DEF ChannelsInv
<1>5. ASSUME NEW o \in Ops, NEW k \in Kinds, Begin(o, k) PROVE RtcInv'
  <2>1. UNCHANGED <<backend, signaling, sendTracks, senders, receiving, told, channels, posted>>
    BY <1>5 DEF Begin
  <2>2. CallsInv'
    BY <1>1, <1>5, BeginStep
  <2> QED
    BY <1>1, <1>3, <1>4, <2>1, <2>2 DEF RtcInv
<1>6. ASSUME NEW o \in Ops, Unparsed(o) PROVE RtcInv'
  <2>1. UNCHANGED <<backend, signaling, sendTracks, senders, receiving, told, channels, posted>>
    BY <1>6 DEF Unparsed
  <2>2. CallsInv'
    BY <1>1, <1>6, UnparsedStep
  <2> QED
    BY <1>1, <1>3, <1>4, <2>1, <2>2 DEF RtcInv
<1>7. ASSUME NEW o \in Ops, CreateOffer(o) \/ CreateAnswer(o) \/ SetLocal(o) \/ SetRemote(o)
      PROVE  RtcInv'
  BY <1>5, <1>6, <1>7 DEF CreateOffer, CreateAnswer, SetLocal, SetRemote, Kinds, Creates, Locals,
     RemoteDescriptions
<1>8. CASE LibrarySucceeds \/ LibraryFails
  <2>1. PICK ok \in BOOLEAN : Answers(ok)
    BY <1>8 DEF LibrarySucceeds, LibraryFails
  <2>2. UNCHANGED <<backend, channels, posted>>
    BY <2>1 DEF Answers
  <2> QED
    BY <1>1, <1>4, <2>1, <2>2, AnswersStep DEF RtcInv
<1>9. CASE Dropped
  <2>1. /\ chain # <<>> /\ signaling = "closed" /\ chain' = Tail(chain)
        /\ calls' = IF backend = "google" THEN Settled(Head(chain), "error", FALSE) ELSE calls
        /\ UNCHANGED <<backend, signaling, sendTracks, senders, receiving, told, channels,
                       posted, flags>>
    BY <1>9 DEF Dropped
  <2>2. /\ signaling' \in {"stable", "haveLocal", "haveRemote", "closed"}
        /\ flags' \subseteq {"wired", "gone", "crashed", "dangling"} /\ flags \subseteq flags'
    BY <1>1, <2>1 DEF CallsInv
  <2>3. "error" \in {"value", "error"} /\ FALSE \in BOOLEAN /\ "error" # "value"
    OBVIOUS
  <2>4. CallsInv'
    BY <1>1, <2>1, <2>2, <2>3, LeavesStep
  <2> QED
    BY <1>1, <1>3, <1>4, <2>1, <2>4 DEF RtcInv
<1>10. ASSUME NEW t \in OwnTracks, AddTrack(t) \/ RemoveTrack(t) PROVE RtcInv'
  <2>1. UNCHANGED <<backend, calls, chain, signaling, receiving, told, channels, posted, flags>>
    BY <1>10 DEF AddTrack, RemoveTrack
  <2>2. TracksInv'
    BY <1>1, <1>10, <2>1 DEF AddTrack, RemoveTrack, TracksInv, TracksMatch
  <2> QED
    BY <1>1, <1>2, <1>4, <2>1, <2>2 DEF RtcInv
<1>11. ASSUME NEW c \in Channels, NewDataChannel(c) \/ ChannelStep(c) PROVE RtcInv'
  <2>1. UNCHANGED <<backend, calls, chain, signaling, sendTracks, senders, receiving, told,
                    posted, flags>>
    BY <1>11 DEF NewDataChannel, ChannelStep
  <2> DEFINE ch == channels[c]
             fresh == [native |-> "connecting", kept |-> TRUE, held |-> TRUE]
  <2>2. /\ channels \in [Channels -> [native : {"none", "connecting", "open", "closed"},
                                     kept : BOOLEAN, held : BOOLEAN]]
        /\ \A d \in Channels : channels[d].native \in {"connecting", "open"} => channels[d].kept
    BY <1>1 DEF ChannelsInv
  <2>3. \/ channels' = [channels EXCEPT ![c] = fresh]
        \/ ch.native = "connecting" /\ channels' = [channels EXCEPT ![c] = [ch EXCEPT !.native = "open"]]
        \/ channels' = [channels EXCEPT ![c] = [ch EXCEPT !.native = "closed"]]
        \/ channels' = [channels EXCEPT ![c] = [ch EXCEPT !.held = FALSE]]
    BY <1>11 DEF NewDataChannel, ChannelStep, Made
  <2>4. ChannelsInv'
    <3>1. CASE channels' = [channels EXCEPT ![c] = fresh]
      BY <2>2, <3>1 DEF ChannelsInv
    <3>2. CASE ch.native = "connecting" /\ channels' = [channels EXCEPT ![c] = [ch EXCEPT !.native = "open"]]
      BY <2>2, <3>2 DEF ChannelsInv
    <3>3. CASE channels' = [channels EXCEPT ![c] = [ch EXCEPT !.native = "closed"]]
      BY <2>2, <3>3 DEF ChannelsInv
    <3>4. CASE channels' = [channels EXCEPT ![c] = [ch EXCEPT !.held = FALSE]]
      BY <2>2, <3>4 DEF ChannelsInv
    <3> QED
      BY <2>3, <3>1, <3>2, <3>3, <3>4
  <2> QED
    BY <1>1, <1>2, <1>3, <2>1, <2>4 DEF RtcInv
<1>12. CASE CloseConnection \/ DestroyConnection
  <2>1. /\ signaling' = "closed" /\ UNCHANGED <<backend, calls, chain, posted>>
        /\ flags' = flags \ {"wired"} \/ flags' = (flags \ {"wired"}) \cup {"gone"}
    BY <1>12 DEF CloseConnection, DestroyConnection
  <2>2. CallsInv'
    BY <1>1, <2>1 DEF CallsInv, AppliedIfSaid
  <2>3. TracksInv'
    <3>1. CASE CloseConnection
      BY <1>3, <2>1, <3>1 DEF CloseConnection
    <3>2. CASE DestroyConnection
      BY <2>1, <3>2 DEF DestroyConnection, TracksInv, TracksMatch
    <3> QED
      BY <1>12, <3>1, <3>2
  <2>4. ChannelsInv'
    <3> DEFINE end(c) == IF channels[c].native = "none" THEN "none" ELSE "closed"
    <3>1. ASSUME NEW c \in Channels
          PROVE  /\ channels[c] \in [native : {"none", "connecting", "open", "closed"},
                                    kept : BOOLEAN, held : BOOLEAN]
                 /\ end(c) \in {"none", "closed"}
      BY <1>1 DEF ChannelsInv
    <3>2. \/ channels' = [c \in Channels |-> [channels[c] EXCEPT !.native = end(c)]]
          \/ channels' = [c \in Channels |-> [channels[c] EXCEPT !.kept = FALSE, !.native = end(c)]]
      BY <1>12 DEF CloseConnection, DestroyConnection
    <3> HIDE DEF end
    <3>3. CASE channels' = [c \in Channels |-> [channels[c] EXCEPT !.native = end(c)]]
      BY <3>1, <3>3 DEF ChannelsInv
    <3>4. CASE channels' = [c \in Channels |-> [channels[c] EXCEPT !.kept = FALSE, !.native = end(c)]]
      BY <3>1, <3>4 DEF ChannelsInv
    <3> QED
      BY <3>2, <3>3, <3>4
  <2> QED
    BY <1>1, <2>1, <2>2, <2>3, <2>4 DEF RtcInv
<1>13. CASE OnGst \/ RunPosted
  <2>1. /\ UNCHANGED <<backend, calls, chain, signaling, sendTracks, senders, receiving, told,
                       channels>>
        /\ posted' \in 0..MaxPosted
        /\ flags' = flags \/ flags' = flags \cup {"dangling"}
    BY <1>1, <1>13 DEF OnGst, RunPosted
  <2>2. CallsInv'
    BY <1>1, <2>1 DEF CallsInv, AppliedIfSaid
  <2> QED
    BY <1>1, <1>3, <1>4, <2>1, <2>2 DEF RtcInv
<1>14. CASE UNCHANGED rtcVars
  <2>1. UNCHANGED <<backend, calls, chain, signaling, sendTracks, senders, receiving, told,
                    channels, posted, flags>>
    BY <1>14 DEF rtcVars
  <2> QED
    BY <1>1, <1>2, <1>3, <1>4, <2>1 DEF RtcInv
<1> QED
  BY <1>7, <1>8, <1>9, <1>10, <1>11, <1>12, <1>13, <1>14 DEF RtcNext

\* A connection begins with nothing under way.
LEMMA RtcStart == RtcInit => RtcInv
<1> SUFFICES ASSUME RtcInit PROVE RtcInv
  OBVIOUS
<1>1. CallsInv
  BY DEF RtcInit, CallsInv, Calls, Kinds, NoCall, AppliedIfSaid
<1>2. TracksInv
  BY DEF RtcInit, TracksInv, TracksMatch
<1>3. ChannelsInv
  BY DEF RtcInit, ChannelsInv
<1> QED
  BY <1>1, <1>2, <1>3, RtcAssumption DEF RtcInit, RtcInv

\* The invariant says what the connection promises.
LEMMA RtcKeeps == RtcInv => ConnectionIsSound
<1> SUFFICES ASSUME RtcInv PROVE ConnectionIsSound
  OBVIOUS
<1>1. CallsInv /\ TracksInv /\ ChannelsInv
  BY DEF RtcInv
<1>2. calls \in [Ops -> Calls] /\ chain \in Seq(Ops) /\ DOMAIN chain = 1..Len(chain)
  BY <1>1 DEF CallsInv
<1>3. RtcTypeOK
  BY <1>1, <1>2 DEF RtcInv, RtcTypeOK, CallsInv, TracksInv, Calls, Kinds
<1>4. OpenAreUnderWay
  <2>1. IsInjective(chain)
    BY <1>1, <1>2 DEF CallsInv, IsInjective
  <2>2. \A o : o \in ToSet(chain) <=> \E i \in 1..Len(chain) : chain[i] = o
    BY <1>2 DEF ToSet
  <2>3. \A o \in Ops : o \in ToSet(chain) => calls[o].future = "open"
    BY <1>1, <2>2 DEF CallsInv
  <2>4. ASSUME NEW o \in Ops
        PROVE  \/ (calls[o].future = "open") = (o \in ToSet(chain))
               \/ backend = "gstreamer" /\ (signaling = "closed" \/ "crashed" \in flags)
    BY <1>1, <2>2, <2>3 DEF CallsInv
  <2> QED
    BY <2>1, <2>4 DEF OpenAreUnderWay
<1>5. ObserversLive
  BY <1>1 DEF ChannelsInv, ObserversLive
<1> QED
  BY <1>1, <1>3, <1>4, <1>5 DEF CallsInv, TracksInv, ConnectionIsSound

\* A connection, with either library: a future tells the truth, the tracks and
\* channels are those of the library, and every operation is answered or in it.
THEOREM ConnectionKeeps == RtcSpec => []ConnectionIsSound
<1>1. RtcInv /\ [RtcNext]_rtcVars => RtcInv'
  BY RtcStep
<1> QED
  BY <1>1, RtcStart, RtcKeeps, PTL DEF RtcSpec

-----------------------------------------------------------------------------
(* Requests over http.  A promise is open exactly while its action is at    *)
(* some operation, "stuck" included, so an operation that ends answers a    *)
(* promise that has no answer yet.                                          *)

Phases == {"none", "done"} \cup Connecting \cup {"write", "read", "stuck"}

HttpInv ==
    /\ phase \in [Requests -> Phases]
    /\ result \in [Requests -> {"none", "open", "value", "error"}]
    /\ \A r \in Requests : result[r] = "open" <=> phase[r] \notin {"none", "done"}
    /\ ListedAreOpen

\* An answer is the only one, and ends the action.
LEMMA AnswerStep ==
    ASSUME HttpInv, NEW r \in Requests, phase[r] \notin {"none", "done"},
           NEW how \in {"value", "error"}, Answer(r, how)
    PROVE  HttpInv'
<1>1. /\ result' = [result EXCEPT ![r] = how] /\ phase' = [phase EXCEPT ![r] = "done"]
      /\ result[r] = "open" /\ stray' = {} /\ listed' = listed \ {r}
  BY DEF Answer, RemoveAction, HttpInv, ListedAreOpen
<1>2. /\ phase' \in [Requests -> Phases] /\ phase'[r] = "done"
      /\ result' \in [Requests -> {"none", "open", "value", "error"}] /\ result'[r] # "open"
      /\ \A x \in Requests : x # r => phase'[x] = phase[x] /\ result'[x] = result[x]
  BY <1>1 DEF HttpInv, Phases
<1>3. listed' = {x \in Requests \ Syncs : result'[x] = "open"}
  <2>1. \A x : x \in listed' <=> x \in Requests \ Syncs /\ result'[x] = "open"
    BY <1>1, <1>2 DEF HttpInv, ListedAreOpen
  <2> QED
    BY <2>1
<1> QED
  BY <1>1, <1>2, <1>3 DEF HttpInv, ListedAreOpen

\* An action goes on, or is stuck.
LEMMA ContinueStep ==
    ASSUME HttpInv, NEW r \in Requests, phase[r] \notin {"none", "done"},
           NEW to \in {"connect", "secure", "write", "read", "stuck"},
           phase' = [phase EXCEPT ![r] = to], UNCHANGED <<result, listed, stray>>
    PROVE  HttpInv'
  BY DEF HttpInv, ListedAreOpen, Phases, Connecting

\* A request starts.
LEMMA DoStep == ASSUME HttpInv, NEW r \in Requests, Do(r) PROVE HttpInv'
<1>1. /\ result' = [result EXCEPT ![r] = "open"] /\ phase' = [phase EXCEPT ![r] = "resolve"]
      /\ stray' = stray /\ listed' = listed \cup ({r} \ Syncs)
  BY DEF Do
<1>2. /\ phase' \in [Requests -> Phases] /\ phase'[r] = "resolve"
      /\ result' \in [Requests -> {"none", "open", "value", "error"}] /\ result'[r] = "open"
      /\ \A x \in Requests : x # r => phase'[x] = phase[x] /\ result'[x] = result[x]
  BY <1>1 DEF HttpInv, Phases, Connecting
<1>3. listed' = {x \in Requests \ Syncs : result'[x] = "open"}
  <2>1. \A x : x \in listed' <=> x \in Requests \ Syncs /\ result'[x] = "open"
    BY <1>1, <1>2 DEF HttpInv, ListedAreOpen
  <2> QED
    BY <2>1
<1> QED
  BY <1>1, <1>2, <1>3 DEF HttpInv, ListedAreOpen

\* Every step of the clients, of the server and of the homeserver.
LEMMA HttpStep == ASSUME HttpInv, [HttpNext]_httpVars PROVE HttpInv'
<1>1. ASSUME UNCHANGED <<phase, result, listed, stray>> PROVE HttpInv'
  BY <1>1 DEF HttpInv, ListedAreOpen
<1>2. ASSUME NEW r \in Requests, ConnectorStep(r) PROVE HttpInv'
  <2>1. phase[r] \in Connecting /\ phase[r] \notin {"none", "done"}
    BY <1>2 DEF ConnectorStep, Connecting
  <2>2. \/ phase' = [phase EXCEPT ![r] = "connect"] /\ UNCHANGED <<result, listed, stray>>
        \/ Continue(r, "secure") \/ Continue(r, "write") \/ Continue(r, "stuck")
        \/ Answer(r, "error")
    BY <1>2 DEF ConnectorStep, Fails
  <2> QED
    BY <2>1, <2>2, AnswerStep, ContinueStep DEF Continue
<1>3. ASSUME NEW r \in Requests, OnRequestSend(r) PROVE HttpInv'
  <2>1. phase[r] \notin {"none", "done"}
    BY <1>3 DEF OnRequestSend
  <2>2. Continue(r, "read") \/ Answer(r, "error")
    BY <1>3 DEF OnRequestSend, Fails
  <2> QED
    BY <2>1, <2>2, AnswerStep, ContinueStep DEF Continue
<1>4. ASSUME NEW r \in Requests, OnResponseRead(r) PROVE HttpInv'
  <2>1. phase[r] \notin {"none", "done"}
    BY <1>4 DEF OnResponseRead
  <2>2. \E how \in {"value", "error"} : Answer(r, how)
    BY <1>4 DEF OnResponseRead, Fails
  <2> QED
    BY <2>1, <2>2, AnswerStep
<1>5. ASSUME NEW r \in Requests, Abandon(r) PROVE HttpInv'
  <2>1. phase[r] \notin {"none", "done"} /\ Answer(r, "error")
    BY <1>5 DEF Abandon, HttpInv
  <2> QED
    BY <2>1, AnswerStep
<1>6. ASSUME NEW r \in Requests, Cancel(r) \/ HomeserverAnswers(r) \/ Server(r)
      PROVE  UNCHANGED <<phase, result, listed, stray>>
  BY <1>6 DEF Cancel, HomeserverAnswers, Server, Accept, OnGotRequest, Respond, Responded,
     SessionEnds, Served
<1>7. UNCHANGED httpVars => UNCHANGED <<phase, result, listed, stray>>
  BY DEF httpVars
<1> QED
  BY <1>1, <1>2, <1>3, <1>4, <1>5, <1>6, <1>7, DoStep DEF HttpNext, Handlers

\* Nothing was asked for.
LEMMA HttpStart == HttpInit => HttpInv
  BY DEF HttpInit, HttpInv, ListedAreOpen, Phases

\* The client keeps the actions whose answer is outstanding, and answers each
\* promise once.
THEOREM RequestsKept == HttpSpec => []ListedAreOpen
<1>1. HttpInv /\ [HttpNext]_httpVars => HttpInv'
  BY HttpStep
<1>2. HttpInv => ListedAreOpen
  BY DEF HttpInv
<1> QED
  BY <1>1, <1>2, HttpStart, PTL DEF HttpSpec

-----------------------------------------------------------------------------
(* The process of the temporary_room server.  Before it runs nothing of it  *)
(* is under way; it stops what it has when the signal comes, and only then; *)
(* and once it learned of its old rooms it knows them for good.             *)

RoomServerInv ==
    /\ acceptor \in {"none", "accepting", "stopped", "over"}
    /\ syncing \in {"none", "waiting", "stuck"}
    /\ sessions \in Nat
    /\ progress \in {"login", "register", "sync", "running", "returned", "threw", "hangs", "spins"}
    /\ progress \notin {"running", "returned", "hangs"} =>
        ~signalled /\ ~twice /\ acceptor = "none" /\ syncing = "none"
        /\ runResult = "none" /\ syncResult = "none" /\ ~syncActive /\ sessions = 0
    /\ progress = "running" => acceptor # "none"
    /\ signalled => acceptor # "accepting" /\ ~syncActive
    /\ acceptor = "stopped" => signalled
    /\ firstSync = "ok" => learned
    /\ RoomServerIsSound

\* What the process does before it runs.
LEMMA BootStep ==
    ASSUME RoomServerInv, Login \/ Register \/ Named \/ SyncedOnce PROVE RoomServerInv'
<1>1. CASE Login \/ Register \/ Named
  <2>1. /\ UNCHANGED <<learned, firstSync, runVars, syncVars, twice>>
        /\ progress' = progress
           \/ (progress \in {"login", "register"}
               /\ progress' \in {"sync", "register", "threw", "spins"})
    BY <1>1 DEF Login, Register, Named, bootVars, AccountEnds, LoginLeadsTo, RegisterLeadsTo
  <2>2. UNCHANGED <<learned, firstSync, acceptor, runResult, sessions, signalled, syncing,
                    syncActive, syncResult, twice>>
    BY <2>1 DEF runVars, syncVars
  <2> QED
    BY <2>1, <2>2 DEF RoomServerInv, RoomServerIsSound, RunResultsAreTrue, AcceptsTillTold,
       OldRoomsAreKept, LeavesNothingBehind
<1>2. CASE SyncedOnce
  <2>1. /\ progress = "sync" /\ progress' \in {"running", "threw", "spins"}
        /\ sessions' = sessions /\ signalled' = signalled /\ twice' = twice
        /\ \/ /\ progress' = "running" /\ acceptor' = "accepting" /\ runResult' = "open"
              /\ syncActive' = TRUE /\ syncResult' = "open" /\ syncing' = "waiting"
           \/ progress' # "running" /\ UNCHANGED <<acceptor, runResult, syncing, syncActive, syncResult>>
    BY <1>2 DEF SyncedOnce, Run, SyncTillStop, syncVars
  <2>2. firstSync' = "ok" => learned'
    BY <1>2 DEF SyncedOnce, RoomServerInv
  <2> QED
    BY <2>1, <2>2 DEF RoomServerInv, RoomServerIsSound, RunResultsAreTrue, AcceptsTillTold,
       OldRoomsAreKept, LeavesNothingBehind
<1> QED
  BY <1>1, <1>2

\* What the process does while it runs.
LEMMA ServeStep ==
    ASSUME RoomServerInv,
           Accepts \/ AcceptEnds \/ JoinsOldRoom \/ SessionCloses \/ OnSyncTillStop \/ SyncStuck
    PROVE  RoomServerInv'
<1>1. progress = "running" /\ progress' = progress /\ firstSync' = firstSync /\ signalled' = signalled
  BY DEF Accepts, AcceptEnds, JoinsOldRoom, SessionCloses, OnSyncTillStop, SyncStuck, bootVars, runVars
<1>2. sessions \in Nat /\ acceptor \in {"none", "accepting", "stopped", "over"} /\ acceptor # "none"
  BY <1>1 DEF RoomServerInv
<1>3. CASE Accepts \/ AcceptEnds
  <2>1. /\ \/ acceptor' = "over" /\ runResult' \in {"value", "error"}
              /\ (acceptor = "accepting" => runResult' = "error")
           \/ UNCHANGED <<acceptor, runResult>>
        /\ acceptor' # "none" /\ acceptor \in {"accepting", "stopped"}
        /\ UNCHANGED <<syncing, syncActive, syncResult, learned, twice>> /\ sessions' \in Nat
    BY <1>2, <1>3 DEF Accepts, AcceptEnds, NextAccept, syncVars
  <2> QED
    BY <1>1, <1>2, <2>1 DEF RoomServerInv, RoomServerIsSound, RunResultsAreTrue, AcceptsTillTold,
       OldRoomsAreKept, LeavesNothingBehind
<1>4. CASE JoinsOldRoom \/ SessionCloses
  <2>1. UNCHANGED <<acceptor, runResult, syncing, syncActive, syncResult>>
    BY <1>4 DEF JoinsOldRoom, SessionCloses, syncVars, runVars
  <2>2. (learned => learned') /\ (twice' => twice \/ ~learned)
    <3>1. CASE JoinsOldRoom
      BY <3>1, Zenon DEF JoinsOldRoom
    <3>2. CASE SessionCloses
      <4>1. learned' = learned /\ twice' = twice
        BY <3>2 DEF SessionCloses
      <4> QED
        BY <4>1, Zenon
    <3> QED
      BY <1>4, <3>1, <3>2
  <2>3. sessions' \in Nat
    BY <1>2, <1>4 DEF JoinsOldRoom, SessionCloses, runVars
  <2> QED
    BY <1>1, <1>2, <2>1, <2>2, <2>3 DEF RoomServerInv, RoomServerIsSound, RunResultsAreTrue, AcceptsTillTold,
       OldRoomsAreKept, LeavesNothingBehind
<1>5. CASE OnSyncTillStop \/ SyncStuck
  <2>1. /\ UNCHANGED <<acceptor, runResult>> /\ syncing = "waiting"
        /\ UNCHANGED <<sessions, twice>>
        /\ syncActive' => syncActive
        /\ \/ syncing' = "none" /\ syncResult' \in {"value", "error"}
           \/ syncing' \in {"waiting", "stuck"} /\ syncResult' = syncResult
    BY <1>5 DEF OnSyncTillStop, SyncStuck, syncVars, runVars
  <2>2. learned => learned'
    BY <1>5, Zenon DEF OnSyncTillStop, SyncStuck
  <2> QED
    BY <1>1, <1>2, <2>1, <2>2 DEF RoomServerInv, RoomServerIsSound, RunResultsAreTrue, AcceptsTillTold,
       OldRoomsAreKept, LeavesNothingBehind
<1> QED
  BY <1>3, <1>4, <1>5

\* The signal, and the end.
LEMMA LeaveStep == ASSUME RoomServerInv, Signalled \/ RunReturns PROVE RoomServerInv'
<1>1. CASE Signalled
  <2>1. /\ progress = "running" /\ progress' = progress /\ signalled' = TRUE
        /\ acceptor' = (IF acceptor = "accepting" THEN "stopped" ELSE acceptor)
        /\ syncActive' = FALSE
        /\ UNCHANGED <<firstSync, learned, runResult, sessions, syncing, syncResult, twice>>
    BY <1>1 DEF Signalled, CloseServer, StopAcceptor, StopSyncing, bootVars
  <2> QED
    BY <2>1 DEF RoomServerInv, RoomServerIsSound, RunResultsAreTrue, AcceptsTillTold,
       OldRoomsAreKept, LeavesNothingBehind
<1>2. CASE RunReturns
  <2>1. /\ progress = "running"
        /\ signalled /\ acceptor \notin {"accepting", "stopped"} /\ syncing # "waiting"
        /\ ~(sessions > 0)
        /\ progress' = IF "open" \in {runResult, syncResult} THEN "hangs" ELSE "returned"
        /\ UNCHANGED <<firstSync, learned, acceptor, runResult, sessions, signalled, syncing,
                       syncActive, syncResult, twice>>
    BY <1>2 DEF RunReturns, Work, bootVars, runVars, syncVars
  <2> QED
    BY <2>1 DEF RoomServerInv, RoomServerIsSound, RunResultsAreTrue, AcceptsTillTold,
       OldRoomsAreKept, LeavesNothingBehind
<1> QED
  BY <1>1, <1>2

\* Every step of the process.
LEMMA RoomServerStep ==
    ASSUME RoomServerInv, [RoomServerNext]_roomServerVars PROVE RoomServerInv'
<1>1. CASE UNCHANGED roomServerVars
  <2>1. UNCHANGED <<progress, firstSync, learned, acceptor, runResult, sessions, signalled, syncing,
                    syncActive, syncResult, twice>>
    BY <1>1 DEF roomServerVars, bootVars, runVars, syncVars
  <2> QED
    BY <2>1 DEF RoomServerInv, RoomServerIsSound, RunResultsAreTrue, AcceptsTillTold,
       OldRoomsAreKept, LeavesNothingBehind
<1> QED
  BY <1>1, BootStep, ServeStep, LeaveStep DEF RoomServerNext

\* The process starts with nothing.
LEMMA RoomServerStart == RoomServerInit => RoomServerInv
  BY DEF RoomServerInit, RoomServerInv, RoomServerIsSound, RunResultsAreTrue, AcceptsTillTold,
     OldRoomsAreKept, LeavesNothingBehind

\* The server runs until it is told to close, makes no room twice that it was
\* told of, and leaves nothing behind.
THEOREM ServerSound ==
    RoomServerInit /\ [][RoomServerNext]_roomServerVars => []RoomServerIsSound
<1>1. RoomServerInv /\ [RoomServerNext]_roomServerVars => RoomServerInv'
  BY RoomServerStep
<1>2. RoomServerInv => RoomServerIsSound
  BY DEF RoomServerInv
<1> QED
  BY <1>1, <1>2, RoomServerStart, PTL

-----------------------------------------------------------------------------
(* The hardware encoder.  A reader has a thread at most while an encoder    *)
(* holds it or waits for the thread, a reader that somebody waits for is    *)
(* never held again, and buffers that are not all there say that the driver *)
(* refused something.                                                       *)

Holds(e, r) == uses[e] = r /\ encoder[e] \in {"created", "ready", "failed"}

EncodersInv ==
    /\ encoder \in [Encoders -> {"none", "created", "ready", "failed", "releasing", "released"}]
    /\ uses \in [Encoders -> Readers \cup {NoReader}]
    /\ made \subseteq Readers
    /\ \A e \in Encoders : encoder[e] # "none" => uses[e] \in made
    /\ \A e, f \in Encoders : encoder[e] = "releasing" => ~Holds(f, uses[e])
    /\ \A e \in Encoders : encoder[e] = "ready" => uses[e] \in fd

ReadersInv ==
    /\ setup \in [Readers -> {"none", "part", "all", "streaming"}]
    /\ thread \in [Readers -> {"none", "select", "emit", "exited"}]
    /\ refused \in BOOLEAN
    /\ \A r \in Readers : r \in fd => setup[r] = "streaming" \/ refused
    /\ \A r \in Readers : setup[r] = "part" => refused
    /\ \A r \in Readers : r \in running => thread[r] # "none"
    /\ \A r \in Readers : thread[r] # "none" => r \in made
    /\ \A r \in Readers, e \in Encoders : thread[r] # "none" /\ Holds(e, r) => r \in running

HardwareInv == EncodersInv /\ ReadersInv /\ ReadersAreSound

\* Who holds a reader, as a set.
LEMMA HoldersHold ==
    ASSUME NEW r PROVE Holders(r) = {e \in Encoders : Holds(e, r)}
  BY DEF Holders, Holds

\* An encoder is made: its reader is held already, or was never made.
LEMMA CreateStep ==
    ASSUME HardwareInv, NEW e \in Encoders, CreateVideoEncoder(e) PROVE HardwareInv'
<1>1. PICK r \in Readers :
        /\ encoder[e] = "none"
        /\ (\E f \in Encoders : Holds(f, r)) \/ r \notin made
        /\ made' = made \cup {r}
        /\ uses' = [uses EXCEPT ![e] = r]
        /\ encoder' = [encoder EXCEPT ![e] = "created"]
        /\ UNCHANGED <<fd, setup, running, thread, refused, ended>>
  BY HoldersHold DEF CreateVideoEncoder, readerVars
<1>2. EncodersInv /\ ReadersInv /\ ReadersAreSound
  BY DEF HardwareInv
<1>3. /\ encoder' \in [Encoders -> {"none", "created", "ready", "failed", "releasing", "released"}]
      /\ uses' \in [Encoders -> Readers \cup {NoReader}] /\ made' \subseteq Readers
      /\ encoder'[e] = "created" /\ uses'[e] = r
      /\ \A f \in Encoders : f # e => encoder'[f] = encoder[f] /\ uses'[f] = uses[f]
  BY <1>1, <1>2 DEF EncodersInv
<1>4. ASSUME NEW f \in Encoders, encoder'[f] = "releasing" PROVE ~Holds(e, uses[f])' /\ f # e
  <2>1. f # e /\ encoder[f] = "releasing" /\ uses'[f] = uses[f] /\ uses[f] \in made
    BY <1>2, <1>3, <1>4 DEF EncodersInv
  <2>2. uses[f] # r
    BY <1>1, <1>2, <2>1 DEF EncodersInv
  <2> QED
    BY <1>3, <2>1, <2>2 DEF Holds
<1>5. \A f \in Encoders, x \in Readers : f # e => (Holds(f, x)' <=> Holds(f, x))
  BY <1>3 DEF Holds
<1>6. \A x \in Readers : Holds(e, x)' <=> x = r
  BY <1>3 DEF Holds
<1>7. EncodersInv'
  <2>1. \A f \in Encoders : encoder'[f] # "none" => uses'[f] \in made'
    BY <1>1, <1>2, <1>3 DEF EncodersInv
  <2>2. ASSUME NEW f \in Encoders, NEW g \in Encoders, encoder'[f] = "releasing"
        PROVE  ~Holds(g, uses[f])'
    <3>1. f # e /\ encoder[f] = "releasing" /\ uses'[f] = uses[f]
      BY <1>3, <1>4, <2>2
    <3>2. CASE g = e
      BY <1>4, <2>2, <3>2
    <3>3. CASE g # e
      BY <1>2, <1>3, <3>1, <3>3 DEF EncodersInv, Holds
    <3> QED
      BY <3>2, <3>3
  <2>3. \A f \in Encoders : encoder'[f] = "ready" => uses'[f] \in fd'
    BY <1>1, <1>2, <1>3 DEF EncodersInv
  <2> QED
    BY <1>3, <2>1, <2>2, <2>3 DEF EncodersInv
<1>8. ReadersInv'
  <2>1. ASSUME NEW x \in Readers, NEW f \in Encoders, thread'[x] # "none", Holds(f, x)'
        PROVE  x \in running'
    <3>1. thread[x] # "none" /\ x \in made
      BY <1>1, <1>2, <2>1 DEF ReadersInv
    <3>2. \E g \in Encoders : Holds(g, x)
      BY <1>1, <1>5, <1>6, <2>1, <3>1
    <3> QED
      BY <1>1, <1>2, <3>1, <3>2 DEF ReadersInv
  <2> QED
    BY <1>1, <1>2, <2>1 DEF ReadersInv
<1>9. ReadersAreSound'
  BY <1>1, <1>2 DEF ReadersAreSound, ThreadHasBuffers, EndsByTheDriver
<1> QED
  BY <1>7, <1>8, <1>9 DEF HardwareInv

\* An encoder is initialised, and its reader with it, or not.
LEMMA InitEncodeStep ==
    ASSUME HardwareInv, NEW e \in Encoders, InitEncode(e) PROVE HardwareInv'
<1> DEFINE r == uses[e]
<1>1. EncodersInv /\ ReadersInv /\ ReadersAreSound
  BY DEF HardwareInv
<1>2. /\ encoder[e] = "created" /\ UNCHANGED <<uses, made, running, thread, ended>>
      /\ \E at \in {"ready", "failed"} : encoder' = [encoder EXCEPT ![e] = at] /\ (at = "ready" => r \in fd')
      /\ \/ UNCHANGED <<fd, setup, refused>>
         \/ /\ r \notin fd /\ fd \subseteq fd' /\ fd' \subseteq fd \cup {r}
            /\ \/ setup' = [setup EXCEPT ![r] = "streaming"] /\ refused' = refused
               \/ refused' = TRUE
                  /\ \E left \in {"none", "part", "all"} : setup' = [setup EXCEPT ![r] = left]
  BY DEF InitEncode, Steps, LeftSetUp
<1>3. r \in Readers /\ r \in made
  BY <1>1, <1>2 DEF EncodersInv
<1> HIDE DEF r
<1>4. \A f \in Encoders, x \in Readers : (Holds(f, x)' <=> Holds(f, x))
  BY <1>1, <1>2 DEF EncodersInv, Holds
<1>5. EncodersInv'
  <2>1. PICK at \in {"ready", "failed"} : encoder' = [encoder EXCEPT ![e] = at] /\ (at = "ready" => r \in fd')
    BY <1>2
  <2>2. /\ encoder' \in [Encoders -> {"none", "created", "ready", "failed", "releasing", "released"}]
        /\ encoder'[e] = at /\ \A f \in Encoders : f # e => encoder'[f] = encoder[f]
    BY <1>1, <2>1 DEF EncodersInv
  <2>3. \A f, g \in Encoders : encoder'[f] = "releasing" => ~Holds(g, uses[f])'
    BY <1>1, <1>2, <1>4, <2>2 DEF EncodersInv
  <2>4. fd \subseteq fd'
    BY <1>2
  <2> QED
    BY <1>1, <1>2, <2>1, <2>2, <2>3, <2>4 DEF EncodersInv, r
<1>6. /\ setup' \in [Readers -> {"none", "part", "all", "streaming"}] /\ refused' \in BOOLEAN
      /\ \A x \in Readers : x \in fd' => setup'[x] = "streaming" \/ refused'
      /\ \A x \in Readers : setup'[x] = "part" => refused'
      /\ (refused => refused')
      /\ \A x \in Readers : x \in fd => setup'[x] = setup[x] /\ x \in fd'
  <2>1. CASE UNCHANGED <<fd, setup, refused>>
    BY <1>1, <2>1 DEF ReadersInv
  <2>2. ASSUME r \notin fd, fd' \subseteq fd \cup {r}, fd \subseteq fd',
               NEW left \in {"none", "part", "all", "streaming"}, setup' = [setup EXCEPT ![r] = left],
               refused' \in BOOLEAN, refused => refused', left = "streaming" \/ refused'
        PROVE  <1>6!:
    <3>1. /\ setup' \in [Readers -> {"none", "part", "all", "streaming"}] /\ setup'[r] = left
          /\ \A x \in Readers : x # r => setup'[x] = setup[x]
      BY <1>1, <1>3, <2>2 DEF ReadersInv
    <3> QED
      BY <1>1, <2>2, <3>1 DEF ReadersInv
  <2>3. refused \in BOOLEAN
    BY <1>1 DEF ReadersInv
  <2>4. \/ UNCHANGED <<fd, setup, refused>>
        \/ /\ r \notin fd /\ fd \subseteq fd' /\ fd' \subseteq fd \cup {r}
           /\ refused' \in BOOLEAN /\ (refused => refused')
           /\ \E left \in {"none", "part", "all", "streaming"} :
                 setup' = [setup EXCEPT ![r] = left] /\ (left = "streaming" \/ refused')
    BY <1>2, <2>3
  <2> QED
    BY <2>1, <2>2, <2>4
<1>7. ReadersInv'
  BY <1>1, <1>2, <1>4, <1>6 DEF ReadersInv
<1>8. ReadersAreSound'
  BY <1>1, <1>2, <1>6 DEF ReadersAreSound, ThreadHasBuffers, EndsByTheDriver
<1> QED
  BY <1>5, <1>7, <1>8 DEF HardwareInv

\* A thread starts, which no reader of an encoder in use has already.
LEMMA EncodeStep == ASSUME HardwareInv, NEW e \in Encoders, Encode(e) PROVE HardwareInv'
<1> DEFINE r == uses[e]
<1>1. EncodersInv /\ ReadersInv /\ ReadersAreSound
  BY DEF HardwareInv
<1>2. /\ encoder[e] = "ready" /\ r \notin running /\ running' = running \cup {r}
      /\ thread' = [thread EXCEPT ![r] = "select"]
      /\ ended' = ended \cup (IF thread[r] # "none" THEN {"thread started twice"} ELSE {})
      /\ UNCHANGED <<encoder, uses, made, fd, setup, refused>>
  BY DEF Encode, StartsThread, Dies, encoderVars
<1>3. r \in Readers /\ r \in made /\ r \in fd /\ Holds(e, r)
  BY <1>1, <1>2 DEF EncodersInv, Holds
<1>4. thread[r] = "none"
  BY <1>1, <1>2, <1>3 DEF ReadersInv
<1> HIDE DEF r
<1>5. ended' = ended
  BY <1>2, <1>4
<1>6. /\ thread' \in [Readers -> {"none", "select", "emit", "exited"}] /\ thread'[r] = "select"
      /\ \A x \in Readers : x # r => thread'[x] = thread[x]
  BY <1>1, <1>2, <1>3 DEF ReadersInv
<1>7. EncodersInv'
  BY <1>1, <1>2 DEF EncodersInv, Holds
<1>8. ReadersInv'
  BY <1>1, <1>2, <1>3, <1>6 DEF ReadersInv, Holds
<1>9. ReadersAreSound'
  BY <1>1, <1>2, <1>3, <1>5, <1>6 DEF ReadersAreSound, ThreadHasBuffers, EndsByTheDriver
<1> QED
  BY <1>7, <1>8, <1>9 DEF HardwareInv

\* A share of a reader goes; with the last one its thread is told to end.
LEMMA ReleaseStep == ASSUME HardwareInv, NEW e \in Encoders, Release(e) PROVE HardwareInv'
<1> DEFINE r == uses[e]
           last == Holders(r) = {e}
<1>1. EncodersInv /\ ReadersInv /\ ReadersAreSound
  BY DEF HardwareInv
<1>2. /\ e \in Holders(r)
      /\ encoder' = [encoder EXCEPT ![e] = IF last THEN "releasing" ELSE "released"]
      /\ running' = IF last THEN running \ {r} ELSE running
      /\ UNCHANGED <<uses, made, fd, setup, thread, refused, ended>>
  BY DEF Release, StopRunning
<1>3. Holds(e, r) /\ encoder[e] \in {"created", "ready", "failed"}
  BY <1>2, HoldersHold DEF Holds
<1>4. last => \A f \in Encoders : Holds(f, r) => f = e
  BY HoldersHold
<1> HIDE DEF last
<1>5. /\ encoder' \in [Encoders -> {"none", "created", "ready", "failed", "releasing", "released"}]
      /\ encoder'[e] \in {"releasing", "released"} /\ (encoder'[e] = "releasing" => last)
      /\ \A f \in Encoders : f # e => encoder'[f] = encoder[f]
  BY <1>1, <1>2 DEF EncodersInv
<1>6. \A f \in Encoders : \A x : (Holds(f, x)' <=> (Holds(f, x) /\ f # e))
  BY <1>2, <1>5 DEF Holds
<1>7. EncodersInv'
  <2>1. ASSUME NEW f \in Encoders, NEW g \in Encoders, encoder'[f] = "releasing"
        PROVE  ~Holds(g, uses[f])'
    <3>1. uses'[f] = uses[f]
      BY <1>2
    <3>2. CASE f = e
      BY <1>4, <1>5, <1>6, <2>1, <3>1, <3>2
    <3>3. CASE f # e
      BY <1>1, <1>5, <1>6, <2>1, <3>1, <3>3 DEF EncodersInv
    <3> QED
      BY <3>2, <3>3
  <2>2. \A f \in Encoders : /\ encoder'[f] # "none" => uses'[f] \in made'
                            /\ encoder'[f] = "ready" => uses'[f] \in fd'
    BY <1>1, <1>2, <1>3, <1>5 DEF EncodersInv
  <2> QED
    BY <1>1, <1>2, <1>5, <2>1, <2>2 DEF EncodersInv
<1>8. ReadersInv'
  <2>1. ASSUME NEW x \in Readers, NEW f \in Encoders, thread'[x] # "none", Holds(f, x)'
        PROVE  x \in running'
    <3>1. Holds(f, x) /\ f # e /\ x \in running
      BY <1>1, <1>2, <1>6, <2>1 DEF ReadersInv
    <3>2. ~last \/ x # r
      BY <1>4, <3>1
    <3> QED
      BY <1>2, <3>1, <3>2
  <2>2. running' \subseteq running
    BY <1>2
  <2> QED
    BY <1>1, <1>2, <2>1, <2>2 DEF ReadersInv
<1>9. ReadersAreSound'
  BY <1>1, <1>2 DEF ReadersAreSound, ThreadHasBuffers, EndsByTheDriver
<1> QED
  BY <1>7, <1>8, <1>9 DEF HardwareInv

\* The reader goes once its thread ended: nobody has it any more.
LEMMA ReleasedStep == ASSUME HardwareInv, ended = {}, NEW e \in Encoders, Released(e) PROVE HardwareInv'
<1> DEFINE r == uses[e]
<1>1. EncodersInv /\ ReadersInv /\ ReadersAreSound
  BY DEF HardwareInv
<1>2. /\ encoder[e] = "releasing" /\ thread[r] \in {"none", "exited"}
      /\ encoder' = [encoder EXCEPT ![e] = "released"]
      /\ fd' = fd \ {r} /\ setup' = [setup EXCEPT ![r] = "none"]
      /\ ended' = ended \cup ((IF r \in fd THEN {} ELSE {"STREAMOFF"})
                              \cup (IF setup[r] = "part" THEN {"munmap"} ELSE {}))
      /\ UNCHANGED <<uses, made, running, thread, refused>>
  BY DEF Released, Joined, Dies
<1>3. r \in Readers /\ \A f \in Encoders : ~Holds(f, r)
  BY <1>1, <1>2 DEF EncodersInv
<1> HIDE DEF r
<1>4. /\ encoder' \in [Encoders -> {"none", "created", "ready", "failed", "releasing", "released"}]
      /\ encoder'[e] = "released" /\ \A f \in Encoders : f # e => encoder'[f] = encoder[f]
  BY <1>1, <1>2 DEF EncodersInv
<1>5. \A f \in Encoders, x \in Readers : (Holds(f, x)' <=> Holds(f, x))
  BY <1>2, <1>4 DEF Holds
<1>6. EncodersInv'
  <2>1. \A f, g \in Encoders : encoder'[f] = "releasing" => ~Holds(g, uses[f])'
    BY <1>1, <1>2, <1>4, <1>5 DEF EncodersInv
  <2>2. ASSUME NEW f \in Encoders, encoder'[f] = "ready" PROVE uses'[f] \in fd'
    <3>1. encoder[f] = "ready" /\ uses[f] \in fd /\ uses'[f] = uses[f]
      BY <1>1, <1>2, <1>4, <2>2 DEF EncodersInv
    <3>2. uses[f] # r
      BY <1>3, <3>1 DEF Holds
    <3> QED
      BY <1>2, <3>1, <3>2
  <2> QED
    BY <1>1, <1>2, <1>4, <2>1, <2>2 DEF EncodersInv
<1>7. /\ setup' \in [Readers -> {"none", "part", "all", "streaming"}] /\ setup'[r] = "none"
      /\ \A x \in Readers : x # r => setup'[x] = setup[x]
  BY <1>1, <1>2, <1>3 DEF ReadersInv
<1>8. ReadersInv'
  BY <1>1, <1>2, <1>3, <1>5, <1>7 DEF ReadersInv
<1>9. ThreadHasBuffers'
  BY <1>1, <1>2, <1>7 DEF ReadersAreSound, ThreadHasBuffers
<1>10. EndsByTheDriver'
  <2>1. CASE setup[r] = "part"
    BY <1>1, <1>2, <1>3, <2>1 DEF ReadersInv, EndsByTheDriver
  <2>2. CASE setup[r] # "part"
    BY <1>2, <2>2 DEF EndsByTheDriver
  <2> QED
    BY <2>1, <2>2
<1> QED
  BY <1>6, <1>8, <1>9, <1>10 DEF HardwareInv, ReadersAreSound

\* A step of a reader's thread.
LEMMA ThreadStepKeeps == ASSUME HardwareInv, ended = {}, NEW r \in Readers, Thread(r) PROVE HardwareInv'
<1>1. EncodersInv /\ ReadersInv /\ ReadersAreSound
  BY DEF HardwareInv
<1>2. /\ UNCHANGED <<encoder, uses, made, fd, setup, running>>
      /\ thread[r] \in {"select", "emit"}
      /\ \E at \in {"select", "emit", "exited"} :
            /\ thread' = [thread EXCEPT ![r] = at]
            /\ at = "emit" => setup[r] = "streaming" \/ thread[r] = "emit"
      /\ \/ UNCHANGED <<refused, ended>>
         \/ refused' = TRUE
         \/ refused' = refused /\ setup[r] # "streaming"
  BY DEF Thread, LoopEnds, Dequeue, OnData, Enqueue, ThreadStep, encoderVars
<1>3. PICK at \in {"select", "emit", "exited"} :
            /\ thread' = [thread EXCEPT ![r] = at]
            /\ at = "emit" => setup[r] = "streaming" \/ thread[r] = "emit"
  BY <1>2
<1>4. /\ thread' \in [Readers -> {"none", "select", "emit", "exited"}] /\ thread'[r] = at
      /\ \A x \in Readers : x # r => thread'[x] = thread[x]
  BY <1>1, <1>3 DEF ReadersInv
<1>5. r \in fd /\ (thread[r] = "emit" => setup[r] = "streaming") /\ (setup[r] = "streaming" \/ refused)
  BY <1>1, <1>2 DEF ReadersAreSound, ThreadHasBuffers, ReadersInv
<1>6. refused' \in BOOLEAN /\ (refused => refused') /\ (ended' = ended \/ refused')
  <2>1. refused \in BOOLEAN
    BY <1>1 DEF ReadersInv
  <2>2. CASE UNCHANGED <<refused, ended>>
    BY <2>1, <2>2
  <2>3. CASE refused' = TRUE
    BY <2>3
  <2>4. CASE refused' = refused /\ setup[r] # "streaming"
    BY <1>5, <2>1, <2>4
  <2> QED
    BY <1>2, <2>2, <2>3, <2>4
<1>7. EncodersInv'
  BY <1>1, <1>2 DEF EncodersInv, Holds
<1>8. ReadersInv'
  BY <1>1, <1>2, <1>4, <1>6 DEF ReadersInv, Holds
<1>9. ReadersAreSound'
  BY <1>1, <1>2, <1>3, <1>4, <1>5, <1>6 DEF ReadersAreSound, ThreadHasBuffers, EndsByTheDriver
<1> QED
  BY <1>7, <1>8, <1>9 DEF HardwareInv

\* Every step of the encoders and the readers.
LEMMA HardwareStep == ASSUME HardwareInv, [HardwareNext]_hardwareVars PROVE HardwareInv'
<1>1. ASSUME UNCHANGED <<encoder, uses, made, fd, setup, running, thread>>,
             ended' = ended \/ refused', refused => refused', refused' \in BOOLEAN
      PROVE  HardwareInv'
  BY <1>1 DEF HardwareInv, EncodersInv, ReadersInv, ReadersAreSound, ThreadHasBuffers,
     EndsByTheDriver, Holds
<1>2. CASE UNCHANGED hardwareVars
  BY <1>1, <1>2 DEF hardwareVars, encoderVars, readerVars, HardwareInv, ReadersInv
<1>3. ASSUME NEW e \in Encoders, SetRatesRefused(e) PROVE HardwareInv'
  BY <1>1, <1>3 DEF SetRatesRefused, encoderVars, readerVars
<1> QED
  BY <1>2, <1>3, CreateStep, InitEncodeStep, EncodeStep, ReleaseStep, ReleasedStep, ThreadStepKeeps
     DEF HardwareNext

\* No encoder is made yet.
LEMMA HardwareStart == HardwareInit => HardwareInv
  BY DEF HardwareInit, HardwareInv, EncodersInv, ReadersInv, ReadersAreSound, ThreadHasBuffers,
     EndsByTheDriver, Holds

\* A thread has its buffers as long as it runs, and only the driver ends the
\* process, however encoders share, start and release a reader.
THEOREM ReadersSound == HardwareSpec => []ReadersAreSound
<1>1. HardwareInv /\ [HardwareNext]_hardwareVars => HardwareInv'
  BY HardwareStep
<1>2. HardwareInv => ReadersAreSound
  BY DEF HardwareInv
<1> QED
  BY <1>1, <1>2, HardwareStart, PTL DEF HardwareSpec

-----------------------------------------------------------------------------
(* The websocket.  The messages an end was given are numbered; those before *)
(* its queue are written, and the line holds, behind what the other end     *)
(* read, the rest of them, then at most a close frame.  Once an end closed  *)
(* or the line is down nothing is written any more, so nothing can be       *)
(* missed.  A write under way is that of the head of the queue, nothing of  *)
(* which has its answer.                                                    *)

Born(e) == IF e = "client" THEN stage = "connected" ELSE upgrade = "done"
Alive(e) == e \in ends \/ ~Born(e)

WsType ==
    /\ ends \subseteq Ends
    /\ stream \in [Ends -> {"open", "closing", "closed"}]
    /\ chan \in [Ends -> Seq(Nat)] /\ got \in [Ends -> Seq(Nat)]
    /\ queue \in [Ends -> Seq(Ids)] /\ writes \in [Ends -> Seq(Ids)]
    /\ sending \in [Ends -> BOOLEAN] /\ reading \in [Ends -> BOOLEAN]
    /\ pledge \in [Ends -> [Ids -> {"none", "waiting"} \cup Answered]]
    /\ readPledge \in [Ends -> {"none", "open", "read", "failed"}]

Reader(e) ==
    /\ e \in ends => Born(e) /\ (reading[e] <=> readPledge[e] = "open")
    /\ ~Born(e) => ~reading[e] /\ readPledge[e] = "none" /\ writes[e] = <<>> /\ e \notin readOps

Queued(e, n) ==
    /\ \A i \in Ids : pledge[e][i] # "none" <=> i <= n
    /\ Len(queue[e]) <= n /\ \A i \in 1..Len(queue[e]) : queue[e][i] = n - Len(queue[e]) + i
    /\ ~sending[e] => queue[e] = <<>> /\ writes[e] = <<>>
    /\ writes[e] # <<>> => queue[e] # <<>> /\ writes[e] = <<queue[e][1]>>
    /\ e \in ends /\ writes[e] # <<>> =>
        \A i \in 1..Len(queue[e]) : pledge[e][queue[e][i]] = "waiting"

Flow(e, n) ==
    Alive(e) =>
        /\ \A i \in 1..Len(got[e]) : got[e][i] = i
        /\ \A i \in 1..Len(chan[e]) :
            \/ chan[e][i] = Len(got[e]) + i
            \/ chan[e][i] = CloseFrame /\ i = Len(chan[e]) /\ stream[Peer(e)] = "closed"
        /\ stream[Peer(e)] # "closed" /\ line = "up" =>
            Len(got[e]) + Len(chan[e]) = n - Len(queue[Peer(e)])

Numbered(e) == \E n \in 0..MaxSends : Queued(e, n) /\ Flow(Peer(e), n)

WebsocketInv ==
    /\ WsType /\ faults = {}
    /\ \A e \in Ends : Reader(e) /\ Numbered(e)

\* There are two ends.
LEMMA TwoEnds ==
    ASSUME NEW e \in Ends
    PROVE  /\ Peer(e) \in Ends /\ Peer(e) # e /\ Peer(Peer(e)) = e
           /\ \A x \in Ends : x = e \/ x = Peer(e)
  BY DEF Ends, Peer

\* What an end sent is counted by the numbers.
LEMMA SentCount ==
    ASSUME NEW e \in Ends, NEW n \in 0..MaxSends, Queued(e, n), WsType
    PROVE  Cardinality(Sent(e)) = n
<1>1. MaxSends \in Nat /\ n \in Nat
  BY WebsocketAssumption
<1>2. Sent(e) = 1..n
  BY <1>1 DEF Queued, Sent, Ids
<1>3. Cardinality(1..n) = n
  BY <1>1, FS_Interval
<1> QED
  BY <1>2, <1>3

\* What an end has to send is not touched by what the others do.
LEMMA QueuedSame ==
    ASSUME NEW e \in Ends, NEW n, Queued(e, n),
           queue'[e] = queue[e], writes'[e] = writes[e], sending'[e] = sending[e],
           pledge'[e] = pledge[e], e \in ends' => e \in ends \/ writes[e] = <<>>
    PROVE  Queued(e, n)'
  BY DEF Queued

\* What comes to an end goes on as before; an end or a line that closes only
\* says less of it.
LEMMA FlowSame ==
    ASSUME NEW e \in Ends, NEW n, Flow(e, n),
           got'[e] = got[e], chan'[e] = chan[e], queue'[Peer(e)] = queue[Peer(e)],
           stream[Peer(e)] = "closed" => stream'[Peer(e)] = "closed",
           line' = "up" => line = "up", Alive(e)' => Alive(e)
    PROVE  Flow(e, n)'
  BY DEF Flow

\* A step that leaves the messages alone.
LEMMA WsFrame ==
    ASSUME WebsocketInv, UNCHANGED <<chan, queue, writes, sending, pledge, got>>,
           \A e \in Ends : stream[e] = "closed" => stream'[e] = "closed",
           line' = "up" => line = "up",
           \A e \in Ends : (Alive(e)' => Alive(e)) /\ (e \in ends' => e \in ends \/ writes[e] = <<>>)
    PROVE  \A e \in Ends : Numbered(e)'
<1> TAKE e \in Ends
<1>1. PICK n \in 0..MaxSends : Queued(e, n) /\ Flow(Peer(e), n)
  BY DEF WebsocketInv, Numbered
<1>2. Peer(e) \in Ends /\ Peer(Peer(e)) = e
  BY TwoEnds
<1>3. Queued(e, n)'
  BY <1>1, QueuedSame
<1>4. Flow(Peer(e), n)'
  BY <1>1, <1>2, FlowSame
<1> QED
  BY <1>3, <1>4 DEF Numbered

-----------------------------------------------------------------------------
\* The connector and the acceptor make the ends, each once.
LEMMA OpenStep ==
    ASSUME WebsocketInv,
           Connect \/ StageDone \/ Handshaken \/ StageFails \/ Accepted \/ AcceptFails \/ Upgraded
           \/ Down
    PROVE  WebsocketInv'
<1>1. UNCHANGED <<stream, chan, sendVars, readVars, faults>>
  BY DEF Connect, StageDone, Handshaken, StageFails, Accepted, AcceptFails, Upgraded, Down
<1>2. UNCHANGED <<stream, chan, queue, sending, writes, pledge, reading, readOps, readPledge, got, faults>>
  BY <1>1 DEF sendVars, readVars
<1>3. \A i \in 2..4 : Stages[i] # "connected"
  BY DEF Stages
<1>4. \/ UNCHANGED ends /\ (stage' = "connected" <=> stage = "connected")
         /\ (upgrade' = "done" <=> upgrade = "done")
      \/ /\ stage # "connected" /\ stage' = "connected" /\ ends' = ends \cup {"client"}
         /\ upgrade' = upgrade
      \/ /\ upgrade # "done" /\ upgrade' = "done" /\ ends' = ends \cup {"server"}
         /\ stage' = stage
  <2>1. CASE StageDone
    <3>1. stage' = After(stage) \/ stage' = "handshake"
      BY <2>1 DEF StageDone
    <3>2. After(stage) # "connected"
      <4>1. \E i \in 2..4 : Stages[i - 1] = stage
        <5>1. stage = Stages[2 - 1] \/ stage = Stages[3 - 1] \/ stage = Stages[4 - 1]
          BY <2>1 DEF StageDone, Stages
        <5> QED
          BY <5>1
      <4> DEFINE i == CHOOSE i \in 2..4 : Stages[i - 1] = stage
      <4>2. i \in 2..4
        BY <4>1
      <4> QED
        BY <1>3, <4>2 DEF After
    <3> QED
      BY <2>1, <3>1, <3>2 DEF StageDone
  <2>2. CASE ~StageDone
    <3>1. "connected" \notin ToSet(Stages)
      BY DEF ToSet, Stages
    <3>2. CASE Connect \/ AcceptFails \/ Down
      BY <3>2 DEF Connect, AcceptFails, Down, openVars
    <3>3. CASE Handshaken
      BY <3>3 DEF Handshaken
    <3>4. CASE StageFails
      BY <3>1, <3>4 DEF StageFails
    <3>5. CASE Accepted \/ Upgraded
      BY <3>5 DEF Accepted, Upgraded
    <3> QED
      BY <2>2, <3>2, <3>3, <3>4, <3>5
  <2> QED
    BY <2>1, <2>2
<1>5. line' = "up" => line = "up"
  BY DEF Connect, StageDone, Handshaken, StageFails, Accepted, AcceptFails, Upgraded, Down
<1>6. WsType'
  BY <1>2, <1>4 DEF WebsocketInv, WsType, Ends
<1>7. \A e \in Ends : Reader(e)'
  BY <1>2, <1>4 DEF WebsocketInv, Reader, Born, Ends
<1>8. \A e \in Ends : (Alive(e)' => Alive(e)) /\ (e \in ends' => e \in ends \/ writes[e] = <<>>)
  BY <1>2, <1>4 DEF WebsocketInv, Reader, Alive, Born, Ends
<1>9. \A e \in Ends : Numbered(e)'
  BY <1>2, <1>5, <1>8, WsFrame
<1> QED
  BY <1>2, <1>6, <1>7, <1>9 DEF WebsocketInv

\* What becomes of sequences that are joined.
LEMMA Joined3 ==
    ASSUME NEW S, NEW s \in Seq(S), NEW x \in S, NEW y \in S
    PROVE  /\ s \o <<>> = s /\ <<>> \o s = s /\ s \o <<x>> = Append(s, x)
           /\ (s \o <<x>>) \o <<>> = Append(s, x)
           /\ (s \o <<x>>) \o <<y>> = Append(Append(s, x), y)
<1>1. s \o <<>> = s /\ <<>> \o s = s /\ s \o <<x>> = Append(s, x)
  OBVIOUS
<1>2. Append(s, x) \in Seq(S)
  OBVIOUS
<1> QED
  BY <1>1, <1>2

\* One more message to send.
LEMMA SendStep == ASSUME WebsocketInv, NEW e \in Ends, Send(e) PROVE WebsocketInv'
<1>1. PICK n \in 0..MaxSends : Queued(e, n) /\ Flow(Peer(e), n)
  BY DEF WebsocketInv, Numbered
<1>2. n \in Nat /\ MaxSends \in Nat /\ WsType /\ Peer(e) \in Ends /\ Peer(e) # e /\ Peer(Peer(e)) = e
  BY <1>1, WebsocketAssumption, TwoEnds DEF WebsocketInv
<1> DEFINE i == n + 1
           q == queue[e]
<1>3. Cardinality(Sent(e)) = n
  BY <1>1, <1>2, SentCount
<1>4. /\ e \in ends /\ n < MaxSends
      /\ queue' = [queue EXCEPT ![e] = Append(@, i)]
      /\ pledge' = [pledge EXCEPT ![e][i] = "waiting"]
      /\ writes' = [writes EXCEPT ![e] = @ \o IF ~sending[e] THEN Foremost(queue'[e]) ELSE <<>>]
      /\ sending' = [sending EXCEPT ![e] = TRUE]
      /\ UNCHANGED <<openVars, ends, stream, line, chan, readVars, faults>>
  BY <1>3 DEF Send, Idle
<1>5. UNCHANGED <<stage, upgrade, ends, stream, line, chan, reading, readOps, readPledge, got, faults>>
  BY <1>4 DEF openVars, readVars
<1>6. i \in Ids /\ i \in Nat /\ q \in Seq(Ids) /\ writes[e] \in Seq(Ids)
  BY <1>2, <1>4 DEF WsType, Ids
<1>7. /\ queue'[e] = Append(q, i) /\ queue'[e] \in Seq(Ids) /\ queue'[e] # <<>>
      /\ Len(queue'[e]) = Len(q) + 1 /\ Len(q) \in Nat /\ queue'[e][Len(q) + 1] = i
      /\ \A k \in 1..Len(q) : queue'[e][k] = q[k]
      /\ queue' \in [Ends -> Seq(Ids)] /\ queue'[Peer(e)] = queue[Peer(e)]
  <2>1. queue'[e] = Append(q, i) /\ queue'[Peer(e)] = queue[Peer(e)]
    BY <1>2, <1>4 DEF WsType
  <2>2. /\ Append(q, i) \in Seq(Ids) /\ Append(q, i) # <<>> /\ Len(Append(q, i)) = Len(q) + 1
        /\ Len(q) \in Nat /\ Append(q, i)[Len(q) + 1] = i
        /\ \A k \in 1..Len(q) : Append(q, i)[k] = q[k]
    BY <1>6
  <2>3. queue' \in [Ends -> Seq(Ids)]
    BY <1>2, <1>4, <2>2 DEF WsType
  <2> QED
    BY <2>1, <2>2, <2>3
<1> HIDE DEF i, q
<1>8. /\ pledge'[e][i] = "waiting" /\ \A k \in Ids : k # i => pledge'[e][k] = pledge[e][k]
      /\ pledge'[Peer(e)] = pledge[Peer(e)]
      /\ pledge' \in [Ends -> [Ids -> {"none", "waiting"} \cup Answered]]
  BY <1>2, <1>4, <1>6 DEF WsType
<1>9. /\ sending'[e] = TRUE /\ sending'[Peer(e)] = sending[Peer(e)]
      /\ sending' \in [Ends -> BOOLEAN]
  BY <1>2, <1>4 DEF WsType
<1>10. /\ writes'[e] = IF ~sending[e] THEN <<queue'[e][1]>> ELSE writes[e]
       /\ writes'[Peer(e)] = writes[Peer(e)] /\ writes' \in [Ends -> Seq(Ids)]
  <2>1. queue'[e][1] \in Ids /\ Foremost(queue'[e]) = <<queue'[e][1]>>
    BY <1>7 DEF Foremost
  <2>2. CASE ~sending[e]
    <3>1. writes[e] = <<>>
      BY <1>1, <2>2 DEF Queued
    <3>2. writes' = [writes EXCEPT ![e] = <<>> \o <<queue'[e][1]>>]
      BY <1>4, <2>1, <2>2, <3>1
    <3>3. <<>> \o <<queue'[e][1]>> = <<queue'[e][1]>> /\ <<queue'[e][1]>> \in Seq(Ids)
      BY <2>1
    <3> QED
      BY <1>2, <2>2, <3>2, <3>3 DEF WsType
  <2>3. CASE sending[e]
    <3>1. writes' = [writes EXCEPT ![e] = writes[e] \o <<>>]
      BY <1>4, <2>3
    <3>2. writes[e] \o <<>> = writes[e]
      BY <1>6
    <3> QED
      BY <1>2, <2>3, <3>1, <3>2 DEF WsType
  <2> QED
    BY <2>2, <2>3
<1>11. Queued(e, i)'
  <2>1. \A k \in Ids : pledge'[e][k] # "none" <=> k <= i
    BY <1>1, <1>2, <1>8 DEF Queued, i, Ids
  <2>2. /\ Len(queue'[e]) <= i
        /\ \A k \in 1..Len(queue'[e]) : queue'[e][k] = i - Len(queue'[e]) + k
    BY <1>1, <1>2, <1>7 DEF Queued, i, q
  <2>3. writes'[e] # <<>> => writes'[e] = <<queue'[e][1]>>
    BY <1>1, <1>7, <1>10 DEF Queued, q
  <2>4. writes'[e] # <<>> => \A k \in 1..Len(queue'[e]) : pledge'[e][queue'[e][k]] = "waiting"
    <3>1. ASSUME writes'[e] # <<>>, NEW k \in 1..Len(queue'[e])
          PROVE  pledge'[e][queue'[e][k]] = "waiting"
      <4>1. queue'[e][k] \in Ids
        BY <1>7
      <4>2. CASE k = Len(q) + 1
        BY <1>7, <1>8, <4>2
      <4>3. CASE k # Len(q) + 1
        <5>1. k \in 1..Len(q) /\ queue'[e][k] = q[k] /\ q # <<>>
          BY <1>6, <1>7, <4>3
        <5>2. sending[e] /\ writes[e] # <<>>
          BY <1>1, <1>10, <3>1, <5>1 DEF Queued, q
        <5>3. pledge[e][q[k]] = "waiting"
          BY <1>1, <1>4, <5>1, <5>2 DEF Queued, q
        <5> QED
          BY <1>8, <4>1, <5>1, <5>3
      <4> QED
        BY <4>2, <4>3
    <3> QED
      BY <3>1
  <2> QED
    BY <1>7, <1>9, <2>1, <2>2, <2>3, <2>4 DEF Queued
<1>12. Flow(Peer(e), i)'
  <2>1. Alive(Peer(e))' <=> Alive(Peer(e))
    BY <1>5 DEF Alive, Born
  <2>2. i - Len(queue'[e]) = n - Len(queue[e])
    <3>1. Len(queue'[e]) = Len(queue[e]) + 1 /\ Len(queue[e]) \in Nat
      BY <1>7 DEF q
    <3> QED
      BY <1>2, <3>1 DEF i
  <2> QED
    BY <1>1, <1>2, <1>5, <2>1, <2>2 DEF Flow
<1>13. Numbered(e)'
  <2>1. i \in 0..MaxSends
    BY <1>2, <1>4 DEF i
  <2> QED
    BY <1>11, <1>12, <2>1 DEF Numbered
<1>14. Numbered(Peer(e))'
  <2>1. PICK m \in 0..MaxSends : Queued(Peer(e), m) /\ Flow(e, m)
    BY <1>2 DEF WebsocketInv, Numbered
  <2>2. Queued(Peer(e), m)'
    BY <1>2, <1>5, <1>7, <1>8, <1>9, <1>10, <2>1, QueuedSame
  <2>3. Flow(e, m)'
    <3>1. Alive(e)' <=> Alive(e)
      BY <1>5 DEF Alive, Born
    <3> QED
      BY <1>2, <1>5, <1>7, <2>1, <3>1 DEF Flow
  <2> QED
    BY <1>2, <2>2, <2>3 DEF Numbered
<1>15. \A x \in Ends : Reader(x)'
  <2>1. Reader(Peer(e))'
    BY <1>2, <1>5, <1>10 DEF WebsocketInv, Reader, Born
  <2>2. Reader(e)'
    BY <1>4, <1>5 DEF WebsocketInv, Reader, Born
  <2> QED
    BY <2>1, <2>2, TwoEnds
<1>16. WsType'
  BY <1>2, <1>5, <1>7, <1>8, <1>9, <1>10 DEF WsType
<1> QED
  BY <1>5, <1>13, <1>14, <1>15, <1>16, TwoEnds DEF WebsocketInv

\* What is settled was waiting.
LEMMA SettleHead ==
    ASSUME WebsocketInv, NEW e \in ends, NEW n \in 0..MaxSends, Queued(e, n), writes[e] # <<>>,
           NEW how \in {"sent", "failed"}, Settle(e, Head(queue[e]), how)
    PROVE  /\ Head(queue[e]) = queue[e][1] /\ queue[e][1] \in Ids /\ Tail(writes[e]) = <<>>
           /\ queue[e] # <<>> /\ faults' = faults
           /\ pledge'[e][queue[e][1]] = how
           /\ \A k \in Ids : k # queue[e][1] => pledge'[e][k] = pledge[e][k]
           /\ \A k \in Ids : pledge'[e][k] # "none" <=> k <= n
           /\ pledge'[Peer(e)] = pledge[Peer(e)]
           /\ pledge' \in [Ends -> [Ids -> {"none", "waiting"} \cup Answered]]
<1>1. WsType /\ e \in Ends /\ Peer(e) \in Ends /\ Peer(e) # e
  BY TwoEnds DEF WebsocketInv, WsType
<1>2. queue[e] # <<>> /\ writes[e] = <<queue[e][1]>> /\ queue[e] \in Seq(Ids)
  BY <1>1 DEF Queued, WsType
<1> DEFINE h == queue[e][1]
<1>3. Head(queue[e]) = h /\ h \in Ids /\ 1 \in 1..Len(queue[e])
  BY <1>2
<1>4. Tail(writes[e]) = <<>>
  BY <1>2, <1>3
<1>5. pledge[e][h] = "waiting"
  BY <1>3 DEF Queued
<1> HIDE DEF h
<1>6. pledge' = [pledge EXCEPT ![e][h] = how] /\ faults' = faults
  BY <1>3, <1>5 DEF Settle
<1>7. /\ pledge'[e][h] = how /\ \A k \in Ids : k # h => pledge'[e][k] = pledge[e][k]
      /\ pledge'[Peer(e)] = pledge[Peer(e)]
      /\ pledge' \in [Ends -> [Ids -> {"none", "waiting"} \cup Answered]]
  BY <1>1, <1>3, <1>6 DEF WsType, Answered
<1>8. \A k \in Ids : pledge'[e][k] # "none" <=> k <= n
  BY <1>3, <1>5, <1>7 DEF Queued
<1> QED
  BY <1>2, <1>3, <1>4, <1>6, <1>7, <1>8 DEF h

\* A message is written, and the next one begins to be.
LEMMA WroteStep ==
    ASSUME WebsocketInv, NEW e \in ends, writes[e] # <<>>, stream[e] # "closed", line = "up", Wrote(e),
           UNCHANGED <<openVars, ends, line, readVars>>
    PROVE  WebsocketInv'
<1>1. e \in Ends /\ WsType
  BY DEF WebsocketInv, WsType
<1>2. PICK n \in 0..MaxSends : Queued(e, n) /\ Flow(Peer(e), n)
  BY <1>1 DEF WebsocketInv, Numbered
<1>3. n \in Nat /\ MaxSends \in Nat /\ Peer(e) \in Ends /\ Peer(e) # e /\ Peer(Peer(e)) = e
  BY <1>1, <1>2, WebsocketAssumption, TwoEnds
<1> DEFINE q == queue[e]
           h == q[1]
           p == Peer(e)
           left == Tail(q)
           closing == stream[e] = "closing"
           came == IF closing THEN Append(Append(chan[p], h), CloseFrame) ELSE Append(chan[p], h)
<1>4. /\ Head(q) = h /\ h \in Ids /\ Tail(writes[e]) = <<>> /\ q # <<>> /\ faults' = faults
      /\ pledge'[e][h] = "sent" /\ (\A k \in Ids : k # h => pledge'[e][k] = pledge[e][k])
      /\ (\A k \in Ids : pledge'[e][k] # "none" <=> k <= n)
      /\ pledge'[p] = pledge[p]
      /\ pledge' \in [Ends -> [Ids -> {"none", "waiting"} \cup Answered]]
  BY <1>2, SettleHead DEF Wrote
<1>5. /\ writes[e] = <<h>> /\ q \in Seq(Ids) /\ Len(q) <= n
      /\ (\A i \in 1..Len(q) : q[i] = n - Len(q) + i)
      /\ (\A i \in 1..Len(q) : pledge[e][q[i]] = "waiting")
  BY <1>1, <1>2 DEF Queued, WsType
<1>6. /\ left \in Seq(Ids) /\ Len(left) = Len(q) - 1 /\ Len(q) \in Nat /\ Len(q) > 0
      /\ \A i \in 1..Len(left) : left[i] = q[i + 1] /\ i + 1 \in 1..Len(q)
  BY <1>4, <1>5, RestOf
<1>19. /\ h = n - Len(q) + 1
       /\ \A k \in 1..Len(left) : left[k] = n - Len(left) + k /\ left[k] # h /\ left[k] \in Ids
  <2>0. n \in Int /\ Len(q) \in Int /\ Len(q) > 0
    BY <1>3, <1>6
  <2>1. 1 \in 1..Len(q) /\ h = n - Len(q) + 1
    <3>1. 1 \in 1..Len(q)
      BY <2>0
    <3>2. \A i \in 1..Len(q) : q[i] = n - Len(q) + i
      BY <1>5
    <3> QED
      BY <3>1, <3>2
  <2> HIDE DEF left, h
  <2>2. ASSUME NEW k \in 1..Len(left)
        PROVE  left[k] = n - Len(left) + k /\ left[k] # h /\ left[k] \in Ids
    <3>1. /\ k \in Nat /\ k > 0 /\ k + 1 \in 1..Len(q) /\ left[k] = q[k + 1]
          /\ left[k] = n - Len(q) + (k + 1) /\ left[k] \in Ids
      <4>1. left[k] = q[k + 1] /\ k + 1 \in 1..Len(q)
        BY <1>6, <2>2, Zenon
      <4>2. k \in Nat /\ k > 0
        BY <1>6, <2>2
      <4>3. \A i \in 1..Len(q) : q[i] = n - Len(q) + i
        BY <1>5, Zenon
      <4>4. q[k + 1] = n - Len(q) + (k + 1)
        BY <4>1, <4>3, Zenon
      <4>5. left[k] \in Ids
        <5>1. q \in Seq(Ids)
          BY <1>5, Zenon
        <5> QED
          BY <4>1, <5>1
      <4> QED
        BY <4>1, <4>2, <4>4, <4>5, Zenon
    <3> DEFINE l == Len(q)
               ll == Len(left)
               x == left[k]
    <3>2. n \in Int /\ l \in Int /\ ll = l - 1
      BY <2>0, <1>6
    <3>3. h = n - l + 1 /\ x = n - l + (k + 1) /\ k \in Nat /\ k > 0
      BY <2>1, <3>1
    <3> HIDE DEF l, ll, x
    <3>4. x = n - ll + k /\ x # h
      BY <3>2, <3>3
    <3> QED
      BY <3>1, <3>4 DEF ll, x
  <2> QED
    BY <2>1, <2>2
<1>7. /\ queue'[e] = left /\ queue'[p] = queue[p] /\ queue' \in [Ends -> Seq(Ids)]
  BY <1>1, <1>3, <1>6 DEF Wrote, WsType
<1>8. /\ sending'[e] = (left # <<>>) /\ sending'[p] = sending[p] /\ sending' \in [Ends -> BOOLEAN]
  BY <1>1, <1>3 DEF Wrote, WsType
<1>9. /\ writes'[e] = (IF left = <<>> THEN <<>> ELSE <<left[1]>>) /\ writes'[p] = writes[p]
      /\ writes' \in [Ends -> Seq(Ids)]
  <2>1. writes' = [writes EXCEPT ![e] = <<>> \o Foremost(left)]
    BY <1>4 DEF Wrote, NextWrite
  <2>2. <<>> \o Foremost(left) = (IF left = <<>> THEN <<>> ELSE <<left[1]>>)
    <3>1. CASE left = <<>>
      <4>1. <<>> \o <<>> = <<>>
        OBVIOUS
      <4> QED
        BY <3>1, <4>1 DEF Foremost
    <3>2. CASE left # <<>>
      <4>1. left[1] \in Ids /\ Head(left) = left[1]
        BY <1>6, <3>2
      <4>2. <<>> \o <<left[1]>> = <<left[1]>>
        BY <4>1
      <4> QED
        BY <3>2, <4>1, <4>2 DEF Foremost
    <3> QED
      BY <3>1, <3>2
  <2>3. (IF left = <<>> THEN <<>> ELSE <<left[1]>>) \in Seq(Ids)
    BY <1>6
  <2> HIDE DEF left
  <2> QED
    BY <1>1, <1>3, <2>1, <2>2, <2>3 DEF WsType
<1>10. /\ stream'[e] = (IF closing THEN "closed" ELSE stream[e]) /\ stream'[p] = stream[p]
       /\ stream' \in [Ends -> {"open", "closing", "closed"}]
  BY <1>1, <1>3 DEF Wrote, WsType
<1>11. chan'[p] = came /\ chan'[e] = chan[e] /\ chan' \in [Ends -> Seq(Nat)]
  <2>1. Foremost(writes[e]) = <<h>> /\ h \in Nat /\ CloseFrame \in Nat
    BY <1>3, <1>4, <1>5 DEF Foremost, Ids, CloseFrame
  <2>2. chan[p] \in Seq(Nat)
    BY <1>1, <1>3 DEF WsType
  <2>3. chan[p] \o <<h>> \o (IF closing THEN <<CloseFrame>> ELSE <<>>) = came
    BY <2>1, <2>2, Joined3, ZenonT(30)
  <2>4. chan' = [chan EXCEPT ![p] = chan[p] \o <<h>> \o (IF closing THEN <<CloseFrame>> ELSE <<>>)]
    BY <2>1 DEF Wrote
  <2>5. came \in Seq(Nat)
    BY <2>1, <2>2
  <2> HIDE DEF came, closing, h, p
  <2> QED
    BY <1>1, <1>3, <2>3, <2>4, <2>5 DEF WsType, p
<1>12. UNCHANGED <<stage, upgrade, ends, line, reading, readOps, readPledge, got>>
  BY DEF openVars, readVars
<1> HIDE DEF left, h
<1>13. Queued(e, n)'
  <2>1. Len(queue'[e]) <= n /\ \A k \in 1..Len(queue'[e]) : queue'[e][k] = n - Len(queue'[e]) + k
    <3> HIDE DEF q
    <3>1. Len(left) <= n
      BY <1>3, <1>5, <1>6
    <3> QED
      BY <1>7, <1>19, <3>1
  <2>2. \A k \in 1..Len(queue'[e]) : pledge'[e][queue'[e][k]] = "waiting"
    <3> TAKE k \in 1..Len(queue'[e])
    <3>1. queue'[e][k] = q[k + 1] /\ k + 1 \in 1..Len(q) /\ q[k + 1] \in Ids
      BY <1>5, <1>6, <1>7
    <3>2. q[k + 1] # h
      BY <1>7, <1>19, <3>1
    <3> QED
      BY <1>4, <1>5, <3>1, <3>2
  <2>3. ~sending'[e] => queue'[e] = <<>> /\ writes'[e] = <<>>
    BY <1>7, <1>8, <1>9
  <2>4. writes'[e] # <<>> => queue'[e] # <<>> /\ writes'[e] = <<queue'[e][1]>>
    BY <1>7, <1>9
  <2> QED
    BY <1>4, <2>1, <2>2, <2>3, <2>4 DEF Queued
<1>14. Flow(p, n)'
  <2>1. SUFFICES ASSUME Alive(p)
        PROVE  /\ \A i \in 1..Len(got[p]) : got[p][i] = i
               /\ \A i \in 1..Len(came) :
                    \/ came[i] = Len(got[p]) + i
                    \/ came[i] = CloseFrame /\ i = Len(came) /\ stream'[e] = "closed"
               /\ stream'[e] # "closed" => Len(got[p]) + Len(came) = n - Len(left)
    <3>1. Alive(p)' <=> Alive(p)
      BY <1>12 DEF Alive, Born
    <3> QED
      BY <1>3, <1>7, <1>11, <1>12, <3>1 DEF Flow
  <2>2. /\ \A i \in 1..Len(got[p]) : got[p][i] = i
        /\ \A i \in 1..Len(chan[p]) : chan[p][i] = Len(got[p]) + i
        /\ Len(got[p]) + Len(chan[p]) = n - Len(q)
    BY <1>2, <1>3, <2>1 DEF Flow
  <2>3. chan[p] \in Seq(Nat) /\ got[p] \in Seq(Nat) /\ h \in Nat /\ CloseFrame \in Nat
    BY <1>1, <1>3, <1>4 DEF WsType, Ids, CloseFrame
  <2> DEFINE c == Append(chan[p], h)
  <2>4. /\ c \in Seq(Nat) /\ Len(c) = Len(chan[p]) + 1 /\ Len(chan[p]) \in Nat /\ Len(got[p]) \in Nat
        /\ c[Len(chan[p]) + 1] = h /\ \A i \in 1..Len(chan[p]) : c[i] = chan[p][i]
    BY <2>3
  <2>5. h = n - Len(q) + 1
    BY <1>19
  <2>6. (\A i \in 1..Len(c) : c[i] = Len(got[p]) + i) /\ Len(got[p]) + Len(c) = n - Len(left)
    <3> HIDE DEF c, q
    <3> DEFINE g == Len(got[p])
               d == Len(chan[p])
               l == Len(q)
    <3>0. /\ n \in Int /\ l \in Int /\ g \in Nat /\ d \in Nat /\ g + d = n - l
          /\ Len(left) = l - 1 /\ Len(c) = d + 1 /\ h = n - l + 1
      <4>1. n \in Int /\ l \in Int /\ Len(left) = l - 1
        BY <1>3, <1>6
      <4>2. g \in Nat /\ d \in Nat /\ g + d = n - l /\ Len(c) = d + 1
        BY <2>2, <2>4
      <4>3. h = n - l + 1
        BY <2>5
      <4> QED
        BY <4>1, <4>2, <4>3
    <3> HIDE DEF g, d, l
    <3>1. ASSUME NEW i \in 1..Len(c) PROVE c[i] = g + i
      <4>1. CASE i = d + 1
        <5>1. c[i] = h
          BY <2>4, <4>1 DEF d
        <5> QED
          BY <3>0, <4>1, <5>1
      <4>2. CASE i # d + 1
        <5>1. i \in 1..d
          BY <3>0, <4>2
        <5> QED
          BY <2>2, <2>4, <5>1 DEF d, g
      <4> QED
        BY <4>1, <4>2
    <3>2. g + Len(c) = n - Len(left)
      BY <3>0
    <3> QED
      BY <3>1, <3>2 DEF g
  <2> HIDE DEF c
  <2>7. CASE ~closing
    <3>1. came = c
      BY <2>7 DEF c
    <3> HIDE DEF came
    <3> QED
      BY <2>2, <2>6, <3>1
  <2>8. CASE closing
    <3>1. came = Append(c, CloseFrame) /\ stream'[e] = "closed"
      BY <1>10, <2>8 DEF c
    <3> HIDE DEF came
    <3>2. /\ Len(came) = Len(c) + 1 /\ Len(c) \in Nat /\ came[Len(c) + 1] = CloseFrame
          /\ \A i \in 1..Len(c) : came[i] = c[i]
      BY <2>3, <2>4, <3>1
    <3> QED
      BY <2>2, <2>6, <3>1, <3>2
  <2> QED
    BY <2>7, <2>8
<1> HIDE DEF came, closing, q
<1>15. Numbered(e)'
  BY <1>13, <1>14 DEF Numbered, p
<1>16. Numbered(p)'
  <2>1. PICK m \in 0..MaxSends : Queued(p, m) /\ Flow(e, m)
    BY <1>3 DEF WebsocketInv, Numbered
  <2>2. Queued(p, m)'
    BY <1>3, <1>4, <1>7, <1>8, <1>9, <1>12, <2>1, QueuedSame
  <2>3. Flow(e, m)'
    <3>1. Alive(e)' <=> Alive(e)
      BY <1>12 DEF Alive, Born
    <3> QED
      BY <1>3, <1>7, <1>10, <1>11, <1>12, <2>1, <3>1 DEF Flow
  <2> QED
    BY <1>3, <2>2, <2>3 DEF Numbered
<1>17. \A x \in Ends : Reader(x)'
  <2>1. Reader(p)'
    BY <1>3, <1>9, <1>12 DEF WebsocketInv, Reader, Born
  <2>2. Reader(e)'
    BY <1>1, <1>12 DEF WebsocketInv, Reader, Born
  <2> QED
    BY <1>1, <2>1, <2>2, TwoEnds
<1>18. WsType'
  BY <1>1, <1>4, <1>7, <1>8, <1>9, <1>10, <1>11, <1>12 DEF WsType
<1> QED
  BY <1>1, <1>4, <1>15, <1>16, <1>17, <1>18, TwoEnds DEF WebsocketInv

\* A write that ends with an error, or whose end is gone, leaves the queue.
LEMMA WriteEndsStep ==
    ASSUME WebsocketInv, NEW e \in Ends, writes[e] # <<>>,
           \/ e \in ends /\ WriteFailed(e)
           \/ e \notin ends /\ WriteDropped(e),
           UNCHANGED <<openVars, ends, line, readVars>>
    PROVE  WebsocketInv'
<1>1. PICK n \in 0..MaxSends : Queued(e, n) /\ Flow(Peer(e), n)
  BY DEF WebsocketInv, Numbered
<1>2. WsType /\ Peer(e) \in Ends /\ Peer(e) # e /\ Peer(Peer(e)) = e
  BY TwoEnds DEF WebsocketInv
<1>3. UNCHANGED <<stage, upgrade, ends, line, reading, readOps, readPledge, got, chan, stream, queue,
                  sending>>
  BY DEF openVars, readVars, WriteFailed, WriteDropped
<1>4. /\ faults' = faults /\ (\A k \in Ids : pledge'[e][k] # "none" <=> k <= n)
      /\ pledge'[Peer(e)] = pledge[Peer(e)]
      /\ pledge' \in [Ends -> [Ids -> {"none", "waiting"} \cup Answered]]
      /\ writes' = [writes EXCEPT ![e] = <<>>]
  <2>1. CASE e \in ends
    BY <1>1, <2>1, SettleHead DEF WriteFailed
  <2>2. CASE e \notin ends
    <3>1. /\ faults' = faults /\ writes' = [writes EXCEPT ![e] = <<>>]
          /\ pledge' = [pledge EXCEPT ![e] = Broken(e)]
      BY <2>2 DEF WriteDropped, WriteFailed
    <3>2. /\ Broken(e) \in [Ids -> {"none", "waiting"} \cup Answered]
          /\ \A k \in Ids : Broken(e)[k] # "none" <=> pledge[e][k] # "none"
      BY <1>2 DEF Broken, WsType, Answered
    <3> QED
      BY <1>1, <1>2, <3>1, <3>2 DEF WsType, Queued
  <2> QED
    BY <2>1, <2>2
<1>5. writes'[e] = <<>> /\ writes'[Peer(e)] = writes[Peer(e)] /\ writes' \in [Ends -> Seq(Ids)]
  BY <1>2, <1>4 DEF WsType
<1>6. \A x \in Ends : Alive(x)' <=> Alive(x)
  BY <1>3 DEF Alive, Born
<1>7. Numbered(e)'
  <2>1. Queued(e, n)'
    BY <1>1, <1>3, <1>4, <1>5 DEF Queued
  <2>2. Flow(Peer(e), n)'
    BY <1>1, <1>2, <1>3, <1>6, FlowSame
  <2> QED
    BY <2>1, <2>2 DEF Numbered
<1>8. Numbered(Peer(e))'
  <2>1. PICK m \in 0..MaxSends : Queued(Peer(e), m) /\ Flow(e, m)
    BY <1>2 DEF WebsocketInv, Numbered
  <2>2. Queued(Peer(e), m)'
    BY <1>2, <1>3, <1>4, <1>5, <2>1, QueuedSame
  <2>3. Flow(e, m)'
    BY <1>2, <1>3, <1>6, <2>1, FlowSame
  <2> QED
    BY <1>2, <2>2, <2>3 DEF Numbered
<1>9. \A x \in Ends : Reader(x)'
  <2> TAKE x \in Ends
  <2>1. writes[x] = <<>> => writes'[x] = <<>>
    BY <1>5, TwoEnds
  <2> QED
    BY <1>3, <2>1 DEF WebsocketInv, Reader, Born
<1>10. WsType'
  BY <1>2, <1>3, <1>4, <1>5 DEF WsType
<1> QED
  BY <1>4, <1>7, <1>8, <1>9, <1>10, TwoEnds DEF WebsocketInv

\* A close frame goes behind the messages, once.
LEMMA FlowCloses ==
    ASSUME NEW p \in Ends, NEW n, Flow(p, n), stream[Peer(p)] # "closed", chan[p] \in Seq(Nat),
           chan'[p] = Append(chan[p], CloseFrame), stream'[Peer(p)] = "closed",
           got'[p] = got[p], Alive(p)' => Alive(p)
    PROVE  Flow(p, n)'
<1> SUFFICES ASSUME Alive(p)
             PROVE  /\ \A i \in 1..Len(got'[p]) : got'[p][i] = i
                    /\ \A i \in 1..Len(chan'[p]) :
                        \/ chan'[p][i] = Len(got'[p]) + i
                        \/ chan'[p][i] = CloseFrame /\ i = Len(chan'[p])
  BY DEF Flow
<1>1. \A i \in 1..Len(chan[p]) : chan[p][i] = Len(got[p]) + i
  BY DEF Flow
<1>2. /\ Len(chan'[p]) = Len(chan[p]) + 1 /\ Len(chan[p]) \in Nat
      /\ chan'[p][Len(chan[p]) + 1] = CloseFrame
      /\ \A i \in 1..Len(chan[p]) : chan'[p][i] = chan[p][i]
  BY DEF CloseFrame
<1>3. \A i \in 1..Len(got[p]) : got[p][i] = i
  BY DEF Flow
<1> QED
  BY <1>1, <1>2, <1>3

\* An end is closed: at once, or with the message that is being written.
LEMMA CloseStep == ASSUME WebsocketInv, NEW e \in Ends, Close(e) PROVE WebsocketInv'
<1> DEFINE p == Peer(e)
<1>1. WsType /\ p \in Ends /\ p # e /\ Peer(p) = e
  BY TwoEnds DEF WebsocketInv
<1>2. /\ stream[e] = "open"
      /\ stream' = [stream EXCEPT ![e] = IF writes[e] = <<>> THEN "closed" ELSE "closing"]
      /\ chan' = IF writes[e] = <<>> THEN [chan EXCEPT ![p] = Append(@, CloseFrame)] ELSE chan
      /\ UNCHANGED <<stage, upgrade, accepting, ends, line, queue, sending, writes, pledge, reading, readOps,
                     readPledge, got, faults>>
  BY DEF Close, openVars, sendVars, readVars
<1> HIDE DEF p
<1>3. /\ stream'[p] = stream[p] /\ chan'[e] = chan[e]
      /\ stream' \in [Ends -> {"open", "closing", "closed"}]
      /\ \/ chan'[p] = Append(chan[p], CloseFrame) /\ stream'[e] = "closed"
         \/ chan'[p] = chan[p]
      /\ chan[p] \in Seq(Nat)
  BY <1>1, <1>2 DEF WsType
<1>4. chan' \in [Ends -> Seq(Nat)]
  <2>1. Append(chan[p], CloseFrame) \in Seq(Nat)
    BY <1>3 DEF CloseFrame
  <2> QED
    BY <1>1, <1>2, <2>1 DEF WsType
<1>5. \A x \in Ends : Alive(x)' <=> Alive(x)
  BY <1>2 DEF Alive, Born
<1>6. Numbered(e)'
  <2>1. PICK n \in 0..MaxSends : Queued(e, n) /\ Flow(p, n)
    BY DEF WebsocketInv, Numbered, p
  <2>2. Queued(e, n)'
    BY <1>2, <2>1, QueuedSame
  <2>3. Flow(p, n)'
    <3>1. CASE chan'[p] = Append(chan[p], CloseFrame) /\ stream'[e] = "closed"
      <4>1. stream[Peer(p)] # "closed" /\ stream'[Peer(p)] = "closed" /\ got'[p] = got[p]
            /\ (Alive(p)' => Alive(p))
        BY <1>1, <1>2, <1>5, <3>1
      <4> QED
        BY <1>1, <1>3, <2>1, <3>1, <4>1, FlowCloses
    <3>2. CASE chan'[p] = chan[p]
      BY <1>1, <1>2, <1>5, <2>1, <3>2, FlowSame
    <3> QED
      BY <1>3, <3>1, <3>2
  <2> QED
    BY <2>2, <2>3 DEF Numbered, p
<1>7. Numbered(p)'
  <2>1. PICK m \in 0..MaxSends : Queued(p, m) /\ Flow(e, m)
    BY <1>1 DEF WebsocketInv, Numbered
  <2>2. Queued(p, m)'
    BY <1>1, <1>2, <2>1, QueuedSame
  <2>3. Flow(e, m)'
    <3>1. Peer(e) = p
      BY DEF p
    <3> QED
      BY <1>1, <1>2, <1>3, <1>5, <2>1, <3>1, FlowSame
  <2> QED
    BY <1>1, <2>2, <2>3 DEF Numbered
<1>8. \A x \in Ends : Reader(x)'
  BY <1>2 DEF WebsocketInv, Reader, Born
<1>9. WsType'
  BY <1>1, <1>2, <1>3, <1>4 DEF WsType
<1> QED
  BY <1>2, <1>6, <1>7, <1>8, <1>9, TwoEnds DEF WebsocketInv, p

\* An end asks for a message.
LEMMA ReadStep == ASSUME WebsocketInv, NEW e \in Ends, Read(e) PROVE WebsocketInv'
<1>1. /\ e \in ends /\ readPledge[e] \in {"none", "read"}
      /\ reading' = [reading EXCEPT ![e] = TRUE] /\ readPledge' = [readPledge EXCEPT ![e] = "open"]
      /\ readOps' = readOps \cup {e} /\ faults' = faults \cup (IF reading[e] THEN {"!reading"} ELSE {})
      /\ UNCHANGED <<stage, upgrade, ends, stream, line, chan, queue, sending, writes, pledge, got>>
  BY DEF Read, openVars, sendVars
<1>2. WsType /\ ~reading[e] /\ Born(e) /\ faults = {}
  BY <1>1 DEF WebsocketInv, Reader
<1>3. faults' = {}
  BY <1>1, <1>2
<1>4. WsType'
  BY <1>1, <1>2 DEF WsType
<1>5. ASSUME NEW x \in Ends PROVE Reader(x)'
  <2>1. Born(x)' <=> Born(x)
    BY <1>1 DEF Born
  <2>2. CASE x = e
    BY <1>1, <1>2, <2>1, <2>2 DEF WsType, Reader
  <2>3. CASE x # e
    BY <1>1, <1>2, <2>1, <2>3 DEF WsType, WebsocketInv, Reader
  <2> QED
    BY <2>2, <2>3
<1>6. \A x \in Ends : Numbered(x)'
  <2>1. \A x \in Ends : (Alive(x)' => Alive(x)) /\ (x \in ends' => x \in ends \/ writes[x] = <<>>)
    BY <1>1 DEF Alive, Born
  <2> QED
    BY <1>1, <2>1, WsFrame
<1> QED
  BY <1>3, <1>4, <1>5, <1>6 DEF WebsocketInv

\* The next message is taken from the line.
LEMMA FlowReads ==
    ASSUME NEW e \in Ends, NEW n \in Nat, Flow(e, n), Alive(e), chan[e] \in Seq(Nat), got[e] \in Seq(Nat),
           queue[Peer(e)] \in Seq(Ids),
           chan[e] # <<>>, Head(chan[e]) # CloseFrame,
           chan'[e] = Tail(chan[e]), got'[e] = Append(got[e], Head(chan[e])),
           UNCHANGED <<stream, line, queue>>
    PROVE  Flow(e, n)'
<1>0. \A i \in 1..Len(chan[e]) :
        \/ chan[e][i] = Len(got[e]) + i
        \/ chan[e][i] = CloseFrame /\ i = Len(chan[e]) /\ stream[Peer(e)] = "closed"
  BY Zenon DEF Flow
<1> DEFINE c == chan[e]
           g == got[e]
           k == Len(got[e])
           d == Len(chan[e])
<1>1. /\ Head(c) = c[1] /\ Tail(c) \in Seq(Nat) /\ Len(Tail(c)) = d - 1 /\ d \in Nat /\ d > 0
      /\ \A i \in 1..(d - 1) : Tail(c)[i] = c[i + 1] /\ i + 1 \in 1..d
  BY RestOf
<1>2. (\A i \in 1..k : g[i] = i)
      /\ (\A i \in 1..d : c[i] = k + i \/ (c[i] = CloseFrame /\ i = d /\ stream[Peer(e)] = "closed"))
      /\ (stream[Peer(e)] # "closed" /\ line = "up" => k + d = n - Len(queue[Peer(e)]))
  <2>1. \A i \in 1..k : g[i] = i
    BY DEF Flow
  <2>2. \A i \in 1..d : c[i] = k + i \/ (c[i] = CloseFrame /\ i = d /\ stream[Peer(e)] = "closed")
    BY <1>0, Zenon
  <2>3. stream[Peer(e)] # "closed" /\ line = "up" => k + d = n - Len(queue[Peer(e)])
    BY DEF Flow
  <2> QED
    BY <2>1, <2>2, <2>3
<1>3. c[1] = k + 1 /\ c[1] \in Nat /\ k \in Nat
  BY <1>1, <1>2
<1>4. /\ Len(got'[e]) = k + 1 /\ got'[e][k + 1] = k + 1 /\ \A i \in 1..k : got'[e][i] = g[i]
  BY <1>1, <1>3
<1>5. chan'[e] = Tail(c) /\ Len(chan'[e]) = d - 1
  BY <1>1
<1> HIDE DEF c, g, k, d
<1>6. ASSUME NEW i \in 1..Len(got'[e]) PROVE got'[e][i] = i
  <2>1. CASE i = k + 1
    BY <1>4, <2>1
  <2>2. CASE i # k + 1
    <3>1. i \in 1..k
      BY <1>3, <1>4, <2>2
    <3> QED
      BY <1>2, <1>4, <3>1
  <2> QED
    BY <2>1, <2>2
<1>7. ASSUME NEW i \in 1..Len(chan'[e])
      PROVE  \/ chan'[e][i] = Len(got'[e]) + i
             \/ chan'[e][i] = CloseFrame /\ i = Len(chan'[e]) /\ stream'[Peer(e)] = "closed"
  <2>1. i \in 1..(d - 1) /\ i + 1 \in 1..d /\ chan'[e][i] = c[i + 1]
    BY <1>1, <1>5
  <2>2. \/ c[i + 1] = k + (i + 1)
        \/ c[i + 1] = CloseFrame /\ i + 1 = d /\ stream[Peer(e)] = "closed"
    BY <1>2, <2>1
  <2>3. k \in Nat /\ d \in Nat /\ i \in Int /\ Len(got'[e]) = k + 1 /\ Len(chan'[e]) = d - 1
    BY <1>1, <1>3, <1>4, <1>5
  <2>4. CASE c[i + 1] = k + (i + 1)
    <3>1. k + (i + 1) = (k + 1) + i
      BY <2>3
    <3> QED
      BY <2>1, <2>3, <2>4, <3>1
  <2>5. CASE c[i + 1] = CloseFrame /\ i + 1 = d /\ stream[Peer(e)] = "closed"
    BY <2>1, <2>3, <2>5
  <2> QED
    BY <2>2, <2>4, <2>5
<1>8. stream'[Peer(e)] # "closed" /\ line' = "up" =>
        Len(got'[e]) + Len(chan'[e]) = n - Len(queue'[Peer(e)])
  <2>1. Len(got'[e]) + Len(chan'[e]) = k + d
    <3>1. k \in Nat /\ d \in Nat
      BY <1>1, <1>3
    <3>2. Len(got'[e]) = k + 1 /\ Len(chan'[e]) = d - 1
      BY <1>4, <1>5
    <3> DEFINE x == Len(got'[e])
               y == Len(chan'[e])
    <3>3. x = k + 1 /\ y = d - 1
      BY <3>2, Zenon
    <3> HIDE DEF x, y
    <3>4. x + y = k + d
      BY <3>1, <3>3
    <3> QED
      BY <3>4 DEF x, y
  <2> QED
    BY <1>2, <2>1
<1> QED
  BY <1>6, <1>7, <1>8 DEF Flow

\* A read ends with a message or an error.
LEMMA ReadDoneStep == ASSUME WebsocketInv, NEW e \in Ends, ReadDone(e) PROVE WebsocketInv'
<1> DEFINE p == Peer(e)
<1>1. WsType /\ p \in Ends /\ p # e /\ Peer(p) = e /\ Born(e)
  BY TwoEnds DEF WebsocketInv, Reader, ReadDone
<1>2. /\ e \in readOps /\ readOps' = readOps \ {e}
      /\ GotMessage(e) \/ GotError(e)
      /\ UNCHANGED <<stage, upgrade, ends, line, queue, sending, writes, pledge, faults>>
  BY DEF ReadDone, openVars, sendVars
<1> HIDE DEF p
<1>3. \A x \in Ends : (Alive(x)' <=> Alive(x)) /\ (Born(x)' <=> Born(x))
  BY <1>2 DEF Alive, Born
<1>4. PICK n \in 0..MaxSends : Queued(e, n) /\ Flow(p, n)
  BY DEF WebsocketInv, Numbered, p
<1>5. PICK m \in 0..MaxSends : Queued(p, m) /\ Flow(e, m)
  BY <1>1 DEF WebsocketInv, Numbered
<1>6. Queued(e, n)' /\ Queued(p, m)'
  BY <1>1, <1>2, <1>4, <1>5, QueuedSame
<1>7. /\ \/ UNCHANGED <<readPledge, reading>>
         \/ /\ reading' = [reading EXCEPT ![e] = FALSE]
            /\ \E how \in {"read", "failed"} : readPledge' = [readPledge EXCEPT ![e] = how]
      /\ e \notin ends => UNCHANGED <<readPledge, reading>>
  BY <1>2 DEF GotMessage, GotError
<1>8. \A x \in Ends : Reader(x)'
  <2> TAKE x \in Ends
  <2>1. CASE UNCHANGED <<readPledge, reading>>
    BY <1>2, <1>3, <2>1 DEF WebsocketInv, Reader
  <2>2. CASE /\ reading' = [reading EXCEPT ![e] = FALSE]
             /\ \E how \in {"read", "failed"} : readPledge' = [readPledge EXCEPT ![e] = how]
    <3>1. CASE x = e
      BY <1>1, <1>2, <1>3, <2>2, <3>1 DEF WebsocketInv, Reader, WsType
    <3>2. CASE x # e
      BY <1>1, <1>2, <1>3, <2>2, <3>2 DEF WebsocketInv, Reader, WsType
    <3> QED
      BY <3>1, <3>2
  <2> QED
    BY <1>7, <2>1, <2>2
<1>9. /\ reading' \in [Ends -> BOOLEAN]
      /\ readPledge' \in [Ends -> {"none", "open", "read", "failed"}]
  <2>1. reading \in [Ends -> BOOLEAN] /\ readPledge \in [Ends -> {"none", "open", "read", "failed"}]
    BY <1>1 DEF WsType
  <2>2. CASE UNCHANGED <<readPledge, reading>>
    BY <2>1, <2>2
  <2>3. CASE /\ reading' = [reading EXCEPT ![e] = FALSE]
             /\ \E how \in {"read", "failed"} : readPledge' = [readPledge EXCEPT ![e] = how]
    <3>1. PICK how \in {"read", "failed"} : readPledge' = [readPledge EXCEPT ![e] = how]
      BY <2>3
    <3> QED
      BY <2>1, <2>3, <3>1
  <2> QED
    BY <1>7, <2>2, <2>3
<1>10. CASE GotMessage(e)
  <2>1. /\ chan[e] # <<>> /\ Head(chan[e]) # CloseFrame /\ chan' = [chan EXCEPT ![e] = Tail(@)]
        /\ stream' = stream
        /\ IF e \in ends THEN got' = [got EXCEPT ![e] = Append(@, Head(chan[e]))] ELSE got' = got
    BY <1>10 DEF GotMessage
  <2>2. /\ chan[e] \in Seq(Nat) /\ got[e] \in Seq(Nat) /\ queue[p] \in Seq(Ids)
        /\ Head(chan[e]) \in Nat /\ Tail(chan[e]) \in Seq(Nat)
    BY <1>1, <2>1 DEF WsType
  <2>3. /\ chan'[e] = Tail(chan[e]) /\ chan'[p] = chan[p] /\ chan' \in [Ends -> Seq(Nat)]
        /\ got'[p] = got[p] /\ got' \in [Ends -> Seq(Nat)]
        /\ e \in ends => got'[e] = Append(got[e], Head(chan[e]))
    <3>1. chan'[e] = Tail(chan[e]) /\ chan'[p] = chan[p] /\ chan' \in [Ends -> Seq(Nat)]
      BY <1>1, <2>1, <2>2 DEF WsType
    <3>2. Append(got[e], Head(chan[e])) \in Seq(Nat) /\ got \in [Ends -> Seq(Nat)]
      BY <1>1, <2>2 DEF WsType
    <3>3. CASE e \in ends
      <4>1. got' = [got EXCEPT ![e] = Append(got[e], Head(chan[e]))]
        BY <2>1, <3>3
      <4> QED
        BY <1>1, <3>1, <3>2, <4>1
    <3>4. CASE e \notin ends
      BY <2>1, <3>1, <3>2, <3>4
    <3> QED
      BY <3>3, <3>4
  <2>4. Flow(p, n)'
    BY <1>1, <1>2, <1>3, <1>4, <2>1, <2>3, FlowSame
  <2>5. Flow(e, m)'
    <3>1. CASE e \in ends
      <4>1. m \in Nat /\ Alive(e) /\ Peer(e) = p
        BY <1>5, <3>1, WebsocketAssumption DEF Alive, p
      <4> QED
        BY <1>2, <1>5, <2>1, <2>2, <2>3, <3>1, <4>1, FlowReads
    <3>2. CASE e \notin ends
      BY <1>1, <1>3, <3>2 DEF Alive, Flow
    <3> QED
      BY <3>1, <3>2
  <2>6. WsType'
    BY <1>1, <1>2, <1>9, <2>1, <2>3 DEF WsType
  <2> QED
    BY <1>1, <1>2, <1>4, <1>5, <1>6, <1>8, <2>4, <2>5, <2>6, TwoEnds DEF WebsocketInv, Numbered, p
<1>11. CASE GotError(e)
  <2>1. /\ \/ chan[e] # <<>> /\ Head(chan[e]) = CloseFrame
           \/ chan[e] = <<>> /\ line = "down"
        /\ stream' = [stream EXCEPT ![e] = "closed"] /\ got' = got
        /\ chan' = [chan EXCEPT ![e] = <<>>,
                    ![p] = IF stream[e] = "closed" \/ line = "down" THEN @ ELSE Append(@, CloseFrame)]
    BY <1>11 DEF GotError, p
  <2>2. chan[p] \in Seq(Nat) /\ Append(chan[p], CloseFrame) \in Seq(Nat)
    BY <1>1 DEF WsType, CloseFrame
  <2>3. /\ stream'[e] = "closed" /\ stream'[p] = stream[p]
        /\ stream' \in [Ends -> {"open", "closing", "closed"}]
        /\ chan'[e] = <<>> /\ chan' \in [Ends -> Seq(Nat)]
        /\ \/ chan'[p] = chan[p]
           \/ chan'[p] = Append(chan[p], CloseFrame) /\ stream[e] # "closed"
    <3> DEFINE c == IF stream[e] = "closed" \/ line = "down" THEN chan[p]
                    ELSE Append(chan[p], CloseFrame)
    <3>1. stream'[e] = "closed" /\ stream'[p] = stream[p]
          /\ stream' \in [Ends -> {"open", "closing", "closed"}]
      BY <1>1, <2>1 DEF WsType
    <3>2. chan' = [chan EXCEPT ![e] = <<>>, ![p] = c]
      BY <1>1, <2>1 DEF WsType
    <3>3. c \in Seq(Nat) /\ chan \in [Ends -> Seq(Nat)] /\ <<>> \in Seq(Nat)
      BY <1>1, <2>2 DEF WsType
    <3>4. \/ c = chan[p]
          \/ c = Append(chan[p], CloseFrame) /\ stream[e] # "closed"
      <4>1. CASE stream[e] = "closed" \/ line = "down"
        BY <4>1, Zenon
      <4>2. CASE ~(stream[e] = "closed" \/ line = "down")
        BY <4>2, Zenon
      <4> QED
        BY <4>1, <4>2
    <3> HIDE DEF c
    <3>5. chan'[e] = <<>> /\ chan'[p] = c /\ chan' \in [Ends -> Seq(Nat)]
      BY <1>1, <3>2, <3>3
    <3> QED
      BY <3>1, <3>4, <3>5
  <2>4. Flow(p, n)'
    <3>1. CASE chan'[p] = chan[p]
      BY <1>1, <1>2, <1>3, <1>4, <2>1, <2>3, <3>1, FlowSame
    <3>2. CASE chan'[p] = Append(chan[p], CloseFrame) /\ stream[e] # "closed"
      <4>1. stream[Peer(p)] # "closed" /\ stream'[Peer(p)] = "closed" /\ got'[p] = got[p]
            /\ (Alive(p)' => Alive(p))
        BY <1>1, <1>3, <2>1, <2>3, <3>2
      <4> QED
        BY <1>1, <1>4, <2>2, <3>2, <4>1, FlowCloses
    <3> QED
      BY <2>3, <3>1, <3>2
  <2>5. Flow(e, m)'
    <3> SUFFICES ASSUME Alive(e) PROVE Flow(e, m)'
      BY <1>3 DEF Flow
    <3>1. \A i \in 1..Len(got[e]) : got[e][i] = i
      BY <1>5 DEF Flow
    <3>2. stream'[Peer(e)] = "closed" \/ line' # "up"
      <4>1. CASE chan[e] # <<>> /\ Head(chan[e]) = CloseFrame
        <5>1. chan[e] \in Seq(Nat) /\ got[e] \in Seq(Nat)
          BY <1>1 DEF WsType
        <5>2. 1 \in 1..Len(chan[e]) /\ chan[e][1] = CloseFrame /\ Len(got[e]) \in Nat
          BY <4>1, <5>1
        <5>3. chan[e][1] # Len(got[e]) + 1
          BY <5>2 DEF CloseFrame
        <5> QED
          BY <1>5, <2>3, <5>2, <5>3 DEF Flow, p
      <4>2. CASE line = "down"
        BY <1>2, <4>2
      <4> QED
        BY <2>1, <4>1, <4>2
    <3>3. 1..Len(chan'[e]) = {}
      BY <2>3
    <3> QED
      BY <2>1, <3>1, <3>2, <3>3 DEF Flow
  <2>6. WsType'
    BY <1>1, <1>2, <1>9, <2>1, <2>3 DEF WsType
  <2> QED
    BY <1>1, <1>2, <1>4, <1>5, <1>6, <1>8, <2>4, <2>5, <2>6, TwoEnds DEF WebsocketInv, Numbered, p
<1> QED
  BY <1>2, <1>10, <1>11

\* An end goes, with the promises of what was not written yet.
LEMMA DestroyStep == ASSUME WebsocketInv, NEW e \in Ends, Destroy(e) PROVE WebsocketInv'
<1> DEFINE p == Peer(e)
<1>1. WsType /\ p \in Ends /\ p # e /\ Peer(p) = e
  BY TwoEnds DEF WebsocketInv
<1>2. /\ e \in ends /\ ends' = ends \ {e}
      /\ readPledge' = [readPledge EXCEPT ![e] = IF reading[e] THEN "failed" ELSE @]
      /\ pledge' = [pledge EXCEPT ![e] = IF writes[e] = <<>> THEN Broken(e) ELSE @]
      /\ faults' = faults \cup (IF reading[e] /\ readPledge[e] # "open" THEN {"read_promise"} ELSE {})
      /\ UNCHANGED <<stage, upgrade, stream, line, chan, queue, sending, writes, reading, readOps, got>>
  BY DEF Destroy, openVars
<1> HIDE DEF p
<1>3. Born(e) /\ \A x \in Ends : (Alive(x)' => Alive(x)) /\ (Born(x)' <=> Born(x))
  BY <1>2 DEF Alive, Born, WebsocketInv, Reader
<1>4. faults' = faults
  BY <1>2 DEF WebsocketInv, Reader
<1>5. PICK n \in 0..MaxSends : Queued(e, n) /\ Flow(p, n)
  BY DEF WebsocketInv, Numbered, p
<1>6. PICK m \in 0..MaxSends : Queued(p, m) /\ Flow(e, m)
  BY <1>1 DEF WebsocketInv, Numbered
<1>7. /\ \A k \in Ids : pledge'[e][k] # "none" <=> pledge[e][k] # "none"
      /\ pledge'[p] = pledge[p]
      /\ pledge' \in [Ends -> [Ids -> {"none", "waiting"} \cup Answered]]
  <2>1. /\ Broken(e) \in [Ids -> {"none", "waiting"} \cup Answered]
        /\ \A k \in Ids : Broken(e)[k] # "none" <=> pledge[e][k] # "none"
    BY <1>1 DEF Broken, WsType, Answered
  <2> QED
    BY <1>1, <1>2, <2>1 DEF WsType
<1>8. Queued(e, n)'
  BY <1>2, <1>5, <1>7 DEF Queued
<1>9. Queued(p, m)'
  BY <1>1, <1>2, <1>6, <1>7, QueuedSame
<1>10. Flow(p, n)' /\ Flow(e, m)'
  <2>1. Peer(e) = p
    BY DEF p
  <2> QED
    BY <1>1, <1>2, <1>3, <1>5, <1>6, <2>1, FlowSame
<1>11. /\ readPledge'[p] = readPledge[p]
       /\ readPledge' \in [Ends -> {"none", "open", "read", "failed"}]
  BY <1>1, <1>2 DEF WsType
<1>12. \A x \in Ends : Reader(x)'
  <2>1. Reader(e)'
    BY <1>2, <1>3 DEF Reader
  <2>2. Reader(p)'
    BY <1>1, <1>2, <1>3, <1>11 DEF WebsocketInv, Reader
  <2> QED
    BY <1>1, <2>1, <2>2, TwoEnds DEF p
<1>13. WsType'
  BY <1>1, <1>2, <1>7, <1>11 DEF WsType
<1> QED
  BY <1>1, <1>4, <1>5, <1>6, <1>8, <1>9, <1>10, <1>12, <1>13, TwoEnds DEF WebsocketInv, Numbered, p

\* Every step of the two ends and of the line between them.
LEMMA WebsocketStep == ASSUME WebsocketInv, [WebsocketNext]_websocketVars PROVE WebsocketInv'
<1>1. ASSUME NEW e \in Ends, WriteDone(e) PROVE WebsocketInv'
  <2>1. writes[e] # <<>> /\ UNCHANGED <<openVars, ends, line, readVars>>
    BY <1>1 DEF WriteDone
  <2>2. CASE e \in ends /\ stream[e] # "closed" /\ line = "up" /\ Wrote(e)
    BY <2>1, <2>2, WroteStep
  <2>3. CASE e \in ends /\ WriteFailed(e)
    BY <2>1, <2>3, WriteEndsStep
  <2>4. CASE e \notin ends /\ WriteDropped(e)
    BY <2>1, <2>4, WriteEndsStep
  <2> QED
    BY <1>1, <2>2, <2>3, <2>4 DEF WriteDone
<1>2. CASE UNCHANGED websocketVars
  <2>1. UNCHANGED <<stage, upgrade, ends, stream, line, chan, queue, sending, writes, pledge, reading,
                    readOps, readPledge, got, faults>>
    BY <1>2 DEF websocketVars, openVars, sendVars, readVars
  <2>2. \A x \in Ends : (Alive(x)' => Alive(x)) /\ (x \in ends' => x \in ends \/ writes[x] = <<>>)
    BY <2>1 DEF Alive, Born
  <2>3. \A x \in Ends : Numbered(x)'
    BY <2>1, <2>2, WsFrame
  <2>4. \A x \in Ends : Reader(x)'
    BY <2>1 DEF WebsocketInv, Reader, Born
  <2>5. WsType'
    BY <2>1 DEF WebsocketInv, WsType
  <2> QED
    BY <2>1, <2>3, <2>4, <2>5 DEF WebsocketInv
<1> QED
  BY <1>1, <1>2, OpenStep, SendStep, CloseStep, ReadStep, ReadDoneStep, DestroyStep DEF WebsocketNext

\* Nobody owns an end yet.
LEMMA WebsocketStart == WebsocketInit => WebsocketInv
<1> SUFFICES ASSUME WebsocketInit PROVE WebsocketInv
  OBVIOUS
<1>1. WsType
  BY DEF WebsocketInit, WsType
<1>2. \A e \in Ends : ~Born(e) /\ Reader(e)
  BY DEF WebsocketInit, Reader, Born
<1>3. ASSUME NEW e \in Ends PROVE Numbered(e)
  <2>1. Peer(e) \in Ends /\ Peer(Peer(e)) = e /\ 0 \in 0..MaxSends
    BY TwoEnds, WebsocketAssumption
  <2>2. Queued(e, 0)
    BY WebsocketAssumption DEF WebsocketInit, Queued, Ids
  <2>3. Flow(Peer(e), 0)
    <3>1. /\ got[Peer(e)] = <<>> /\ chan[Peer(e)] = <<>> /\ queue[Peer(Peer(e))] = <<>>
      BY <2>1 DEF WebsocketInit
    <3>2. Len(<<>>) = 0 /\ 1..0 = {} /\ 0 + 0 = 0 - 0
      OBVIOUS
    <3> QED
      BY <3>1, <3>2 DEF Flow
  <2> QED
    BY <2>1, <2>2, <2>3 DEF Numbered
<1> QED
  BY <1>1, <1>2, <1>3 DEF WebsocketInit, WebsocketInv

\* What the invariant says of the promises and of the messages.
LEMMA WebsocketKeeps == WebsocketInv => PromisesAreKept /\ ReadsAreTheSent
<1> SUFFICES ASSUME WebsocketInv PROVE PromisesAreKept /\ ReadsAreTheSent
  OBVIOUS
<1>1. ASSUME NEW e \in ends
      PROVE  /\ \A i \in DOMAIN got[e] : got[e][i] = i
             /\ \A i \in DOMAIN chan[e] : chan[e][i] \in {Len(got[e]) + i, CloseFrame}
  <2>1. WsType /\ e \in Ends /\ Peer(e) \in Ends /\ Peer(Peer(e)) = e
    BY TwoEnds DEF WebsocketInv, WsType
  <2>2. DOMAIN got[e] = 1..Len(got[e]) /\ DOMAIN chan[e] = 1..Len(chan[e])
    BY <2>1 DEF WsType
  <2>3. PICK n \in 0..MaxSends : Flow(e, n)
    BY <2>1 DEF WebsocketInv, Numbered
  <2> QED
    BY <2>1, <2>2, <2>3 DEF Flow, Alive
<1> QED
  BY <1>1 DEF WebsocketInv, PromisesAreKept, ReadsAreTheSent

\* Every promise of a connection is answered at most once and while it is there,
\* and an end reads what the other one sent, in order and without gaps.
THEOREM WebsocketSound == WebsocketSpec => [](PromisesAreKept /\ ReadsAreTheSent)
<1>1. WebsocketInv /\ [WebsocketNext]_websocketVars => WebsocketInv'
  BY WebsocketStep
<1> QED
  BY <1>1, WebsocketStart, WebsocketKeeps, PTL DEF WebsocketSpec

-----------------------------------------------------------------------------
(* All of them beside each other: a step of one leaves the others alone.    *)

OperationsInv == WebsocketInv /\ HttpInv /\ HardwareInv /\ RoomServerInv

everyVar == <<part, websocketVars, httpVars, hardwareVars, rtcVars, lifeVars, roomServerVars>>

\* Promises, requests, readers and the process of the server stay sound
\* whichever of them moves.
THEOREM OperationsSound == MCSpec => []OperationsAreSound
<1>1. MCInit => OperationsInv
  BY WebsocketStart, HttpStart, HardwareStart, RoomServerStart DEF MCInit, OperationsInv
<1>2. OperationsInv /\ [MCNext]_everyVar => OperationsInv'
  <2> SUFFICES ASSUME OperationsInv, [MCNext]_everyVar PROVE OperationsInv'
    OBVIOUS
  <2>1. /\ [WebsocketNext]_websocketVars /\ [HttpNext]_httpVars
        /\ [HardwareNext]_hardwareVars /\ [RoomServerNext]_roomServerVars
    BY Zenon DEF MCNext, everyVar
  <2> QED
    BY <2>1, WebsocketStep, HttpStep, HardwareStep, RoomServerStep DEF OperationsInv
<1>3. OperationsInv => OperationsAreSound
  BY WebsocketKeeps
     DEF OperationsInv, OperationsAreSound, HttpInv, HardwareInv, RoomServerInv
<1> QED
  BY <1>1, <1>2, <1>3, PTL DEF MCSpec, everyVar

=============================================================================
