----------------------------- MODULE MediaProofs -----------------------------
(***************************************************************************)
(* What is sent and what comes out of webrtc, proved for any number of     *)
(* cameras, windows, connections and sound devices: the previews of an     *)
(* open selection, the pictures every participant is sent, the use of the  *)
(* cameras, frames and levels, the choice of microphones and speakers.     *)
(***************************************************************************)
EXTENDS Media, Previews, AudioDevices, Frames, FiniteSetTheorems, SequenceTheorems, TLAPS

-----------------------------------------------------------------------------
(* The selection of a window.  The timer that looks for windows runs        *)
(* exactly while the selection is open, and waits when nothing of it is     *)
(* posted, which is never: it is started with a first interval.             *)

PreviewsInv ==
    /\ ListedIsCapturing
    /\ look.posted = 0
    /\ look.started <=> selecting
    /\ look.waiting <=> selecting

\* What the timer operations make of a timer.
LEMMA TimerOps ==
    ASSUME NEW t \in Timers
    PROVE  /\ Idle \in Timers /\ Idle.started = FALSE /\ Idle.posted = 0 /\ ~Due(Idle)
           /\ Started(t) \in Timers /\ Started(t).started /\ Started(t).waiting
           /\ Started(t).posted = t.posted
           /\ StoppedTimer(t) \in Timers /\ ~StoppedTimer(t).started
           /\ ~StoppedTimer(t).waiting /\ StoppedTimer(t).posted = t.posted
           /\ Ran(t) \in Timers /\ Ran(t).started = t.started /\ Ran(t).waiting
           /\ t.posted = 0 => Ran(t).posted = 0
           /\ t.posted < MaxPosts =>
                /\ StartedNow(t) \in Timers /\ StartedNow(t).started
                /\ StartedNow(t).posted > 0 /\ StartedNow(t).waiting = t.waiting
<1>1. /\ t.started \in BOOLEAN /\ t.waiting \in BOOLEAN /\ t.posted \in 0..MaxPosts
      /\ MaxPosts \in Nat \ {0}
  BY PreviewsAssumption DEF Timers
<1>2. Idle \in Timers /\ Idle.started = FALSE /\ Idle.posted = 0 /\ ~Due(Idle)
  BY <1>1 DEF Idle, Timers, Due
<1>3. /\ Started(t) \in Timers /\ Started(t).started /\ Started(t).waiting
      /\ Started(t).posted = t.posted
  BY <1>1 DEF Timers, Started
<1>4. /\ StoppedTimer(t) \in Timers /\ ~StoppedTimer(t).started
      /\ ~StoppedTimer(t).waiting /\ StoppedTimer(t).posted = t.posted
  BY <1>1 DEF Timers, StoppedTimer
<1>5. /\ Ran(t) \in Timers /\ Ran(t).started = t.started /\ Ran(t).waiting
      /\ t.posted = 0 => Ran(t).posted = 0
  <2> DEFINE n == IF t.posted > 0 THEN t.posted - 1 ELSE 0
  <2>1. n \in 0..MaxPosts /\ (t.posted = 0 => n = 0)
    BY <1>1
  <2>2. Ran(t) = [t EXCEPT !.posted = n, !.waiting = TRUE]
    BY <1>1 DEF Ran, Timers
  <2> HIDE DEF n
  <2> QED
    BY <1>1, <2>1, <2>2 DEF Timers
<1>6. ASSUME t.posted < MaxPosts
      PROVE  /\ StartedNow(t) \in Timers /\ StartedNow(t).started
             /\ StartedNow(t).posted > 0 /\ StartedNow(t).waiting = t.waiting
  <2>1. t.posted + 1 \in 0..MaxPosts /\ t.posted + 1 > 0
    BY <1>1, <1>6
  <2>2. StartedNow(t) = [t EXCEPT !.started = TRUE, !.posted = t.posted + 1]
    BY DEF StartedNow, Timers
  <2> QED
    BY <1>1, <2>1, <2>2 DEF Timers
<1> QED
  BY <1>2, <1>3, <1>4, <1>5, <1>6

\* What create_previews makes of timers ts that are right for the list: they are
\* right for the list with the new windows.
LEMMA EnumeratedLemma ==
    ASSUME PreviewsInv, NEW ts \in [Wins -> Timers], Enumerated(ts),
           \A w \in Wins : /\ ts[w].waiting => ts[w].started
                           /\ ts[w].started <=> w \in list
                           /\ ts[w].started => Due(ts[w])
    PROVE  /\ capture' \in [Wins -> Timers]
           /\ list' \subseteq Wins /\ rows' = list'
           /\ \A w \in Wins : /\ capture'[w].waiting => capture'[w].started
                              /\ capture'[w].started <=> w \in list'
                              /\ capture'[w].started => Due(capture'[w])
<1>1. /\ list' = list \cup there /\ rows' = rows \cup there /\ capture' = Created(ts)
      /\ list \subseteq Wins /\ there \subseteq Wins /\ rows = list
  BY DEF Enumerated, PreviewsInv, ListedIsCapturing, PreviewsTypeOK
<1>2. Idle \in Timers /\ Idle.posted < MaxPosts
  BY PreviewsAssumption DEF Idle, Timers
<1>3. /\ StartedNow(Idle) \in Timers /\ StartedNow(Idle).started /\ Due(StartedNow(Idle))
  BY <1>2, TimerOps DEF Due
<1>4. capture' \in [Wins -> Timers]
  BY <1>1, <1>3 DEF Created
<1>5. ASSUME NEW w \in Wins
      PROVE  /\ capture'[w].waiting => capture'[w].started
             /\ capture'[w].started <=> w \in list'
             /\ capture'[w].started => Due(capture'[w])
  <2>1. CASE w \in there \ list
    <3>1. capture'[w] = StartedNow(Idle)
      BY <1>1, <2>1 DEF Created
    <3> QED
      BY <1>1, <1>3, <2>1, <3>1
  <2>2. CASE w \notin there \ list
    <3>1. capture'[w] = ts[w]
      BY <1>1, <2>2 DEF Created
    <3> QED
      BY <1>1, <2>2, <3>1
  <2> QED
    BY <2>1, <2>2
<1> QED
  BY <1>1, <1>4, <1>5

\* The selection is opened.
LEMMA OpenStep == ASSUME PreviewsInv, Open PROVE PreviewsInv'
<1> DEFINE ts == [w \in Wins |-> IF w \in list THEN StartedNow(capture[w]) ELSE capture[w]]
<1>1. /\ ~selecting /\ selecting' = TRUE /\ Enumerated(ts) /\ look' = Started(look)
      /\ there' = there /\ faults' = faults /\ \A w \in list : capture[w].posted < MaxPosts
      /\ look \in Timers /\ capture \in [Wins -> Timers] /\ list \subseteq Wins
      /\ there \subseteq Wins /\ faults \subseteq {"on_timeout:86"} /\ look.posted = 0
  BY DEF Open, PreviewsInv, ListedIsCapturing, PreviewsTypeOK
<1>2. ASSUME NEW w \in Wins
      PROVE  /\ ts[w] \in Timers /\ (ts[w].waiting => ts[w].started)
             /\ ts[w].started <=> w \in list
             /\ ts[w].started => Due(ts[w])
  <2>1. capture[w] \in Timers /\ ~capture[w].started /\ (capture[w].waiting => capture[w].started)
    BY <1>1 DEF PreviewsInv, ListedIsCapturing, PreviewsTypeOK
  <2>2. CASE w \in list
    <3>1. ts[w] = StartedNow(capture[w])
      BY <2>2
    <3>2. /\ StartedNow(capture[w]) \in Timers /\ StartedNow(capture[w]).started
          /\ Due(StartedNow(capture[w]))
      BY <1>1, <2>1, <2>2, TimerOps DEF Due
    <3> QED
      BY <2>2, <3>1, <3>2
  <2>3. CASE w \notin list
    BY <2>1, <2>3
  <2> QED
    BY <2>2, <2>3
<1>3. ts \in [Wins -> Timers]
  BY <1>2
<1> HIDE DEF ts
<1>4. /\ capture' \in [Wins -> Timers]
      /\ list' \subseteq Wins /\ rows' = list'
      /\ \A w \in Wins : /\ capture'[w].waiting => capture'[w].started
                         /\ capture'[w].started <=> w \in list'
                         /\ capture'[w].started => Due(capture'[w])
  BY <1>1, <1>2, <1>3, EnumeratedLemma
<1>5. /\ look' \in Timers /\ look'.started /\ look'.waiting /\ look'.posted = 0 /\ Due(look')
  BY <1>1, TimerOps DEF Due
<1>6. PreviewsTypeOK'
  BY <1>1, <1>4, <1>5 DEF PreviewsTypeOK
<1>7. ListedIsCapturing'
  BY <1>1, <1>4, <1>5, <1>6 DEF ListedIsCapturing, Due
<1> QED
  BY <1>1, <1>5, <1>7 DEF PreviewsInv

\* The selection is closed: the list stays, nothing captures.
LEMMA CloseStep == ASSUME PreviewsInv, Close PROVE PreviewsInv'
<1>1. /\ selecting /\ selecting' = FALSE /\ look' = StoppedTimer(look)
      /\ capture' = [w \in Wins |-> StoppedTimer(capture[w])]
      /\ UNCHANGED <<list, rows, there>> /\ PreviewsTypeOK /\ look.posted = 0
      /\ look \in Timers /\ capture \in [Wins -> Timers] /\ list \subseteq Wins
      /\ \A w \in list : capture[w].started
  BY DEF Close, PreviewsInv, ListedIsCapturing, PreviewsTypeOK
<1>2. faults' = {}
  BY <1>1 DEF Close
<1>3. \A w \in Wins : /\ capture'[w] \in Timers /\ ~capture'[w].started
                      /\ ~capture'[w].waiting
  BY <1>1, TimerOps
<1>4. capture' \in [Wins -> Timers]
  BY <1>1, <1>3
<1>5. look' \in Timers /\ ~look'.started /\ ~look'.waiting /\ look'.posted = 0
  BY <1>1, TimerOps
<1>6. PreviewsTypeOK'
  BY <1>1, <1>3, <1>4, <1>5 DEF PreviewsTypeOK
<1>7. rows = list
  BY DEF PreviewsInv, ListedIsCapturing
<1> QED
  BY <1>1, <1>2, <1>3, <1>5, <1>6, <1>7 DEF PreviewsInv, ListedIsCapturing

\* A look finds the windows that are there, in an open selection only.
LEMMA LookStep == ASSUME PreviewsInv, Look PROVE PreviewsInv'
<1>1. /\ Due(look) /\ look' = Ran(look) /\ Enumerated(capture)
      /\ UNCHANGED <<selecting, there, faults>> /\ PreviewsTypeOK /\ look.posted = 0
      /\ look \in Timers /\ capture \in [Wins -> Timers] /\ list \subseteq Wins
      /\ faults \subseteq {"on_timeout:86"}
  BY DEF Look, PreviewsInv, ListedIsCapturing, PreviewsTypeOK
<1>2. selecting /\ look.started
  BY <1>1 DEF Due, PreviewsInv, Timers
<1>3. \A w \in Wins : /\ capture[w].waiting => capture[w].started
                      /\ capture[w].started <=> w \in list
                      /\ capture[w].started => Due(capture[w])
  BY <1>2 DEF PreviewsInv, ListedIsCapturing, PreviewsTypeOK
<1>4. /\ capture' \in [Wins -> Timers]
      /\ list' \subseteq Wins /\ rows' = list'
      /\ \A w \in Wins : /\ capture'[w].waiting => capture'[w].started
                         /\ capture'[w].started <=> w \in list'
                         /\ capture'[w].started => Due(capture'[w])
  BY <1>1, <1>3, EnumeratedLemma
<1>5. look' \in Timers /\ look'.started /\ look'.waiting /\ look'.posted = 0 /\ Due(look')
  BY <1>1, <1>2, TimerOps DEF Due
<1>6. PreviewsTypeOK'
  BY <1>1, <1>4, <1>5 DEF PreviewsTypeOK
<1>7. ListedIsCapturing'
  BY <1>1, <1>2, <1>4, <1>5, <1>6 DEF ListedIsCapturing, Due
<1> QED
  BY <1>1, <1>2, <1>5, <1>7 DEF PreviewsInv

\* A capturer has another interval, or its window is gone and it goes with it.
LEMMA CaptureStep ==
    ASSUME PreviewsInv, NEW w \in Wins, Capture(w) \/ CaptureFailed(w) PROVE PreviewsInv'
<1>1. /\ capture[w].started /\ UNCHANGED <<selecting, look, there, faults>>
      /\ PreviewsTypeOK /\ capture \in [Wins -> Timers] /\ list \subseteq Wins /\ rows = list
      /\ capture[w] \in Timers
  BY DEF Capture, CaptureFailed, PreviewsInv, ListedIsCapturing, PreviewsTypeOK
<1>2. selecting /\ w \in list
  BY <1>1 DEF PreviewsInv, ListedIsCapturing
<1>3. CASE Capture(w)
  <2>1. capture' = [capture EXCEPT ![w] = Ran(@)] /\ UNCHANGED <<list, rows>>
    BY <1>3 DEF Capture
  <2>2. /\ Ran(capture[w]) \in Timers /\ Ran(capture[w]).started /\ Due(Ran(capture[w]))
    BY <1>1, TimerOps DEF Due
  <2>3. /\ capture' \in [Wins -> Timers] /\ capture'[w].started /\ Due(capture'[w])
        /\ \A v \in Wins : v # w => capture'[v] = capture[v]
    BY <1>1, <2>1, <2>2
  <2>4. PreviewsTypeOK'
    BY <1>1, <2>1, <2>3 DEF PreviewsTypeOK
  <2>5. \A v \in Wins : /\ capture'[v].started <=> selecting /\ v \in list
                        /\ capture'[v].started => Due(capture'[v])
    BY <1>2, <2>3 DEF PreviewsInv, ListedIsCapturing
  <2> QED
    BY <1>1, <2>1, <2>4, <2>5 DEF PreviewsInv, ListedIsCapturing, Due
<1>4. CASE CaptureFailed(w)
  <2>1. /\ capture' = [capture EXCEPT ![w] = Idle]
        /\ list' = list \ {w} /\ rows' = rows \ {w}
    BY <1>4 DEF CaptureFailed
  <2>2. Idle \in Timers /\ ~Idle.started /\ ~Idle.waiting
    BY <1>1, TimerOps DEF Due
  <2>3. /\ capture' \in [Wins -> Timers] /\ ~capture'[w].started /\ ~capture'[w].waiting
        /\ \A v \in Wins : v # w => capture'[v] = capture[v]
    BY <1>1, <2>1, <2>2
  <2>4. PreviewsTypeOK'
    BY <1>1, <2>1, <2>3 DEF PreviewsTypeOK
  <2>5. \A v \in Wins : /\ capture'[v].started <=> selecting /\ v \in list'
                        /\ capture'[v].started => Due(capture'[v])
    BY <1>2, <2>1, <2>3 DEF PreviewsInv, ListedIsCapturing
  <2> QED
    BY <1>1, <2>1, <2>4, <2>5 DEF PreviewsInv, ListedIsCapturing, Due
<1> QED
  BY <1>3, <1>4

\* ListedIsCapturing and what it needs of the timer that looks is inductive.
THEOREM PreviewsInvariant == PreviewsSpec => []PreviewsInv
<1>1. PreviewsInit => PreviewsInv
  <2> SUFFICES ASSUME PreviewsInit PROVE PreviewsInv
    OBVIOUS
  <2>1. Idle \in Timers
    BY PreviewsAssumption DEF Idle, Timers
  <2>2. PreviewsTypeOK
    BY <2>1 DEF PreviewsInit, PreviewsTypeOK, Idle
  <2> QED
    BY <2>2 DEF PreviewsInit, PreviewsInv, ListedIsCapturing, Idle
<1>2. PreviewsInv /\ [PreviewsNext]_previewsVars => PreviewsInv'
  <2> SUFFICES ASSUME PreviewsInv, [PreviewsNext]_previewsVars PROVE PreviewsInv'
    OBVIOUS
  <2>1. CASE UNCHANGED previewsVars
    BY <2>1 DEF previewsVars, PreviewsInv, ListedIsCapturing, PreviewsTypeOK, Due
  <2>2. CASE ComeOrGo
    <3>1. /\ UNCHANGED <<selecting, look, capture, list, rows, faults>>
          /\ there \subseteq Wins => there' \subseteq Wins
      BY <2>2 DEF ComeOrGo
    <3> QED
      BY <3>1 DEF PreviewsInv, ListedIsCapturing, PreviewsTypeOK, Due
  <2>3. ASSUME NEW w \in Wins, PostedTooLate(w) PROVE PreviewsInv'
    BY <2>3 DEF PostedTooLate, PreviewsInv, ListedIsCapturing, PreviewsTypeOK, Due
  <2> QED
    BY <2>1, <2>2, <2>3, OpenStep, CloseStep, LookStep, CaptureStep DEF PreviewsNext
<1> QED
  BY <1>1, <1>2, PTL DEF PreviewsSpec

\* While the selection is open exactly the listed windows are captured, and
\* none of them waits for ever: start and stop find what they assert.
THEOREM PreviewsSound == PreviewsSpec => []ListedIsCapturing
<1>1. PreviewsInv => ListedIsCapturing
  BY DEF PreviewsInv
<1> QED
  BY <1>1, PreviewsInvariant, PTL

-----------------------------------------------------------------------------
(* The pictures that are sent.  The methods are functions of the program's  *)
(* objects, so the lemmas are about what each makes of a state s.  While     *)
(* one of them is under way the shared window may be sent and not yet set,   *)
(* or set and not yet sent: ws are the windows that are sent.                *)

MediaStates == [
    paused : BOOLEAN, last : Devices \cup {None}, device : Devices \cup {None},
    listed : SUBSET Devices, counter : [Devices -> Nat], running : SUBSET Devices,
    own : SUBSET Devices, view : Devices \cup {None}, shown : BOOLEAN,
    viewer : Devices \cup {None}, playing : BOOLEAN,
    sharing : Windows \cup {None}, didPause : BOOLEAN, active : BOOLEAN,
    adders : SUBSET Sources, peers : SUBSET Peers, sent : [Peers -> SUBSET Sources],
    wish : BOOLEAN, silent : BOOLEAN, thrown : BOOLEAN, ended : BOOLEAN,
    failed : SUBSET STRING]

\* Every connection has exactly the tracks xs, and no assertion failed.
Sending(s, xs) ==
    /\ s.adders = xs /\ s.failed = {}
    /\ s.sent = [p \in Peers |-> IF p \in s.peers THEN xs ELSE {}]

\* The devices are counted once for each of their users x and y, null if there
\* is none, and run as long as they are counted.
Uses(d, x) == IF d = x THEN 1 ELSE 0
Counted(s, x, y) ==
    /\ s.counter = [d \in Devices |-> Uses(d, x) + Uses(d, y)]
    /\ s.running = {d \in Devices : s.counter[d] > 0}

\* The device that is previewed by the settings.
Previewed(s) == IF s.playing THEN s.viewer ELSE None

\* The camera in use is sent next to ws, is the own picture and counted.
Camera(s, ws) ==
    /\ s \in MediaStates
    /\ Sending(s, Only(s.device) \cup ws)
    /\ s.own = Only(s.device)
    /\ Counted(s, s.device, Previewed(s))
    /\ s.playing => s.viewer # None
    /\ s.device # None => s.last = s.device

\* What is shown of the camera is the camera in use, if it is not paused.
Viewed(s) == s.view = s.device /\ (s.device # None => ~s.paused)

\* What a method of video_settings leaves alone, and further what nobody but
\* pausing and sharing changes.
SamePage(s, t) ==
    /\ t.listed = s.listed /\ t.peers = s.peers /\ t.viewer = s.viewer
    /\ t.playing = s.playing /\ t.wish = s.wish /\ t.ended = s.ended
SameShare(s, t) == t.sharing = s.sharing /\ t.active = s.active
SamePause(s, t) ==
    /\ t.paused = s.paused /\ t.shown = s.shown
    /\ t.didPause = s.didPause /\ t.silent = s.silent
SameRest(s, t) == SamePage(s, t) /\ SameShare(s, t) /\ SamePause(s, t)

\* What the tracks and the devices leave alone, and each of them of the other.
SameCamera(s, t) ==
    /\ SameRest(s, t) /\ t.device = s.device /\ t.last = s.last
    /\ t.own = s.own /\ t.view = s.view /\ t.thrown = s.thrown
SameTracks(s, t) == t.adders = s.adders /\ t.sent = s.sent /\ t.failed = s.failed
SameUse(s, t) == t.counter = s.counter /\ t.running = s.running

\* Groups of fields that stay, stay.
LEMMA SameTwice ==
    ASSUME NEW s, NEW r, NEW t
    PROVE  /\ SameRest(s, r) /\ SameRest(r, t) => SameRest(s, t)
           /\ SameCamera(s, r) /\ SameCamera(r, t) => SameCamera(s, t)
  BY DEF SameRest, SamePage, SameShare, SamePause, SameCamera

\* A state with a camera that is right is a state.
LEMMA CameraTyped == ASSUME NEW s, NEW ws, Camera(s, ws) PROVE s \in MediaStates
  BY DEF Camera

\* A track that was not there goes to every connection.
LEMMA AddTrackLemma ==
    ASSUME NEW s \in MediaStates, NEW xs \in SUBSET Sources, Sending(s, xs),
           NEW x \in Sources, x \notin xs, NEW t, t = AddTrack(s, x)
    PROVE  /\ t \in MediaStates /\ Sending(t, xs \cup {x})
           /\ SameCamera(s, t) /\ SameUse(s, t)
<1> DEFINE se == [p \in Peers |-> IF p \in s.peers THEN s.sent[p] \cup {x} ELSE s.sent[p]]
           ad == xs \cup {x}
           r == [s EXCEPT !.adders = ad]
<1>1. r = [Ensure(s, x \notin s.adders, "add:7") EXCEPT !.adders = @ \cup {x}]
  BY DEF Ensure, Sending, MediaStates
<1>2. r \in MediaStates /\ r.sent = s.sent /\ r.peers = s.peers
  BY DEF MediaStates
<1>3. \A p \in r.peers : {x} \cap r.sent[p] = {}
  BY <1>2 DEF Sending, MediaStates
<1>4. t = Sends(r, s.peers, {x})
  BY <1>1 DEF AddTrack
<1> HIDE DEF r
<1>5. t = [r EXCEPT !.sent = se]
  BY <1>2, <1>3, <1>4 DEF Sends, Ensure, MediaStates
<1>6. se = [p \in Peers |-> IF p \in s.peers THEN ad ELSE {}]
  BY DEF Sending
<1>7. se \in [Peers -> SUBSET Sources] /\ ad \in SUBSET Sources
  BY <1>6
<1> HIDE DEF se, ad
<1>8. t = [s EXCEPT !.adders = ad, !.sent = se]
  BY <1>5 DEF r, MediaStates
<1>9. t.adders = ad /\ t.sent = se /\ t.peers = s.peers /\ t.failed = s.failed
  BY <1>8 DEF MediaStates
<1>10. t \in MediaStates
  BY <1>7, <1>8 DEF MediaStates
<1>11. Sending(t, ad)
  BY <1>6, <1>9 DEF Sending
<1>12. SameCamera(s, t) /\ SameUse(s, t)
  BY <1>8 DEF MediaStates, SameCamera, SameRest, SamePage, SameShare, SamePause, SameUse
<1> QED
  BY <1>10, <1>11, <1>12 DEF ad

\* A track that is there leaves every connection.
LEMMA RemoveTrackLemma ==
    ASSUME NEW s \in MediaStates, NEW xs \in SUBSET Sources, Sending(s, xs),
           NEW x \in xs, NEW t, t = RemoveTrack(s, x)
    PROVE  /\ t \in MediaStates /\ Sending(t, xs \ {x})
           /\ SameCamera(s, t) /\ SameUse(s, t)
<1> DEFINE se == [p \in Peers |-> IF p \in s.peers THEN s.sent[p] \ {x} ELSE s.sent[p]]
           ad == xs \ {x}
           r == [s EXCEPT !.adders = ad]
<1>1. r = [Ensure(s, x \in s.adders, "remove:15") EXCEPT !.adders = @ \ {x}]
  BY DEF Ensure, Sending, MediaStates
<1>2. r \in MediaStates /\ r.sent = s.sent /\ r.peers = s.peers
  BY DEF MediaStates
<1>3. \A p \in r.peers : {x} \subseteq r.sent[p]
  BY <1>2 DEF Sending, MediaStates
<1>4. t = StopsSending(r, s.peers, {x})
  BY <1>1 DEF RemoveTrack, Ensure
<1> HIDE DEF r
<1>5. t = [r EXCEPT !.sent = se]
  BY <1>2, <1>3, <1>4 DEF StopsSending, Ensure, MediaStates
<1>6. se = [p \in Peers |-> IF p \in s.peers THEN ad ELSE {}]
  BY DEF Sending
<1>7. se \in [Peers -> SUBSET Sources] /\ ad \in SUBSET Sources
  BY <1>6
<1> HIDE DEF se, ad
<1>8. t = [s EXCEPT !.adders = ad, !.sent = se]
  BY <1>5 DEF r, MediaStates
<1>9. t.adders = ad /\ t.sent = se /\ t.peers = s.peers /\ t.failed = s.failed
  BY <1>8 DEF MediaStates
<1>10. t \in MediaStates
  BY <1>7, <1>8 DEF MediaStates
<1>11. Sending(t, ad)
  BY <1>6, <1>9 DEF Sending
<1>12. SameCamera(s, t) /\ SameUse(s, t)
  BY <1>8 DEF MediaStates, SameCamera, SameRest, SamePage, SameShare, SamePause, SameUse
<1> QED
  BY <1>10, <1>11, <1>12 DEF ad

\* A device gets its second user, or its first.
LEMMA StartDeviceLemma ==
    ASSUME NEW s \in MediaStates, NEW d \in Devices, NEW y \in Devices \cup {None},
           Counted(s, None, y) \/ Counted(s, y, None), NEW t, t = StartDevice(s, d)
    PROVE  /\ t \in MediaStates /\ Counted(t, d, y) /\ Counted(t, y, d)
           /\ SameCamera(s, t) /\ SameTracks(s, t)
<1> DEFINE c == [s.counter EXCEPT ![d] = @ + 1]
           run == s.running \cup {d}
<1>1. None \notin Devices
  BY MediaAssumption
<1>2. c = [e \in Devices |-> Uses(e, d) + Uses(e, y)] /\ c \in [Devices -> Nat]
  BY <1>1 DEF Counted, Uses, MediaStates
<1>3. run = {e \in Devices : c[e] > 0} /\ run \in SUBSET Devices
  BY <1>1 DEF Counted, Uses, MediaStates
<1>4. t = [s EXCEPT !.counter = c, !.running = run]
  BY DEF StartDevice, MediaStates
<1>5. c = [e \in Devices |-> Uses(e, y) + Uses(e, d)]
  BY <1>2 DEF Uses
<1> HIDE DEF c, run
<1>6. t \in MediaStates /\ t.counter = c /\ t.running = run
  BY <1>2, <1>3, <1>4 DEF MediaStates
<1>7. SameCamera(s, t) /\ SameTracks(s, t)
  BY <1>4 DEF MediaStates, SameCamera, SameRest, SamePage, SameShare, SamePause, SameTracks
<1> QED
  BY <1>2, <1>3, <1>5, <1>6, <1>7 DEF Counted

\* One of the users of a device leaves it.
LEMMA StopDeviceLemma ==
    ASSUME NEW s \in MediaStates, NEW d \in Devices, NEW y \in Devices \cup {None},
           Counted(s, d, y) \/ Counted(s, y, d), NEW t, t = StopDevice(s, d)
    PROVE  /\ t \in MediaStates /\ Counted(t, None, y) /\ Counted(t, y, None)
           /\ SameCamera(s, t) /\ SameTracks(s, t)
<1> DEFINE c == [s.counter EXCEPT ![d] = @ - 1]
           run == IF s.counter[d] = 1 THEN s.running \ {d} ELSE s.running
<1>1. None \notin Devices
  BY MediaAssumption
<1>2. c = [e \in Devices |-> Uses(e, None) + Uses(e, y)] /\ c \in [Devices -> Nat]
  BY <1>1 DEF Counted, Uses, MediaStates
<1>3. run = {e \in Devices : c[e] > 0} /\ run \in SUBSET Devices
  BY <1>1 DEF Counted, Uses, MediaStates
<1>4. t = [s EXCEPT !.counter = c, !.running = run]
  BY DEF StopDevice, MediaStates
<1>5. c = [e \in Devices |-> Uses(e, y) + Uses(e, None)]
  BY <1>2 DEF Uses
<1> HIDE DEF c, run
<1>6. t \in MediaStates /\ t.counter = c /\ t.running = run
  BY <1>2, <1>3, <1>4 DEF MediaStates
<1>7. SameCamera(s, t) /\ SameTracks(s, t)
  BY <1>4 DEF MediaStates, SameCamera, SameRest, SamePage, SameShare, SamePause, SameTracks
<1> QED
  BY <1>2, <1>3, <1>5, <1>6, <1>7 DEF Counted

\* The own picture is the one there is.
LEMMA UpdateVideoLemma ==
    ASSUME NEW s \in MediaStates, NEW ws, Camera(s, ws), NEW t, t = UpdateVideo(s)
    PROVE  /\ Camera(t, ws) /\ t.view = t.device /\ t.device = s.device /\ t.last = s.last
           /\ t.thrown = s.thrown /\ SameRest(s, t)
<1>1. s.own = Only(s.device) /\ s.device \in Devices \cup {None}
  BY DEF Camera, MediaStates
<1>2. Cardinality(s.own) <= 1
  <2>1. CASE s.device = None
    <3>1. s.own = {}
      BY <1>1, <2>1 DEF Only
    <3> QED
      BY <3>1, FS_EmptySet
  <2>2. CASE s.device # None
    <3>1. s.own = {s.device}
      BY <1>1, <2>2 DEF Only
    <3>2. Cardinality({s.device}) = 1
      BY FS_Singleton
    <3> QED
      BY <3>1, <3>2
  <2> QED
    BY <2>1, <2>2
<1>3. (IF s.own = {} THEN None ELSE CHOOSE d \in s.own : TRUE) = s.device
  BY <1>1 DEF Only
<1>4. t = [s EXCEPT !.view = s.device]
  BY <1>2, <1>3 DEF UpdateVideo, Ensure
<1>5. /\ t \in MediaStates /\ t.view = s.device /\ t.device = s.device /\ t.last = s.last
      /\ t.thrown = s.thrown /\ SameRest(s, t)
  BY <1>1, <1>4 DEF MediaStates, SameRest, SamePage, SameShare, SamePause
<1>6. /\ t.adders = s.adders /\ t.failed = s.failed /\ t.sent = s.sent
      /\ t.counter = s.counter /\ t.running = s.running /\ t.own = s.own
  BY <1>4 DEF MediaStates
<1> QED
  BY <1>5, <1>6 DEF Camera, Sending, Counted, Previewed, SameRest, SamePage

\* The camera is given back, whatever else is sent.
LEMMA ResetCaptureLemma ==
    ASSUME NEW s \in MediaStates, NEW ws \in SUBSET Windows, Camera(s, ws),
           NEW t, t = ResetCapture(s)
    PROVE  /\ Camera(t, ws) /\ t.device = None /\ t.last = s.last
           /\ t.thrown = s.thrown /\ SameRest(s, t)
<1>1. CASE s.device = None
  BY <1>1 DEF ResetCapture, SameRest, SamePage, SameShare, SamePause
<1>2. CASE s.device # None
  <2> DEFINE d == s.device
             xs == {d} \cup ws
             y == Previewed(s)
             a == RemoveTrack(s, d)
             b == RemoveOwn(a, d)
             c == StopDevice(b, d)
  <2>1. /\ d \in Devices /\ Only(d) = {d} /\ Only(None) = {} /\ d \notin ws
        /\ y \in Devices \cup {None}
    BY <1>2, MediaAssumption DEF Only, Previewed, MediaStates
  <2>2. /\ Sending(s, xs) /\ s.own = {d} /\ Counted(s, d, y)
        /\ xs \in SUBSET Sources /\ xs \ {d} = ws /\ d \in xs
    BY <2>1 DEF Camera, Sources
  <2>3. t = [c EXCEPT !.device = None] /\ a = RemoveTrack(s, d) /\ c = StopDevice(b, d)
    BY <1>2 DEF ResetCapture
  <2> HIDE DEF a, d, xs, y
  <2>4. /\ a \in MediaStates /\ Sending(a, ws) /\ SameCamera(s, a) /\ SameUse(s, a)
    BY <2>2, <2>3, RemoveTrackLemma
  <2>5. a.own = {d}
    BY <2>2, <2>4 DEF SameCamera
  <2>6. b = [a EXCEPT !.own = {}]
    BY <2>5 DEF RemoveOwn, Ensure
  <2> HIDE DEF b
  <2>7. /\ b \in MediaStates /\ b.own = {} /\ SameTracks(a, b) /\ SameUse(a, b)
        /\ SameRest(a, b) /\ b.last = a.last /\ b.thrown = a.thrown
    BY <2>4, <2>6 DEF MediaStates, SameTracks, SameUse, SameRest, SamePage, SameShare, SamePause
  <2>8. Counted(b, d, y)
    BY <2>2, <2>4, <2>7 DEF Counted, SameUse
  <2> HIDE DEF c
  <2>9. /\ c \in MediaStates /\ Counted(c, None, y) /\ SameCamera(b, c) /\ SameTracks(b, c)
    BY <2>1, <2>3, <2>7, <2>8, StopDeviceLemma
  <2>10. /\ t \in MediaStates /\ t.device = None /\ t.own = c.own /\ SameTracks(c, t)
         /\ SameUse(c, t) /\ SameRest(c, t) /\ t.last = c.last /\ t.thrown = c.thrown
    BY <2>3, <2>9 DEF MediaStates, SameTracks, SameUse, SameRest, SamePage, SameShare, SamePause
  <2>11. SameRest(s, t)
    BY <2>4, <2>7, <2>9, <2>10, SameTwice DEF SameCamera
  <2>12. t.last = s.last /\ t.thrown = s.thrown /\ t.own = {}
    BY <2>4, <2>7, <2>9, <2>10 DEF SameCamera
  <2>13. Sending(t, ws)
    BY <2>4, <2>7, <2>9, <2>10 DEF Sending, SameTracks, SameCamera, SameRest, SamePage
  <2>14. Counted(t, None, Previewed(t))
    BY <2>9, <2>10, <2>11 DEF Counted, SameUse, SameRest, SamePage, Previewed, y
  <2>15. Only(t.device) \cup ws = ws /\ t.own = Only(t.device)
    BY <2>1, <2>10, <2>12
  <2>16. t.playing => t.viewer # None
    BY <2>11 DEF SameRest, SamePage, Camera
  <2> QED
    BY <2>10, <2>11, <2>12, <2>13, <2>14, <2>15, <2>16 DEF Camera
<1> QED
  BY <1>1, <1>2

\* last_device_id alone is set, while there is no camera or to the camera.
LEMMA LastLemma ==
    ASSUME NEW s \in MediaStates, NEW ws, Camera(s, ws), NEW d \in Devices \cup {None},
           s.device = None \/ s.device = d, NEW t, t = [s EXCEPT !.last = d]
    PROVE  /\ Camera(t, ws) /\ t.device = s.device /\ t.last = d /\ t.view = s.view
           /\ t.thrown = s.thrown /\ SameRest(s, t)
<1>1. /\ t \in MediaStates /\ t.device = s.device /\ t.last = d /\ t.view = s.view
      /\ t.thrown = s.thrown /\ SameRest(s, t)
  BY DEF MediaStates, SameRest, SamePage, SameShare, SamePause
<1>2. /\ t.adders = s.adders /\ t.failed = s.failed /\ t.sent = s.sent
      /\ t.counter = s.counter /\ t.running = s.running /\ t.own = s.own
  BY DEF MediaStates
<1> QED
  BY <1>1, <1>2 DEF Camera, Sending, Counted, Previewed, SameRest, SamePage

\* The camera is forgotten.
LEMMA ResetVideoLemma ==
    ASSUME NEW s \in MediaStates, NEW ws \in SUBSET Windows, Camera(s, ws),
           NEW t, t = ResetVideo(s)
    PROVE  /\ Camera(t, ws) /\ t.device = None /\ t.view = None /\ t.last = None
           /\ t.thrown = s.thrown /\ SameRest(s, t)
<1> DEFINE a == ResetCapture(s)
           b == [a EXCEPT !.last = None]
<1>1. /\ Camera(a, ws) /\ a.device = None /\ a.thrown = s.thrown /\ SameRest(s, a)
  BY ResetCaptureLemma
<1>2. t = UpdateVideo(b) /\ b = [a EXCEPT !.last = None]
  BY DEF ResetVideo
<1> HIDE DEF a, b
<1>3. /\ Camera(b, ws) /\ b.device = None /\ b.last = None /\ b.thrown = s.thrown
      /\ SameRest(a, b)
  BY <1>1, <1>2, LastLemma, CameraTyped
<1>4. /\ Camera(t, ws) /\ t.view = t.device /\ t.device = None /\ t.last = None
      /\ t.thrown = s.thrown /\ SameRest(b, t)
  <2>1. b \in MediaStates /\ Camera(b, ws) /\ t = UpdateVideo(b)
    BY <1>2, <1>3, CameraTyped
  <2>2. /\ Camera(t, ws) /\ t.view = t.device /\ t.device = b.device /\ t.last = b.last
        /\ t.thrown = b.thrown /\ SameRest(b, t)
    BY <2>1, UpdateVideoLemma, ZenonT(30)
  <2> QED
    BY <1>3, <2>2
<1>5. SameRest(s, t)
  BY <1>1, <1>3, <1>4, SameTwice
<1> QED
  BY <1>4, <1>5

\* A camera is started and sent.
LEMMA TakeUpLemma ==
    ASSUME NEW s \in MediaStates, NEW ws \in SUBSET Windows, Camera(s, ws), s.device = None,
           NEW d \in Devices, s.last = d,
           NEW t, t = UpdateVideo(AddOwn(AddTrack([StartDevice(s, d) EXCEPT !.device = d], d), d))
    PROVE  /\ Camera(t, ws) /\ t.device = d /\ t.view = d /\ t.last = d
           /\ t.thrown = s.thrown /\ SameRest(s, t)
<1> DEFINE y == Previewed(s)
           a == StartDevice(s, d)
           b == [a EXCEPT !.device = d]
           c == AddTrack(b, d)
           e == AddOwn(c, d)
<1>1. /\ d # None /\ Only(d) = {d} /\ Only(None) = {} /\ d \notin ws /\ d \in Sources
      /\ y \in Devices \cup {None} /\ ws \in SUBSET Sources
  BY MediaAssumption DEF Only, Previewed, MediaStates, Sources
<1>2. Sending(s, ws) /\ s.own = {} /\ Counted(s, None, y)
  BY <1>1 DEF Camera
<1>3. a = StartDevice(s, d) /\ c = AddTrack(b, d) /\ t = UpdateVideo(e)
  OBVIOUS
<1> HIDE DEF a, y
<1>4. a \in MediaStates /\ Counted(a, d, y) /\ SameCamera(s, a) /\ SameTracks(s, a)
  BY <1>1, <1>2, <1>3, StartDeviceLemma
<1>5. /\ b \in MediaStates /\ b.device = d /\ SameUse(a, b) /\ SameTracks(a, b)
      /\ SameRest(a, b) /\ b.last = a.last /\ b.thrown = a.thrown /\ b.own = a.own
  BY <1>4 DEF MediaStates, SameUse, SameTracks, SameRest, SamePage, SameShare, SamePause
<1> HIDE DEF b
<1>6. Sending(b, ws)
  BY <1>2, <1>4, <1>5 DEF Sending, SameTracks, SameCamera, SameRest, SamePage
<1> HIDE DEF c
<1>7. c \in MediaStates /\ Sending(c, ws \cup {d}) /\ SameCamera(b, c) /\ SameUse(b, c)
  BY <1>1, <1>3, <1>5, <1>6, AddTrackLemma
<1>8. e = [c EXCEPT !.own = {d}]
  BY <1>2, <1>4, <1>5, <1>7 DEF AddOwn, Ensure, SameCamera
<1> HIDE DEF e
<1>9. /\ e \in MediaStates /\ e.own = {d} /\ e.device = c.device /\ SameUse(c, e)
      /\ SameTracks(c, e) /\ SameRest(c, e) /\ e.last = c.last /\ e.thrown = c.thrown
  BY <1>7, <1>8 DEF MediaStates, SameUse, SameTracks, SameRest, SamePage, SameShare, SamePause
<1>10. SameRest(s, e)
  BY <1>4, <1>5, <1>7, <1>9, SameTwice DEF SameCamera
<1>11. e.device = d /\ e.last = d /\ e.thrown = s.thrown
  BY <1>4, <1>5, <1>7, <1>9 DEF SameCamera
<1>12. Sending(e, ws \cup {d})
  BY <1>7, <1>9 DEF Sending, SameTracks, SameRest, SamePage
<1>13. ws \cup {d} = Only(e.device) \cup ws /\ e.own = Only(e.device)
  BY <1>1, <1>9, <1>11
<1>14. Counted(e, e.device, Previewed(e))
  BY <1>4, <1>5, <1>7, <1>9, <1>10, <1>11
     DEF Counted, SameUse, SameRest, SamePage, Previewed, y
<1>15. Camera(e, ws)
  BY <1>9, <1>10, <1>11, <1>12, <1>13, <1>14 DEF Camera, SameRest, SamePage
<1>16. /\ Camera(t, ws) /\ t.view = t.device /\ t.device = d /\ t.last = d
       /\ t.thrown = s.thrown /\ SameRest(e, t)
  BY <1>3, <1>9, <1>11, <1>15, UpdateVideoLemma
<1> QED
  BY <1>10, <1>16, SameTwice

\* Another camera is chosen, while paused for later, and may not start.
LEMMA ChangeToLemma ==
    ASSUME NEW s \in MediaStates, NEW ws \in SUBSET Windows, Camera(s, ws), Viewed(s),
           ~s.thrown, NEW d \in Devices, NEW works, NEW t, t = ChangeTo(s, d, works)
    PROVE  Camera(t, ws) /\ Viewed(t) /\ SameRest(s, t)
<1> DEFINE q == IF s.device = None THEN s ELSE ResetVideo(s)
           r == [q EXCEPT !.last = d]
<1>0. d # None
  BY MediaAssumption
<1>1. CASE s.device = d
  <2>1. t = s
    BY <1>1 DEF ChangeTo
  <2> QED
    BY <2>1 DEF SameRest, SamePage, SameShare, SamePause
<1>2. CASE s.device # d
  <2>1. Camera(q, ws) /\ q.device = None /\ q.view = None /\ ~q.thrown /\ SameRest(s, q)
    <3>1. CASE s.device = None
      BY <3>1 DEF SameRest, SamePage, SameShare, SamePause, Viewed
    <3>2. CASE s.device # None
      BY <3>2, ResetVideoLemma
    <3> QED
      BY <3>1, <3>2
  <2>0. r = [q EXCEPT !.last = d]
    OBVIOUS
  <2> HIDE DEF q, r
  <2>2. /\ Camera(r, ws) /\ r.device = None /\ r.view = None /\ r.last = d
        /\ ~r.thrown /\ SameRest(q, r)
    BY <2>0, <2>1, LastLemma, CameraTyped
  <2>3. SameRest(s, r)
    BY <2>1, <2>2, SameTwice
  <2>4. t = CASE s.device = d -> s
              [] s.device # d /\ r.paused -> r
              [] s.device # d /\ ~r.paused /\ ~Starts(r, d, works) ->
                    [UpdateVideo([r EXCEPT !.last = None]) EXCEPT !.thrown = TRUE]
              [] OTHER ->
                    UpdateVideo(AddOwn(AddTrack(
                        [StartDevice(r, d) EXCEPT !.device = d], d), d))
    BY DEF ChangeTo, q, r
  <2>5. CASE r.paused
    <3>1. t = r
      BY <1>2, <2>4, <2>5
    <3> QED
      BY <2>2, <2>3, <3>1 DEF Viewed
  <2>6. CASE ~r.paused /\ ~Starts(r, d, works)
    <3> DEFINE a == [r EXCEPT !.last = None]
               b == UpdateVideo(a)
    <3>1. t = [b EXCEPT !.thrown = TRUE] /\ a = [r EXCEPT !.last = None] /\ b = UpdateVideo(a)
      BY <1>2, <2>4, <2>6
    <3> HIDE DEF a, b
    <3>2. Camera(a, ws) /\ SameRest(r, a) /\ a.device = None
      BY <2>2, <3>1, LastLemma, CameraTyped
    <3>3. Camera(b, ws) /\ b.view = b.device /\ b.device = None /\ SameRest(a, b)
      <4>1. a \in MediaStates /\ Camera(a, ws) /\ b = UpdateVideo(a)
        BY <3>1, <3>2, CameraTyped
      <4>2. Camera(b, ws) /\ b.view = b.device /\ b.device = a.device /\ SameRest(a, b)
        BY <4>1, UpdateVideoLemma, ZenonT(30)
      <4> QED
        BY <3>2, <4>2
    <3>4. t \in MediaStates /\ SameRest(b, t) /\ t.device = None /\ t.view = None
      <4>1. b \in MediaStates /\ t = [b EXCEPT !.thrown = TRUE] /\ b.view = None /\ b.device = None
        BY <3>1, <3>3, CameraTyped
      <4>2. t \in MediaStates /\ t.device = None /\ t.view = None
        BY <4>1 DEF MediaStates
      <4> QED
        BY <4>1, <4>2, SMTT(20) DEF MediaStates, SameRest, SamePage, SameShare, SamePause
    <3>5. SameTracks(b, t) /\ SameUse(b, t) /\ t.own = b.own
      BY <3>1, <3>3 DEF Camera, MediaStates, SameTracks, SameUse
    <3>6. Sending(t, Only(t.device) \cup ws) /\ Counted(t, t.device, Previewed(t))
      BY <3>3, <3>4, <3>5
         DEF Camera, Sending, Counted, Previewed, SameTracks, SameUse, SameRest, SamePage
    <3>7. Camera(t, ws)
      BY <3>3, <3>4, <3>5, <3>6 DEF Camera, SameRest, SamePage
    <3>8. SameRest(s, t)
      BY <2>3, <3>2, <3>3, <3>4, SameTwice
    <3> QED
      BY <3>4, <3>7, <3>8 DEF Viewed
  <2>7. CASE ~r.paused /\ Starts(r, d, works)
    <3>1. t = UpdateVideo(AddOwn(AddTrack([StartDevice(r, d) EXCEPT !.device = d], d), d))
      BY <1>2, <2>4, <2>7
    <3>2. Camera(t, ws) /\ t.device = d /\ t.view = d /\ SameRest(r, t)
      <4>1. r \in MediaStates /\ ws \in SUBSET Windows /\ Camera(r, ws) /\ r.device = None
            /\ d \in Devices /\ r.last = d
        BY <2>2, CameraTyped
      <4> QED
        BY <3>1, <4>1, TakeUpLemma, SMTT(20)
    <3>3. SameRest(s, t)
      BY <2>3, <3>2, SameTwice
    <3> QED
      BY <2>7, <3>2, <3>3 DEF Viewed, SameRest, SamePause
  <2> QED
    BY <2>5, <2>6, <2>7
<1> QED
  BY <1>1, <1>2

\* Nothing that the camera, its tracks and its count are about.
SameMedia(s, t) ==
    /\ SameTracks(s, t) /\ SameUse(s, t)
    /\ t.peers = s.peers /\ t.device = s.device /\ t.last = s.last
    /\ t.own = s.own /\ t.view = s.view
    /\ t.viewer = s.viewer /\ t.playing = s.playing

\* The rest of the program may change under the camera.
LEMMA Elsewhere ==
    ASSUME NEW s, NEW ws, Camera(s, ws), NEW t \in MediaStates, SameMedia(s, t)
    PROVE  Camera(t, ws)
  BY DEF Camera, SameMedia, SameTracks, SameUse, Sending, Counted, Previewed

\* What is shared is active, and sent: Good.  The user sees the camera as it is,
\* and it is as wished unless sharing paused it, which it does only to a camera
\* that is wished for: Wishes.  WishIsKept is about the last part only; that the
\* camera is shown as it is makes the next click ask for the right thing.
Good(s) ==
    Camera(s, Only(s.sharing)) /\ Viewed(s) /\ (s.active <=> s.sharing # None)

Wishes(s) ==
    ~s.silent => /\ s.shown = s.paused
                 /\ s.didPause => s.paused /\ ~s.wish
                 /\ ~s.didPause => s.paused = s.wish

MediaInv ==
    /\ Good(m) /\ Wishes(m) /\ ~m.thrown
    /\ plugged \subseteq Devices /\ open \subseteq Windows

\* The shared window is sent to nobody any more.
LEMMA StopSharingLemma ==
    ASSUME NEW s, Camera(s, Only(s.sharing)), s.sharing # None,
           NEW t, t = StopSharing(s)
    PROVE  /\ t \in MediaStates /\ Camera(t, {}) /\ t.sharing = None /\ ~t.active
           /\ SamePage(s, t) /\ SamePause(s, t)
           /\ t.device = s.device /\ t.view = s.view /\ t.thrown = s.thrown
<1> DEFINE x == s.sharing
           xs == Only(s.device) \cup {x}
           r == [s EXCEPT !.sharing = None, !.active = FALSE]
<1>1. s \in MediaStates /\ x \in Windows /\ Only(x) = {x} /\ x \notin Only(s.device)
  BY CameraTyped, MediaAssumption DEF Only, MediaStates
<1>2. /\ xs \in SUBSET Sources /\ x \in xs /\ xs \ {x} = Only(s.device)
      /\ Only(s.device) \cup {} = Only(s.device)
  BY <1>1 DEF Only, Sources, MediaStates
<1>3. Sending(s, xs)
  BY <1>1 DEF Camera
<1>4. r \in MediaStates /\ SameMedia(s, r) /\ r.sharing = None /\ ~r.active
  BY <1>1 DEF MediaStates, SameMedia, SameTracks, SameUse
<1>5. SamePage(s, r) /\ SamePause(s, r) /\ r.thrown = s.thrown
  BY <1>1 DEF MediaStates, SamePage, SamePause
<1>6. r = UpdateActive([s EXCEPT !.sharing = None])
  BY <1>1 DEF UpdateActive, MediaStates
<1>7. t = RemoveTrack(r, x)
  BY <1>6 DEF StopSharing
<1> HIDE DEF r, x, xs
<1>8. Sending(r, xs)
  BY <1>3, <1>4 DEF Sending, SameMedia, SameTracks
<1>9. t \in MediaStates /\ Sending(t, Only(s.device)) /\ SameCamera(r, t) /\ SameUse(r, t)
  BY <1>2, <1>4, <1>7, <1>8, RemoveTrackLemma
<1>10. /\ t.device = s.device /\ t.view = s.view /\ t.own = s.own /\ t.last = s.last
       /\ t.thrown = s.thrown /\ SameUse(s, t) /\ SamePage(s, t)
  BY <1>4, <1>5, <1>9 DEF SameMedia, SameUse, SameCamera, SameRest, SamePage
<1>11. SamePause(s, t) /\ t.sharing = None /\ ~t.active
  BY <1>4, <1>5, <1>9 DEF SameCamera, SameRest, SamePause, SameShare
<1>12. Sending(t, Only(t.device) \cup {})
  BY <1>2, <1>9, <1>10
<1>13. Counted(t, t.device, Previewed(t))
  BY <1>10 DEF Camera, Counted, Previewed, SameUse, SamePage
<1>14. Camera(t, {})
  BY <1>9, <1>10, <1>12, <1>13 DEF Camera, SamePage
<1> QED
  BY <1>9, <1>10, <1>11, <1>14

\* The camera is paused.
LEMMA PauseOnLemma ==
    ASSUME NEW s, NEW ws \in SUBSET Windows, Camera(s, ws), ~s.paused, NEW works,
           NEW t, t = Pause(s, TRUE, works)
    PROVE  /\ Camera(t, ws) /\ Viewed(t) /\ t.paused /\ t.shown
           /\ t.didPause = s.didPause /\ t.silent = s.silent /\ t.thrown = s.thrown
           /\ SamePage(s, t) /\ SameShare(s, t)
<1> DEFINE r == [s EXCEPT !.paused = TRUE]
           a == ResetCapture(r)
           b == UpdateVideo(a)
<1>1. s \in MediaStates /\ s.didPause \in BOOLEAN
  BY CameraTyped DEF MediaStates
<1>2. /\ r \in MediaStates /\ SameMedia(s, r) /\ SamePage(s, r) /\ SameShare(s, r)
      /\ r.paused /\ r.didPause = s.didPause /\ r.silent = s.silent /\ r.thrown = s.thrown
  BY <1>1 DEF MediaStates, SameMedia, SameTracks, SameUse, SamePage, SameShare
<1>3. t = OnPaused(b, TRUE) /\ a = ResetCapture(r) /\ b = UpdateVideo(a)
  BY DEF Pause
<1> HIDE DEF r, a, b
<1>4. Camera(r, ws)
  BY <1>2, Elsewhere
<1>5. Camera(a, ws) /\ a.device = None /\ a.thrown = r.thrown /\ SameRest(r, a)
  BY <1>2, <1>3, <1>4, ResetCaptureLemma
<1>6. /\ Camera(b, ws) /\ b.view = b.device /\ b.device = None /\ b.thrown = a.thrown
      /\ SameRest(a, b)
  BY <1>3, <1>5, UpdateVideoLemma, CameraTyped
<1>7. b \in MediaStates /\ b.didPause \in BOOLEAN
  BY <1>6, CameraTyped DEF MediaStates
<1>8. t = [b EXCEPT !.shown = TRUE, !.didPause = b.didPause]
  BY <1>3, <1>7 DEF OnPaused
<1>9. /\ t \in MediaStates /\ SameMedia(b, t) /\ SamePage(b, t) /\ SameShare(b, t)
      /\ t.shown /\ t.paused = b.paused /\ t.didPause = b.didPause /\ t.silent = b.silent
      /\ t.thrown = b.thrown
  BY <1>7, <1>8 DEF MediaStates, SameMedia, SameTracks, SameUse, SamePage, SameShare
<1>10. Camera(t, ws)
  BY <1>6, <1>9, Elsewhere
<1>11. /\ t.paused /\ t.didPause = s.didPause /\ t.silent = s.silent /\ t.thrown = s.thrown
       /\ SamePage(s, t) /\ SameShare(s, t)
  BY <1>2, <1>5, <1>6, <1>9, ZenonT(30) DEF SameRest, SamePage, SameShare, SamePause
<1>12. Viewed(t)
  BY <1>6, <1>9 DEF Viewed, SameMedia
<1> QED
  BY <1>9, <1>10, <1>11, <1>12

\* The camera is unpaused, announced or not.
LEMMA PauseOffLemma ==
    ASSUME NEW s, Good(s), s.paused, ~s.thrown, NEW works,
           NEW t, t = Pause(s, FALSE, works)
    PROVE  /\ Good(t) /\ ~t.paused /\ SamePage(s, t)
           /\ t.silent \/ (~t.shown /\ ~t.didPause /\ t.silent = s.silent)
           /\ s.sharing = None => t.sharing = None
<1> DEFINE ws == Only(s.sharing)
           r == [s EXCEPT !.paused = FALSE]
<1>1. /\ s \in MediaStates /\ s.device = None /\ s.last \in Devices \cup {None}
      /\ ws \in SUBSET Windows
  BY CameraTyped DEF Good, Viewed, Only, MediaStates
<1>2. /\ r \in MediaStates /\ SameMedia(s, r) /\ SamePage(s, r) /\ SameShare(s, r)
      /\ ~r.paused /\ ~r.thrown /\ r.silent = s.silent
  BY <1>1 DEF MediaStates, SameMedia, SameTracks, SameUse, SamePage, SameShare
<1>3. t = IF r.last = None THEN [r EXCEPT !.silent = TRUE]
          ELSE LET c == ChangeTo(r, r.last, works)
               IN  IF c.thrown THEN [c EXCEPT !.silent = TRUE] ELSE OnPaused(c, FALSE)
  BY DEF Pause
<1> HIDE DEF r, ws
<1>4. Camera(r, ws) /\ Viewed(r)
  BY <1>2, Elsewhere DEF Good, Viewed, SameMedia, ws
<1>5. CASE r.last = None
  <2>1. t = [r EXCEPT !.silent = TRUE]
    BY <1>3, <1>5
  <2>2. /\ t \in MediaStates /\ SameMedia(r, t) /\ SamePage(r, t) /\ SameShare(r, t)
        /\ ~t.paused /\ t.silent
    BY <1>2, <2>1, ZenonT(30) DEF MediaStates, SameMedia, SameTracks, SameUse, SamePage, SameShare
  <2>3. Camera(t, ws)
    BY <1>4, <2>2, Elsewhere
  <2> QED
    BY <1>2, <1>4, <2>2, <2>3 DEF Good, Viewed, SameMedia, SamePage, SameShare, ws
<1>6. CASE r.last # None
  <2> DEFINE c == ChangeTo(r, r.last, works)
  <2>1. r.last \in Devices
    BY <1>2, <1>6 DEF MediaStates
  <2>2. c = ChangeTo(r, r.last, works)
    OBVIOUS
  <2>3. t = IF c.thrown THEN [c EXCEPT !.silent = TRUE] ELSE OnPaused(c, FALSE)
    BY <1>3, <1>6
  <2> HIDE DEF c
  <2>4. Camera(c, ws) /\ Viewed(c) /\ SameRest(r, c) /\ c \in MediaStates
    BY <1>1, <1>2, <1>4, <2>1, <2>2, ChangeToLemma, CameraTyped
  <2>5. CASE c.thrown
    <3>1. t = [c EXCEPT !.silent = TRUE]
      BY <2>3, <2>5
    <3>2. /\ t \in MediaStates /\ SameMedia(c, t) /\ SamePage(c, t) /\ SameShare(c, t)
          /\ t.paused = c.paused /\ t.silent
      BY <2>4, <3>1 DEF MediaStates, SameMedia, SameTracks, SameUse, SamePage, SameShare
    <3>3. Camera(t, ws)
      BY <2>4, <3>2, Elsewhere
    <3>4. /\ ~t.paused /\ SamePage(s, t) /\ SameShare(s, t) /\ Viewed(t)
      BY <1>2, <2>4, <3>2 DEF SameRest, SamePage, SameShare, SamePause, Viewed, SameMedia
    <3> QED
      BY <3>2, <3>3, <3>4 DEF Good, SameShare, ws
  <2>6. CASE ~c.thrown
    <3> DEFINE e == [c EXCEPT !.shown = FALSE, !.didPause = FALSE]
    <3>1. /\ e \in MediaStates /\ SameMedia(c, e) /\ SamePage(c, e) /\ SameShare(c, e)
          /\ e.paused = c.paused /\ e.silent = c.silent /\ ~e.shown /\ ~e.didPause
      BY <2>4 DEF MediaStates, SameMedia, SameTracks, SameUse, SamePage, SameShare
    <3>2. t = IF e.sharing # None THEN StopSharing(e) ELSE e
      BY <2>3, <2>4, <2>6 DEF OnPaused, MediaStates
    <3> HIDE DEF e
    <3>3. Camera(e, ws)
      BY <2>4, <3>1, Elsewhere
    <3>4. /\ ~e.paused /\ e.silent = s.silent /\ SamePage(s, e) /\ SameShare(s, e) /\ Viewed(e)
      BY <1>2, <2>4, <3>1 DEF SameRest, SamePage, SameShare, SamePause, Viewed, SameMedia
    <3>5. Camera(e, Only(e.sharing))
      BY <3>3, <3>4 DEF SameShare, ws
    <3>6. CASE e.sharing = None
      <4>1. t = e
        BY <3>2, <3>6
      <4> QED
        BY <3>1, <3>4, <3>5, <4>1 DEF Good, SameShare
    <3>7. CASE e.sharing # None
      <4>1. t = StopSharing(e)
        BY <3>2, <3>7
      <4>2. /\ Camera(t, {}) /\ t.sharing = None /\ ~t.active
            /\ SamePage(e, t) /\ SamePause(e, t) /\ t.device = e.device /\ t.view = e.view
        BY <3>5, <3>7, <4>1, StopSharingLemma
      <4>3. Only(t.sharing) = {}
        BY <4>2 DEF Only
      <4>4. Good(t)
        BY <3>4, <4>2, <4>3 DEF Good, Viewed, SamePause
      <4> QED
        BY <3>1, <3>4, <4>2, <4>4 DEF SamePage, SamePause
    <3> QED
      BY <3>6, <3>7
  <2> QED
    BY <2>5, <2>6
<1> QED
  BY <1>5, <1>6

\* Whoever paused the camera for sharing gives it back.
LEMMA UnpauseVideoLemma ==
    ASSUME NEW s, Good(s), Wishes(s), s.sharing = None, ~s.thrown, NEW works,
           NEW t, t = UnpauseVideo(s, works)
    PROVE  Good(t) /\ Wishes(t) /\ t.sharing = None /\ SamePage(s, t)
<1>1. s \in MediaStates
  BY CameraTyped DEF Good
<1>2. CASE ~s.didPause
  <2>1. t = s
    BY <1>2 DEF UnpauseVideo
  <2> QED
    BY <2>1 DEF SamePage
<1>3. CASE s.didPause
  <2> DEFINE u == [s EXCEPT !.didPause = FALSE]
  <2>1. /\ u \in MediaStates /\ SameMedia(s, u) /\ SamePage(s, u) /\ SameShare(s, u)
        /\ u.paused = s.paused /\ u.silent = s.silent /\ ~u.thrown
    BY <1>1 DEF MediaStates, SameMedia, SameTracks, SameUse, SamePage, SameShare
  <2>2. t = Pause(u, FALSE, works)
    BY <1>3 DEF UnpauseVideo
  <2> HIDE DEF u
  <2>3. Camera(u, Only(s.sharing))
    BY <2>1, Elsewhere DEF Good
  <2>4. Good(u)
    BY <2>1, <2>3 DEF Good, Viewed, SameMedia, SameShare
  <2>5. CASE ~u.paused
    <3>1. t = u
      BY <2>1, <2>2, <2>5 DEF Pause, MediaStates
    <3>2. u.silent
      BY <1>3, <2>1, <2>5 DEF Wishes
    <3> QED
      BY <2>1, <2>4, <3>1, <3>2 DEF Wishes, SameShare
  <2>6. CASE u.paused
    <3>1. /\ Good(t) /\ ~t.paused /\ SamePage(u, t)
          /\ t.silent \/ (~t.shown /\ ~t.didPause /\ t.silent = u.silent)
          /\ u.sharing = None => t.sharing = None
      BY <2>1, <2>2, <2>4, <2>6, PauseOffLemma
    <3>2. t.sharing = None /\ SamePage(s, t)
      BY <2>1, <3>1 DEF SameShare, SamePage
    <3>3. t \in MediaStates
      BY <3>1, CameraTyped DEF Good
    <3>4. ~t.silent => ~t.wish
      BY <1>1, <1>3, <2>1, <3>1, <3>2 DEF Wishes, SamePage, MediaStates
    <3>5. Wishes(t)
      BY <3>1, <3>3, <3>4 DEF Wishes, MediaStates
    <3> QED
      BY <3>1, <3>2, <3>5
  <2> QED
    BY <2>5, <2>6
<1> QED
  BY <1>2, <1>3

\* Sharing ends.
LEMMA StopSharingGood ==
    ASSUME NEW s, Good(s), Wishes(s), s.sharing # None, NEW t, t = StopSharing(s)
    PROVE  Good(t) /\ Wishes(t) /\ t.sharing = None /\ SamePage(s, t) /\ t.thrown = s.thrown
<1>1. /\ Camera(t, {}) /\ t.sharing = None /\ ~t.active /\ SamePage(s, t) /\ SamePause(s, t)
      /\ t.device = s.device /\ t.view = s.view /\ t.thrown = s.thrown
  BY StopSharingLemma DEF Good
<1>2. Only(t.sharing) = {}
  BY <1>1 DEF Only
<1>3. Good(t)
  BY <1>1, <1>2 DEF Good, Viewed, SamePause
<1>4. Wishes(t)
  BY <1>1 DEF Wishes, SamePause, SamePage
<1> QED
  BY <1>1, <1>3, <1>4

\* Sharing ends, and gives the camera back.
LEMMA ResetSharingLemma ==
    ASSUME NEW s, Good(s), Wishes(s), s.sharing # None, ~s.thrown, NEW works,
           NEW t, t = ResetSharing(s, works)
    PROVE  Good(t) /\ Wishes(t) /\ t.sharing = None /\ SamePage(s, t)
<1> DEFINE r == StopSharing(s)
<1>1. r = StopSharing(s) /\ t = UnpauseVideo(r, works)
  BY DEF ResetSharing
<1> HIDE DEF r
<1>2. Good(r) /\ Wishes(r) /\ r.sharing = None /\ SamePage(s, r) /\ ~r.thrown
  BY <1>1, StopSharingGood
<1>3. Good(t) /\ Wishes(t) /\ t.sharing = None /\ SamePage(r, t)
  BY <1>1, <1>2, UnpauseVideoLemma
<1> QED
  BY <1>2, <1>3 DEF SamePage

\* A camera that is on is paused for the window w, which is about to be shared.
LEMMA PauseVideoLemma ==
    ASSUME NEW s, Camera(s, {}), Viewed(s), Wishes(s), NEW t, t = PauseVideo(s)
    PROVE  Camera(t, {}) /\ Viewed(t) /\ Wishes(t) /\ SameShare(s, t)
<1>1. s \in MediaStates
  BY CameraTyped
<1>2. CASE s.didPause \/ s.last = None \/ s.paused
  <2>1. t = s
    BY <1>2 DEF PauseVideo
  <2> QED
    BY <2>1 DEF SameShare
<1>3. CASE ~(s.didPause \/ s.last = None \/ s.paused)
  <2> DEFINE r == Pause(s, TRUE, TRUE)
  <2>1. r = Pause(s, TRUE, TRUE) /\ t = [r EXCEPT !.didPause = TRUE]
    BY <1>3 DEF PauseVideo
  <2> HIDE DEF r
  <2>2. /\ Camera(r, {}) /\ Viewed(r) /\ r.paused /\ r.shown /\ r.silent = s.silent
        /\ SamePage(s, r) /\ SameShare(s, r) /\ r \in MediaStates
    <3>1. {} \in SUBSET Windows /\ ~s.paused
      BY <1>3
    <3>2. /\ Camera(r, {}) /\ Viewed(r) /\ r.paused /\ r.shown /\ r.silent = s.silent
          /\ SamePage(s, r) /\ SameShare(s, r)
      BY <2>1, <3>1, PauseOnLemma, ZenonT(30)
    <3> QED
      BY <3>2, CameraTyped
  <2>3. /\ t \in MediaStates /\ SameMedia(r, t) /\ t.paused = r.paused /\ t.shown = r.shown
        /\ t.silent = r.silent /\ t.didPause /\ t.wish = r.wish /\ SameShare(r, t)
    <3>1. r \in MediaStates /\ t = [r EXCEPT !.didPause = TRUE]
      BY <2>1, <2>2
    <3>2. t \in MediaStates /\ t.didPause
      BY <3>1 DEF MediaStates
    <3>3. SameMedia(r, t)
      BY <3>1 DEF MediaStates, SameMedia, SameTracks, SameUse
    <3>4. t.paused = r.paused /\ t.shown = r.shown /\ t.silent = r.silent /\ t.wish = r.wish
          /\ SameShare(r, t)
      BY <3>1 DEF MediaStates, SameShare
    <3> QED
      BY <3>2, <3>3, <3>4
  <2>4. Camera(t, {})
    BY <2>2, <2>3, Elsewhere
  <2>5. t.wish = s.wish /\ SameShare(s, t) /\ t.silent = s.silent
    BY <2>2, <2>3 DEF SamePage, SameShare
  <2>6. Wishes(t)
    BY <1>3, <2>2, <2>3, <2>5 DEF Wishes, MediaStates
  <2>7. Viewed(t)
    BY <2>2, <2>3 DEF Viewed, SameMedia
  <2> QED
    BY <2>4, <2>5, <2>6, <2>7
<1> QED
  BY <1>2, <1>3

\* A window is shared, in place of another one or not.
LEMMA SetSharingLemma ==
    ASSUME NEW s, Good(s), Wishes(s), ~s.thrown, NEW x \in Windows, NEW works,
           NEW t, t = SetSharing(s, x, works)
    PROVE  Good(t) /\ Wishes(t)
<1> DEFINE r == IF s.sharing = None THEN s ELSE ResetSharing(s, works)
           q == [r EXCEPT !.sharing = x]
           p == PauseVideo(q)
           a == AddTrack(p, x)
<1>1. /\ t = IF r.thrown THEN r
              ELSE IF x \notin open THEN [r EXCEPT !.thrown = TRUE]
              ELSE UpdateActive(a)
      /\ p = PauseVideo(q) /\ a = AddTrack(p, x)
  BY DEF SetSharing
<1>2. Good(r) /\ Wishes(r) /\ r.sharing = None
  <2>1. CASE s.sharing = None
    BY <2>1
  <2>2. CASE s.sharing # None
    BY <2>2, ResetSharingLemma
  <2> QED
    BY <2>1, <2>2
<1> HIDE DEF r, p, a
<1>3. r \in MediaStates /\ x # None /\ Only(x) = {x} /\ Only(None) = {}
  BY <1>2, CameraTyped, MediaAssumption DEF Good, Only
<1>4. CASE r.thrown
  BY <1>1, <1>2, <1>4
<1>5. CASE ~r.thrown /\ x \notin open
  <2>1. t = [r EXCEPT !.thrown = TRUE]
    BY <1>1, <1>5
  <2>2. /\ t \in MediaStates /\ SameMedia(r, t) /\ SameShare(r, t) /\ SamePause(r, t)
        /\ t.wish = r.wish
    BY <1>3, <2>1 DEF MediaStates, SameMedia, SameTracks, SameUse, SameShare, SamePause
  <2>3. Camera(t, Only(r.sharing))
    BY <1>2, <2>2, Elsewhere DEF Good
  <2> QED
    BY <1>2, <2>2, <2>3 DEF Good, Viewed, Wishes, SameMedia, SameShare, SamePause
<1>6. CASE ~r.thrown /\ x \in open
  <2>1. t = [a EXCEPT !.active = (a.sharing # None)]
    BY <1>1, <1>6 DEF UpdateActive
  <2>2. /\ q \in MediaStates /\ SameMedia(r, q) /\ SamePause(r, q) /\ q.wish = r.wish
        /\ q.sharing = x
    BY <1>3 DEF MediaStates, SameMedia, SameTracks, SameUse, SamePause
  <2> HIDE DEF q
  <2>3. Camera(r, {})
    BY <1>2, <1>3 DEF Good
  <2>4. Camera(q, {}) /\ Viewed(q) /\ Wishes(q)
    BY <1>2, <2>2, <2>3, Elsewhere DEF Good, Viewed, Wishes, SameMedia, SamePause
  <2>5. Camera(p, {}) /\ Viewed(p) /\ Wishes(p) /\ p.sharing = x /\ p \in MediaStates
    BY <1>1, <2>2, <2>4, PauseVideoLemma, CameraTyped DEF SameShare
  <2> DEFINE xs == Only(p.device) \cup {}
  <2>6. /\ xs \in SUBSET Sources /\ x \in Sources /\ x \notin xs
        /\ xs \cup {x} = Only(p.device) \cup {x}
    BY <2>5, MediaAssumption DEF Only, Sources, MediaStates
  <2>7. Sending(p, xs)
    BY <2>5 DEF Camera
  <2> HIDE DEF xs
  <2>8. a \in MediaStates /\ Sending(a, xs \cup {x}) /\ SameCamera(p, a) /\ SameUse(p, a)
    BY <1>1, <2>5, <2>6, <2>7, AddTrackLemma
  <2>9. Camera(a, {x})
    <3>1. a.device = p.device /\ a.own = p.own /\ a.last = p.last /\ a.viewer = p.viewer
          /\ a.playing = p.playing
      BY <2>8 DEF SameCamera, SameRest, SamePage
    <3>2. Sending(a, Only(a.device) \cup {x})
      BY <2>6, <2>8, <3>1
    <3>3. Counted(a, a.device, Previewed(a))
      BY <2>5, <2>8, <3>1 DEF Camera, Counted, Previewed, SameUse
    <3> QED
      BY <2>5, <2>8, <3>1, <3>2, <3>3 DEF Camera
  <2>10. Viewed(a) /\ Wishes(a) /\ a.sharing = x
    BY <2>5, <2>8 DEF SameCamera, SameRest, SamePage, SameShare, SamePause, Viewed, Wishes
  <2>11. /\ t \in MediaStates /\ SameMedia(a, t) /\ SamePause(a, t) /\ t.wish = a.wish
         /\ t.sharing = x /\ t.active
    BY <1>3, <2>1, <2>8, <2>10 DEF MediaStates, SameMedia, SameTracks, SameUse, SamePause
  <2>12. Camera(t, {x})
    BY <2>9, <2>11, Elsewhere
  <2> QED
    BY <1>3, <2>10, <2>11, <2>12 DEF Good, Viewed, Wishes, SameMedia, SamePause
<1> QED
  BY <1>4, <1>5, <1>6

\* An exception that nobody caught ends the process, which is all that is left
\* of it.
LEMMA DoesLemma ==
    ASSUME MediaInv, NEW s, Good(s), Wishes(s), Does(s) PROVE MediaInv'
<1>1. s \in MediaStates /\ plugged \subseteq Devices /\ open \subseteq Windows
  BY CameraTyped DEF Good, MediaInv
<1>2. m' = [s EXCEPT !.thrown = FALSE, !.ended = s.thrown] /\ UNCHANGED <<plugged, open>>
  BY DEF Does
<1>3. /\ m' \in MediaStates /\ SameMedia(s, m') /\ SameShare(s, m') /\ SamePause(s, m')
      /\ m'.wish = s.wish /\ ~m'.thrown
  BY <1>1, <1>2 DEF MediaStates, SameMedia, SameTracks, SameUse, SameShare, SamePause
<1>4. Camera(m', Only(s.sharing))
  BY <1>3, Elsewhere DEF Good
<1>5. Good(m') /\ Wishes(m')
  BY <1>3, <1>4 DEF Good, Viewed, Wishes, SameMedia, SameShare, SamePause
<1>6. Good(m)' /\ Wishes(m)'
  BY <1>5
<1> QED
  BY <1>1, <1>2, <1>3, <1>6 DEF MediaInv

\* What MediaInv says of the state before a step.
LEMMA Before ==
    ASSUME MediaInv
    PROVE  /\ m \in MediaStates /\ Good(m) /\ Wishes(m) /\ ~m.thrown
           /\ Camera(m, Only(m.sharing)) /\ Viewed(m) /\ Only(m.sharing) \in SUBSET Windows
  BY CameraTyped DEF MediaInv, Good, Only, MediaStates

\* The user pauses the camera, or asks for it.
LEMMA SetVideoDisabledStep == ASSUME MediaInv, SetVideoDisabled PROVE MediaInv'
<1> DEFINE b == ~m.shown
           s == [m EXCEPT !.shown = b, !.wish = b]
<1>1. PICK works : Does(Pause(s, b, works))
  BY DEF SetVideoDisabled
<1> DEFINE t == Pause(s, b, works)
<1>2. t = Pause(s, b, works) /\ b \in BOOLEAN /\ Does(t)
  BY <1>1
<1>3. /\ s \in MediaStates /\ SameMedia(m, s) /\ SameShare(m, s) /\ s.shown = b /\ s.wish = b
      /\ s.paused = m.paused /\ s.didPause = m.didPause /\ s.silent = m.silent /\ ~s.thrown
  <2>1. s = [m EXCEPT !.shown = b, !.wish = b] /\ m \in MediaStates /\ ~m.thrown
    BY Before
  <2> HIDE DEF b, s
  <2> QED
    BY <1>2, <2>1 DEF MediaStates, SameMedia, SameTracks, SameUse, SameShare
<1>4. ~m.silent => b = ~m.paused
  BY Before DEF Wishes, MediaStates
<1> HIDE DEF t, s, b
<1>5. Good(s)
  BY Before, <1>3, Elsewhere DEF Good, Viewed, SameMedia, SameShare
<1>6. CASE s.paused = b
  <2>1. t = s
    BY <1>2, <1>3, <1>6 DEF Pause, MediaStates
  <2>2. s.silent
    BY Before, <1>3, <1>4, <1>6 DEF MediaStates
  <2> QED
    BY <1>2, <1>5, <2>1, <2>2, DoesLemma DEF Wishes
<1>7. CASE s.paused # b /\ b
  <2> DEFINE ws == Only(m.sharing)
  <2>1. ~s.paused /\ ws \in SUBSET Windows /\ Camera(s, ws) /\ t = Pause(s, TRUE, works)
    BY Before, <1>2, <1>3, <1>5, <1>7 DEF Good, SameShare, MediaStates
  <2> HIDE DEF ws
  <2>2. /\ Camera(t, ws) /\ Viewed(t) /\ t.paused /\ t.shown
        /\ t.didPause = s.didPause /\ t.silent = s.silent
        /\ SamePage(s, t) /\ SameShare(s, t)
    <3>1. ws \in SUBSET Windows /\ Camera(s, ws) /\ ~s.paused /\ t = Pause(s, TRUE, works)
      BY <2>1
    <3> QED
      BY <3>1, PauseOnLemma, ZenonT(30)
  <2>3. Good(t)
    BY Before, <1>3, <2>2 DEF Good, SameShare, ws
  <2>4. t \in MediaStates /\ t.wish = b
    BY <1>3, <2>2, CameraTyped DEF SamePage
  <2>5. ~m.silent => ~m.didPause
    BY Before, <1>3, <2>1 DEF Wishes
  <2>6. Wishes(t)
    BY <1>3, <1>7, <2>2, <2>4, <2>5 DEF Wishes, MediaStates
  <2> QED
    BY <1>2, <2>3, <2>6, DoesLemma
<1>8. CASE s.paused # b /\ ~b
  <2>1. s.paused /\ t = Pause(s, FALSE, works)
    BY <1>2, <1>3, <1>8 DEF MediaStates
  <2>2. /\ Good(t) /\ ~t.paused /\ SamePage(s, t)
        /\ t.silent \/ (~t.shown /\ ~t.didPause /\ t.silent = s.silent)
    BY <1>3, <1>5, <2>1, PauseOffLemma
  <2>3. t \in MediaStates /\ ~t.wish
    BY <1>3, <1>8, <2>2, CameraTyped DEF Good, SamePage
  <2>4. Wishes(t)
    BY <2>2, <2>3 DEF Wishes, MediaStates
  <2> QED
    BY <1>2, <2>2, <2>4, DoesLemma
<1> QED
  BY <1>2, <1>6, <1>7, <1>8

\* A window is shared or not any more, by the user, the room or its end.
LEMMA SharingStep ==
    ASSUME MediaInv, ShareDesktop \/ StopShareDesktop \/ LeaveRoom \/ CaptureFails
    PROVE  MediaInv'
<1>1. CASE ShareDesktop
  <2>1. PICK x \in Windows, works \in BOOLEAN : Does(SetSharing(m, x, works))
    BY <1>1 DEF ShareDesktop
  <2> DEFINE t == SetSharing(m, x, works)
  <2>2. t = SetSharing(m, x, works) /\ Does(t)
    BY <2>1
  <2> HIDE DEF t
  <2>3. Good(t) /\ Wishes(t)
    BY <2>2, Before, SetSharingLemma
  <2> QED
    BY <2>2, <2>3, DoesLemma
<1>2. CASE StopShareDesktop
  <2>1. PICK works \in BOOLEAN : m.sharing # None /\ Does(ResetSharing(m, works))
    BY <1>2 DEF StopShareDesktop
  <2> DEFINE t == ResetSharing(m, works)
  <2>2. t = ResetSharing(m, works) /\ Does(t)
    BY <2>1
  <2> HIDE DEF t
  <2>3. Good(t) /\ Wishes(t)
    BY <2>1, <2>2, Before, ResetSharingLemma
  <2> QED
    BY <2>2, <2>3, DoesLemma
<1>3. CASE LeaveRoom \/ CaptureFails
  <2> DEFINE t == StopSharing(m)
  <2>1. m.sharing # None /\ Does(t) /\ t = StopSharing(m)
    BY <1>3, MediaAssumption DEF LeaveRoom, CaptureFails
  <2> HIDE DEF t
  <2>2. Good(t) /\ Wishes(t)
    BY <2>1, Before, StopSharingGood
  <2> QED
    BY <2>1, <2>2, DoesLemma
<1> QED
  BY <1>1, <1>2, <1>3

\* The previewed device changes or stops, with the camera left as it is.
PreviewChanges(s, t) ==
    /\ t \in MediaStates /\ SameTracks(s, t) /\ Counted(t, t.device, Previewed(t))
    /\ t.playing => t.viewer # None
    /\ t.peers = s.peers /\ t.device = s.device /\ t.last = s.last
    /\ t.own = s.own /\ t.view = s.view /\ t.wish = s.wish
    /\ SameShare(s, t) /\ SamePause(s, t)

\* The previews are nothing to the camera.
LEMMA PreviewLemma ==
    ASSUME NEW s, Good(s), Wishes(s), NEW t, PreviewChanges(s, t)
    PROVE  Good(t) /\ Wishes(t)
  BY DEF Good, Wishes, Viewed, Camera, Sending, PreviewChanges, SameTracks, SameShare, SamePause

\* The preview is stopped, and started.
LEMMA StopPreviewLemma ==
    ASSUME NEW s, Good(s), s.playing,
           NEW t, t = [StopDevice(s, s.viewer) EXCEPT !.playing = FALSE]
    PROVE  PreviewChanges(s, t)
<1> DEFINE d == s.viewer
           a == StopDevice(s, d)
<1>1. s \in MediaStates /\ s.device \in Devices \cup {None} /\ Camera(s, Only(s.sharing))
  BY CameraTyped DEF Good, MediaStates
<1>2. d \in Devices /\ Counted(s, s.device, d) /\ a = StopDevice(s, d)
  BY <1>1 DEF Camera, Previewed, MediaStates
<1> HIDE DEF a, d
<1>3. a \in MediaStates /\ Counted(a, s.device, None) /\ SameCamera(s, a) /\ SameTracks(s, a)
  BY <1>1, <1>2, StopDeviceLemma
<1>4. t = [a EXCEPT !.playing = FALSE]
  BY DEF a, d
<1>5. /\ t \in MediaStates /\ SameTracks(a, t) /\ SameUse(a, t) /\ ~t.playing
      /\ t.peers = a.peers /\ t.device = a.device /\ t.last = a.last
      /\ t.own = a.own /\ t.view = a.view /\ t.wish = a.wish
      /\ SameShare(a, t) /\ SamePause(a, t)
  BY <1>3, <1>4, ZenonT(30) DEF MediaStates, SameTracks, SameUse, SameShare, SamePause
<1>6. Counted(t, t.device, Previewed(t))
  BY <1>3, <1>5 DEF Counted, SameUse, SameCamera, Previewed
<1> QED
  BY <1>3, <1>5, <1>6
     DEF PreviewChanges, SameTracks, SameCamera, SameRest, SamePage, SameShare, SamePause

\* A device is previewed where none was.
LEMMA StartPreviewLemma ==
    ASSUME NEW s, Good(s), ~s.playing, NEW d \in Devices, s.viewer = d,
           NEW t, t = [StartDevice(s, d) EXCEPT !.playing = TRUE]
    PROVE  PreviewChanges(s, t)
<1> DEFINE a == StartDevice(s, d)
<1>1. /\ s \in MediaStates /\ s.device \in Devices \cup {None} /\ Camera(s, Only(s.sharing))
      /\ d # None
  BY CameraTyped, MediaAssumption DEF Good, MediaStates
<1>2. Counted(s, s.device, None) /\ a = StartDevice(s, d) /\ t = [a EXCEPT !.playing = TRUE]
  BY <1>1 DEF Camera, Previewed
<1> HIDE DEF a
<1>3. a \in MediaStates /\ Counted(a, s.device, d) /\ SameCamera(s, a) /\ SameTracks(s, a)
  BY <1>1, <1>2, StartDeviceLemma
<1>4. /\ t \in MediaStates /\ SameTracks(a, t) /\ SameUse(a, t) /\ t.playing
      /\ t.peers = a.peers /\ t.device = a.device /\ t.last = a.last
      /\ t.own = a.own /\ t.view = a.view /\ t.wish = a.wish /\ t.viewer = a.viewer
      /\ SameShare(a, t) /\ SamePause(a, t)
  BY <1>2, <1>3, ZenonT(30) DEF MediaStates, SameTracks, SameUse, SameShare, SamePause
<1>5. t.viewer = d
  BY <1>3, <1>4 DEF SameCamera, SameRest, SamePage
<1>6. Counted(t, t.device, Previewed(t))
  BY <1>3, <1>4, <1>5 DEF Counted, SameUse, SameCamera, Previewed
<1> QED
  BY <1>1, <1>3, <1>4, <1>5, <1>6
     DEF PreviewChanges, SameTracks, SameCamera, SameRest, SamePage, SameShare, SamePause

\* The preview is closed, whether it was playing or not.
LEMMA CloseViewerLemma ==
    ASSUME NEW s, Good(s), Wishes(s), NEW t, t = CloseViewer(s)
    PROVE  Good(t) /\ Wishes(t) /\ ~t.playing
<1> DEFINE r == IF s.playing THEN [StopDevice(s, s.viewer) EXCEPT !.playing = FALSE] ELSE s
<1>1. s \in MediaStates
  BY CameraTyped DEF Good
<1>2. Good(r) /\ Wishes(r) /\ ~r.playing
  <2>1. CASE s.playing
    <3>1. r = [StopDevice(s, s.viewer) EXCEPT !.playing = FALSE]
      BY <2>1
    <3>2. ~r.playing
      BY <1>1, <3>1 DEF StopDevice, MediaStates
    <3> HIDE DEF r
    <3>3. PreviewChanges(s, r)
      BY <2>1, <3>1, StopPreviewLemma
    <3> QED
      BY <3>2, <3>3, PreviewLemma
  <2>2. CASE ~s.playing
    BY <2>2
  <2> QED
    BY <2>1, <2>2
<1>3. t = [r EXCEPT !.viewer = None, !.playing = FALSE]
  BY <1>1 DEF CloseViewer, StopDevice, MediaStates
<1> HIDE DEF r
<1>4. r \in MediaStates /\ Counted(r, r.device, None)
  BY <1>2, CameraTyped DEF Good, Camera, Previewed
<1>5. PreviewChanges(r, t) /\ ~t.playing
  BY <1>3, <1>4
     DEF PreviewChanges, MediaStates, SameTracks, Counted, Previewed, SameShare, SamePause
<1> QED
  BY <1>2, <1>5, PreviewLemma

\* A camera is chosen from the list and previewed, if both start.
LEMMA OnVideoDeviceActivatedStep ==
    ASSUME MediaInv, OnVideoDeviceActivated PROVE MediaInv'
<1>1. PICK d \in m.listed, works \in BOOLEAN :
        LET c == ChangeTo(m, d, works)
            v == [CloseViewer(c) EXCEPT !.viewer = d]
        IN  Does(IF c.thrown \/ (m.playing /\ ~Starts(v, d, works))
                 THEN [CloseViewer(c) EXCEPT !.thrown = FALSE]
                 ELSE IF m.playing THEN [StartDevice(v, d) EXCEPT !.playing = TRUE]
                 ELSE v)
  BY DEF OnVideoDeviceActivated
<1> DEFINE c == ChangeTo(m, d, works)
           k == CloseViewer(c)
           v == [k EXCEPT !.viewer = d]
           f == [k EXCEPT !.thrown = FALSE]
           p == [StartDevice(v, d) EXCEPT !.playing = TRUE]
<1>2. Does(IF c.thrown \/ (m.playing /\ ~Starts(v, d, works)) THEN f
           ELSE IF m.playing THEN p ELSE v)
  BY <1>1
<1>3. d \in Devices /\ c = ChangeTo(m, d, works) /\ k = CloseViewer(c) /\ d # None
  BY Before, MediaAssumption DEF MediaStates
<1>4. p = [StartDevice(v, d) EXCEPT !.playing = TRUE]
  OBVIOUS
<1> HIDE DEF c, p
<1>5. Good(c) /\ Wishes(c)
  <2> DEFINE ws == Only(m.sharing)
  <2>1. ws \in SUBSET Windows /\ Camera(m, ws) /\ m \in MediaStates /\ Viewed(m) /\ ~m.thrown
    BY Before
  <2> HIDE DEF ws
  <2>2. Camera(c, ws) /\ Viewed(c) /\ SameRest(m, c)
    BY <1>3, <2>1, ChangeToLemma
  <2>3. Good(c)
    BY Before, <2>2 DEF Good, SameRest, SameShare, ws
  <2>4. Wishes(c)
    BY Before, <2>2 DEF Wishes, SameRest, SamePage, SamePause
  <2> QED
    BY <2>3, <2>4
<1>6. Good(k) /\ Wishes(k) /\ ~k.playing /\ k \in MediaStates
  <2>1. Good(k) /\ Wishes(k) /\ ~k.playing
    BY <1>3, <1>5, CloseViewerLemma
  <2> QED
    BY <2>1, CameraTyped DEF Good
<1> HIDE DEF k
<1>7. PreviewChanges(k, v) /\ ~v.playing /\ v.viewer = d
  <2>1. Counted(k, k.device, None)
    BY <1>6 DEF Good, Camera, Previewed
  <2>2. /\ v \in MediaStates /\ SameTracks(k, v) /\ SameUse(k, v) /\ SameShare(k, v)
        /\ SamePause(k, v) /\ v.peers = k.peers /\ v.device = k.device /\ v.last = k.last
        /\ v.own = k.own /\ v.view = k.view /\ v.wish = k.wish
        /\ ~v.playing /\ v.viewer = d
    BY <1>3, <1>6 DEF MediaStates, SameTracks, SameUse, SameShare, SamePause
  <2> QED
    BY <2>1, <2>2 DEF PreviewChanges, Counted, Previewed, SameUse
<1>8. PreviewChanges(k, f)
  <2>1. Counted(k, k.device, None)
    BY <1>6 DEF Good, Camera, Previewed
  <2>2. /\ f \in MediaStates /\ SameTracks(k, f) /\ SameUse(k, f) /\ SameShare(k, f)
        /\ SamePause(k, f) /\ f.peers = k.peers /\ f.device = k.device /\ f.last = k.last
        /\ f.own = k.own /\ f.view = k.view /\ f.wish = k.wish /\ ~f.playing
    BY <1>6 DEF MediaStates, SameTracks, SameUse, SameShare, SamePause
  <2> QED
    BY <2>1, <2>2 DEF PreviewChanges, Counted, Previewed, SameUse
<1> HIDE DEF v, f
<1>9. Good(v) /\ Wishes(v) /\ Good(f) /\ Wishes(f)
  BY <1>6, <1>7, <1>8, PreviewLemma
<1>10. PreviewChanges(v, p)
  BY <1>3, <1>4, <1>7, <1>9, StartPreviewLemma
<1>11. Good(p) /\ Wishes(p)
  BY <1>9, <1>10, PreviewLemma
<1> QED
  BY <1>2, <1>9, <1>11, DoesLemma

\* The page with the preview is opened and closed.
LEMMA PlayStep == ASSUME MediaInv, Play \/ StopPlaying PROVE MediaInv'
<1>1. CASE Play
  <2>1. PICK works \in BOOLEAN :
          /\ m.viewer # None /\ ~m.playing
          /\ Does(IF Starts(m, m.viewer, works)
                  THEN [StartDevice(m, m.viewer) EXCEPT !.playing = TRUE]
                  ELSE [m EXCEPT !.thrown = TRUE])
    BY <1>1 DEF Play
  <2> DEFINE d == m.viewer
             p == [StartDevice(m, d) EXCEPT !.playing = TRUE]
             f == [m EXCEPT !.thrown = TRUE]
  <2>2. p = [StartDevice(m, d) EXCEPT !.playing = TRUE] /\ f = [m EXCEPT !.thrown = TRUE]
    OBVIOUS
  <2>3. Does(p) \/ Does(f)
    BY <2>1
  <2>4. d \in Devices /\ m.viewer = d
    BY <2>1, Before DEF MediaStates
  <2> HIDE DEF d, p, f
  <2>5. Good(p) /\ Wishes(p)
    <3>1. PreviewChanges(m, p)
      BY Before, <2>1, <2>2, <2>4, StartPreviewLemma
    <3> QED
      BY Before, <3>1, PreviewLemma
  <2>6. Good(f) /\ Wishes(f)
    <3>1. /\ f \in MediaStates /\ SameMedia(m, f) /\ SameShare(m, f) /\ SamePause(m, f)
          /\ f.wish = m.wish
      BY Before, <2>2 DEF MediaStates, SameMedia, SameTracks, SameUse, SameShare, SamePause
    <3>2. Camera(f, Only(m.sharing))
      BY Before, <3>1, Elsewhere
    <3> QED
      BY Before, <3>1, <3>2 DEF Good, Viewed, Wishes, SameMedia, SameShare, SamePause
  <2> QED
    BY <2>3, <2>5, <2>6, DoesLemma
<1>2. CASE StopPlaying
  <2> DEFINE t == [StopDevice(m, m.viewer) EXCEPT !.playing = FALSE]
  <2>1. m.playing /\ Does(t) /\ t = [StopDevice(m, m.viewer) EXCEPT !.playing = FALSE]
    BY <1>2 DEF StopPlaying
  <2> HIDE DEF t
  <2>2. PreviewChanges(m, t)
    BY Before, <2>1, StopPreviewLemma
  <2>3. Good(t) /\ Wishes(t)
    BY Before, <2>2, PreviewLemma
  <2> QED
    BY <2>1, <2>3, DoesLemma
<1> QED
  BY <1>1, <1>2

\* The cameras are listed, and one that is gone is forgotten.
LEMMA EnumerateStep == ASSUME MediaInv, Enumerate PROVE MediaInv'
<1> DEFINE s == [m EXCEPT !.listed = plugged]
           t == ResetVideo(s)
           ws == Only(m.sharing)
<1>1. Does(IF s.last \in plugged \cup {None} THEN s ELSE t) /\ t = ResetVideo(s)
  BY DEF Enumerate
<1>2. plugged \subseteq Devices
  BY DEF MediaInv
<1>3. /\ s \in MediaStates /\ SameMedia(m, s) /\ SameShare(m, s) /\ SamePause(m, s)
      /\ s.wish = m.wish
  BY Before, <1>2 DEF MediaStates, SameMedia, SameTracks, SameUse, SameShare, SamePause
<1> HIDE DEF s, t
<1>4. Camera(s, ws) /\ ws \in SUBSET Windows
  BY Before, <1>3, Elsewhere
<1>5. Good(s) /\ Wishes(s)
  BY Before, <1>3, <1>4 DEF Good, Viewed, Wishes, SameMedia, SameShare, SamePause
<1> HIDE DEF ws
<1>6. Camera(t, ws) /\ t.device = None /\ t.view = None /\ SameRest(s, t)
  BY <1>1, <1>3, <1>4, ResetVideoLemma
<1>7. Good(t) /\ Wishes(t)
  BY <1>3, <1>5, <1>6
     DEF Good, Viewed, Wishes, SameRest, SamePage, SameShare, SamePause, ws
<1> QED
  BY <1>1, <1>5, <1>7, DoesLemma

\* A connection comes and is sent what is sent, or goes and is sent nothing.
LEMMA ConnectionStep ==
    ASSUME MediaInv, NEW p \in Peers, AddConnection(p) \/ RemoveConnection(p)
    PROVE  MediaInv'
<1> DEFINE xs == Only(m.device) \cup Only(m.sharing)
           ps == IF AddConnection(p) THEN m.peers \cup {p} ELSE m.peers \ {p}
           se == [q \in Peers |-> IF q \in ps THEN xs ELSE {}]
           t == [m EXCEPT !.peers = ps, !.sent = se]
<1>1. /\ m \in MediaStates /\ Sending(m, xs) /\ xs \in SUBSET Sources
      /\ ps \in SUBSET Peers
  <2>1. m \in MediaStates /\ Sending(m, xs)
    BY Before DEF Camera
  <2>2. xs \in SUBSET Sources
    BY <2>1 DEF Only, Sources, MediaStates
  <2>3. ps \in SUBSET Peers
    BY <2>1 DEF MediaStates
  <2> QED
    BY <2>1, <2>2, <2>3
<1>2. se \in [Peers -> SUBSET Sources]
  BY <1>1
<1> HIDE DEF xs
<1>3. Does(t)
  <2>1. CASE AddConnection(p)
    <3> DEFINE r == [m EXCEPT !.peers = @ \cup {p}]
               sf == [q \in Peers |-> IF q \in {p} THEN m.sent[q] \cup m.adders ELSE m.sent[q]]
    <3>1. p \notin m.peers /\ Does(Sends(r, {p}, m.adders))
      BY <2>1 DEF AddConnection
    <3>2. r.sent = m.sent /\ r.sent[p] = {}
      BY <1>1, <3>1 DEF Sending, MediaStates
    <3>3. Sends(r, {p}, m.adders) = [r EXCEPT !.sent = sf]
      BY <1>1, <3>2 DEF Sends, Ensure, MediaStates
    <3>4. sf = se
      BY <1>1, <2>1, <3>1 DEF Sending
    <3>5. [r EXCEPT !.sent = se] = t
      BY <1>1, <2>1 DEF MediaStates
    <3> QED
      BY <3>1, <3>3, <3>4, <3>5
  <2>2. CASE RemoveConnection(p) /\ ~AddConnection(p)
    <3> DEFINE r == [m EXCEPT !.peers = @ \ {p}]
               sf == [q \in Peers |-> IF q \in {p} THEN m.sent[q] \ m.adders ELSE m.sent[q]]
    <3>1. p \in m.peers /\ Does(StopsSending(r, {p}, m.adders))
      BY <2>2 DEF RemoveConnection
    <3>2. r.sent = m.sent /\ r.sent[p] = m.adders
      BY <1>1, <3>1 DEF Sending, MediaStates
    <3>3. StopsSending(r, {p}, m.adders) = [r EXCEPT !.sent = sf]
      BY <1>1, <3>2 DEF StopsSending, Ensure, MediaStates
    <3>4. sf = se
      BY <1>1, <2>2, <3>1 DEF Sending
    <3>5. [r EXCEPT !.sent = se] = t
      BY <1>1, <2>2 DEF MediaStates
    <3> QED
      BY <3>1, <3>3, <3>4, <3>5
  <2> QED
    BY <2>1, <2>2
<1> HIDE DEF ps
<1>4. Sending(t, xs)
  BY <1>1 DEF Sending, MediaStates
<1> HIDE DEF se
<1>5. /\ t \in MediaStates /\ SameUse(m, t) /\ SameShare(m, t) /\ SamePause(m, t)
      /\ t.device = m.device /\ t.last = m.last /\ t.own = m.own /\ t.view = m.view
      /\ t.viewer = m.viewer /\ t.playing = m.playing /\ t.wish = m.wish
  BY <1>1, <1>2 DEF MediaStates, SameUse, SameShare, SamePause
<1> HIDE DEF t
<1>6. Good(t) /\ Wishes(t)
  BY Before, <1>4, <1>5
     DEF Good, Viewed, Wishes, Camera, Counted, Previewed, SameUse, SameShare, SamePause, xs
<1> QED
  BY <1>3, <1>6, DoesLemma

\* The type of a program with no camera yet.
LEMMA BlankTyped ==
    ASSUME NEW P \in SUBSET Devices, NEW c \in [Devices -> Nat],
           NEW se \in [Peers -> SUBSET Sources], NEW s,
           s = [
             paused |-> FALSE, last |-> None, device |-> None, listed |-> P, counter |-> c,
             running |-> {}, own |-> {}, view |-> None, shown |-> FALSE, viewer |-> None,
             playing |-> FALSE, sharing |-> None, didPause |-> FALSE, active |-> FALSE,
             adders |-> {}, peers |-> {}, sent |-> se, wish |-> FALSE, silent |-> FALSE,
             thrown |-> FALSE, ended |-> FALSE, failed |-> {}]
    PROVE  s \in MediaStates
  BY DEF MediaStates

\* A program with no camera yet.
LEMMA BlankLemma ==
    ASSUME NEW P \in SUBSET Devices, NEW s, s = [Blank EXCEPT !.listed = P]
    PROVE  /\ s \in MediaStates /\ Good(s) /\ Wishes(s) /\ ~s.thrown /\ s.sharing = None
           /\ ~s.didPause /\ ~s.silent
<1> DEFINE c == [d \in Devices |-> 0]
           se == [p \in Peers |-> {}]
<1>1. s = [
        paused |-> FALSE, last |-> None, device |-> None, listed |-> P, counter |-> c,
        running |-> {}, own |-> {}, view |-> None, shown |-> FALSE, viewer |-> None,
        playing |-> FALSE, sharing |-> None, didPause |-> FALSE, active |-> FALSE,
        adders |-> {}, peers |-> {}, sent |-> se, wish |-> FALSE, silent |-> FALSE,
        thrown |-> FALSE, ended |-> FALSE, failed |-> {}]
  BY DEF Blank
<1>2. c \in [Devices -> Nat] /\ se \in [Peers -> SUBSET Sources]
  OBVIOUS
<1>3. s \in MediaStates
  BY <1>1, <1>2, BlankTyped
<1>4. /\ s.device = None /\ s.sharing = None /\ s.playing = FALSE /\ s.adders = {} /\ s.peers = {}
      /\ s.sent = se /\ s.failed = {} /\ s.own = {} /\ s.counter = c /\ s.running = {}
      /\ s.view = None /\ s.active = FALSE
  BY <1>1
<1>5. /\ s.thrown = FALSE /\ s.silent = FALSE /\ s.didPause = FALSE
      /\ s.shown = FALSE /\ s.paused = FALSE /\ s.wish = FALSE
  BY <1>1
<1>6. Counted(s, None, None)
  BY <1>4, MediaAssumption DEF Counted, Uses
<1>7. Sending(s, {})
  BY <1>4 DEF Sending
<1>8. Only(None) = {}
  BY DEF Only
<1>9. Camera(s, {})
  BY <1>3, <1>4, <1>6, <1>7, <1>8 DEF Camera, Previewed
<1>10. Good(s)
  BY <1>4, <1>8, <1>9 DEF Good, Viewed
<1> QED
  BY <1>3, <1>4, <1>5, <1>10 DEF Wishes

\* MediaInv is inductive.
THEOREM MediaInvariant == MediaSpec => []MediaInv
<1>1. MediaInit => MediaInv
  <2> SUFFICES ASSUME MediaInit PROVE MediaInv
    OBVIOUS
  <2> DEFINE s == [Blank EXCEPT !.listed = plugged]
  <2>1. PICK d \in plugged \cup {None} : m = IF d = None THEN s ELSE ChangeTo(s, d, TRUE)
    BY DEF MediaInit
  <2>2. plugged \in SUBSET Devices /\ open = Windows /\ s = [Blank EXCEPT !.listed = plugged]
    BY DEF MediaInit
  <2>3. /\ s \in MediaStates /\ Good(s) /\ Wishes(s) /\ ~s.thrown /\ s.sharing = None
        /\ s.device = None /\ s.paused = FALSE
    <3>1. s.device = None /\ s.paused = FALSE
      BY DEF Blank
    <3> HIDE DEF s
    <3> QED
      BY <2>2, <3>1, BlankLemma
  <2>4. s.counter = [e \in Devices |-> 0]
    BY DEF Blank
  <2> HIDE DEF s
  <2>5. CASE d = None
    <3>1. m = s
      BY <2>1, <2>5
    <3> QED
      BY <2>2, <2>3, <3>1 DEF MediaInv
  <2>6. CASE d # None
    <3> DEFINE ws == Only(s.sharing)
    <3>1. m = ChangeTo(s, d, TRUE) /\ d \in Devices /\ d \in plugged
      BY <2>1, <2>2, <2>6
    <3>2. ws \in SUBSET Windows /\ Camera(s, ws) /\ Viewed(s)
      BY <2>3 DEF Only, Good
    <3> HIDE DEF ws
    <3>3. Camera(m, ws) /\ Viewed(m) /\ SameRest(s, m)
      BY <2>3, <3>1, <3>2, ChangeToLemma
    <3>4. Good(m)
      BY <2>3, <3>3 DEF Good, SameRest, SameShare, ws
    <3>5. Wishes(m)
      BY <2>3, <3>3 DEF Wishes, SameRest, SamePage, SamePause
    <3>6. ~m.thrown
      <4> DEFINE r == [s EXCEPT !.last = d]
      <4>1. Starts(r, d, TRUE)
        BY <3>1 DEF Starts
      <4>2. r.paused = FALSE /\ r \in MediaStates /\ r.device = None /\ ~r.thrown
            /\ Camera(r, ws)
        <5>1. r = [s EXCEPT !.last = d]
          OBVIOUS
        <5>2. r.paused = FALSE /\ r \in MediaStates
          BY <2>3, <3>1 DEF MediaStates
        <5> HIDE DEF r
        <5> QED
          BY <2>3, <3>1, <3>2, <5>1, <5>2, LastLemma
      <4>3. m = UpdateVideo(AddOwn(AddTrack([StartDevice(r, d) EXCEPT !.device = d], d), d))
        BY <2>3, <2>6, <3>1, <4>1, <4>2 DEF ChangeTo
      <4>4. r.last = d
        BY <2>3 DEF MediaStates
      <4> HIDE DEF r
      <4>5. /\ r \in MediaStates /\ ws \in SUBSET Windows /\ Camera(r, ws) /\ r.device = None
            /\ d \in Devices /\ r.last = d
        BY <3>1, <3>2, <4>2, <4>4
      <4>6. m.thrown = r.thrown
        BY <4>3, <4>5, TakeUpLemma
      <4> QED
        BY <4>2, <4>6
    <3> QED
      BY <2>2, <3>4, <3>5, <3>6 DEF MediaInv
  <2> QED
    BY <2>5, <2>6
<1>2. MediaInv /\ [MediaNext]_mediaVars => MediaInv'
  <2> SUFFICES ASSUME MediaInv, [MediaNext]_mediaVars PROVE MediaInv'
    OBVIOUS
  <2>1. CASE UNCHANGED mediaVars
    BY <2>1 DEF mediaVars, MediaInv
  <2>2. CASE Plug \/ OpenOrClose
    <3>1. m' = m /\ (plugged \subseteq Devices => plugged' \subseteq Devices)
          /\ (open \subseteq Windows => open' \subseteq Windows)
      BY <2>2 DEF Plug, OpenOrClose
    <3> QED
      BY <3>1 DEF MediaInv
  <2> QED
    BY <2>1, <2>2, SetVideoDisabledStep, SharingStep, OnVideoDeviceActivatedStep, PlayStep,
       EnumerateStep, ConnectionStep DEF MediaNext
<1> QED
  BY <1>1, <1>2, PTL DEF MediaSpec

\* Every participant is sent the camera in use and the shared window, and
\* nothing else, and no assertion on the way fails.
THEOREM SentSound == MediaSpec => []SentIsShown
<1>1. MediaInv => SentIsShown
  <2> SUFFICES ASSUME MediaInv PROVE SentIsShown
    OBVIOUS
  <2>1. /\ m \in MediaStates /\ Camera(m, Only(m.sharing)) /\ Viewed(m)
        /\ (m.active <=> m.sharing # None) /\ ~m.thrown
        /\ plugged \subseteq Devices /\ open \subseteq Windows
    BY Before DEF MediaInv, Good
  <2>2. m.counter \in [Devices -> 0..2]
    BY <2>1 DEF Camera, Counted, Uses
  <2>3. MediaTypeOK
    BY <2>1, <2>2 DEF MediaTypeOK, MediaStates
  <2> QED
    BY <2>1, <2>3 DEF SentIsShown, Camera, Sending, Viewed
<1> QED
  BY <1>1, MediaInvariant, PTL

\* A camera captures exactly while it is sent or previewed.
THEOREM CameraIsOff == MediaSpec => []CameraIsOffUnlessUsed
<1>1. MediaInv => CameraIsOffUnlessUsed
  <2> SUFFICES ASSUME MediaInv, NEW d \in Devices
               PROVE  d \in m.running <=> m.device = d \/ (m.viewer = d /\ m.playing)
    BY DEF CameraIsOffUnlessUsed
  <2>1. Counted(m, m.device, Previewed(m)) /\ d # None
    BY Before, MediaAssumption DEF Camera
  <2>2. d \in m.running <=> Uses(d, m.device) + Uses(d, Previewed(m)) > 0
    BY <2>1 DEF Counted
  <2> QED
    BY <2>1, <2>2 DEF Uses, Previewed
<1> QED
  BY <1>1, MediaInvariant, PTL

\* Sharing gives the camera back as the user wanted it.
THEOREM WishKept == MediaSpec => []WishIsKept
<1>1. MediaInv => WishIsKept
  BY DEF MediaInv, Wishes, WishIsKept
<1> QED
  BY <1>1, MediaInvariant, PTL

-----------------------------------------------------------------------------
(* The frames.  A provider whose size is its format stops the surface       *)
(* exactly when it has to.                                                   *)

FrameInv ==
    /\ provider \in [alive : BOOLEAN, connected : BOOLEAN, surface : Surfaces \cup {NoSurface},
                     format : Sizes \cup {0}, size : Sizes \cup {0}]
    /\ surfaces \in [Surfaces -> Sizes \cup {0}]
    /\ frames \in Seq(Sizes) /\ Len(frames) <= MaxQueue
    /\ provider.size = provider.format
    /\ PresentedFits

\* The frames and their surfaces, step by step.
LEMMA VideoStep == ASSUME FrameInv, VideoNext PROVE FrameInv'
<1>0. /\ NoSurface \notin Surfaces /\ MaxQueue \in Nat
      /\ provider.surface \in Surfaces \cup {NoSurface}
  BY FramesAssumption DEF FrameInv
<1>1. CASE SetSource
  BY <1>1 DEF SetSource, FrameInv, PresentedFits
<1>2. CASE SetSurface
  <2>1. PICK s \in Surfaces \cup {NoSurface} :
          /\ provider' = [provider EXCEPT !.surface = s]
          /\ surfaces' = IF s # provider.surface THEN Blanked(provider.surface) ELSE surfaces
          /\ UNCHANGED <<frames, shown>>
    BY <1>2 DEF SetSurface
  <2>2. surfaces' \in [Surfaces -> Sizes \cup {0}]
    BY <2>1 DEF Blanked, FrameInv
  <2> QED
    BY <2>1, <2>2 DEF FrameInv, PresentedFits
<1>3. CASE OnFrame
  <2>1. PICK size \in Sizes : frames' = Append(frames, size) /\ Len(frames) < MaxQueue
    BY <1>3 DEF OnFrame
  <2>2. frames' \in Seq(Sizes) /\ Len(frames') <= MaxQueue
    BY <1>0, <2>1 DEF FrameInv
  <2> QED
    BY <1>3, <2>2 DEF OnFrame, FrameInv, PresentedFits
<1>4. CASE OnFrameUiThread
  <2>1. frames # <<>> /\ frames' = Tail(frames) /\ frames \in Seq(Sizes)
    BY <1>4 DEF OnFrameUiThread, FrameInv
  <2>2. frames' \in Seq(Sizes) /\ Len(frames') <= MaxQueue /\ Head(frames) \in Sizes
    BY <1>0, <2>1 DEF FrameInv
  <2>3. CASE provider.surface = NoSurface
    <3>1. UNCHANGED <<provider, surfaces, shown>>
      BY <1>4, <2>3 DEF OnFrameUiThread
    <3> QED
      BY <2>2, <3>1 DEF FrameInv, PresentedFits
  <2>4. CASE provider.surface # NoSurface
    <3> DEFINE size == Head(frames)
               s == provider.surface
               p == SetFormat(provider, size)
               running == StartSurface(s, Stopped(provider, size, surfaces[s]), p.format)
    <3>1. /\ provider' = p /\ surfaces' = [surfaces EXCEPT ![s] = running]
          /\ shown' = [frame |-> size, format |-> running]
      BY <1>4, <2>4 DEF OnFrameUiThread
    <3>2. p.format = size /\ p.size = size /\ running = size
      BY DEF SetFormat, StartSurface, FrameInv
    <3>3. /\ p \in [alive : BOOLEAN, connected : BOOLEAN, surface : Surfaces \cup {NoSurface},
                    format : Sizes \cup {0}, size : Sizes \cup {0}]
      BY <2>2 DEF SetFormat, FrameInv
    <3> HIDE DEF p, running, size
    <3>4. shown'.frame = shown'.format
      BY <3>1, <3>2
    <3>5. surfaces' \in [Surfaces -> Sizes \cup {0}]
      BY <2>2, <3>1, <3>2 DEF FrameInv, size
    <3> QED
      BY <2>2, <3>1, <3>2, <3>3, <3>4, <3>5 DEF FrameInv, PresentedFits
  <2> QED
    BY <2>3, <2>4
<1>5. CASE DestroyProvider
  <2>1. /\ provider' = [provider EXCEPT !.alive = FALSE, !.connected = FALSE, !.surface = NoSurface]
        /\ frames' = <<>> /\ UNCHANGED <<surfaces, shown>>
    BY <1>5 DEF DestroyProvider
  <2>2. frames' \in Seq(Sizes) /\ Len(frames') <= MaxQueue
    BY <1>0, <2>1
  <2> QED
    BY <2>1, <2>2 DEF FrameInv, PresentedFits
<1>6. CASE NewProvider
  BY <1>0, <1>6 DEF NewProvider, FrameInv, PresentedFits
<1> QED
  BY <1>1, <1>2, <1>3, <1>4, <1>5, <1>6 DEF VideoNext

-----------------------------------------------------------------------------
(* The levels and the voice.  SoundIsTold speaks of a moment with nothing   *)
(* posted; before it, what was not told is in the cache and in the posts:   *)
(* f says how much of it is left when the first i posts have run.           *)

LevelPosts == [kind : {"level"}, value : Nat, of : Nat]
VoicePosts == [kind : {"voice"}, value : BOOLEAN, of : Nat]
Posts == LevelPosts \cup VoicePosts

Amount(p, n) == IF p.kind = "level" /\ p.of = n THEN p.value ELSE 0

Quiet(ps, n, i, j) == \A k \in (i + 1)..j : ps[k].of # n

LeftBy(f, ps, n, left, cache) ==
    /\ f \in [0..Len(ps) -> Nat]
    /\ f[0] = left /\ f[Len(ps)] = cache
    /\ \A i \in 1..Len(ps) : f[i - 1] = f[i] + Amount(ps[i], n)
    /\ \A i, j \in 0..Len(ps) : i <= j /\ Quiet(ps, n, i, j) => f[i] = f[j]

\* What calculator n has not told is in posts and cache.
ToldLater(ps, n, left, cache) == \E f : LeftBy(f, ps, n, left, cache)

\* The voice v is the one that the last post about it tells, or was told.
SaysVoice(p, n) == p.kind = "voice" /\ p.of = n
VoiceLater(ps, n, told, v) ==
    /\ \A i \in 1..Len(ps) :
        SaysVoice(ps[i], n) /\ (\A j \in (i + 1)..Len(ps) : ~SaysVoice(ps[j], n)) => ps[i].value = v
    /\ (\A i \in 1..Len(ps) : ~SaysVoice(ps[i], n)) => told = v

\* Another datum goes to the cache.
LEMMA ToldDatum ==
    ASSUME NEW ps \in Seq(Posts), NEW n \in Nat, NEW left \in Nat, NEW cache \in Nat,
           ToldLater(ps, n, left, cache)
    PROVE  ToldLater(ps, n, left + 1, cache + 1)
<1>1. PICK f : LeftBy(f, ps, n, left, cache)
  BY DEF ToldLater
<1> DEFINE L == Len(ps)
           g == [i \in 0..L |-> f[i] + 1]
<1>2. L \in Nat /\ f \in [0..L -> Nat]
  BY <1>1 DEF LeftBy
<1>3. g \in [0..L -> Nat] /\ \A i \in 0..L : g[i] = f[i] + 1 /\ f[i] \in Nat
  BY <1>2
<1>4. 0 \in 0..L /\ L \in 0..L
  BY <1>2
<1>5. g[0] = left + 1 /\ g[L] = cache + 1
  BY <1>1, <1>3, <1>4 DEF LeftBy
<1>6. ASSUME NEW i \in 1..L PROVE g[i - 1] = g[i] + Amount(ps[i], n)
  <2>1. i \in 0..L /\ i - 1 \in 0..L
    BY <1>2
  <2>2. ps[i] \in Posts
    BY <1>2
  <2>3. Amount(ps[i], n) \in Nat
    BY <2>2 DEF Amount, Posts, LevelPosts, VoicePosts
  <2>4. f[i - 1] = f[i] + Amount(ps[i], n)
    BY <1>1 DEF LeftBy
  <2> QED
    BY <1>3, <2>1, <2>3, <2>4
<1>7. ASSUME NEW i \in 0..L, NEW j \in 0..L, i <= j, Quiet(ps, n, i, j) PROVE g[i] = g[j]
  BY <1>1, <1>3, <1>7 DEF LeftBy
<1> HIDE DEF g
<1>8. LeftBy(g, ps, n, left + 1, cache + 1)
  BY <1>3, <1>5, <1>6, <1>7 DEF LeftBy
<1> QED
  BY <1>8 DEF ToldLater

\* A level of the calculator takes its amount out of the cache, its voice none.
LEMMA ToldPost ==
    ASSUME NEW ps \in Seq(Posts), NEW n \in Nat, NEW left \in Nat, NEW cache \in Nat,
           ToldLater(ps, n, left, cache), NEW p \in Posts, p.of = n,
           NEW rest \in Nat, cache = rest + Amount(p, n)
    PROVE  ToldLater(Append(ps, p), n, left, rest)
<1>1. PICK f : LeftBy(f, ps, n, left, cache)
  BY DEF ToldLater
<1> DEFINE L == Len(ps)
           qs == Append(ps, p)
           g == [i \in 0..(L + 1) |-> IF i = L + 1 THEN rest ELSE f[i]]
<1>2. /\ L \in Nat /\ f \in [0..L -> Nat] /\ qs \in Seq(Posts) /\ Len(qs) = L + 1
      /\ qs[L + 1] = p /\ \A i \in 1..L : qs[i] = ps[i]
  BY <1>1 DEF LeftBy
<1>3. /\ g \in [0..(L + 1) -> Nat] /\ g[L + 1] = rest
      /\ \A i \in 0..L : g[i] = f[i]
  BY <1>2
<1> HIDE DEF qs, g
<1>4. g[0] = left /\ g[L] = cache
  BY <1>1, <1>2, <1>3 DEF LeftBy
<1>5. ASSUME NEW i \in 1..(L + 1) PROVE g[i - 1] = g[i] + Amount(qs[i], n)
  <2>1. CASE i = L + 1
    BY <1>2, <1>3, <1>4, <2>1
  <2>2. CASE i # L + 1
    <3>1. i \in 1..L /\ i \in 0..L /\ i - 1 \in 0..L
      BY <1>2, <2>2
    <3> QED
      BY <1>1, <1>2, <1>3, <3>1 DEF LeftBy
  <2> QED
    BY <2>1, <2>2
<1>6. ASSUME NEW i \in 0..(L + 1), NEW j \in 0..(L + 1), i <= j, Quiet(qs, n, i, j)
      PROVE  g[i] = g[j]
  <2>1. CASE j = L + 1
    <3>1. CASE i = j
      BY <3>1
    <3>2. CASE i # j
      <4>1. L + 1 \in (i + 1)..j
        BY <1>2, <1>6, <2>1, <3>2
      <4> QED
        BY <1>2, <1>6, <4>1 DEF Quiet
    <3> QED
      BY <3>1, <3>2
  <2>2. CASE j # L + 1
    <3>1. i \in 0..L /\ j \in 0..L
      BY <1>2, <1>6, <2>2
    <3>2. \A k \in (i + 1)..j : k \in 1..L
      BY <1>2, <3>1
    <3>3. Quiet(ps, n, i, j)
      BY <1>2, <1>6, <3>2 DEF Quiet
    <3> QED
      BY <1>1, <1>3, <1>6, <3>1, <3>3 DEF LeftBy
  <2> QED
    BY <2>1, <2>2
<1>7. LeftBy(g, qs, n, left, rest)
  BY <1>2, <1>3, <1>4, <1>5, <1>6 DEF LeftBy
<1> QED
  BY <1>7 DEF ToldLater, qs

\* A post that runs takes its amount from what is left.
LEMMA ToldRun ==
    ASSUME NEW ps \in Seq(Posts), ps # <<>>, NEW n \in Nat, NEW left \in Nat, NEW cache \in Nat,
           ToldLater(ps, n, left, cache)
    PROVE  /\ left - Amount(Head(ps), n) \in Nat
           /\ ToldLater(Tail(ps), n, left - Amount(Head(ps), n), cache)
<1>1. PICK f : LeftBy(f, ps, n, left, cache)
  BY DEF ToldLater
<1> DEFINE L == Len(ps)
           qs == Tail(ps)
           g == [i \in 0..(L - 1) |-> f[i + 1]]
           a == Amount(Head(ps), n)
<1>2. /\ L \in Nat \ {0} /\ f \in [0..L -> Nat] /\ qs \in Seq(Posts) /\ Len(qs) = L - 1
      /\ Head(ps) = ps[1] /\ Head(ps) \in Posts /\ \A i \in 1..(L - 1) : qs[i] = ps[i + 1]
  BY <1>1 DEF LeftBy
<1>3. a \in Nat
  BY <1>2 DEF Amount, Posts, LevelPosts, VoicePosts
<1>4. \A i \in 0..(L - 1) : i + 1 \in 0..L
  BY <1>2
<1>5. g \in [0..(L - 1) -> Nat] /\ \A i \in 0..(L - 1) : g[i] = f[i + 1]
  BY <1>2, <1>4
<1>6. f[0] = left /\ f[0] = f[1] + a /\ f[1] \in Nat
  <2>1. 1 \in 1..L /\ 1 \in 0..L /\ 1 - 1 = 0
    BY <1>2
  <2>2. f[1 - 1] = f[1] + Amount(ps[1], n)
    BY <1>1, <2>1 DEF LeftBy
  <2> QED
    BY <1>1, <1>2, <2>1, <2>2 DEF LeftBy
<1> HIDE DEF qs, g, a
<1>7. left - a \in Nat /\ f[1] = left - a
  BY <1>3, <1>6
<1>8. g[0] = left - a /\ g[L - 1] = cache
  <2>1. 0 \in 0..(L - 1) /\ L - 1 \in 0..(L - 1) /\ 0 + 1 = 1 /\ (L - 1) + 1 = L
    BY <1>2
  <2> QED
    BY <1>1, <1>5, <1>7, <2>1 DEF LeftBy
<1>9. ASSUME NEW i \in 1..(L - 1) PROVE g[i - 1] = g[i] + Amount(qs[i], n)
  <2>1. i + 1 \in 1..L /\ i \in 0..(L - 1) /\ i - 1 \in 0..(L - 1) /\ (i + 1) - 1 = (i - 1) + 1
    BY <1>2
  <2>2. f[(i + 1) - 1] = f[i + 1] + Amount(ps[i + 1], n)
    BY <1>1, <2>1 DEF LeftBy
  <2> QED
    BY <1>2, <1>5, <2>1, <2>2
<1>10. ASSUME NEW i \in 0..(L - 1), NEW j \in 0..(L - 1), i <= j, Quiet(qs, n, i, j)
       PROVE  g[i] = g[j]
  <2>1. ASSUME NEW k \in ((i + 1) + 1)..(j + 1) PROVE ps[k].of # n
    <3>1. k - 1 \in (i + 1)..j /\ k - 1 \in 1..(L - 1) /\ (k - 1) + 1 = k
      BY <1>2
    <3> QED
      BY <1>2, <1>10, <3>1 DEF Quiet
  <2>2. Quiet(ps, n, i + 1, j + 1)
    BY <2>1 DEF Quiet
  <2>3. i + 1 \in 0..L /\ j + 1 \in 0..L /\ i + 1 <= j + 1
    BY <1>2, <1>10
  <2> QED
    BY <1>1, <1>5, <2>2, <2>3 DEF LeftBy
<1>11. LeftBy(g, qs, n, left - a, cache)
  BY <1>2, <1>5, <1>8, <1>9, <1>10 DEF LeftBy
<1> QED
  BY <1>7, <1>11 DEF ToldLater, qs, a

\* When nothing of the calculator is posted, all that is left is in the cache;
\* a new one has posted nothing.
LEMMA ToldAll ==
    ASSUME NEW ps \in Seq(Posts), NEW n \in Nat, \A i \in 1..Len(ps) : ps[i].of # n
    PROVE  /\ \A left, cache : ToldLater(ps, n, left, cache) => left = cache
           /\ ToldLater(ps, n, 0, 0)
<1> DEFINE L == Len(ps)
           g == [i \in 0..L |-> 0]
<1>1. L \in Nat /\ 0 \in 0..L /\ L \in 0..L /\ 0 <= L
  OBVIOUS
<1>2. Quiet(ps, n, 0, L)
  BY <1>1 DEF Quiet
<1>3. ASSUME NEW left, NEW cache, ToldLater(ps, n, left, cache) PROVE left = cache
  BY <1>1, <1>2, <1>3 DEF ToldLater, LeftBy
<1>4. \A i \in 1..L : Amount(ps[i], n) = 0 /\ i \in 0..L /\ i - 1 \in 0..L
  BY <1>1 DEF Amount
<1>5. LeftBy(g, ps, n, 0, 0)
  BY <1>1, <1>4 DEF LeftBy
<1> QED
  BY <1>3, <1>5 DEF ToldLater

\* The voice, when it is posted, when a level is, and when a post runs.
LEMMA VoicePost ==
    ASSUME NEW ps \in Seq(Posts), NEW n \in Nat, NEW told, NEW v, VoiceLater(ps, n, told, v),
           NEW p \in Posts
    PROVE  /\ ~SaysVoice(p, n) => VoiceLater(Append(ps, p), n, told, v)
           /\ SaysVoice(p, n) => VoiceLater(Append(ps, p), n, told, p.value)
<1> DEFINE L == Len(ps)
           qs == Append(ps, p)
<1>1. /\ L \in Nat /\ Len(qs) = L + 1 /\ qs[L + 1] = p /\ \A i \in 1..L : qs[i] = ps[i]
  OBVIOUS
<1> HIDE DEF qs
<1>2. ASSUME ~SaysVoice(p, n) PROVE VoiceLater(qs, n, told, v)
  <2>1. ASSUME NEW i \in 1..(L + 1), SaysVoice(qs[i], n),
               \A j \in (i + 1)..(L + 1) : ~SaysVoice(qs[j], n)
        PROVE  qs[i].value = v
    <3>1. i \in 1..L
      BY <1>1, <1>2, <2>1
    <3>2. \A j \in (i + 1)..L : j \in (i + 1)..(L + 1) /\ j \in 1..L
      BY <1>1
    <3>3. \A j \in (i + 1)..L : ~SaysVoice(ps[j], n)
      BY <1>1, <2>1, <3>2
    <3> QED
      BY <1>1, <2>1, <3>1, <3>3 DEF VoiceLater
  <2>2. ASSUME \A i \in 1..(L + 1) : ~SaysVoice(qs[i], n) PROVE told = v
    <3>1. \A i \in 1..L : ~SaysVoice(ps[i], n)
      BY <1>1, <2>2
    <3> QED
      BY <3>1 DEF VoiceLater
  <2> QED
    BY <1>1, <2>1, <2>2 DEF VoiceLater
<1>3. ASSUME SaysVoice(p, n) PROVE VoiceLater(qs, n, told, p.value)
  <2>1. ASSUME NEW i \in 1..(L + 1), SaysVoice(qs[i], n),
               \A j \in (i + 1)..(L + 1) : ~SaysVoice(qs[j], n)
        PROVE  qs[i].value = p.value
    <3>1. i = L + 1
      BY <1>1, <1>3, <2>1
    <3> QED
      BY <1>1, <3>1
  <2>2. ~\A i \in 1..(L + 1) : ~SaysVoice(qs[i], n)
    BY <1>1, <1>3
  <2> QED
    BY <1>1, <2>1, <2>2 DEF VoiceLater
<1> QED
  BY <1>2, <1>3 DEF qs

\* A post that runs tells the voice, if it is about it.
LEMMA VoiceRun ==
    ASSUME NEW ps \in Seq(Posts), ps # <<>>, NEW n \in Nat, NEW told, NEW v,
           VoiceLater(ps, n, told, v)
    PROVE  VoiceLater(Tail(ps), n, IF SaysVoice(Head(ps), n) THEN Head(ps).value ELSE told, v)
<1> DEFINE L == Len(ps)
           qs == Tail(ps)
           tells == IF SaysVoice(Head(ps), n) THEN Head(ps).value ELSE told
<1>1. /\ L \in Nat \ {0} /\ Len(qs) = L - 1 /\ Head(ps) = ps[1]
      /\ \A i \in 1..(L - 1) : qs[i] = ps[i + 1]
  OBVIOUS
<1> HIDE DEF qs
<1>2. ASSUME NEW i \in 1..(L - 1), SaysVoice(qs[i], n),
             \A j \in (i + 1)..(L - 1) : ~SaysVoice(qs[j], n)
      PROVE  qs[i].value = v
  <2>1. i + 1 \in 1..L /\ qs[i] = ps[i + 1]
    BY <1>1
  <2>2. ASSUME NEW j \in ((i + 1) + 1)..L PROVE ~SaysVoice(ps[j], n)
    <3>1. j - 1 \in (i + 1)..(L - 1) /\ j - 1 \in 1..(L - 1) /\ (j - 1) + 1 = j
      BY <1>1
    <3> QED
      BY <1>1, <1>2, <3>1
  <2> QED
    BY <1>2, <2>1, <2>2 DEF VoiceLater
<1>3. ASSUME \A i \in 1..(L - 1) : ~SaysVoice(qs[i], n) PROVE tells = v
  <2>1. ASSUME NEW j \in 2..L PROVE ~SaysVoice(ps[j], n)
    <3>1. j - 1 \in 1..(L - 1) /\ (j - 1) + 1 = j
      BY <1>1
    <3> QED
      BY <1>1, <1>3, <3>1
  <2>2. CASE SaysVoice(ps[1], n)
    <3>1. 1 \in 1..L /\ \A j \in (1 + 1)..L : ~SaysVoice(ps[j], n)
      BY <1>1, <2>1
    <3> QED
      BY <1>1, <2>2, <3>1 DEF VoiceLater
  <2>3. CASE ~SaysVoice(ps[1], n)
    <3>1. \A j \in 1..L : j = 1 \/ j \in 2..L
      BY <1>1
    <3>2. \A j \in 1..L : ~SaysVoice(ps[j], n)
      BY <2>1, <2>3, <3>1
    <3> QED
      BY <1>1, <2>3, <3>2 DEF VoiceLater
  <2> QED
    BY <2>2, <2>3
<1> HIDE DEF tells
<1>4. VoiceLater(qs, n, tells, v)
  BY <1>1, <1>2, <1>3 DEF VoiceLater
<1> QED
  BY <1>4 DEF qs, tells

\* What is told belongs to the calculator that lives, and nothing is lost.
LevelInv ==
    /\ calculator \in [number : 0..MaxCalculators, alive : BOOLEAN, counter : 0..Period,
                       cache : Nat, voice : BOOLEAN]
    /\ posts \in Seq(Posts) /\ Len(posts) <= MaxQueue
    /\ \A i \in 1..Len(posts) : posts[i].of <= calculator.number
    /\ heard \in [untold : Nat, voice : BOOLEAN, spoke : BOOLEAN, by : Nat]
    /\ OnlyTheLivingTell
    /\ calculator.alive =>
        /\ heard.spoke = calculator.voice
        /\ ToldLater(posts, calculator.number, heard.untold, calculator.cache)
        /\ VoiceLater(posts, calculator.number, heard.voice, calculator.voice)

\* A datum arrives on the audio thread: the level is posted when the period is
\* full, then the voice if it is another one.
LEMMA OnDataStep == ASSUME LevelInv, OnData PROVE LevelInv'
<1> DEFINE n == calculator.number
           pl == Post("level", calculator.cache)
           qs == posts \o Level
           cache == IF Full THEN 1 ELSE calculator.cache + 1
           counter == IF Full THEN 0 ELSE calculator.counter + 1
<1>1. PICK voice \in BOOLEAN :
        /\ calculator.alive /\ Len(posts) + 1 < MaxQueue
        /\ calculator' = [calculator EXCEPT !.counter = counter, !.cache = cache, !.voice = voice]
        /\ posts' = qs \o (IF voice = calculator.voice THEN <<>> ELSE <<Post("voice", voice)>>)
        /\ heard' = [heard EXCEPT !.untold = @ + 1, !.spoke = voice]
  <2>1. PICK voice \in BOOLEAN :
        /\ calculator.alive /\ Len(posts) + 1 < MaxQueue
        /\ calculator' = Voice([calculator EXCEPT !.counter = IF Full THEN 0 ELSE @ + 1,
                                                  !.cache = IF Full THEN 1 ELSE @ + 1], voice)
        /\ posts' = posts \o Level \o
                    (IF voice = calculator.voice THEN <<>> ELSE <<Post("voice", voice)>>)
        /\ heard' = [heard EXCEPT !.untold = @ + 1, !.spoke = voice]
    BY DEF OnData
  <2>2. calculator' = [calculator EXCEPT !.counter = counter, !.cache = cache, !.voice = voice]
    BY <2>1 DEF Voice, LevelInv
  <2> QED
    BY <2>1, <2>2
<1> DEFINE pv == Post("voice", voice)
<1>2. /\ calculator \in [number : 0..MaxCalculators, alive : BOOLEAN, counter : 0..Period,
                       cache : Nat, voice : BOOLEAN]
      /\ n \in Nat /\ n \in 0..MaxCalculators /\ calculator.cache \in Nat
      /\ calculator.counter \in 0..Period /\ calculator.voice \in BOOLEAN
      /\ heard \in [untold : Nat, voice : BOOLEAN, spoke : BOOLEAN, by : Nat]
      /\ heard.untold \in Nat /\ posts \in Seq(Posts) /\ MaxQueue \in Nat /\ Period \in Nat
      /\ MaxCalculators \in Nat
      /\ \A i \in 1..Len(posts) : posts[i].of <= n
  BY FramesAssumption DEF LevelInv
<1>3. /\ ToldLater(posts, n, heard.untold, calculator.cache)
      /\ VoiceLater(posts, n, heard.voice, calculator.voice)
  BY <1>1 DEF LevelInv
<1>4. counter \in 0..Period /\ cache \in Nat
  BY <1>2 DEF Full
<1>5. /\ pl \in Posts /\ pl.of = n /\ ~SaysVoice(pl, n) /\ Amount(pl, n) = calculator.cache
      /\ pv \in Posts /\ pv.of = n /\ SaysVoice(pv, n) /\ pv.value = voice /\ Amount(pv, n) = 0
  BY <1>2 DEF Post, Posts, LevelPosts, VoicePosts, SaysVoice, Amount
<1>6. qs = IF Full THEN Append(posts, pl) ELSE posts
  <2>1. \A p \in Posts : posts \o <<p>> = Append(posts, p)
    BY <1>2
  <2>2. posts \o <<>> = posts
    BY <1>2
  <2> QED
    BY <1>5, <2>1, <2>2 DEF Level
<1>7. ToldLater(posts, n, heard.untold + 1, calculator.cache + 1)
  BY <1>2, <1>3, ToldDatum
<1> HIDE DEF n, pl, qs, cache, counter, pv
<1>8. /\ qs \in Seq(Posts) /\ Len(qs) < MaxQueue
      /\ \A i \in 1..Len(qs) : qs[i].of <= n
      /\ ToldLater(qs, n, heard.untold + 1, cache)
      /\ VoiceLater(qs, n, heard.voice, calculator.voice)
  <2>1. CASE Full
    <3>1. qs = Append(posts, pl) /\ cache = 1
      BY <1>6, <2>1 DEF cache
    <3>2. qs \in Seq(Posts) /\ Len(qs) = Len(posts) + 1 /\ qs[Len(posts) + 1] = pl
          /\ \A i \in 1..Len(posts) : qs[i] = posts[i]
      BY <1>2, <1>5, <3>1
    <3>3. heard.untold + 1 \in Nat /\ calculator.cache + 1 \in Nat /\ 1 \in Nat
          /\ calculator.cache + 1 = 1 + Amount(pl, n)
      BY <1>2, <1>5
    <3>4. ToldLater(qs, n, heard.untold + 1, 1)
      BY <1>2, <1>5, <1>7, <3>1, <3>3, ToldPost
    <3>5. VoiceLater(qs, n, heard.voice, calculator.voice)
      BY <1>2, <1>3, <1>5, <3>1, VoicePost
    <3>6. \A i \in 1..Len(qs) : qs[i].of <= n
      BY <1>2, <1>5, <3>2
    <3> QED
      BY <1>1, <1>2, <3>1, <3>2, <3>4, <3>5, <3>6
  <2>2. CASE ~Full
    <3>1. qs = posts /\ cache = calculator.cache + 1
      BY <1>6, <2>2 DEF cache
    <3> QED
      BY <1>1, <1>2, <1>3, <1>7, <3>1
  <2> QED
    BY <2>1, <2>2
<1>9. /\ posts' \in Seq(Posts) /\ Len(posts') <= MaxQueue
      /\ \A i \in 1..Len(posts') : posts'[i].of <= n
      /\ ToldLater(posts', n, heard.untold + 1, cache)
      /\ VoiceLater(posts', n, heard.voice, voice)
  <2>1. CASE voice = calculator.voice
    <3>1. posts' = qs
      BY <1>1, <1>8, <2>1
    <3> QED
      BY <1>2, <1>8, <2>1, <3>1
  <2>2. CASE voice # calculator.voice
    <3>1. posts' = Append(qs, pv)
      <4>1. posts' = qs \o <<pv>>
        BY <1>1, <2>2 DEF pv
      <4>2. \A p \in Posts : qs \o <<p>> = Append(qs, p)
        BY <1>8
      <4> QED
        BY <1>5, <4>1, <4>2
    <3>2. /\ posts' \in Seq(Posts) /\ Len(posts') = Len(qs) + 1 /\ posts'[Len(qs) + 1] = pv
          /\ \A i \in 1..Len(qs) : posts'[i] = qs[i]
      BY <1>5, <1>8, <3>1
    <3>3. heard.untold + 1 \in Nat /\ cache = cache + Amount(pv, n)
      BY <1>2, <1>4, <1>5
    <3>4. ToldLater(posts', n, heard.untold + 1, cache)
      BY <1>2, <1>4, <1>5, <1>8, <3>1, <3>3, ToldPost
    <3>5. VoiceLater(posts', n, heard.voice, voice)
      BY <1>2, <1>5, <1>8, <3>1, VoicePost
    <3>6. \A i \in 1..Len(posts') : posts'[i].of <= n
      BY <1>2, <1>5, <1>8, <3>2
    <3> QED
      BY <1>2, <1>8, <3>2, <3>4, <3>5, <3>6
  <2> QED
    BY <2>1, <2>2
<1>10. /\ calculator' \in [number : 0..MaxCalculators, alive : BOOLEAN, counter : 0..Period,
                       cache : Nat, voice : BOOLEAN]
       /\ calculator'.number = n /\ calculator'.alive /\ calculator'.cache = cache
       /\ calculator'.voice = voice
  BY <1>1, <1>2, <1>4 DEF n
<1>11. /\ heard' \in [untold : Nat, voice : BOOLEAN, spoke : BOOLEAN, by : Nat]
       /\ heard'.untold = heard.untold + 1 /\ heard'.voice = heard.voice /\ heard'.spoke = voice
       /\ heard'.by = heard.by
  <2> DEFINE more == heard.untold + 1
  <2>1. more \in Nat /\ voice \in BOOLEAN
    BY <1>2
  <2>2. heard' = [heard EXCEPT !.untold = more, !.spoke = voice]
    BY <1>1, <1>2
  <2> HIDE DEF more
  <2>3. heard' \in [untold : Nat, voice : BOOLEAN, spoke : BOOLEAN, by : Nat]
    BY <1>2, <2>1, <2>2
  <2>4. heard'.untold = more /\ heard'.voice = heard.voice /\ heard'.spoke = voice
        /\ heard'.by = heard.by
    BY <1>2, <2>2
  <2> QED
    BY <2>3, <2>4 DEF more
<1>12. OnlyTheLivingTell'
  BY <1>1, <1>10, <1>11 DEF LevelInv, OnlyTheLivingTell, n
<1> QED
  BY <1>9, <1>10, <1>11, <1>12 DEF LevelInv

\* What was posted runs on the main thread, and tells if who posted it lives.
LEMMA RunPostStep == ASSUME LevelInv, RunPost PROVE LevelInv'
<1> DEFINE n == calculator.number
           post == Head(posts)
           told == IF SaysVoice(post, n) THEN post.value ELSE heard.voice
           left == heard.untold - Amount(post, n)
<1>1. /\ posts # <<>> /\ posts' = Tail(posts) /\ calculator' = calculator
      /\ heard' = IF ~Tells(post) THEN heard
                  ELSE IF post.kind = "voice" THEN [heard EXCEPT !.voice = post.value, !.by = post.of]
                  ELSE [heard EXCEPT !.untold = @ - post.value, !.by = post.of]
  BY DEF RunPost
<1>2. /\ calculator \in [number : 0..MaxCalculators, alive : BOOLEAN, counter : 0..Period,
                       cache : Nat, voice : BOOLEAN]
      /\ n \in Nat /\ calculator.cache \in Nat /\ calculator.alive \in BOOLEAN
      /\ heard \in [untold : Nat, voice : BOOLEAN, spoke : BOOLEAN, by : Nat]
      /\ heard.untold \in Nat /\ posts \in Seq(Posts) /\ MaxQueue \in Nat /\ Len(posts) <= MaxQueue
      /\ \A i \in 1..Len(posts) : posts[i].of <= n
  BY FramesAssumption DEF LevelInv
<1>3. /\ posts' \in Seq(Posts) /\ Len(posts') = Len(posts) - 1 /\ Len(posts) \in Nat \ {0}
      /\ post \in Posts /\ \A i \in 1..Len(posts') : posts'[i] = posts[i + 1]
  BY <1>1, <1>2
<1>4. \A i \in 1..Len(posts') : posts'[i].of <= n
  <2>1. ASSUME NEW i \in 1..Len(posts') PROVE i + 1 \in 1..Len(posts)
    BY <1>3
  <2> QED
    BY <1>2, <1>3, <2>1
<1>5. CASE ~calculator.alive
  <2>1. heard' = heard /\ calculator' = calculator
    BY <1>1, <1>5 DEF Tells
  <2> HIDE DEF post, told, left
  <2>2. OnlyTheLivingTell'
    BY <1>5, <2>1 DEF LevelInv, OnlyTheLivingTell
  <2>3. ~calculator'.alive /\ calculator'.number = n /\ Len(posts') <= MaxQueue
    BY <1>2, <1>3, <1>5, <2>1
  <2> QED
    BY <1>2, <1>3, <1>4, <2>1, <2>2, <2>3 DEF LevelInv
<1>6. CASE calculator.alive
  <2>1. /\ ToldLater(posts, n, heard.untold, calculator.cache)
        /\ VoiceLater(posts, n, heard.voice, calculator.voice)
        /\ heard.by = n /\ heard.spoke = calculator.voice
    BY <1>6 DEF LevelInv, OnlyTheLivingTell
  <2>2. left \in Nat /\ ToldLater(posts', n, left, calculator.cache)
    BY <1>1, <1>2, <2>1, ToldRun
  <2>3. VoiceLater(posts', n, told, calculator.voice)
    BY <1>1, <1>2, <2>1, VoiceRun
  <2> HIDE DEF post
  <2>4. /\ heard' \in [untold : Nat, voice : BOOLEAN, spoke : BOOLEAN, by : Nat]
        /\ heard'.untold = left /\ heard'.voice = told /\ heard'.by = n
        /\ heard'.spoke = heard.spoke
    <3>1. CASE post.of # n
      <4>1. heard' = heard
        BY <1>1, <3>1 DEF Tells
      <4>2. left = heard.untold /\ told = heard.voice
        BY <1>2, <3>1 DEF Amount, SaysVoice
      <4> QED
        BY <1>2, <2>1, <4>1, <4>2
    <3>2. CASE post.of = n /\ post.kind = "voice"
      <4>1. heard' = [heard EXCEPT !.voice = post.value, !.by = n] /\ post.value \in BOOLEAN
        BY <1>1, <1>3, <1>6, <3>2 DEF Tells, Posts, LevelPosts, VoicePosts
      <4>2. left = heard.untold /\ told = post.value
        BY <1>2, <3>2 DEF Amount, SaysVoice
      <4> QED
        BY <1>2, <4>1, <4>2
    <3>3. CASE post.of = n /\ post.kind # "voice"
      <4>1. heard' = [heard EXCEPT !.untold = @ - post.value, !.by = n] /\ post.kind = "level"
        BY <1>1, <1>3, <1>6, <3>3 DEF Tells, Posts, LevelPosts, VoicePosts
      <4>2. left = heard.untold - post.value /\ told = heard.voice
        BY <3>3, <4>1 DEF Amount, SaysVoice
      <4> HIDE DEF left, told
      <4> QED
        BY <1>2, <2>2, <4>1, <4>2
    <3> QED
      BY <3>1, <3>2, <3>3
  <2> HIDE DEF left, told
  <2> QED
    BY <1>1, <1>2, <1>3, <1>4, <1>6, <2>1, <2>2, <2>3, <2>4 DEF LevelInv, OnlyTheLivingTell
<1> QED
  BY <1>2, <1>5, <1>6

\* A track comes with a calculator of its own, or goes.
LEMMA AudioComesStep == ASSUME LevelInv, AudioAdded \/ AudioRemoved PROVE LevelInv'
<1>1. /\ calculator \in [number : 0..MaxCalculators, alive : BOOLEAN, counter : 0..Period,
                       cache : Nat, voice : BOOLEAN]
      /\ heard \in [untold : Nat, voice : BOOLEAN, spoke : BOOLEAN, by : Nat]
      /\ posts \in Seq(Posts) /\ MaxCalculators \in Nat /\ Period \in Nat
      /\ \A i \in 1..Len(posts) : posts[i].of <= calculator.number
      /\ Len(posts) <= MaxQueue /\ calculator.number \in 0..MaxCalculators
  BY FramesAssumption DEF LevelInv
<1>2. CASE AudioAdded
  <2> DEFINE n == calculator.number + 1
  <2>1. /\ calculator.number < MaxCalculators /\ posts' = posts
        /\ calculator' = [number |-> n, alive |-> TRUE, counter |-> 0, cache |-> 0, voice |-> FALSE]
        /\ heard' = [untold |-> 0, voice |-> FALSE, spoke |-> FALSE, by |-> n]
    BY <1>2 DEF AudioAdded
  <2>2. n \in 0..MaxCalculators /\ n \in Nat /\ 0 \in 0..Period /\ calculator.number < n
    BY <1>1, <2>1
  <2>3. ASSUME NEW i \in 1..Len(posts) PROVE posts[i].of # n /\ posts[i].of <= n
    <3>1. posts[i] \in Posts /\ posts[i].of <= calculator.number
      BY <1>1
    <3>2. posts[i].of \in Nat
      BY <3>1 DEF Posts, LevelPosts, VoicePosts
    <3> QED
      BY <1>1, <3>1, <3>2
  <2> HIDE DEF n
  <2>4. ToldLater(posts, n, 0, 0)
    BY <1>1, <2>2, <2>3, ToldAll
  <2>5. VoiceLater(posts, n, FALSE, FALSE)
    BY <2>3 DEF VoiceLater, SaysVoice
  <2>6. /\ calculator' \in [number : 0..MaxCalculators, alive : BOOLEAN, counter : 0..Period,
                       cache : Nat, voice : BOOLEAN]
        /\ heard' \in [untold : Nat, voice : BOOLEAN, spoke : BOOLEAN, by : Nat]
    BY <2>1, <2>2
  <2>7. /\ calculator'.number = n /\ calculator'.alive = TRUE /\ calculator'.cache = 0
        /\ calculator'.voice = FALSE /\ heard'.untold = 0 /\ heard'.voice = FALSE
        /\ heard'.spoke = FALSE /\ heard'.by = n
    BY <2>1
  <2> QED
    BY <1>1, <2>1, <2>3, <2>4, <2>5, <2>6, <2>7 DEF LevelInv, OnlyTheLivingTell
<1>3. CASE AudioRemoved
  <2>1. /\ calculator' = [calculator EXCEPT !.alive = FALSE]
        /\ heard' = [heard EXCEPT !.by = 0] /\ posts' = posts
    BY <1>3 DEF AudioRemoved
  <2>2. /\ calculator' \in [number : 0..MaxCalculators, alive : BOOLEAN, counter : 0..Period,
                       cache : Nat, voice : BOOLEAN]
        /\ heard' \in [untold : Nat, voice : BOOLEAN, spoke : BOOLEAN, by : Nat]
        /\ ~calculator'.alive /\ calculator'.number = calculator.number /\ heard'.by = 0
    BY <1>1, <2>1
  <2> QED
    BY <1>1, <2>1, <2>2 DEF LevelInv, OnlyTheLivingTell
<1> QED
  BY <1>2, <1>3

\* The frames and the sound, each by itself.
FramesInv == FrameInv /\ LevelInv

\* FramesInv is inductive.
THEOREM FramesInvariant == FramesSpec => []FramesInv
<1>1. FramesInit => FramesInv
  <2> SUFFICES ASSUME FramesInit PROVE FramesInv
    OBVIOUS
  <2>1. /\ MaxQueue \in Nat /\ Period \in Nat /\ MaxCalculators \in Nat
    BY FramesAssumption
  <2>2. FrameInv
    <3>1. surfaces \in [Surfaces -> Sizes \cup {0}]
      BY DEF FramesInit
    <3>2. frames = <<>> /\ frames \in Seq(Sizes) /\ Len(frames) <= MaxQueue
      BY <2>1 DEF FramesInit
    <3> QED
      BY <3>1, <3>2 DEF FramesInit, FrameInv, PresentedFits
  <2>3. LevelInv
    <3>1. /\ calculator = [number |-> 0, alive |-> FALSE, counter |-> 0, cache |-> 0, voice |-> FALSE]
          /\ heard = [untold |-> 0, voice |-> FALSE, spoke |-> FALSE, by |-> 0] /\ posts = <<>>
      BY DEF FramesInit
    <3>2. posts \in Seq(Posts) /\ Len(posts) = 0
      BY <3>1
    <3>3. 0 \in 0..MaxCalculators /\ 0 \in 0..Period
      BY <2>1
    <3>4. calculator \in [number : 0..MaxCalculators, alive : BOOLEAN, counter : 0..Period,
                       cache : Nat, voice : BOOLEAN]
      BY <3>1, <3>3
    <3>5. heard \in [untold : Nat, voice : BOOLEAN, spoke : BOOLEAN, by : Nat]
      BY <3>1
    <3> QED
      BY <2>1, <3>1, <3>2, <3>4, <3>5 DEF LevelInv, OnlyTheLivingTell
  <2> QED
    BY <2>2, <2>3 DEF FramesInv
<1>2. FramesInv /\ [FramesNext]_framesVars => FramesInv'
  <2> SUFFICES ASSUME FrameInv, LevelInv, [FramesNext]_framesVars PROVE FrameInv' /\ LevelInv'
    BY DEF FramesInv
  <2>1. ASSUME UNCHANGED videoVars PROVE FrameInv'
    BY <2>1 DEF videoVars, FrameInv, PresentedFits
  <2>2. ASSUME UNCHANGED levelVars PROVE LevelInv'
    BY <2>2 DEF levelVars, LevelInv, OnlyTheLivingTell
  <2>3. CASE VideoNext
    <3>1. UNCHANGED levelVars
      BY <2>3 DEF VideoNext, SetSource, SetSurface, OnFrame, OnFrameUiThread, DestroyProvider,
         NewProvider
    <3> QED
      BY <2>2, <2>3, <3>1, VideoStep
  <2>4. CASE LevelNext
    <3>1. UNCHANGED videoVars
      BY <2>4 DEF LevelNext, OnData, RunPost, AudioAdded, AudioRemoved
    <3> QED
      BY <2>1, <2>4, <3>1, OnDataStep, RunPostStep, AudioComesStep DEF LevelNext
  <2>5. CASE UNCHANGED framesVars
    BY <2>1, <2>2, <2>5 DEF framesVars
  <2> QED
    BY <2>3, <2>4, <2>5 DEF FramesNext
<1> QED
  BY <1>1, <1>2, PTL DEF FramesSpec

\* A frame is shown in its format; of the sound nothing is told twice, lost or
\* told by a calculator that is gone.
THEOREM FramesSound == FramesSpec => []FramesAreSound
<1>1. FramesInv => FramesAreSound
  <2> SUFFICES ASSUME FramesInv PROVE FramesAreSound
    OBVIOUS
  <2>1. FrameInv /\ LevelInv
    BY DEF FramesInv
  <2>2. FramesTypeOK /\ PresentedFits /\ OnlyTheLivingTell
    BY <2>1 DEF FrameInv, LevelInv, FramesTypeOK
  <2>3. ASSUME calculator.alive, \A i \in DOMAIN posts : posts[i].of # calculator.number
        PROVE  heard.voice = heard.spoke /\ heard.untold = calculator.cache
    <3>1. posts \in Seq(Posts) /\ calculator.number \in Nat
      BY <2>1, FramesAssumption DEF LevelInv
    <3>2. \A i \in 1..Len(posts) : posts[i].of # calculator.number
      BY <2>3, <3>1
    <3>3. heard.untold = calculator.cache
      BY <2>1, <2>3, <3>1, <3>2, ToldAll DEF LevelInv
    <3>4. heard.voice = calculator.voice
      BY <2>1, <2>3, <3>2 DEF LevelInv, VoiceLater, SaysVoice
    <3> QED
      BY <2>1, <2>3, <3>3, <3>4 DEF LevelInv
  <2> QED
    BY <2>2, <2>3 DEF FramesAreSound, SoundIsTold
<1> QED
  BY <1>1, FramesInvariant, PTL

-----------------------------------------------------------------------------
(* Microphones and speakers.  The rows of a list are the devices that have  *)
(* a name, in the order in which the library counts them, so a row of a     *)
(* list that leaves none out is the index of its device; and what was       *)
(* chosen from such a list is a device, which the library does not replace  *)
(* by its default.                                                          *)

Entries(d) == [index : Nat, name : Kinds[d]]

Ascends(s) == \A i, j \in 1..Len(s) : i < j => s[i].index < s[j].index

OffersInv ==
    /\ \A d \in Directions : listed[d] \in Seq(Entries(d)) /\ Ascends(listed[d])
    /\ DOMAIN offered = Directions
    /\ \A d \in Directions : offered[d].devices = listed[d]
    /\ \A d \in Directions : listed[d] # <<>> => offered[d].available

ChoicesInv ==
    /\ DOMAIN module = Directions /\ DOMAIN choice = Directions
    /\ \A d \in Directions :
        /\ module[d] \in [device : Kinds[d] \cup {NoDevice}, runs : BOOLEAN]
        /\ choice[d] \in [device : Kinds[d] \cup {NoDevice}, true : BOOLEAN, failed : BOOLEAN]
        /\ choice[d].true => choice[d].device # NoDevice
    /\ ChosenIsUsed

PortsInv ==
    /\ DOMAIN ports = Directions
    /\ \A d \in Directions : ports[d] \in Seq(Kinds[d]) /\ IsInjective(ports[d])

DevicesInv == PortsInv /\ OffersInv /\ ChoicesInv /\ polling \in BOOLEAN

\* Of two numbers the larger one has the larger place.
LEMMA RankGrows ==
    ASSUME NEW S \in SUBSET Nat, IsFiniteSet(S), NEW i \in S, NEW k \in S, i < k
    PROVE  Rank(i, S) < Rank(k, S)
<1> DEFINE low == {j \in S : j <= i}
           high == {j \in S : j <= k}
<1>1. IsFiniteSet(high) /\ Cardinality(high) \in Nat
  BY FS_Subset, FS_CardinalityType
<1>2. low \in SUBSET high /\ k \in high /\ k \notin low
  <2>1. i \in Nat /\ k \in Nat /\ k <= k /\ ~(k <= i)
    OBVIOUS
  <2>2. ASSUME NEW j \in S, j <= i PROVE j <= k
    <3>1. j \in Nat
      OBVIOUS
    <3> QED
      BY <2>1, <2>2, <3>1
  <2> QED
    BY <2>1, <2>2
<1>3. IsFiniteSet(low) /\ Cardinality(low) \in Nat /\ Cardinality(low) <= Cardinality(high)
      /\ (Cardinality(high) = Cardinality(low) => high = low)
  BY <1>1, <1>2, FS_Subset, FS_CardinalityType
<1>4. Cardinality(low) # Cardinality(high)
  BY <1>2, <1>3
<1> HIDE DEF low, high
<1>5. Cardinality(low) < Cardinality(high)
  BY <1>1, <1>3, <1>4
<1> QED
  BY <1>5 DEF Rank, low, high

\* Every place among some numbers is that of one of them.
LEMMA RankHits ==
    ASSUME NEW S \in SUBSET Nat, IsFiniteSet(S), NEW row \in 1..Cardinality(S)
    PROVE  \E i \in S : Rank(i, S) = row
<1> DEFINE n == Cardinality(S)
<1>1. n \in Nat
  BY FS_CardinalityType
<1>2. ASSUME NEW i \in S PROVE Rank(i, S) \in 1..n
  <2> DEFINE low == {j \in S : j <= i}
  <2>1. IsFiniteSet(low) /\ Cardinality(low) \in Nat /\ Cardinality(low) <= n
    BY FS_Subset, FS_CardinalityType
  <2>2. Cardinality(low) # 0
    <3>1. i \in low
      OBVIOUS
    <3> QED
      BY <2>1, <3>1, FS_EmptySet
  <2> HIDE DEF low, n
  <2>3. Cardinality(low) \in 1..n
    BY <1>1, <2>1, <2>2
  <2> QED
    BY <2>3 DEF Rank, low
<1> SUFFICES ASSUME \A i \in S : Rank(i, S) # row PROVE FALSE
  OBVIOUS
<1> DEFINE others == (1..n) \ {row}
           f == [i \in S |-> Rank(i, S)]
<1>3. IsFiniteSet(others) /\ Cardinality(others) = n - 1
  <2>1. IsFiniteSet(1..n) /\ Cardinality(1..n) = n
    BY <1>1, FS_Interval
  <2> QED
    BY <1>1, <2>1, FS_RemoveElement, ZenonT(30)
<1>4. f \in [S -> others]
  BY <1>2
<1>5. Cardinality(others) < n
  <2> HIDE DEF n, others
  <2> QED
    BY <1>1, <1>3
<1> HIDE DEF others
<1>6. PICK i, k \in S : i # k /\ f[i] = f[k]
  <2> HIDE DEF f
  <2> QED
    BY <1>3, <1>4, <1>5, FS_PigeonHole
<1>7. Rank(i, S) = Rank(k, S) /\ Rank(i, S) \in Nat /\ i \in Nat /\ k \in Nat
  BY <1>1, <1>2, <1>6
<1>8. i < k \/ k < i
  BY <1>6, <1>7
<1>9. CASE i < k
  BY <1>7, <1>9, RankGrows
<1>10. CASE k < i
  BY <1>7, <1>10, RankGrows
<1> QED
  BY <1>8, <1>9, <1>10

\* The names are those of the devices that have one, in ascending order.
LEMMA NamesAscend ==
    ASSUME PortsInv, NEW d \in Directions, NEW unnamed
    PROVE  Names(d, unnamed) \in Seq(Entries(d)) /\ Ascends(Names(d, unnamed))
<1> DEFINE named == {i \in DOMAIN ports[d] : ports[d][i] \notin unnamed}
           n == Cardinality(named)
           at == [row \in 1..n |-> CHOOSE i \in named : Rank(i, named) = row]
           names == Names(d, unnamed)
<1>1. ports[d] \in Seq(Kinds[d]) /\ Len(ports[d]) \in Nat /\ DOMAIN ports[d] = 1..Len(ports[d])
  BY DEF PortsInv
<1>2. named \in SUBSET Nat /\ named \subseteq 1..Len(ports[d]) /\ IsFiniteSet(named) /\ n \in Nat
  <2>1. named \in SUBSET (1..Len(ports[d])) /\ IsFiniteSet(1..Len(ports[d]))
    BY <1>1, FS_Interval
  <2> QED
    BY <2>1, FS_Subset, FS_CardinalityType
<1> HIDE DEF named
<1>3. ASSUME NEW row \in 1..n
      PROVE  at[row] \in named /\ Rank(at[row], named) = row
  <2>1. \E i \in named : Rank(i, named) = row
    BY <1>2, RankHits
  <2> QED
    BY <2>1
<1>4. names = [row \in 1..n |-> [index |-> at[row], name |-> ports[d][at[row]]]]
  BY DEF Names, named
<1> HIDE DEF at, names
<1>5. ASSUME NEW row \in 1..n
      PROVE  /\ names[row] \in Entries(d) /\ names[row].index = at[row]
  <2>1. at[row] \in 1..Len(ports[d]) /\ at[row] \in Nat
    BY <1>2, <1>3
  <2>2. ports[d][at[row]] \in Kinds[d]
    BY <1>1, <2>1
  <2> QED
    BY <1>4, <2>1, <2>2 DEF Entries
<1>6. names \in Seq(Entries(d)) /\ Len(names) = n
  <2>1. DOMAIN names = 1..n /\ names = [row \in 1..n |-> names[row]]
    BY <1>4
  <2> HIDE DEF n
  <2> QED
    BY <1>2, <1>5, <2>1
<1>7. ASSUME NEW i \in 1..n, NEW j \in 1..n, i < j PROVE at[i] < at[j]
  <2>1. /\ at[i] \in named /\ at[j] \in named /\ at[i] \in Nat /\ at[j] \in Nat
        /\ Rank(at[i], named) = i /\ Rank(at[j], named) = j
    BY <1>2, <1>3
  <2>2. at[i] # at[j]
    BY <1>7, <2>1
  <2>3. ~(at[j] < at[i])
    <3> SUFFICES ASSUME at[j] < at[i] PROVE FALSE
      OBVIOUS
    <3>1. Rank(at[j], named) < Rank(at[i], named)
      BY <1>2, <2>1, RankGrows
    <3> QED
      BY <1>2, <1>7, <2>1, <3>1
  <2> QED
    BY <2>1, <2>2, <2>3
<1> QED
  BY <1>5, <1>6, <1>7 DEF Ascends, names

\* In a list that leaves no device out the row is the index.
LEMMA NamesOfAll ==
    ASSUME PortsInv, NEW d \in Directions, NEW i \in DOMAIN Names(d, {})
    PROVE  i \in DOMAIN ports[d] /\ Names(d, {})[i].name = ports[d][i]
<1> DEFINE n == Len(ports[d])
           named == {k \in DOMAIN ports[d] : ports[d][k] \notin {}}
<1>1. n \in Nat /\ DOMAIN ports[d] = 1..n
  BY DEF PortsInv
<1>2. named = 1..n /\ Cardinality(named) = n
  <2>1. named = DOMAIN ports[d]
    OBVIOUS
  <2>2. Cardinality(1..n) = n
    <3> HIDE DEF n
    <3> QED
      BY <1>1, FS_Interval
  <2> QED
    BY <1>1, <2>1, <2>2
<1>3. ASSUME NEW k \in 1..n PROVE Rank(k, 1..n) = k
  <2>1. {j \in 1..n : j <= k} = 1..k
    BY <1>1
  <2>2. Cardinality(1..k) = k
    BY <1>1, FS_Interval
  <2> QED
    BY <2>1, <2>2 DEF Rank
<1>4. ASSUME NEW row \in 1..n PROVE (CHOOSE k \in 1..n : Rank(k, 1..n) = row) = row
  BY <1>3
<1> DEFINE at == [row \in 1..Cardinality(named) |-> CHOOSE k \in named : Rank(k, named) = row]
<1>5. Names(d, {}) = [row \in DOMAIN at |-> [index |-> at[row], name |-> ports[d][at[row]]]]
  BY DEF Names
<1> HIDE DEF named
<1>6. DOMAIN at = 1..n /\ \A row \in 1..n : at[row] = row
  BY <1>2, <1>4
<1> HIDE DEF at
<1> QED
  BY <1>1, <1>5, <1>6

\* Nothing but the list and the models reads what was enumerated.
LEMMA UpdateStep == ASSUME DevicesInv, UpdateAudioDevices PROVE DevicesInv'
<1>1. PICK unnamed \in SUBSET (Microphones \cup Speakers) :
        /\ listed' = NamesFound(unnamed) /\ offered' = Refreshed(listed')
        /\ UNCHANGED <<ports, module, polling, choice>>
  BY DEF UpdateAudioDevices
<1>2. \A d \in Directions : listed'[d] \in Seq(Entries(d)) /\ Ascends(listed'[d])
  BY <1>1, NamesAscend DEF NamesFound, DevicesInv
<1>3. /\ DOMAIN offered' = Directions
      /\ \A d \in Directions : offered'[d] = IF listed'[d] = offered[d].devices THEN offered[d]
                                             ELSE [devices |-> listed'[d], available |-> TRUE]
  BY <1>1 DEF Refreshed
<1>4. OffersInv'
  <2>1. \A d \in Directions :
            offered'[d].devices = listed'[d] /\ (listed'[d] # <<>> => offered'[d].available)
    BY <1>3 DEF DevicesInv, OffersInv
  <2> QED
    BY <1>2, <1>3, <2>1 DEF OffersInv
<1> QED
  BY <1>1, <1>4 DEF DevicesInv, PortsInv, ChoicesInv, ChosenIsUsed

\* A device that is chosen from a list that was true is the one the library is
\* given.
LEMMA ActivateStep ==
    ASSUME DevicesInv, NEW d \in Directions, Activate(d)
    PROVE  /\ DevicesInv'
           /\ \A e \in Directions : module[e].runs /\ ~module'[e].runs => choice'[e].failed
<1>0. PICK i \in DOMAIN offered[d].devices : \E failing \in Possible(d, i) :
        /\ module' = [module EXCEPT ![d] = ModuleSet(d, i, failing)]
        /\ choice' = [choice EXCEPT ![d] =
                        [device |-> offered[d].devices[i].name,
                         true |-> offered[d].devices = Names(d, {}),
                         failed |-> choice[d].failed \/ failing # "none"]]
        /\ UNCHANGED <<ports, listed, offered, polling>>
  BY DEF Activate
<1>1. PICK failing \in Possible(d, i) :
        /\ module' = [module EXCEPT ![d] = ModuleSet(d, i, failing)]
        /\ choice' = [choice EXCEPT ![d] =
                        [device |-> offered[d].devices[i].name,
                         true |-> offered[d].devices = Names(d, {}),
                         failed |-> choice[d].failed \/ failing # "none"]]
        /\ UNCHANGED <<ports, listed, offered, polling>>
  BY <1>0
<1> DEFINE new == ModuleSet(d, i, failing)
           chosen == [device |-> offered[d].devices[i].name,
                      true |-> offered[d].devices = Names(d, {}),
                      failed |-> choice[d].failed \/ failing # "none"]
<1>2. PortsInv /\ OffersInv /\ ChoicesInv /\ polling \in BOOLEAN
  BY DEF DevicesInv
<1>3. offered[d].devices = listed[d] /\ listed[d] \in Seq(Entries(d)) /\ i \in 1..Len(listed[d])
  BY <1>2 DEF OffersInv
<1>4. listed[d][i] \in Entries(d)
  BY <1>3
<1>5. chosen.device \in Kinds[d] /\ chosen.device # NoDevice
  BY <1>3, <1>4, AudioDevicesAssumption DEF Entries, Kinds, Directions
<1>6. failing \in Steps /\ (failing \notin {"stop", "set"} => i \in DOMAIN ports[d])
  BY DEF Possible
<1>7. new \in [device : Kinds[d] \cup {NoDevice}, runs : BOOLEAN]
      /\ (failing = "none" => new.device = ports[d][i])
      /\ (module[d].runs /\ ~new.runs => failing # "none")
  <2>1. failing \notin {"stop", "set"} => ports[d][i] \in Kinds[d]
    BY <1>2, <1>6 DEF PortsInv
  <2>2. module[d] \in [device : Kinds[d] \cup {NoDevice}, runs : BOOLEAN]
    BY <1>2 DEF ChoicesInv
  <2> QED
    BY <2>1, <2>2 DEF ModuleSet
<1>8. chosen.true /\ failing = "none" => chosen.device = ports[d][i]
  BY <1>2, <1>3, NamesOfAll
<1> HIDE DEF new
<1>9. /\ DOMAIN module' = Directions /\ module'[d] = new
      /\ \A e \in Directions : e # d => module'[e] = module[e]
  BY <1>1, <1>2 DEF ChoicesInv, new
<1>10. /\ DOMAIN choice' = Directions /\ choice'[d] = chosen
       /\ \A e \in Directions : e # d => choice'[e] = choice[e]
  BY <1>1, <1>2 DEF ChoicesInv
<1>11. chosen \in [device : Kinds[d] \cup {NoDevice}, true : BOOLEAN, failed : BOOLEAN]
  BY <1>2, <1>5 DEF ChoicesInv
<1>12. /\ chosen.true => chosen.device # NoDevice
       /\ chosen.failed <=> choice[d].failed \/ failing # "none"
       /\ chosen.true /\ ~chosen.failed => new.device = chosen.device
  BY <1>2, <1>5, <1>7, <1>8 DEF ChoicesInv
<1> HIDE DEF chosen
<1>13. ChoicesInv'
  <2>1. ASSUME NEW e \in Directions
        PROVE  /\ module'[e] \in [device : Kinds[e] \cup {NoDevice}, runs : BOOLEAN]
               /\ choice'[e] \in [device : Kinds[e] \cup {NoDevice}, true : BOOLEAN, failed : BOOLEAN]
               /\ choice'[e].true => choice'[e].device # NoDevice
               /\ choice'[e].true /\ ~choice'[e].failed => module'[e].device = choice'[e].device
    <3>1. CASE e = d
      BY <1>7, <1>9, <1>10, <1>11, <1>12, <3>1
    <3>2. CASE e # d
      BY <1>2, <1>9, <1>10, <3>2 DEF ChoicesInv, ChosenIsUsed
    <3> QED
      BY <3>1, <3>2
  <2> QED
    BY <1>9, <1>10, <2>1 DEF ChoicesInv, ChosenIsUsed
<1>14. DevicesInv'
  BY <1>1, <1>2, <1>13 DEF DevicesInv, PortsInv, OffersInv
<1>15. ASSUME NEW e \in Directions, module[e].runs, ~module'[e].runs PROVE choice'[e].failed
  <2>1. e = d
    BY <1>9, <1>15
  <2> QED
    BY <1>7, <1>9, <1>10, <1>12, <1>15, <2>1
<1> QED
  BY <1>14, <1>15

\* The default is taken where nothing was chosen yet.
LEMMA StartsStep ==
    ASSUME DevicesInv, NEW d \in Directions, ModuleStarts(d)
    PROVE  DevicesInv' /\ \A e \in Directions : module[e].runs => module'[e].runs
<1> DEFINE new == [device |-> IF module[d].device = NoDevice THEN ports[d][1] ELSE module[d].device,
                   runs |-> TRUE]
<1>1. /\ ports[d] # <<>> /\ module' = [module EXCEPT ![d] = new]
      /\ UNCHANGED <<ports, listed, offered, polling, choice>>
  BY DEF ModuleStarts
<1>2. PortsInv /\ OffersInv /\ ChoicesInv /\ polling \in BOOLEAN
  BY DEF DevicesInv
<1>3. ports[d][1] \in Kinds[d]
  BY <1>1, <1>2 DEF PortsInv
<1>4. new \in [device : Kinds[d] \cup {NoDevice}, runs : BOOLEAN] /\ new.runs
      /\ (module[d].device # NoDevice => new.device = module[d].device)
  BY <1>2, <1>3 DEF ChoicesInv
<1> HIDE DEF new
<1>5. /\ DOMAIN module' = Directions /\ module'[d] = new
      /\ \A e \in Directions : e # d => module'[e] = module[e]
  BY <1>1, <1>2 DEF ChoicesInv
<1>6. ChoicesInv'
  <2>1. ASSUME NEW e \in Directions
        PROVE  /\ module'[e] \in [device : Kinds[e] \cup {NoDevice}, runs : BOOLEAN]
               /\ choice[e].true /\ ~choice[e].failed => module'[e].device = choice[e].device
    <3>1. CASE e = d
      BY <1>2, <1>4, <1>5, <3>1 DEF ChoicesInv, ChosenIsUsed
    <3>2. CASE e # d
      BY <1>2, <1>5, <3>2 DEF ChoicesInv, ChosenIsUsed
    <3> QED
      BY <3>1, <3>2
  <2> QED
    BY <1>1, <1>2, <1>5, <2>1 DEF ChoicesInv, ChosenIsUsed
<1> QED
  BY <1>1, <1>2, <1>4, <1>5, <1>6 DEF DevicesInv, PortsInv, OffersInv

\* A device more among others, each once.
LEMMA Inserted ==
    ASSUME NEW S, NEW s \in Seq(S), IsInjective(s), NEW x \in S, x \notin ToSet(s),
           NEW at \in 1..(Len(s) + 1)
    PROVE  InsertAt(s, at, x) \in Seq(S) /\ IsInjective(InsertAt(s, at, x))
<1> DEFINE t == InsertAt(s, at, x)
           n == Len(s)
           low == SubSeq(s, 1, at - 1)
           high == SubSeq(s, at, n)
<1>1. n \in Nat /\ at \in Nat /\ at >= 1 /\ at <= n + 1
  OBVIOUS
<1>2. /\ low \in Seq(S) /\ Len(low) = at - 1 /\ \A i \in 1..(at - 1) : low[i] = s[i]
  BY <1>1
<1>3. /\ high \in Seq(S) /\ Len(high) = n - at + 1
      /\ \A i \in 1..(n - at + 1) : high[i] = s[at + i - 1]
  BY <1>1
<1>4. t = low \o <<x>> \o high
  BY DEF InsertAt
<1> HIDE DEF t, low, high
<1> DEFINE head == low \o <<x>>
<1>5. /\ t \in Seq(S) /\ Len(t) = n + 1 /\ t[at] = x
      /\ \A i \in 1..(n + 1) : i < at => t[i] = s[i]
      /\ \A i \in 1..(n + 1) : i > at => t[i] = s[i - 1]
  <2> HIDE DEF n
  <2>1. /\ head \in Seq(S) /\ Len(head) = at /\ head[at] = x
        /\ \A i \in 1..(at - 1) : head[i] = low[i]
    BY <1>1, <1>2
  <2>2. t = head \o high
    BY <1>4
  <2> HIDE DEF head
  <2>3. /\ t \in Seq(S) /\ Len(t) = at + (n - at + 1)
        /\ \A i \in 1..at : t[i] = head[i]
        /\ \A i \in (at + 1)..(at + (n - at + 1)) : t[i] = high[i - at]
    <3>1. /\ head \o high \in Seq(S) /\ Len(head \o high) = Len(head) + Len(high)
          /\ \A i \in 1..(Len(head) + Len(high)) :
                (head \o high)[i] = IF i <= Len(head) THEN head[i] ELSE high[i - Len(head)]
      BY <1>3, <2>1, ConcatProperties, ZenonT(30)
    <3>2. /\ t \in Seq(S) /\ Len(t) = at + (n - at + 1)
          /\ \A i \in 1..(at + (n - at + 1)) : t[i] = IF i <= at THEN head[i] ELSE high[i - at]
      <4>1. Len(head) = at /\ Len(high) = n - at + 1
        BY <1>3, <2>1
      <4> QED
        BY <2>2, <3>1, <4>1
    <3> QED
      BY <1>1, <3>2
  <2>4. Len(t) = n + 1
    BY <1>1, <2>3
  <2>5. t[at] = x
    BY <1>1, <2>1, <2>3
  <2>6. ASSUME NEW i \in 1..(n + 1), i < at PROVE t[i] = s[i]
    <3>1. i \in 1..at /\ i \in 1..(at - 1)
      BY <1>1, <2>6
    <3> QED
      BY <1>2, <2>1, <2>3, <3>1
  <2>7. ASSUME NEW i \in 1..(n + 1), i > at PROVE t[i] = s[i - 1]
    <3>1. i \in (at + 1)..(at + (n - at + 1)) /\ i - at \in 1..(n - at + 1)
          /\ at + (i - at) - 1 = i - 1
      BY <1>1, <2>7
    <3> QED
      BY <1>3, <2>3, <3>1
  <2> QED
    BY <2>3, <2>4, <2>5, <2>6, <2>7
<1>6. \A i \in 1..n : s[i] # x
  BY DEF ToSet
<1>7. \A i, j \in 1..n : s[i] = s[j] => i = j
  BY DEF IsInjective
<1> HIDE DEF n
<1>8. ASSUME NEW i \in 1..(n + 1), NEW j \in 1..(n + 1), t[i] = t[j] PROVE i = j
  <2>1. i < at => i \in 1..n
    BY <1>1
  <2>2. j < at => j \in 1..n
    BY <1>1
  <2>3. i > at => i - 1 \in 1..n
    BY <1>1
  <2>4. j > at => j - 1 \in 1..n
    BY <1>1
  <2> QED
    BY <1>1, <1>5, <1>6, <1>7, <1>8, <2>1, <2>2, <2>3, <2>4
<1> QED
  BY <1>5, <1>8 DEF IsInjective, t

\* One device less among others.
LEMMA Removed ==
    ASSUME NEW S, NEW s \in Seq(S), IsInjective(s), NEW at \in 1..Len(s)
    PROVE  RemoveAt(s, at) \in Seq(S) /\ IsInjective(RemoveAt(s, at))
<1> DEFINE t == RemoveAt(s, at)
           n == Len(s)
           low == SubSeq(s, 1, at - 1)
           high == SubSeq(s, at + 1, n)
<1>1. n \in Nat /\ at \in Nat /\ at >= 1 /\ at <= n
  OBVIOUS
<1>2. /\ low \in Seq(S) /\ Len(low) = at - 1 /\ \A i \in 1..(at - 1) : low[i] = s[i]
  BY <1>1
<1>3. /\ high \in Seq(S) /\ Len(high) = n - at
      /\ \A i \in 1..(n - at) : high[i] = s[at + i]
  BY <1>1
<1>4. t = low \o high
  BY DEF RemoveAt
<1> HIDE DEF t, low, high
<1>5. /\ t \in Seq(S) /\ Len(t) = n - 1
      /\ \A i \in 1..(n - 1) : i < at => t[i] = s[i]
      /\ \A i \in 1..(n - 1) : i >= at => t[i] = s[i + 1]
  <2> HIDE DEF n
  <2>1. /\ t \in Seq(S) /\ Len(t) = (at - 1) + (n - at)
        /\ \A i \in 1..(at - 1) : t[i] = low[i]
        /\ \A i \in at..((at - 1) + (n - at)) : t[i] = high[i - (at - 1)]
    <3>1. /\ low \o high \in Seq(S) /\ Len(low \o high) = Len(low) + Len(high)
          /\ \A i \in 1..(Len(low) + Len(high)) :
                (low \o high)[i] = IF i <= Len(low) THEN low[i] ELSE high[i - Len(low)]
      BY <1>2, <1>3, ConcatProperties, ZenonT(30)
    <3>2. /\ t \in Seq(S) /\ Len(t) = (at - 1) + (n - at)
          /\ \A i \in 1..((at - 1) + (n - at)) :
                t[i] = IF i <= at - 1 THEN low[i] ELSE high[i - (at - 1)]
      <4>1. Len(low) = at - 1 /\ Len(high) = n - at
        BY <1>2, <1>3
      <4> QED
        BY <1>4, <3>1, <4>1
    <3> QED
      BY <1>1, <3>2
  <2>2. Len(t) = n - 1
    BY <1>1, <2>1
  <2>3. ASSUME NEW i \in 1..(n - 1), i < at PROVE t[i] = s[i]
    <3>1. i \in 1..(at - 1)
      BY <1>1, <2>3
    <3> QED
      BY <1>2, <2>1, <3>1
  <2>4. ASSUME NEW i \in 1..(n - 1), i >= at PROVE t[i] = s[i + 1]
    <3>1. i \in at..((at - 1) + (n - at)) /\ i - (at - 1) \in 1..(n - at)
          /\ at + (i - (at - 1)) = i + 1
      BY <1>1, <2>4
    <3> QED
      BY <1>3, <2>1, <3>1
  <2> QED
    BY <2>1, <2>2, <2>3, <2>4
<1>6. \A i, j \in 1..n : s[i] = s[j] => i = j
  BY DEF IsInjective
<1> HIDE DEF n
<1>7. ASSUME NEW i \in 1..(n - 1), NEW j \in 1..(n - 1), t[i] = t[j] PROVE i = j
  <2>1. i \in 1..n /\ i + 1 \in 1..n /\ j \in 1..n /\ j + 1 \in 1..n
    BY <1>1
  <2> QED
    BY <1>1, <1>5, <1>6, <1>7, <2>1
<1> QED
  BY <1>5, <1>7 DEF IsInjective, t

\* Devices come and go without anybody being told.
LEMMA PlugStep ==
    ASSUME DevicesInv, NEW d \in Directions, PlugIn(d) \/ Unplug(d)
    PROVE  DevicesInv' /\ module' = module
<1>1. PortsInv /\ OffersInv /\ ChoicesInv /\ polling \in BOOLEAN
  BY DEF DevicesInv
<1>2. UNCHANGED <<listed, offered, module, polling, choice>>
  BY DEF PlugIn, Unplug
<1>3. ports[d] \in Seq(Kinds[d]) /\ IsInjective(ports[d]) /\ DOMAIN ports = Directions
  BY <1>1 DEF PortsInv
<1>4. \E t \in Seq(Kinds[d]) : IsInjective(t) /\ ports' = [ports EXCEPT ![d] = t]
  <2>1. CASE PlugIn(d)
    <3>1. PICK x \in Kinds[d] \ ToSet(ports[d]), at \in 1..(Len(ports[d]) + 1) :
            ports' = [ports EXCEPT ![d] = InsertAt(ports[d], at, x)]
      BY <2>1 DEF PlugIn
    <3> QED
      BY <1>3, <3>1, Inserted
  <2>2. CASE Unplug(d)
    <3>1. PICK at \in DOMAIN ports[d] : ports' = [ports EXCEPT ![d] = RemoveAt(ports[d], at)]
      BY <2>2 DEF Unplug
    <3>2. at \in 1..Len(ports[d])
      BY <1>3
    <3> QED
      BY <1>3, <3>1, <3>2, Removed
  <2> QED
    BY <2>1, <2>2
<1>5. PortsInv'
  BY <1>1, <1>4 DEF PortsInv
<1> QED
  BY <1>1, <1>2, <1>5 DEF DevicesInv, OffersInv, ChoicesInv, ChosenIsUsed

\* A sound that runs ends only where a call failed.
GoesOn == \A d \in Directions : module[d].runs /\ ~module'[d].runs => choice'[d].failed

\* Every step of the devices and of those who choose them.
LEMMA DevicesStep == ASSUME DevicesInv, [DevicesNext]_devicesVars PROVE DevicesInv' /\ GoesOn
<1>1. CASE UNCHANGED devicesVars
  BY <1>1 DEF devicesVars, DevicesInv, PortsInv, OffersInv, ChoicesInv, ChosenIsUsed, GoesOn
<1>2. CASE Tick
  BY <1>2, UpdateStep DEF Tick, UpdateAudioDevices, GoesOn
<1>3. CASE EnablePolling
  BY <1>3 DEF EnablePolling, DevicesInv, PortsInv, OffersInv, ChoicesInv, ChosenIsUsed, GoesOn
<1>4. ASSUME NEW d \in Directions, Activate(d) PROVE DevicesInv' /\ GoesOn
  BY <1>4, ActivateStep DEF GoesOn
<1>5. ASSUME NEW d \in Directions, ModuleStarts(d) PROVE DevicesInv' /\ GoesOn
  BY <1>5, StartsStep DEF GoesOn
<1>6. ASSUME NEW d \in Directions, PlugIn(d) \/ Unplug(d) PROVE DevicesInv' /\ GoesOn
  BY <1>6, PlugStep DEF GoesOn
<1> QED
  BY <1>1, <1>2, <1>3, <1>4, <1>5, <1>6 DEF DevicesNext

\* The constructor enumerates; nothing is chosen.
LEMMA DevicesStart == DevicesInit => DevicesInv
<1> SUFFICES ASSUME DevicesInit PROVE DevicesInv
  OBVIOUS
<1>1. PortsInv
  <2>1. DOMAIN ports = Directions
    BY DEF DevicesInit
  <2>2. ASSUME NEW d \in Directions PROVE ports[d] \in Seq(Kinds[d]) /\ IsInjective(ports[d])
    <3>1. ports[d] \in Orders(Kinds[d]) /\ IsFiniteSet(Kinds[d])
      BY AudioDevicesAssumption DEF DevicesInit, Kinds
    <3>2. PICK n \in 0..Cardinality(Kinds[d]) : ports[d] \in Injection(1..n, Kinds[d])
      BY <3>1 DEF Orders
    <3>3. n \in Nat
      BY <3>1, FS_CardinalityType
    <3> QED
      BY <3>2, <3>3 DEF Injection, IsInjective
  <2> QED
    BY <2>1, <2>2 DEF PortsInv
<1>2. \A d \in Directions : listed[d] \in Seq(Entries(d)) /\ Ascends(listed[d])
  BY <1>1, NamesAscend DEF DevicesInit, NamesFound
<1>3. /\ DOMAIN offered = Directions
      /\ \A d \in Directions : offered[d] = [devices |-> listed[d], available |-> listed[d] # <<>>]
  BY DEF DevicesInit
<1>4. OffersInv
  <2>1. ASSUME NEW d \in Directions
        PROVE  offered[d].devices = listed[d] /\ (listed[d] # <<>> => offered[d].available)
    <3>1. offered[d] = [devices |-> listed[d], available |-> listed[d] # <<>>]
      BY <1>3
    <3> DEFINE some == listed[d] # <<>>
    <3>2. offered[d].devices = listed[d] /\ offered[d].available = some
      BY <3>1
    <3> QED
      BY <3>2, Zenon
  <2> QED
    BY <1>2, <1>3, <2>1 DEF OffersInv
<1>5. ChoicesInv
  BY DEF DevicesInit, ChoicesInv, ChosenIsUsed, NoChoice
<1> QED
  BY <1>1, <1>4, <1>5 DEF DevicesInit, DevicesInv

\* What the invariant says of what is offered and what is used.
LEMMA DevicesKeep == DevicesInv => DevicesAreSound
<1> SUFFICES ASSUME DevicesInv PROVE DevicesAreSound
  OBVIOUS
<1>1. DevicesTypeOK /\ ChosenIsUsed
  BY DEF DevicesInv, PortsInv, ChoicesInv, DevicesTypeOK
<1>2. ASSUME NEW d \in Directions
      PROVE  /\ offered[d].devices = listed[d]
             /\ offered[d].devices # <<>> => offered[d].available
             /\ \A i, j \in DOMAIN listed[d] : i < j => listed[d][i].index < listed[d][j].index
  BY DEF DevicesInv, OffersInv, Ascends
<1> QED
  BY <1>1, <1>2 DEF RowsCanBeRead, DevicesAreSound

\* The rows that are offered are those of the last enumeration, and who chose a
\* device from a list that was true uses it, however many devices come and go.
THEOREM DevicesSound == DevicesSpec => []DevicesAreSound
<1>1. DevicesInv /\ [DevicesNext]_devicesVars => DevicesInv'
  BY DevicesStep
<1> QED
  BY <1>1, DevicesStart, DevicesKeep, PTL DEF DevicesSpec

\* Choosing another device stops no sound, unless a call of the library failed.
THEOREM SoundKept == DevicesSpec => SoundGoesOn
<1>1. DevicesInv /\ [DevicesNext]_devicesVars => DevicesInv'
  BY DevicesStep
<1>2. DevicesInv /\ [DevicesNext]_devicesVars => [GoesOn]_devicesVars
  BY DevicesStep
<1> QED
  BY <1>1, <1>2, DevicesStart, PTL DEF DevicesSpec, SoundGoesOn, GoesOn

=============================================================================
