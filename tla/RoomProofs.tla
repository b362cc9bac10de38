----------------------------- MODULE RoomProofs -----------------------------
(***************************************************************************)
(* What a member hears, sees and believes of a room, proved for any number *)
(* of others: the tracks obey what was asked for, a microphone test is     *)
(* heard by nobody else; the wall has the videos of the room and shows     *)
(* what is in focus; the members, states and messages are those of the     *)
(* log, and the last change of a user is heard.  And what the signals that *)
(* connect all of it do when threads connect, disconnect and emit at once. *)
(***************************************************************************)
EXTENDS MCRoom, FiniteSetTheorems, SequenceTheorems, TLAPS

-----------------------------------------------------------------------------
(* What a user hears.  TestIsPrivate needs what a test remembers: it left   *)
(* the user deaf, and did so itself exactly if the user did not ask to be.  *)

TestRemembers ==
    /\ loop = "off" => ~didDeafen
    /\ ~clicked => IF loop = "off" THEN deaf = wishDeaf
                   ELSE deaf /\ didDeafen = ~wishDeaf

AudioInv == AudioTypeOK /\ TracksObey /\ TestRemembers

\* The flags, one by one.
LEMMA AudioFlags ==
    ASSUME AudioTypeOK
    PROVE  /\ inRoom \in BOOLEAN /\ deaf \in BOOLEAN /\ mutedSelf \in BOOLEAN
           /\ ownTrack \in BOOLEAN /\ shownDeaf \in BOOLEAN /\ didDeafen \in BOOLEAN
           /\ wishDeaf \in BOOLEAN /\ clicked \in BOOLEAN /\ broken \in BOOLEAN
BY DEF AudioTypeOK

\* What Updates does to the tracks: those of ps obey, the others are as before.
LEMMA UpdatesLemma ==
    ASSUME AudioTypeOK, TracksObey, NEW ps, NEW d \in BOOLEAN,
           NEW st \in [Others -> [muted : BOOLEAN, volume : Volumes]],
           Updates(ps, st, d),
           \A p \in tracks \ ps : st[p] = settings[p] /\ d = deaf
    PROVE  /\ enabled' \in [Others -> BOOLEAN] /\ volume' \in [Others -> Volumes]
           /\ UNCHANGED tracks /\ untouched' \subseteq tracks
           /\ \A p \in tracks \ untouched' :
                 /\ enabled'[p] <=> ~d /\ ~st[p].muted
                 /\ enabled'[p] => volume'[p] = st[p].volume
<1> DEFINE on(p) == ~d /\ ~st[p].muted
           of == ps \cap here \cap tracks
<1>1. /\ enabled' = [p \in Others |-> IF p \in of THEN on(p) ELSE enabled[p]]
      /\ volume' = [p \in Others |-> IF p \in of /\ on(p) THEN st[p].volume ELSE volume[p]]
      /\ untouched' = untouched \ of /\ UNCHANGED tracks
  BY DEF Updates
<1>2. /\ enabled \in [Others -> BOOLEAN] /\ volume \in [Others -> Volumes]
      /\ tracks \subseteq here /\ here \subseteq Others /\ untouched \subseteq tracks
  BY DEF AudioTypeOK
<1>3. \A p \in Others : on(p) \in BOOLEAN /\ st[p].volume \in Volumes
  OBVIOUS
<1> HIDE DEF on
<1>4. enabled' \in [Others -> BOOLEAN]
  <2>1. \A p \in Others : (IF p \in of THEN on(p) ELSE enabled[p]) \in BOOLEAN
    BY <1>2, <1>3
  <2> QED
    BY <1>1, <2>1
<1>5. volume' \in [Others -> Volumes]
  <2>1. \A p \in Others :
           (IF p \in of /\ on(p) THEN st[p].volume ELSE volume[p]) \in Volumes
    BY <1>2, <1>3
  <2> QED
    BY <1>1, <2>1
<1>6. ASSUME NEW p \in tracks, p \notin untouched'
      PROVE  /\ enabled'[p] <=> on(p)
             /\ enabled'[p] => volume'[p] = st[p].volume
  <2>1. p \in Others /\ p \in here
    BY <1>2
  <2>2. CASE p \in of
    <3>1. enabled'[p] = on(p) /\ (on(p) => volume'[p] = st[p].volume)
      BY <1>1, <2>1, <2>2
    <3> QED
      BY <3>1
  <2>3. CASE p \notin of
    <3>1. p \notin untouched /\ p \in tracks \ ps
      BY <1>1, <1>6, <2>1, <2>3
    <3>2. enabled'[p] = enabled[p] /\ volume'[p] = volume[p]
      BY <1>1, <2>1, <2>3
    <3>3. /\ enabled[p] <=> ~deaf /\ ~settings[p].muted
          /\ enabled[p] => volume[p] = settings[p].volume
      BY <3>1 DEF TracksObey
    <3>4. st[p] = settings[p] /\ d = deaf
      BY <3>1
    <3> QED
      BY <3>2, <3>3, <3>4 DEF on
  <2> QED
    BY <2>2, <2>3
<1> QED
  BY <1>1, <1>2, <1>4, <1>5, <1>6 DEF on

\* Deafening, or its opposite, makes every track obey.
LEMMA DeafenLemma ==
    ASSUME AudioTypeOK, TracksObey, NEW d \in BOOLEAN, Deafen(d),
           UNCHANGED <<here, settings>>
    PROVE  /\ deaf' = d /\ UNCHANGED <<mutedSelf, tracks>> /\ untouched' \subseteq tracks
           /\ enabled' \in [Others -> BOOLEAN] /\ volume' \in [Others -> Volumes]
           /\ ownTrack' \in BOOLEAN
           /\ TracksObey'
<1>1. deaf' = d /\ UNCHANGED mutedSelf
  BY DEF Deafen
<1>2. /\ enabled \in [Others -> BOOLEAN] /\ volume \in [Others -> Volumes]
      /\ untouched \subseteq tracks /\ tracks \subseteq Others
      /\ settings \in [Others -> [muted : BOOLEAN, volume : Volumes]]
      /\ ownTrack \in BOOLEAN /\ mutedSelf \in BOOLEAN
  BY DEF AudioTypeOK
<1>3. CASE d = deaf
  <2>1. UNCHANGED <<trackVars, ownTrack>>
    BY <1>3 DEF Deafen
  <2>2. TracksObey'
    BY <1>1, <1>3, <2>1 DEF TracksObey, trackVars
  <2> QED
    BY <1>1, <1>2, <2>1, <2>2 DEF trackVars
<1>4. CASE d # deaf
  <2>1. Updates(Others, settings, d) /\ ownTrack' = (~mutedSelf /\ ~d)
    BY <1>4 DEF Deafen, UpdateSelfMuted
  <2>2. /\ enabled' \in [Others -> BOOLEAN] /\ volume' \in [Others -> Volumes]
        /\ UNCHANGED tracks /\ untouched' \subseteq tracks
        /\ \A p \in tracks \ untouched' :
              /\ enabled'[p] <=> ~d /\ ~settings[p].muted
              /\ enabled'[p] => volume'[p] = settings[p].volume
    BY <1>2, <2>1, UpdatesLemma, SMTT(30)
  <2>3. ownTrack' \in BOOLEAN
    BY <2>1
  <2>4. TracksObey'
    BY <1>1, <2>1, <2>2 DEF TracksObey
  <2> QED
    BY <1>1, <2>2, <2>3, <2>4
<1> QED
  BY <1>3, <1>4

\* Muting oneself.
LEMMA SetMutedStep == ASSUME AudioInv, SetMuted PROVE AudioInv'
<1> USE DEF roomVars, trackVars, loopVars
<1>1. /\ mutedSelf' = ~mutedSelf /\ ownTrack' = (mutedSelf /\ ~deaf)
      /\ UNCHANGED <<roomVars, trackVars, loopVars, deaf, shownDeaf, didDeafen,
                     wishDeaf, clicked>>
  BY AudioFlags DEF SetMuted, UpdateSelfMuted, AudioInv
<1>2. mutedSelf' \in BOOLEAN /\ ownTrack' \in BOOLEAN
  BY <1>1
<1>3. AudioTypeOK'
  BY <1>1, <1>2 DEF AudioInv, AudioTypeOK
<1>4. TracksObey'
  BY <1>1 DEF AudioInv, TracksObey
<1>5. TestRemembers'
  BY <1>1 DEF AudioInv, TestRemembers
<1> QED
  BY <1>3, <1>4, <1>5 DEF AudioInv

\* Deafening oneself: during a test the user has clicked, else it is as asked.
LEMMA SetDeafedStep == ASSUME AudioInv, SetDeafed PROVE AudioInv'
<1>1. /\ AudioTypeOK /\ TracksObey
      /\ shownDeaf' = ~shownDeaf /\ wishDeaf' = ~shownDeaf /\ clicked' = (loop # "off")
      /\ Deafen(~shownDeaf) /\ UNCHANGED <<roomVars, loopVars, didDeafen>>
  BY DEF AudioInv, SetDeafed
<1> USE DEF roomVars, loopVars
<1>2. (~shownDeaf) \in BOOLEAN /\ clicked' \in BOOLEAN
  BY <1>1
<1>3. /\ deaf' = ~shownDeaf /\ UNCHANGED <<mutedSelf, tracks>> /\ untouched' \subseteq tracks
      /\ enabled' \in [Others -> BOOLEAN] /\ volume' \in [Others -> Volumes]
      /\ ownTrack' \in BOOLEAN
      /\ TracksObey'
  BY <1>1, <1>2, DeafenLemma
<1>4. AudioTypeOK'
  BY <1>1, <1>2, <1>3 DEF AudioTypeOK
<1>5. TestRemembers'
  BY <1>1, <1>3 DEF AudioInv, TestRemembers
<1> QED
  BY <1>3, <1>4, <1>5 DEF AudioInv

\* Muting a participant, or setting their volume.
LEMMA SetParticipantStep == ASSUME AudioInv, SetParticipant PROVE AudioInv'
<1>1. AudioTypeOK /\ TracksObey
  BY DEF AudioInv
<1>2. PICK p \in here, b \in BOOLEAN, v \in Volumes :
         /\ settings' \in {[settings EXCEPT ![p].muted = b], [settings EXCEPT ![p].volume = v]}
         /\ Updates({p}, settings', deaf)
         /\ UNCHANGED <<inRoom, here, ownVars, loopVars, deaf, shownDeaf, didDeafen,
                        wishDeaf, clicked>>
  BY DEF SetParticipant
<1> USE DEF ownVars, loopVars
<1>3. /\ settings' \in [Others -> [muted : BOOLEAN, volume : Volumes]]
      /\ \A q \in Others \ {p} : settings'[q] = settings[q]
  <2> DEFINE one == [settings[p] EXCEPT !.muted = b]
             two == [settings[p] EXCEPT !.volume = v]
  <2>1. p \in Others /\ settings \in [Others -> [muted : BOOLEAN, volume : Volumes]]
    BY <1>1 DEF AudioTypeOK
  <2>2. one \in [muted : BOOLEAN, volume : Volumes] /\ two \in [muted : BOOLEAN, volume : Volumes]
    BY <2>1
  <2>3. settings' = [settings EXCEPT ![p] = one] \/ settings' = [settings EXCEPT ![p] = two]
    BY <1>2, <2>1
  <2> HIDE DEF one, two
  <2> QED
    BY <2>1, <2>2, <2>3
<1>4. deaf \in BOOLEAN /\ tracks \subseteq Others
  BY <1>1 DEF AudioTypeOK
<1>5. \A q \in tracks \ {p} : settings'[q] = settings[q] /\ deaf = deaf
  BY <1>3, <1>4
<1>6. /\ enabled' \in [Others -> BOOLEAN] /\ volume' \in [Others -> Volumes]
      /\ UNCHANGED tracks /\ untouched' \subseteq tracks
      /\ \A q \in tracks \ untouched' :
            /\ enabled'[q] <=> ~deaf /\ ~settings'[q].muted
            /\ enabled'[q] => volume'[q] = settings'[q].volume
  <2>1. Updates({p}, settings', deaf)
    BY <1>2
  <2> QED
    BY <1>1, <1>3, <1>4, <1>5, <2>1, UpdatesLemma, SMTT(30)
<1>7. AudioTypeOK'
  BY <1>1, <1>2, <1>3, <1>6 DEF AudioTypeOK
<1>8. TracksObey'
  BY <1>1, <1>2, <1>6 DEF TracksObey
<1>9. TestRemembers'
  BY <1>2 DEF AudioInv, TestRemembers
<1> QED
  BY <1>7, <1>8, <1>9 DEF AudioInv

\* The room and its participants come and go, and so do their tracks: those of
\* ps are forgotten, one may come that nothing was applied to.
LEMMA AudioRoomStep ==
    ASSUME AudioInv,
           EnterRoom \/ ExitRoom \/ ParticipantComes \/ ParticipantGoes
             \/ AudioTrack \/ AudioTrackRemoved
    PROVE  AudioInv'
<1>1. /\ UNCHANGED <<settings, ownVars, loopVars, deaf, shownDeaf, didDeafen, wishDeaf, clicked>>
      /\ inRoom' \in BOOLEAN
  BY AudioFlags DEF AudioInv, EnterRoom, ExitRoom, ParticipantComes, ParticipantGoes, AudioTrack,
     AudioTrackRemoved, roomVars
<1>2. /\ here' \subseteq Others /\ tracks' \subseteq here' /\ untouched' \subseteq tracks'
      /\ enabled' \in [Others -> BOOLEAN] /\ volume' \in [Others -> Volumes]
      /\ \A p \in tracks' \ untouched' :
            p \in tracks \ untouched /\ enabled'[p] = enabled[p] /\ volume'[p] = volume[p]
  <2>1. /\ here \subseteq Others /\ tracks \subseteq here /\ untouched \subseteq tracks
        /\ enabled \in [Others -> BOOLEAN] /\ volume \in [Others -> Volumes]
    BY DEF AudioInv, AudioTypeOK
  <2>2. CASE EnterRoom
    BY <2>1, <2>2 DEF EnterRoom, trackVars
  <2>3. CASE ExitRoom
    BY <2>1, <2>3 DEF ExitRoom, ForgetTracks
  <2>4. CASE ParticipantComes
    BY <2>1, <2>4 DEF ParticipantComes, trackVars
  <2>5. CASE ParticipantGoes
    BY <2>1, <2>5 DEF ParticipantGoes, ForgetTracks
  <2>6. CASE AudioTrack
    <3>1. PICK p \in here \ tracks :
            /\ tracks' = tracks \cup {p} /\ untouched' = untouched \cup {p}
            /\ enabled' = [enabled EXCEPT ![p] = TRUE]
            /\ volume' = [volume EXCEPT ![p] = FullVolume] /\ UNCHANGED here
      BY <2>6 DEF AudioTrack, roomVars
    <3>2. enabled' \in [Others -> BOOLEAN] /\ volume' \in [Others -> Volumes]
      BY <2>1, <3>1, AudioAssumption
    <3>3. \A q \in Others \ {p} : enabled'[q] = enabled[q] /\ volume'[q] = volume[q]
      BY <2>1, <3>1
    <3> QED
      BY <2>1, <3>1, <3>2, <3>3
  <2>7. CASE AudioTrackRemoved
    BY <2>1, <2>7 DEF AudioTrackRemoved, ForgetTracks, roomVars
  <2> QED
    BY <2>2, <2>3, <2>4, <2>5, <2>6, <2>7
<1> USE DEF ownVars, loopVars
<1>3. AudioTypeOK'
  BY <1>1, <1>2 DEF AudioInv, AudioTypeOK
<1>4. TracksObey'
  BY <1>1, <1>2 DEF AudioInv, TracksObey
<1>5. TestRemembers'
  BY <1>1 DEF AudioInv, TestRemembers
<1> QED
  BY <1>3, <1>4, <1>5 DEF AudioInv

\* A test begins: nobody hears the user, who will hear again what they asked to.
LEMMA StartTestStep == ASSUME AudioInv, StartTest PROVE AudioInv'
<1>1. /\ AudioTypeOK /\ TracksObey /\ TestRemembers
      /\ loop = "off" /\ loop' = "made" /\ submitted' = 1 /\ UNCHANGED <<orphans, broken>>
      /\ Deafen(TRUE) /\ didDeafen' = (didDeafen \/ ~deaf)
      /\ clicked' = (clicked /\ deaf # wishDeaf) /\ UNCHANGED <<roomVars, shownDeaf, wishDeaf>>
  BY DEF AudioInv, StartTest, EnableLoopback
<1> USE DEF roomVars
<1>2. /\ deaf' = TRUE /\ UNCHANGED <<mutedSelf, tracks>> /\ untouched' \subseteq tracks
      /\ enabled' \in [Others -> BOOLEAN] /\ volume' \in [Others -> Volumes]
      /\ ownTrack' \in BOOLEAN
      /\ TracksObey'
  BY <1>1, DeafenLemma
<1>3. submitted' \in 0..MaxHandlers
  BY <1>1, AudioAssumption
<1>4. didDeafen' \in BOOLEAN /\ clicked' \in BOOLEAN
  BY <1>1
<1>5. AudioTypeOK'
  BY <1>1, <1>2, <1>3, <1>4 DEF AudioTypeOK
<1>6. TestRemembers'
  <2>1. deaf \in BOOLEAN /\ wishDeaf \in BOOLEAN /\ didDeafen \in BOOLEAN /\ clicked \in BOOLEAN
    BY <1>1, AudioFlags
  <2> QED
    BY <1>1, <1>2, <2>1 DEF TestRemembers
<1> QED
  BY <1>2, <1>5, <1>6 DEF AudioInv

\* It ends: the user is as deaf as before, or as they asked.
LEMMA StopTestStep == ASSUME AudioInv, StopTest PROVE AudioInv'
<1>1. /\ AudioTypeOK /\ TracksObey /\ TestRemembers
      /\ loop # "off" /\ orphans + submitted <= MaxHandlers
      /\ loop' = "off" /\ submitted' = 0 /\ orphans' = orphans + submitted /\ UNCHANGED broken
      /\ Deafen(deaf /\ ~didDeafen) /\ didDeafen' = FALSE
      /\ UNCHANGED <<roomVars, shownDeaf, wishDeaf, clicked>>
  BY DEF AudioInv, StopTest, DisableLoopback
<1> USE DEF roomVars
<1>2. /\ deaf' = (deaf /\ ~didDeafen) /\ UNCHANGED <<mutedSelf, tracks>>
      /\ untouched' \subseteq tracks
      /\ enabled' \in [Others -> BOOLEAN] /\ volume' \in [Others -> Volumes]
      /\ ownTrack' \in BOOLEAN
      /\ TracksObey'
  BY <1>1, DeafenLemma
<1>3. submitted' \in 0..MaxHandlers /\ orphans' \in 0..MaxHandlers
  BY <1>1, AudioAssumption DEF AudioTypeOK
<1>4. AudioTypeOK'
  BY <1>1, <1>2, <1>3 DEF AudioTypeOK
<1>5. TestRemembers'
  <2>1. deaf \in BOOLEAN /\ wishDeaf \in BOOLEAN /\ didDeafen \in BOOLEAN /\ clicked \in BOOLEAN
    BY <1>1, AudioFlags
  <2> QED
    BY <1>1, <1>2, <2>1 DEF TestRemembers
<1> QED
  BY <1>2, <1>4, <1>5 DEF AudioInv

\* What the loopback does by itself leaves the tracks and the flags alone.
LEMMA LoopbackStep ==
    ASSUME AudioInv, RunSubmitted \/ RunOrphan \/ IceCandidate \/ LoopbackTrack
    PROVE  AudioInv'
<1>1. /\ UNCHANGED <<roomVars, trackVars, ownVars, deaf, shownDeaf, didDeafen, wishDeaf, clicked>>
      /\ loop' # loop => loop # "off" /\ loop' \in {"negotiating", "up"}
  BY DEF RunSubmitted, RunOrphan, IceCandidate, LoopbackTrack
<1>2. /\ submitted' \in 0..MaxHandlers /\ orphans' \in 0..MaxHandlers /\ broken' \in BOOLEAN
      /\ loop' \in {"off", "made", "negotiating", "up"}
  BY <1>1, AudioAssumption
     DEF AudioInv, AudioTypeOK, RunSubmitted, RunOrphan, IceCandidate, LoopbackTrack
<1> USE DEF roomVars, trackVars, ownVars
<1>3. AudioTypeOK'
  BY <1>1, <1>2 DEF AudioInv, AudioTypeOK
<1>4. TracksObey'
  BY <1>1 DEF AudioInv, TracksObey
<1>5. TestRemembers'
  BY <1>1 DEF AudioInv, TestRemembers
<1> QED
  BY <1>3, <1>4, <1>5 DEF AudioInv

\* AudioInv is inductive.
THEOREM AudioInvariant == AudioSpec => []AudioInv
<1>1. AudioInit => AudioInv
  <2> SUFFICES ASSUME AudioInit PROVE AudioInv
    OBVIOUS
  <2>1. /\ enabled \in [Others -> BOOLEAN] /\ volume \in [Others -> Volumes]
        /\ settings \in [Others -> [muted : BOOLEAN, volume : Volumes]]
    BY AudioAssumption DEF AudioInit
  <2>2. /\ loop \in {"off", "made", "negotiating", "up"}
        /\ submitted \in 0..MaxHandlers /\ orphans \in 0..MaxHandlers
    BY AudioAssumption DEF AudioInit
  <2>3. AudioTypeOK
    BY <2>1, <2>2 DEF AudioInit, AudioTypeOK
  <2> QED
    BY <2>3 DEF AudioInit, AudioInv, TracksObey, TestRemembers
<1>2. AudioInv /\ [AudioNext]_audioVars => AudioInv'
  <2> SUFFICES ASSUME AudioInv, [AudioNext]_audioVars PROVE AudioInv'
    OBVIOUS
  <2>1. CASE UNCHANGED audioVars
    BY <2>1 DEF audioVars, roomVars, trackVars, ownVars, loopVars, AudioInv, AudioTypeOK, TracksObey,
       TestRemembers
  <2> QED
    BY <2>1, SetMutedStep, SetDeafedStep, SetParticipantStep, AudioRoomStep, StartTestStep,
       StopTestStep, LoopbackStep DEF AudioNext
<1> QED
  BY <1>1, <1>2, PTL DEF AudioSpec

\* What is heard is what was asked for, and a microphone test is private.
THEOREM AudioIsObedient == AudioSpec => []AudioObeys
<1>1. AudioInv => AudioObeys
  <2> SUFFICES ASSUME AudioInv PROVE TestIsPrivate
    BY DEF AudioInv, AudioObeys
  <2>1. deaf \in BOOLEAN /\ wishDeaf \in BOOLEAN /\ didDeafen \in BOOLEAN /\ clicked \in BOOLEAN
    BY AudioFlags DEF AudioInv
  <2> QED
    BY <2>1 DEF AudioInv, TestIsPrivate, TestRemembers, TracksObey
<1> QED
  BY <1>1, AudioInvariant, PTL

-----------------------------------------------------------------------------
(* What a user sees.  The handlers are functions of the user interface's    *)
(* state, so the lemmas are about what each makes of a state s.  Between     *)
(* two of them visible may still be wrong: Fits is what holds then, Shown is *)
(* what the layout makes of it.                                              *)

WallStates == [
    inRoom : BOOLEAN,
    members : SUBSET (People \cup {Bot}),
    sends : [People -> SUBSET Pictures],
    rows : SUBSET People,
    video : [People -> Pictures \cup {Nobody}],
    followed : SUBSET People,
    wall : SUBSET People,
    available : BOOLEAN,
    layout : {"grid", "enlarged", "full"},
    focused : People \cup {Nobody},
    visible : SUBSET People,
    sized : BOOLEAN,
    broken : BOOLEAN]

\* Nothing is visible that is not on the wall, and the focus is on the wall.
Fits(s) == s.visible \subseteq s.wall /\ (s.layout # "grid" => s.focused \in s.wall)

Shown(s) ==
    s.sized /\ s.wall # {} =>
        s.visible = IF s.layout = "full" /\ Cardinality(s.wall) > 1
                    THEN {s.focused} ELSE s.wall

\* The rows of a room are its members, and the wall shows whom it follows.
\* Without a room nothing is shown at all.
Consistent(s) ==
    /\ s.inRoom => s.rows = s.members \ {Bot}
    /\ ~s.inRoom => s.rows = {}
    /\ s.followed \subseteq s.rows
    /\ \A p \in People : s.video[p] \in s.sends[p] \cup {Nobody}
    /\ \A p \in People : p \notin s.rows => s.video[p] = Nobody

OnWall(s) == s.wall = {p \in s.followed : s.video[p] # Nobody}

\* What the wall and the layout leave alone, and the layout alone.
Rest(s, t) ==
    /\ t.inRoom = s.inRoom /\ t.members = s.members /\ t.sends = s.sends
    /\ t.rows = s.rows /\ t.video = s.video /\ t.followed = s.followed
    /\ t.sized = s.sized /\ t.broken = s.broken

SameButVisible(s, t) ==
    /\ Rest(s, t)
    /\ t.layout = s.layout /\ t.focused = s.focused
    /\ t.wall = s.wall /\ t.available = s.available

\* The layout decides what is visible and nothing else.
LEMMA RecalculateLemma ==
    ASSUME NEW s \in WallStates, Fits(s), NEW t, t = Recalculate(s)
    PROVE  t \in WallStates /\ Fits(t) /\ Shown(t) /\ SameButVisible(s, t)
<1>1. CASE ~s.sized \/ s.wall = {}
  BY <1>1 DEF Recalculate, Shown, SameButVisible, Rest, WallStates
<1>2. CASE s.sized /\ s.wall # {}
  <2> DEFINE v == IF s.layout = "full" /\ Cardinality(s.wall) > 1 THEN {s.focused} ELSE s.wall
  <2>1. v \subseteq s.wall
    BY DEF Fits
  <2>2. s.wall \in SUBSET People
    BY DEF WallStates
  <2>3. v \in SUBSET People
    BY <2>1, <2>2
  <2>4. t = [s EXCEPT !.visible = v]
    BY <1>2 DEF Recalculate
  <2>5. Shown(t)
    BY <2>4 DEF Shown, WallStates
  <2> HIDE DEF v
  <2>6. t \in WallStates /\ Fits(t) /\ SameButVisible(s, t)
    BY <2>1, <2>3, <2>4 DEF Fits, SameButVisible, Rest, WallStates
  <2> QED
    BY <2>5, <2>6
<1> QED
  BY <1>1, <1>2

\* A change of the layout, to the grid or with the focus on the wall.
LEMMA SetLayoutLemma ==
    ASSUME NEW s \in WallStates, Fits(s), NEW l \in {"grid", "enlarged", "full"},
           l # "grid" => s.focused \in s.wall, NEW t, t = SetLayout(s, l)
    PROVE  /\ t \in WallStates /\ Fits(t) /\ (l # s.layout => Shown(t))
           /\ Rest(s, t) /\ t.layout = l
           /\ t.focused = s.focused /\ t.wall = s.wall /\ t.available = s.available
<1>1. CASE l = s.layout
  BY <1>1 DEF SetLayout, Rest, WallStates
<1>2. CASE l # s.layout
  <2> DEFINE r == [s EXCEPT !.layout = l]
  <2>1. r \in WallStates /\ Fits(r)
    BY DEF Fits, WallStates
  <2>2. t = Recalculate(r)
    BY <1>2 DEF SetLayout
  <2>3. t \in WallStates /\ Fits(t) /\ Shown(t) /\ SameButVisible(r, t)
    BY <2>1, <2>2, RecalculateLemma
  <2>4. /\ Rest(s, t) /\ t.layout = l
        /\ t.focused = s.focused /\ t.wall = s.wall /\ t.available = s.available
    BY <2>3 DEF SameButVisible, Rest, WallStates
  <2> QED
    BY <1>2, <2>3, <2>4
<1> QED
  BY <1>1, <1>2

\* An item that has left the wall leaves the layout, with the focus on it or not.
LEMMA ItemGoesLemma ==
    ASSUME NEW s \in WallStates, NEW p \in People, p \notin s.wall,
           s.visible \subseteq s.wall \cup {p},
           s.layout # "grid" => s.focused \in s.wall \cup {p},
           NEW t, t = ItemGoes(s, p)
    PROVE  /\ t \in WallStates /\ Fits(t) /\ Shown(t) /\ Rest(s, t)
           /\ t.wall = s.wall /\ t.available = s.available
<1> DEFINE gone == [s EXCEPT !.visible = @ \ {p}]
<1> DEFINE left == IF s.focused = p THEN [SetLayout(gone, "grid") EXCEPT !.focused = Nobody] ELSE gone
<1>0. t = Recalculate(left)
  BY DEF ItemGoes
<1>1. gone \in WallStates /\ gone.visible \subseteq s.wall
  BY DEF WallStates
<1>2. /\ left \in WallStates /\ Fits(left) /\ Rest(s, left)
      /\ left.wall = s.wall /\ left.available = s.available
  <2>1. CASE s.focused = p
    <3> DEFINE g == SetLayout(gone, "grid")
    <3>1. /\ g \in WallStates
          /\ g.visible \subseteq g.wall
          /\ Rest(s, g) /\ g.layout = "grid"
          /\ g.wall = s.wall /\ g.available = s.available
      <4>1. CASE s.layout = "grid"
        BY <1>1, <4>1 DEF SetLayout, Rest, WallStates
      <4>2. CASE s.layout # "grid"
        <5> DEFINE r == [gone EXCEPT !.layout = "grid"]
        <5>1. r \in WallStates /\ Fits(r)
          BY <1>1 DEF Fits, WallStates
        <5>2. g = Recalculate(r)
          BY <4>2 DEF SetLayout, WallStates
        <5> HIDE DEF g
        <5>3. g \in WallStates /\ Fits(g) /\ SameButVisible(r, g)
          BY <5>1, <5>2, RecalculateLemma
        <5>4. Rest(s, g) /\ g.layout = "grid" /\ g.wall = s.wall /\ g.available = s.available
          BY <1>1, <5>3 DEF SameButVisible, Rest, WallStates
        <5> QED
          BY <5>3, <5>4 DEF Fits
      <4> QED
        BY <4>1, <4>2
    <3> HIDE DEF g
    <3>2. left = [g EXCEPT !.focused = Nobody]
      BY <2>1 DEF g
    <3> HIDE DEF left
    <3>3. left \in WallStates
      BY <3>1, <3>2 DEF WallStates
    <3> QED
      BY <3>1, <3>2, <3>3 DEF Fits, Rest, WallStates
  <2>2. CASE s.focused # p
    BY <1>1, <2>2 DEF Fits, Rest, WallStates
  <2> QED
    BY <2>1, <2>2
<1> HIDE DEF left
<1>3. t \in WallStates /\ Fits(t) /\ Shown(t) /\ SameButVisible(left, t)
  BY <1>0, <1>2, RecalculateLemma
<1>4. Rest(s, t) /\ t.wall = s.wall /\ t.available = s.available
  BY <1>2, <1>3 DEF Rest, SameButVisible
<1> QED
  BY <1>3, <1>4

\* A picture comes to the wall, with nothing of the wall wrong before.
LEMMA AddToWallLemma ==
    ASSUME NEW s \in WallStates, NEW p \in People, Fits(s), Shown(s),
           s.available <=> s.wall # {}, NEW t, t = AddToWall(s, p)
    PROVE  /\ t \in WallStates /\ Fits(t) /\ Shown(t) /\ Rest(s, t)
           /\ t.wall = s.wall \cup {p} /\ (t.available <=> t.wall # {})
<1>1. CASE p \in s.wall
  <2>1. t = s
    BY <1>1 DEF AddToWall
  <2>2. s.wall = s.wall \cup {p}
    BY <1>1
  <2> QED
    BY <2>1, <2>2 DEF Rest
<1>2. CASE p \notin s.wall
  <2> DEFINE more == [s EXCEPT !.wall = @ \cup {p}, !.visible = @ \cup {p}]
             r == Recalculate(more)
  <2>1. /\ more \in WallStates /\ Fits(more) /\ Rest(s, more)
        /\ more.wall = s.wall \cup {p}
    BY DEF Fits, Rest, WallStates
  <2>2. t = RecalculateAvailable(r)
    BY <1>2 DEF AddToWall
  <2> HIDE DEF more
  <2>3. r \in WallStates /\ Fits(r) /\ Shown(r) /\ SameButVisible(more, r)
    BY <2>1, RecalculateLemma
  <2> HIDE DEF r
  <2>4. /\ t \in WallStates /\ Fits(t) /\ Shown(t) /\ Rest(r, t)
        /\ t.wall = r.wall /\ (t.available <=> t.wall # {})
    BY <2>2, <2>3 DEF RecalculateAvailable, Fits, Shown, Rest, WallStates
  <2> QED
    BY <2>1, <2>3, <2>4 DEF Rest, SameButVisible
<1> QED
  BY <1>1, <1>2

\* A picture leaves the wall.
LEMMA RemoveFromWallLemma ==
    ASSUME NEW s \in WallStates, NEW p \in People, Fits(s), Shown(s),
           s.available <=> s.wall # {}, NEW t, t = RemoveFromWall(s, p)
    PROVE  /\ t \in WallStates /\ Fits(t) /\ Shown(t) /\ Rest(s, t)
           /\ t.wall = s.wall \ {p} /\ (t.available <=> t.wall # {})
<1>1. CASE p \notin s.wall
  <2>1. t = s
    BY <1>1 DEF RemoveFromWall
  <2>2. s.wall = s.wall \ {p}
    BY <1>1
  <2> QED
    BY <2>1, <2>2 DEF Rest
<1>2. CASE p \in s.wall
  <2> DEFINE less == [s EXCEPT !.wall = @ \ {p}]
             r == ItemGoes(less, p)
  <2>1. /\ less \in WallStates /\ Rest(s, less)
        /\ less.wall = s.wall \ {p}
        /\ less.visible \subseteq less.wall \cup {p}
        /\ less.layout # "grid" => less.focused \in less.wall \cup {p}
    BY DEF Fits, Rest, WallStates
  <2>2. t = RecalculateAvailable(r)
    BY <1>2 DEF RemoveFromWall
  <2> HIDE DEF less
  <2>3. /\ r \in WallStates /\ Fits(r) /\ Shown(r) /\ Rest(less, r)
        /\ r.wall = less.wall
    BY <2>1, ItemGoesLemma
  <2> HIDE DEF r
  <2>4. /\ t \in WallStates /\ Fits(t) /\ Shown(t) /\ Rest(r, t)
        /\ t.wall = r.wall /\ (t.available <=> t.wall # {})
    BY <2>2, <2>3 DEF RecalculateAvailable, Fits, Shown, Rest, WallStates
  <2> QED
    BY <2>1, <2>3, <2>4 DEF Rest
<1> QED
  BY <1>1, <1>2

\* The parts of a state that the wall answers for, before it has heard of p.
Heard(s) == Fits(s) /\ Shown(s) /\ (s.available <=> s.wall # {})
OnWallBut(s, p) == s.wall \ {p} = {q \in s.followed : s.video[q] # Nobody} \ {p}

\* The wall of a state, all of it.
WallGood(s) == s \in WallStates /\ Heard(s) /\ Consistent(s) /\ OnWall(s)

\* A row whose picture changed is put on the wall or taken off it.
LEMMA VideoChangedLemma ==
    ASSUME NEW s \in WallStates, NEW p \in People, Heard(s), Consistent(s),
           OnWallBut(s, p), p \notin s.followed => p \notin s.wall,
           NEW t, t = VideoChanged(s, p)
    PROVE  WallGood(t) /\ t.broken = s.broken
<1>1. CASE p \notin s.followed
  <2>1. t = s
    BY <1>1 DEF VideoChanged
  <2>2. OnWall(s)
    BY <1>1 DEF OnWall, OnWallBut
  <2> QED
    BY <2>1, <2>2 DEF WallGood
<1>2. CASE p \in s.followed /\ s.video[p] # Nobody
  <2>1. t = AddToWall(s, p)
    BY <1>2 DEF VideoChanged
  <2>2. t \in WallStates /\ Heard(t) /\ Rest(s, t) /\ t.wall = s.wall \cup {p}
    BY <2>1, AddToWallLemma DEF Heard
  <2>3. OnWall(t)
    BY <1>2, <2>2 DEF OnWall, OnWallBut, Rest
  <2> QED
    BY <2>2, <2>3 DEF WallGood, Consistent, Rest
<1>3. CASE p \in s.followed /\ s.video[p] = Nobody
  <2>1. t = RemoveFromWall(s, p)
    BY <1>3 DEF VideoChanged
  <2>2. t \in WallStates /\ Heard(t) /\ Rest(s, t) /\ t.wall = s.wall \ {p}
    BY <2>1, RemoveFromWallLemma DEF Heard
  <2>3. OnWall(t)
    BY <1>3, <2>2 DEF OnWall, OnWallBut, Rest
  <2> QED
    BY <2>2, <2>3 DEF WallGood, Consistent, Rest
<1> QED
  BY <1>1, <1>2, <1>3

\* Somebody joins.
LEMMA JoinsStep ==
    ASSUME WallGood(w), NEW p \in People \cup {Bot}, Joins(p) PROVE WallGood(w')
<1> DEFINE s == [w EXCEPT !.members = @ \cup {p}]
<1>1. w \in WallStates /\ Heard(w) /\ Consistent(w) /\ OnWall(w) /\ p \notin w.members
  BY DEF WallGood, Joins
<1>2. s \in WallStates
  BY <1>1 DEF WallStates
<1>3. CASE ~w.inRoom \/ p = Bot
  <2>1. w' = s
    BY <1>3 DEF Joins, Shows
  <2> QED
    BY <1>1, <1>2, <1>3, <2>1
       DEF WallGood, Heard, Fits, Shown, Consistent, OnWall, WallStates
<1>4. CASE w.inRoom /\ p # Bot
  <2>1. PICK x \in FirstVideos(s, p) : w' = Insert(s, p, x)
    BY <1>4 DEF Joins, Shows
  <2>2. p \in People /\ x \in Pictures \cup {Nobody} /\ x \in s.sends[p] \cup {Nobody}
    BY <1>2, <1>4, <2>1 DEF FirstVideos, WallStates
  <2> DEFINE r == [s EXCEPT !.rows = @ \cup {p}, !.video[p] = x, !.followed = @ \cup {p}]
             v == [w.video EXCEPT ![p] = x]
  <2>3. /\ v \in [People -> Pictures \cup {Nobody}] /\ v[p] = x
        /\ \A q \in People : q # p => v[q] = w.video[q]
    BY <1>1, <2>2 DEF WallStates
  <2> HIDE DEF v
  <2>4. /\ r.inRoom = w.inRoom /\ r.members = w.members \cup {p} /\ r.sends = w.sends
        /\ r.rows = w.rows \cup {p} /\ r.video = v /\ r.followed = w.followed \cup {p}
        /\ r.wall = w.wall /\ r.available = w.available /\ r.layout = w.layout
        /\ r.focused = w.focused /\ r.visible = w.visible /\ r.sized = w.sized
        /\ r.broken = w.broken
    BY <1>1, <2>2 DEF v, WallStates
  <2>5. r \in WallStates
    BY <1>1, <2>2, <2>3, <2>4 DEF WallStates, v
  <2> HIDE DEF r
  <2>6. p \notin w.rows /\ p \notin w.followed /\ p \notin w.wall
    BY <1>1, <1>4, <2>2 DEF Consistent, OnWall
  <2>7. Heard(r) /\ OnWallBut(r, p)
    BY <1>1, <2>2, <2>3, <2>4, <2>6 DEF Heard, Fits, Shown, OnWall, OnWallBut, Consistent, WallStates
  <2>8. Consistent(r)
    <3>1. r.inRoom => r.rows = r.members \ {Bot}
      BY <1>1, <1>4, <2>4 DEF Consistent
    <3>2. \A q \in People : r.video[q] \in r.sends[q] \cup {Nobody}
      BY <1>1, <2>2, <2>3, <2>4 DEF Consistent
    <3> QED
      BY <1>1, <1>4, <2>3, <2>4, <3>1, <3>2 DEF Consistent
  <2>9. CASE x = Nobody
    <3>1. w' = r
      BY <2>1, <2>9 DEF Insert, r
    <3>2. OnWall(r)
      BY <2>2, <2>3, <2>4, <2>6, <2>7, <2>9 DEF OnWall, OnWallBut
    <3> QED
      BY <2>5, <2>7, <2>8, <3>1, <3>2 DEF WallGood
  <2>10. CASE x # Nobody
    <3>1. w' = AddToWall(r, p)
      BY <2>1, <2>10 DEF Insert, r
    <3>2. w' = VideoChanged(r, p)
      BY <2>3, <2>4, <2>10, <3>1 DEF VideoChanged
    <3> QED
      BY <2>2, <2>4, <2>5, <2>7, <2>8, <3>2, VideoChangedLemma
  <2> QED
    BY <2>9, <2>10
<1> QED
  BY <1>3, <1>4

\* Somebody leaves.
LEMMA LeavesStep ==
    ASSUME WallGood(w), NEW p \in People \cup {Bot}, Leaves(p) PROVE WallGood(w')
<1> DEFINE se == [q \in People |-> IF q = p /\ p # Own THEN {} ELSE w.sends[q]]
           s == [w EXCEPT !.members = @ \ {p},
                          !.sends = [q \in People |-> IF q = p /\ p # Own THEN {} ELSE @[q]]]
<1>1. w \in WallStates /\ Heard(w) /\ Consistent(w) /\ OnWall(w) /\ p \in w.members
  BY DEF WallGood, Leaves
<1>2. /\ se \in [People -> SUBSET Pictures]
      /\ \A q \in People : q # p => se[q] = w.sends[q]
  BY <1>1 DEF WallStates
<1>3. s = [w EXCEPT !.members = @ \ {p}, !.sends = se]
  OBVIOUS
<1> HIDE DEF se, s
<1>4. s \in WallStates
  BY <1>1, <1>2, <1>3 DEF WallStates
<1>5. /\ s.inRoom = w.inRoom /\ s.members = w.members \ {p} /\ s.sends = se
      /\ s.rows = w.rows /\ s.video = w.video /\ s.followed = w.followed
      /\ s.wall = w.wall /\ s.available = w.available /\ s.layout = w.layout
      /\ s.focused = w.focused /\ s.visible = w.visible /\ s.sized = w.sized
  BY <1>1, <1>3 DEF WallStates
<1>6. Heard(s) /\ OnWall(s)
  BY <1>1, <1>5 DEF Heard, Fits, Shown, OnWall
<1>7. CASE p \notin w.rows
  <2>1. w' = s
    BY <1>7 DEF Leaves, Shows, s
  <2>2. \A q \in People : s.video[q] \in s.sends[q] \cup {Nobody}
    BY <1>1, <1>2, <1>5, <1>7 DEF Consistent
  <2>3. Consistent(s)
    BY <1>1, <1>5, <1>7, <2>2 DEF Consistent
  <2> QED
    BY <1>4, <1>6, <2>1, <2>3 DEF WallGood
<1>8. CASE p \in w.rows
  <2>1. w' = TakeOut(s, p)
    BY <1>8 DEF Leaves, Shows, s
  <2>2. p \in People
    BY <1>1, <1>8 DEF WallStates
  <2> DEFINE r == RemoveFromWall(s, p)
             v == [r.video EXCEPT ![p] = Nobody]
  <2>3. r \in WallStates /\ Heard(r) /\ Rest(s, r) /\ r.wall = s.wall \ {p}
    BY <1>4, <1>6, <2>2, RemoveFromWallLemma DEF Heard
  <2>4. w' = [r EXCEPT !.rows = @ \ {p}, !.followed = @ \ {p}, !.video = v]
    BY <2>1, <2>3 DEF TakeOut, WallStates
  <2> HIDE DEF r
  <2>5. /\ v \in [People -> Pictures \cup {Nobody}] /\ v[p] = Nobody
        /\ \A q \in People : q # p => v[q] = r.video[q]
    BY <2>2, <2>3 DEF WallStates
  <2> HIDE DEF v
  <2>6. w' \in WallStates
    BY <2>3, <2>4, <2>5 DEF WallStates
  <2>7. /\ w'.inRoom = w.inRoom /\ w'.members = w.members \ {p} /\ w'.sends = se
        /\ w'.rows = w.rows \ {p} /\ w'.video = v /\ w'.followed = w.followed \ {p}
        /\ w'.wall = w.wall \ {p} /\ w'.available = r.available /\ w'.layout = r.layout
        /\ w'.focused = r.focused /\ w'.visible = r.visible /\ w'.sized = r.sized
    BY <1>5, <2>3, <2>4 DEF Rest, WallStates
  <2>8. Heard(w')
    BY <1>5, <2>3, <2>7 DEF Heard, Fits, Shown
  <2>9. \A q \in People : q # p => v[q] = w.video[q]
    BY <1>5, <2>3, <2>5 DEF Rest
  <2>10. OnWall(w')
    BY <1>1, <2>5, <2>7, <2>9 DEF OnWall, Consistent, WallStates
  <2>11. \A q \in People : v[q] \in se[q] \cup {Nobody}
    BY <1>1, <1>2, <2>5, <2>9 DEF Consistent
  <2>12. \A q \in People : q \notin w.rows \ {p} => v[q] = Nobody
    BY <1>1, <2>5, <2>9 DEF Consistent
  <2>13. w.inRoom
    BY <1>1, <1>8 DEF Consistent, WallStates
  <2>14. Consistent(w')
    BY <1>1, <2>7, <2>11, <2>12, <2>13 DEF Consistent
  <2> QED
    BY <2>6, <2>8, <2>10, <2>14 DEF WallGood
<1> QED
  BY <1>7, <1>8

\* The user enters a room, whose rows nothing follows yet.
LEMMA RoomSetStep == ASSUME WallGood(w), RoomSet PROVE WallGood(w')
<1> DEFINE there == w.members \ {Bot}
<1>1. /\ w \in WallStates /\ Heard(w) /\ Consistent(w) /\ OnWall(w) /\ ~w.inRoom
  BY DEF WallGood, RoomSet
<1>2. PICK first \in [there -> Pictures \cup {Nobody}] :
        /\ \A p \in there : first[p] \in FirstVideos(w, p)
        /\ w' = [w EXCEPT !.inRoom = TRUE, !.rows = there,
                    !.video = [p \in People |-> IF p \in there THEN first[p] ELSE Nobody]]
  BY DEF RoomSet, Shows
<1> DEFINE v == [p \in People |-> IF p \in there THEN first[p] ELSE Nobody]
<1>3. there \subseteq People
  BY <1>1 DEF WallStates
<1>4. v \in [People -> Pictures \cup {Nobody}]
  BY <1>2
<1>5. \A p \in People : p \notin there => v[p] = Nobody
  OBVIOUS
<1>6. \A p \in People : v[p] \in w.sends[p] \cup {Nobody}
  BY <1>1, <1>2 DEF FirstVideos, WallStates
<1>7. w' = [w EXCEPT !.inRoom = TRUE, !.rows = there, !.video = v]
  BY <1>2
<1> HIDE DEF v
<1>8. w' \in WallStates
  BY <1>1, <1>3, <1>4, <1>7 DEF WallStates
<1>9. /\ w'.inRoom /\ w'.members = w.members /\ w'.sends = w.sends
      /\ w'.rows = there /\ w'.video = v /\ w'.followed = {}
      /\ w'.wall = {} /\ w'.available = w.available /\ w'.layout = w.layout
      /\ w'.focused = w.focused /\ w'.visible = w.visible /\ w'.sized = w.sized
  BY <1>1, <1>7 DEF Consistent, OnWall, WallStates
<1>10. w.wall = {}
  BY <1>1 DEF Consistent, OnWall
<1> QED
  BY <1>1, <1>5, <1>6, <1>8, <1>9, <1>10
     DEF WallGood, Heard, Fits, Shown, OnWall, Consistent

\* The user leaves the room.
LEMMA RoomLeftStep == ASSUME WallGood(w), RoomLeft PROVE WallGood(w')
<1> DEFINE se == [[p \in People |-> {}] EXCEPT ![Own] = w.sends[Own]]
<1>1. w \in WallStates /\ w' = [Empty EXCEPT !.sends[Own] = w.sends[Own], !.sized = w.sized]
  BY DEF WallGood, RoomLeft, Shows
<1>2. se \in [People -> SUBSET Pictures]
  BY <1>1 DEF WallStates, People
<1>3. /\ w'.inRoom = FALSE /\ w'.members = {} /\ w'.sends = se /\ w'.rows = {}
      /\ w'.video = [p \in People |-> Nobody] /\ w'.followed = {} /\ w'.wall = {}
      /\ w'.available = FALSE /\ w'.layout = "grid" /\ w'.focused = Nobody
      /\ w'.visible = {} /\ w'.sized = w.sized /\ w'.broken = FALSE
  BY <1>1 DEF Empty
<1>4. w' = [Empty EXCEPT !.sends = se, !.sized = w.sized]
  BY <1>1 DEF Empty
<1> HIDE DEF se
<1>5. w' \in WallStates
  <2>1. [p \in People |-> Nobody] \in [People -> Pictures \cup {Nobody}]
    OBVIOUS
  <2>2. w.sized \in BOOLEAN
    BY <1>1 DEF WallStates
  <2>3. w' = [
          inRoom |-> FALSE, members |-> {}, sends |-> se, rows |-> {},
          video |-> [p \in People |-> Nobody], followed |-> {}, wall |-> {},
          available |-> FALSE, layout |-> "grid", focused |-> Nobody,
          visible |-> {}, sized |-> w.sized, broken |-> FALSE]
    BY <1>4 DEF Empty
  <2> QED
    BY <1>2, <2>1, <2>2, <2>3 DEF WallStates
<1> QED
  BY <1>3, <1>5 DEF WallGood, Heard, Fits, Shown, OnWall, Consistent

\* A participant's pictures change: the row shows one of those it has now.
LEMMA RowStep ==
    ASSUME WallGood(w), NEW p \in People, NEW xs \in SUBSET Pictures,
           NEW x \in Pictures \cup {Nobody},
           p \in w.rows, x \in xs \cup {Nobody},
           w' = VideoChanged([w EXCEPT !.sends[p] = xs, !.video[p] = x], p)
    PROVE  WallGood(w')
<1> DEFINE se == [w.sends EXCEPT ![p] = xs]
           v == [w.video EXCEPT ![p] = x]
           s == [w EXCEPT !.sends[p] = xs, !.video[p] = x]
<1>1. w \in WallStates /\ Heard(w) /\ Consistent(w) /\ OnWall(w)
  BY DEF WallGood
<1>2. /\ se \in [People -> SUBSET Pictures] /\ se[p] = xs
      /\ \A q \in People : q # p => se[q] = w.sends[q]
  BY <1>1 DEF WallStates
<1>3. /\ v \in [People -> Pictures \cup {Nobody}] /\ v[p] = x
      /\ \A q \in People : q # p => v[q] = w.video[q]
  BY <1>1 DEF WallStates
<1>4. s = [w EXCEPT !.sends = se, !.video = v]
  BY <1>1 DEF WallStates
<1> HIDE DEF se, v, s
<1>5. s \in WallStates
  BY <1>1, <1>2, <1>3, <1>4 DEF WallStates
<1>6. /\ s.inRoom = w.inRoom /\ s.members = w.members /\ s.sends = se
      /\ s.rows = w.rows /\ s.video = v /\ s.followed = w.followed
      /\ s.wall = w.wall /\ s.available = w.available /\ s.layout = w.layout
      /\ s.focused = w.focused /\ s.visible = w.visible /\ s.sized = w.sized
  BY <1>1, <1>4 DEF WallStates
<1>7. Heard(s)
  BY <1>1, <1>6 DEF Heard, Fits, Shown
<1>8. OnWallBut(s, p) /\ (p \notin s.followed => p \notin s.wall)
  BY <1>1, <1>3, <1>6 DEF OnWall, OnWallBut, Consistent, WallStates
<1>9. \A q \in People : v[q] \in se[q] \cup {Nobody}
  BY <1>1, <1>2, <1>3 DEF Consistent
<1>10. Consistent(s)
  BY <1>1, <1>3, <1>6, <1>9 DEF Consistent
<1>11. w' = VideoChanged(s, p)
  BY DEF s
<1> QED
  BY <1>5, <1>7, <1>8, <1>10, <1>11, VideoChangedLemma

\* Pictures that no row shows come and go, and so does one that was replaced.
LEMMA UnseenStep ==
    ASSUME WallGood(w), NEW p \in People, NEW xs \in SUBSET Pictures, NEW b \in BOOLEAN,
           w.video[p] \in xs \cup {Nobody}, w' = [w EXCEPT !.sends[p] = xs, !.broken = b]
    PROVE  WallGood(w')
<1> DEFINE se == [w.sends EXCEPT ![p] = xs]
<1>1. w \in WallStates /\ Heard(w) /\ Consistent(w) /\ OnWall(w)
  BY DEF WallGood
<1>2. /\ se \in [People -> SUBSET Pictures] /\ se[p] = xs
      /\ \A q \in People : q # p => se[q] = w.sends[q]
  BY <1>1 DEF WallStates
<1>3. w' = [w EXCEPT !.sends = se, !.broken = b]
  BY <1>1 DEF WallStates
<1> HIDE DEF se
<1>4. w' \in WallStates
  BY <1>1, <1>2, <1>3 DEF WallStates
<1>5. /\ w'.inRoom = w.inRoom /\ w'.members = w.members /\ w'.sends = se
      /\ w'.rows = w.rows /\ w'.video = w.video /\ w'.followed = w.followed
      /\ w'.wall = w.wall /\ w'.available = w.available /\ w'.layout = w.layout
      /\ w'.focused = w.focused /\ w'.visible = w.visible /\ w'.sized = w.sized
  BY <1>1, <1>3 DEF WallStates
<1>6. \A q \in People : w.video[q] \in se[q] \cup {Nobody}
  BY <1>1, <1>2 DEF Consistent
<1>7. Heard(w') /\ OnWall(w')
  BY <1>1, <1>5 DEF Heard, Fits, Shown, OnWall
<1>8. Consistent(w')
  BY <1>1, <1>5, <1>6 DEF Consistent
<1> QED
  BY <1>4, <1>7, <1>8 DEF WallGood

\* A camera or a screen starts and stops.
LEMMA PictureStep ==
    ASSUME WallGood(w), NEW p \in People, NEW x \in Pictures,
           PictureAdded(p, x) \/ PictureRemoved(p, x)
    PROVE  WallGood(w')
<1>1. w \in WallStates /\ Consistent(w) /\ w.sends[p] \in SUBSET Pictures /\ w.broken \in BOOLEAN
  BY DEF WallGood, WallStates
<1>2. w.video[p] \in w.sends[p] \cup {Nobody} /\ (p \notin w.rows => w.video[p] = Nobody)
  BY <1>1 DEF Consistent
<1>3. CASE PictureAdded(p, x)
  <2> DEFINE xs == w.sends[p] \cup {x}
             s == [w EXCEPT !.sends[p] = @ \cup {x}]
  <2>1. xs \in SUBSET Pictures /\ s = [w EXCEPT !.sends[p] = xs]
    BY <1>1 DEF WallStates
  <2>2. CASE p \in w.rows
    <3>1. w' = VideoChanged([s EXCEPT !.video[p] = x], p)
      BY <1>3, <2>2 DEF PictureAdded, VideoAdded, Shows
    <3>2. [s EXCEPT !.video[p] = x] = [w EXCEPT !.sends[p] = xs, !.video[p] = x]
      BY <1>1 DEF WallStates
    <3> HIDE DEF xs, s
    <3>3. x \in xs
      BY DEF xs
    <3> QED
      BY <2>1, <2>2, <3>1, <3>2, <3>3, RowStep
  <2>3. CASE p \notin w.rows
    <3>1. w' = [w EXCEPT !.sends[p] = xs, !.broken = w.broken]
      BY <1>1, <1>3, <2>3 DEF PictureAdded, Shows, WallStates
    <3> QED
      BY <1>1, <1>2, <2>1, <2>3, <3>1, UnseenStep
  <2> QED
    BY <2>2, <2>3
<1>4. CASE PictureRemoved(p, x)
  <2> DEFINE xs == w.sends[p] \ {x}
             s == [w EXCEPT !.sends[p] = @ \ {x}]
  <2>1. xs \in SUBSET Pictures /\ s = [w EXCEPT !.sends[p] = xs]
    BY <1>1 DEF WallStates
  <2>2. s.video[p] = w.video[p]
    BY <1>1 DEF WallStates
  <2>3. CASE p \in w.rows /\ w.video[p] = Nobody
    <3>1. w' = [w EXCEPT !.sends[p] = xs, !.broken = TRUE]
      BY <1>1, <1>4, <2>2, <2>3 DEF PictureRemoved, VideoRemoved, Shows, WallStates
    <3> QED
      BY <2>1, <2>3, <3>1, UnseenStep
  <2>4. CASE p \notin w.rows \/ (w.video[p] # x /\ w.video[p] # Nobody)
    <3>1. w' = s
      BY <1>4, <2>2, <2>4 DEF PictureRemoved, VideoRemoved, Shows
    <3>2. w' = [w EXCEPT !.sends[p] = xs, !.broken = w.broken]
      BY <1>1, <2>1, <3>1 DEF WallStates
    <3>3. w.video[p] \in xs \cup {Nobody}
      BY <1>2, <2>4
    <3> QED
      BY <1>1, <2>1, <3>2, <3>3, UnseenStep
  <2>5. CASE p \in w.rows /\ w.video[p] = x /\ w.video[p] # Nobody
    <3>1. w' = VideoChanged([s EXCEPT !.video[p] = Nobody], p)
      BY <1>4, <2>2, <2>5 DEF PictureRemoved, VideoRemoved, Shows
    <3>2. [s EXCEPT !.video[p] = Nobody] = [w EXCEPT !.sends[p] = xs, !.video[p] = Nobody]
      BY <1>1 DEF WallStates
    <3> HIDE DEF xs, s
    <3> QED
      BY <2>1, <2>5, <3>1, <3>2, RowStep
  <2> QED
    BY <2>3, <2>4, <2>5
<1> QED
  BY <1>3, <1>4

\* The window is folded or unfolded.
LEMMA ResizeStep == ASSUME WallGood(w), Resize PROVE WallGood(w')
<1> DEFINE s == [w EXCEPT !.sized = ~@]
<1>1. /\ s \in WallStates /\ Fits(s) /\ w' = Recalculate(s)
      /\ Consistent(s) /\ OnWall(s) /\ (s.available <=> s.wall # {})
  BY DEF Resize, Shows, WallGood, Heard, Fits, Consistent, OnWall, WallStates
<1> HIDE DEF s
<1>2. w' \in WallStates /\ Fits(w') /\ Shown(w') /\ SameButVisible(s, w')
  BY <1>1, RecalculateLemma
<1> QED
  BY <1>1, <1>2 DEF WallGood, Heard, Consistent, OnWall, SameButVisible, Rest

\* A click on an item, or on shrink.
LEMMA ClickStep ==
    ASSUME WallGood(w), NEW p \in People, Enlarge(p) \/ Shrink(p) PROVE WallGood(w')
<1>1. /\ w \in WallStates /\ Heard(w) /\ Consistent(w) /\ OnWall(w)
      /\ Fits(w) /\ Shown(w) /\ p \in w.wall
      /\ w.layout \in {"grid", "enlarged", "full"}
  BY DEF WallGood, Heard, Fits, Enlarge, Shrink, WallStates
<1>2. /\ w' \in WallStates /\ Fits(w') /\ Shown(w') /\ Rest(w, w')
      /\ w'.wall = w.wall /\ w'.available = w.available
  <2> DEFINE s == [w EXCEPT !.focused = p]
  <2>1. /\ s \in WallStates /\ Fits(s) /\ Rest(w, s) /\ s.wall = w.wall
        /\ s.available = w.available /\ s.layout = w.layout /\ s.focused = p
    BY <1>1 DEF Fits, Rest, WallStates
  <2> HIDE DEF s
  <2>2. CASE Enlarge(p) /\ (w.focused = p \/ w.layout = "grid")
    <3> DEFINE l == NextLayout(w.layout)
    <3>1. w' = SetLayout(s, l)
      BY <2>2 DEF Enlarge, EnlargeItem, Shows, s
    <3>2. l \in {"grid", "enlarged", "full"} /\ l # s.layout
      BY <1>1, <2>1 DEF NextLayout
    <3> HIDE DEF l
    <3>3. /\ w' \in WallStates /\ Fits(w') /\ Shown(w') /\ Rest(s, w')
          /\ w'.wall = s.wall /\ w'.available = s.available
      BY <1>1, <2>1, <3>1, <3>2, SetLayoutLemma
    <3> QED
      BY <2>1, <3>3 DEF Rest
  <2>3. CASE Enlarge(p) /\ ~(w.focused = p \/ w.layout = "grid")
    <3>1. w' = Recalculate(s)
      BY <2>3 DEF Enlarge, EnlargeItem, Shows, s
    <3>2. w' \in WallStates /\ Fits(w') /\ Shown(w') /\ SameButVisible(s, w')
      BY <2>1, <3>1, RecalculateLemma
    <3> QED
      BY <2>1, <3>2 DEF Rest, SameButVisible
  <2>4. CASE Shrink(p) /\ w.layout = "enlarged"
    <3>1. w' = SetLayout(w, "grid")
      BY <2>4 DEF Shrink, Shows
    <3> QED
      BY <1>1, <2>4, <3>1, SetLayoutLemma
  <2>5. CASE Shrink(p) /\ w.layout # "enlarged"
    <3>1. w' = w
      BY <2>5 DEF Shrink, Shows
    <3> QED
      BY <1>1, <3>1 DEF Rest
  <2> QED
    BY <2>2, <2>3, <2>4, <2>5
<1> QED
  BY <1>1, <1>2 DEF WallGood, Heard, Consistent, OnWall, Rest

\* All of it is inductive.
WallInv == WallGood(w)

\* The wall, the layout and the rows agree in every state.
THEOREM WallInvariant == WallSpec => []WallInv
<1>1. WallInit => WallInv
  <2> SUFFICES ASSUME w = Empty PROVE WallGood(w)
    BY DEF WallInit, WallInv
  <2>1. /\ [p \in People |-> Nobody] \in [People -> Pictures \cup {Nobody}]
        /\ [p \in People |-> {}] \in [People -> SUBSET Pictures]
    OBVIOUS
  <2>2. w \in WallStates
    BY <2>1 DEF Empty, WallStates
  <2> QED
    BY <2>2 DEF Empty, WallGood, Heard, Fits, Shown, Consistent, OnWall
<1>2. WallInv /\ [WallNext]_wallVars => WallInv'
  <2> SUFFICES ASSUME WallGood(w), [WallNext]_wallVars PROVE WallGood(w')
    BY DEF WallInv
  <2>1. CASE UNCHANGED wallVars
    BY <2>1 DEF wallVars
  <2> QED
    BY <2>1, RoomSetStep, RoomLeftStep, ResizeStep, JoinsStep, LeavesStep, ClickStep, PictureStep
       DEF WallNext
<1> QED
  BY <1>1, <1>2, PTL DEF WallSpec

\* The wall has exactly the pictures that are shown by the rows of who is here,
\* and the item in focus is on it, however items come, go and are clicked.
THEOREM WallSound == WallSpec => []WallIsSound
<1>1. WallInv => WallIsSound
  BY DEF WallInv, WallGood, Heard, Fits, Shown, Consistent, OnWall, WallIsSound, WallIsTheVideos,
     FocusIsShown, WallStates
<1> QED
  BY <1>1, WallInvariant, PTL

-----------------------------------------------------------------------------
(* What a member believes of the room.  ViewsSettle needs that the handlers *)
(* keep the last event of each kind and user, whatever order an answer has   *)
(* them in (SetJoinState compares values before times, so no state of a      *)
(* member may come twice), and where the last change of a user is: on its    *)
(* way alone, or the last in the log.  The loop over an answer is a          *)
(* recursive function: what it computes follows by induction over a set of   *)
(* numbers.                                                                  *)

\* Induction over the naturals, for a set of them.
LEMMA SetInduction ==
    ASSUME NEW G \in SUBSET Nat, 0 \in G, \A n \in G : n + 1 \in G
    PROVE  G = Nat
<1> SUFFICES ASSUME NEW n \in Nat, n \notin G
             PROVE  FALSE
  OBVIOUS
<1> DEFINE A == {i \in 0..n : i \in G}
           f == [i \in A |-> i + 1]
<1>1. IsFiniteSet(A) /\ Cardinality(A) \in Nat
  <2>1. IsFiniteSet(0..n)
    BY FS_Interval
  <2> QED
    BY <2>1, FS_Subset, FS_CardinalityType
<1>2. IsFiniteSet(A \ {0}) /\ Cardinality(A \ {0}) = Cardinality(A) - 1
  <2>1. 0 \in A
    OBVIOUS
  <2> HIDE DEF A
  <2> QED
    BY <1>1, <2>1, FS_RemoveElement
<1>3. f \in Injection(A, A \ {0})
  <2>1. \A i \in A : i + 1 \in A \ {0}
    OBVIOUS
  <2> QED
    BY <2>1 DEF Injection, IsInjective
<1>4. Cardinality(A) <= Cardinality(A \ {0})
  <2> HIDE DEF A, f
  <2> QED
    BY <1>2, <1>3, FS_Injection
<1> QED
  <2> HIDE DEF A
  <2> QED
    BY <1>1, <1>2, <1>4

\* The largest of a set of positions and 0.
LEMMA MaxLemma ==
    ASSUME NEW b \in Nat, NEW S \in SUBSET (1..b)
    PROVE  /\ S = {} => Max({0} \cup S) = 0
           /\ S # {} => Max({0} \cup S) \in S
           /\ \A x \in S : x <= Max({0} \cup S)
<1> DEFINE Has(T) == \E m \in T : \A y \in T : m >= y
           G == {n \in Nat : \A T \in SUBSET (0..n) : T # {} => Has(T)}
<1>1. 0 \in G
  <2> SUFFICES ASSUME NEW T \in SUBSET (0..0), T # {}
               PROVE  Has(T)
    OBVIOUS
  <2>1. PICK m \in T : TRUE
    OBVIOUS
  <2>2. m = 0 /\ \A y \in T : y = 0
    OBVIOUS
  <2> QED
    BY <2>2
<1>2. ASSUME NEW n \in G
      PROVE  n + 1 \in G
  <2> SUFFICES ASSUME NEW T \in SUBSET (0..n + 1), T # {}
               PROVE  Has(T)
    OBVIOUS
  <2>1. CASE n + 1 \in T
    BY <2>1
  <2>2. CASE n + 1 \notin T
    <3>1. T \in SUBSET (0..n)
      BY <2>2
    <3> QED
      BY <3>1
  <2> QED
    BY <2>1, <2>2
<1>3. G = Nat
  <2> HIDE DEF G
  <2> QED
    BY <1>1, <1>2, SetInduction DEF G
<1>4. Has({0} \cup S)
  <2>1. {0} \cup S \in SUBSET (0..b) /\ {0} \cup S # {}
    OBVIOUS
  <2>2. b \in G
    BY <1>3
  <2> HIDE DEF Has
  <2> QED
    BY <2>1, <2>2
<1> DEFINE T == {0} \cup S
<1>5. T \in SUBSET Nat /\ Has(T)
  BY <1>4
<1> HIDE DEF T
<1>6. Max(T) \in T /\ \A y \in T : Max(T) >= y
  BY <1>5 DEF Max
<1>7. \A y \in T : y <= Max(T)
  BY <1>5, <1>6
<1>8. /\ Max(T) \in {0} \cup S
      /\ \A x \in S : x <= Max(T)
  BY <1>6, <1>7 DEF T
<1>9. S # {} => Max(T) \in S
  <2> SUFFICES ASSUME NEW x \in S
               PROVE  Max(T) # 0
    BY <1>8
  <2> QED
    BY <1>8
<1> QED
  BY <1>8, <1>9 DEF T

\* A set of positions put in a sequence: all of them are there, and no other.
LEMMA SetToSeqLemma ==
    ASSUME NEW b \in Nat, NEW S \in SUBSET (1..b)
    PROVE  /\ SetToSeq(S) \in Seq(S)
           /\ \A x \in S : \E i \in 1..Len(SetToSeq(S)) : SetToSeq(S)[i] = x
<1> DEFINE N == Cardinality(S)
           f == SetToSeq(S)
<1>1. IsFiniteSet(S)
  <2>1. IsFiniteSet(1..b)
    BY FS_Interval
  <2> QED
    BY <2>1, FS_Subset
<1>2. N \in Nat /\ Bijection(1..N, S) # {}
  BY <1>1, FS_CardinalityType DEF ExistsBijection
<1>3. \E g \in [1..N -> S] : IsInjective(g)
  BY <1>2 DEF Bijection, Injection
<1>4. f \in [1..N -> S] /\ IsInjective(f)
  BY <1>3 DEF SetToSeq
<1>5. f \in Surjection(1..N, S)
  <2>1. f \in Injection(1..N, S)
    BY <1>4 DEF Injection
  <2>2. Cardinality(1..N) = N
    BY <1>2, FS_Interval
  <2> HIDE DEF f, N
  <2>3. Cardinality(1..N) = Cardinality(S)
    BY <2>2 DEF N
  <2> QED
    BY <1>1, <2>1, <2>3, FS_Injection
<1> HIDE DEF f
<1>6. f \in Seq(S) /\ Len(f) = N
  BY <1>2, <1>4
<1>7. \A x \in S : \E i \in 1..N : f[i] = x
  BY <1>5 DEF Surjection
<1> QED
  BY <1>6, <1>7 DEF f

-----------------------------------------------------------------------------
\* The loop of on_events is what its recursion says.
LEMMA OnEventsLemma ==
    ASSUME NEW c, NEW events, Len(events) \in Nat
    PROVE  \E after :
              /\ DOMAIN after = 0..Len(events)
              /\ after[0] = View(c)
              /\ \A i \in 1..Len(events) : after[i] = Handled(after[i - 1], events[i])
              /\ OnEvents(c, events) = after[Len(events)]
<1> DEFINE Turn(g, i) == IF i = 0 THEN View(c) ELSE Handled(g[i - 1], events[i])
           Run(g, n) == g = [i \in 0..n |-> Turn(g, i)]
           G == {n \in Nat : \E g : Run(g, n)}
<1>1. 0 \in G
  <2> DEFINE g == [i \in 0..0 |-> View(c)]
  <2>1. Run(g, 0)
    OBVIOUS
  <2> QED
    BY <2>1
<1>2. ASSUME NEW n \in G
      PROVE  n + 1 \in G
  <2>1. PICK g : Run(g, n)
    BY <1>2
  <2> DEFINE h == [i \in 0..n + 1 |->
                      IF i = n + 1 THEN Handled(g[n], events[n + 1]) ELSE g[i]]
  <2>2. ASSUME NEW i \in 0..n + 1
        PROVE  h[i] = Turn(h, i)
    <3>1. n \in Nat
      OBVIOUS
    <3>2. CASE i = n + 1
      <4>1. h[i] = Handled(g[n], events[n + 1]) /\ h[i - 1] = g[n]
        BY <3>1, <3>2
      <4> HIDE DEF h
      <4> QED
        BY <3>1, <3>2, <4>1
    <3>3. CASE i \in 0..n
      <4>1. h[i] = g[i] /\ (i # 0 => h[i - 1] = g[i - 1])
        BY <3>1, <3>3
      <4>2. g[i] = Turn(g, i)
        BY <2>1, <3>3
      <4> HIDE DEF h
      <4> QED
        BY <4>1, <4>2
    <3> QED
      BY <3>1, <3>2, <3>3
  <2>3. DOMAIN h = 0..n + 1 /\ h = [i \in 0..n + 1 |-> h[i]]
    OBVIOUS
  <2> HIDE DEF h, Turn
  <2>4. Run(h, n + 1)
    BY <2>2, <2>3
  <2> QED
    BY <2>4
<1>3. G = Nat
  <2> HIDE DEF G
  <2> QED
    BY <1>1, <1>2, SetInduction DEF G
<1> DEFINE N == Len(events)
           f == CHOOSE g : Run(g, N)
<1>4. Run(f, N)
  <2>1. \E g : Run(g, N)
    BY <1>3
  <2> HIDE DEF Run
  <2> QED
    BY <2>1
<1>5. OnEvents(c, events) = f[N]
  BY DEF OnEvents
<1>6. /\ DOMAIN f = 0..N
      /\ \A i \in 0..N : f[i] = Turn(f, i)
  <2> HIDE DEF f, Turn
  <2> QED
    BY <1>4
<1>7. /\ f[0] = View(c)
      /\ \A i \in 1..N : f[i] = Handled(f[i - 1], events[i])
  <2> HIDE DEF f
  <2> QED
    BY <1>6
<1> HIDE DEF f
<1> QED
  BY <1>5, <1>6, <1>7

-----------------------------------------------------------------------------
Values == SUBSET (Switches \cup {"invite", "join", "leave"})
Events == [kind : {"member", "audio", "chat"}, who : Clients, value : Values]

MatrixShape ==
    /\ log \in Seq(Events)
    /\ since \in [Clients -> Nat]
    /\ member \in [Clients -> [Clients -> Nat]]
    /\ audio \in [Clients -> [Clients -> Nat]]
    /\ chat \in [Clients -> Seq(Nat)]
    /\ flags \in [Clients -> Flags]
    /\ puts \in [Clients -> Seq(Events)]

\* No user becomes twice what it is.
Once ==
    \A u \in Clients : \A m, n \in DOMAIN log :
        Of("member", u, m) /\ Of("member", u, n) /\ log[m].value = log[n].value
            => m = n

\* x is the last of old and of the first i events that are of a kind and user.
Follows(x, old, kind, u, events, i) ==
    /\ x = old \/ \E j \in 1..i : x = events[j] /\ Of(kind, u, events[j])
    /\ x >= old
    /\ \A j \in 1..i : Of(kind, u, events[j]) => x >= events[j]

Ascends(q) == \A k \in 2..Len(q) : q[k - 1] < q[k]

ClientViews == [member : [Clients -> Nat], audio : [Clients -> Nat], chat : Seq(Nat)]

\* What client c has made of the first i events of an answer.
HasRead(c, v, events, i) ==
    /\ v \in ClientViews
    /\ \A u \in Clients :
        /\ Follows(v.member[u], member[c][u], "member", u, events, i)
        /\ Follows(v.audio[u], audio[c][u], "audio", u, events, i)
    /\ Ascends(v.chat)
    /\ \A k \in DOMAIN v.chat :
        \/ v.chat[k] <= since[c]
        \/ \E j \in 1..i : v.chat[k] = events[j] /\ log[events[j]].kind = "chat"

\* An answer that can be read: the chat is new and in order.
Readable(c, events) ==
    /\ events \in Seq(DOMAIN log)
    /\ \A i, j \in 1..Len(events) :
        i < j /\ log[events[i]].kind = "chat" /\ log[events[j]].kind = "chat"
            => events[i] < events[j]
    /\ \A i \in 1..Len(events) : log[events[i]].kind = "chat" => since[c] < events[i]

\* What client c has of each is 0 or an event of its kind.
Sourced(c) ==
    \A u \in Clients :
        member[c][u] # 0 => member[c][u] \in DOMAIN log /\ Of("member", u, member[c][u])

\* As long as no state comes twice, the time alone decides.
LEMMA OnMemberLemma ==
    ASSUME Once, NEW u \in Clients, NEW old \in Nat, NEW n \in DOMAIN log,
           n \in Nat, Of("member", u, n),
           old # 0 => old \in DOMAIN log /\ Of("member", u, old)
    PROVE  OnMember(old, n) = SyncCustom(old, n)
<1>1. CASE old = 0
  <2>1. n >= old
    BY <1>1
  <2>2. n = old \/ n > old
    BY <1>1
  <2> QED
    BY <1>1, <2>2 DEF OnMember, SyncCustom
<1>2. CASE old # 0
  <2>1. log[old].value = log[n].value => n = old
    BY <1>2 DEF Once
  <2>2. OnMember(old, n) = IF log[old].value = log[n].value \/ n < old THEN old ELSE n
    BY <1>2 DEF OnMember, SetJoinState
  <2> QED
    BY <2>1, <2>2 DEF SyncCustom
<1> QED
  BY <1>1, <1>2

\* One more event: of the kind and user it is the last if it is later.
LEMMA FollowsOn ==
    ASSUME NEW x \in Nat, NEW old \in Nat, NEW kind, NEW u, NEW i \in Nat \ {0},
           NEW events \in Seq(Nat), i \in 1..Len(events),
           Follows(x, old, kind, u, events, i - 1)
    PROVE  /\ Of(kind, u, events[i]) =>
                Follows(SyncCustom(x, events[i]), old, kind, u, events, i)
           /\ ~Of(kind, u, events[i]) => Follows(x, old, kind, u, events, i)
<1> DEFINE n == events[i]
           y == SyncCustom(x, n)
<1>1. n \in Nat /\ y \in Nat /\ y >= x /\ y >= n /\ (y = x \/ y = n)
  BY DEF SyncCustom
<1>2. \A j \in 1..i : j = i \/ j \in 1..i - 1
  OBVIOUS
<1>3. 1..i - 1 \subseteq 1..i /\ i \in 1..i
  OBVIOUS
<1>4. \A j \in 1..i : events[j] \in Nat
  OBVIOUS
<1> HIDE DEF y
<1>5. ASSUME Of(kind, u, n)
      PROVE  Follows(y, old, kind, u, events, i)
  <2>1. y = old \/ \E j \in 1..i : y = events[j] /\ Of(kind, u, events[j])
    <3>1. CASE y = x
      BY <1>3, <3>1 DEF Follows
    <3>2. CASE y = n
      BY <1>3, <1>5, <3>2
    <3> QED
      BY <1>1, <3>1, <3>2
  <2>2. y >= old
    BY <1>1 DEF Follows
  <2>3. ASSUME NEW j \in 1..i, Of(kind, u, events[j])
        PROVE  y >= events[j]
    <3>1. CASE j = i
      BY <1>1, <3>1
    <3>2. CASE j \in 1..i - 1
      <4>1. x >= events[j]
        BY <2>3, <3>2 DEF Follows
      <4> QED
        BY <1>1, <1>4, <4>1
    <3> QED
      BY <1>2, <3>1, <3>2
  <2> QED
    BY <2>1, <2>2, <2>3 DEF Follows
<1>6. ASSUME ~Of(kind, u, n)
      PROVE  Follows(x, old, kind, u, events, i)
  <2>1. x = old \/ \E j \in 1..i : x = events[j] /\ Of(kind, u, events[j])
    BY <1>3 DEF Follows
  <2>2. \A j \in 1..i : Of(kind, u, events[j]) => x >= events[j]
    BY <1>2, <1>6 DEF Follows
  <2> QED
    BY <2>1, <2>2 DEF Follows
<1> QED
  BY <1>5, <1>6 DEF y

\* One more message.
LEMMA AscendsOn ==
    ASSUME NEW q \in Seq(Nat), NEW n \in Nat, Ascends(q), \A k \in DOMAIN q : q[k] < n
    PROVE  Ascends(Append(q, n))
<1> SUFFICES ASSUME NEW k \in 2..Len(q) + 1
             PROVE  Append(q, n)[k - 1] < Append(q, n)[k]
  BY DEF Ascends
<1>1. CASE k = Len(q) + 1
  <2>1. Append(q, n)[k] = n /\ Append(q, n)[k - 1] = q[k - 1] /\ k - 1 \in DOMAIN q
    BY <1>1
  <2> QED
    BY <2>1
<1>2. CASE k \in 2..Len(q)
  BY <1>2 DEF Ascends
<1> QED
  BY <1>1, <1>2

\* The handler of one event leaves c with what it has read, and this event.
LEMMA HandledLemma ==
    ASSUME MatrixShape, Once, NEW c \in Clients, Sourced(c), NEW events,
           Readable(c, events), NEW i \in 1..Len(events), NEW v,
           HasRead(c, v, events, i - 1)
    PROVE  HasRead(c, Handled(v, events[i]), events, i)
<1> DEFINE n == events[i]
           sender == log[n].who
<1>1. /\ n \in DOMAIN log /\ n \in Nat /\ log[n] \in Events /\ sender \in Clients
      /\ log[n].kind \in {"member", "audio", "chat"}
  <2>1. n \in DOMAIN log
    BY DEF Readable
  <2>2. log[n] \in Events /\ n \in Nat
    BY <2>1 DEF MatrixShape
  <2> QED
    BY <2>1, <2>2 DEF Events
<1>2. events \in Seq(Nat) /\ i \in Nat \ {0} /\ \A j \in 1..Len(events) : events[j] \in DOMAIN log
  <2>1. DOMAIN log \subseteq Nat
    BY DEF MatrixShape
  <2> QED
    BY <2>1 DEF Readable
<1>3. /\ v \in ClientViews /\ v.member \in [Clients -> Nat] /\ v.audio \in [Clients -> Nat]
      /\ v.chat \in Seq(Nat)
      /\ v = [member |-> v.member, audio |-> v.audio, chat |-> v.chat]
  BY DEF HasRead, ClientViews
<1>4. member[c] \in [Clients -> Nat] /\ audio[c] \in [Clients -> Nat] /\ since[c] \in Nat
  BY DEF MatrixShape
<1>5. \A u \in Clients :
        /\ Follows(v.member[u], member[c][u], "member", u, events, i - 1)
        /\ Follows(v.audio[u], audio[c][u], "audio", u, events, i - 1)
  BY DEF HasRead
<1>6. \A u \in Clients :
        /\ Of("member", u, n) => Follows(SyncCustom(v.member[u], n), member[c][u], "member", u, events, i)
        /\ ~Of("member", u, n) => Follows(v.member[u], member[c][u], "member", u, events, i)
        /\ Of("audio", u, n) => Follows(SyncCustom(v.audio[u], n), audio[c][u], "audio", u, events, i)
        /\ ~Of("audio", u, n) => Follows(v.audio[u], audio[c][u], "audio", u, events, i)
  <2> SUFFICES ASSUME NEW u \in Clients
               PROVE  /\ Of("member", u, n) => Follows(SyncCustom(v.member[u], n), member[c][u], "member", u, events, i)
                      /\ ~Of("member", u, n) => Follows(v.member[u], member[c][u], "member", u, events, i)
                      /\ Of("audio", u, n) => Follows(SyncCustom(v.audio[u], n), audio[c][u], "audio", u, events, i)
                      /\ ~Of("audio", u, n) => Follows(v.audio[u], audio[c][u], "audio", u, events, i)
    OBVIOUS
  <2>1. v.member[u] \in Nat /\ v.audio[u] \in Nat /\ member[c][u] \in Nat /\ audio[c][u] \in Nat
    BY <1>3, <1>4
  <2> QED
    BY <1>2, <1>5, <2>1, FollowsOn
<1>7. \A u \in Clients, kind \in {"member", "audio", "chat"} :
        Of(kind, u, n) <=> kind = log[n].kind /\ u = sender
  BY DEF Of
<1>8. Ascends(v.chat) /\ \A k \in DOMAIN v.chat :
        \/ v.chat[k] <= since[c]
        \/ \E j \in 1..i - 1 : v.chat[k] = events[j] /\ log[events[j]].kind = "chat"
  BY DEF HasRead
<1>9. \A k \in DOMAIN v.chat :
        \/ v.chat[k] <= since[c]
        \/ \E j \in 1..i : v.chat[k] = events[j] /\ log[events[j]].kind = "chat"
  <2>1. 1..i - 1 \subseteq 1..i
    OBVIOUS
  <2> QED
    BY <1>8, <2>1
<1> HIDE DEF sender
<1>10. CASE log[n].kind = "member"
  <2>1. OnMember(v.member[sender], n) = SyncCustom(v.member[sender], n)
    <3>1. Of("member", sender, n)
      BY <1>1, <1>7, <1>10
    <3>2. v.member[sender] \in Nat
      BY <1>1, <1>3
    <3>3. v.member[sender] # 0 => v.member[sender] \in DOMAIN log /\ Of("member", sender, v.member[sender])
      <4>1. \/ v.member[sender] = member[c][sender]
            \/ \E j \in 1..i - 1 : v.member[sender] = events[j] /\ Of("member", sender, events[j])
        BY <1>1, <1>5 DEF Follows
      <4>2. CASE v.member[sender] = member[c][sender]
        BY <1>1, <4>2 DEF Sourced
      <4>3. CASE \E j \in 1..i - 1 : v.member[sender] = events[j] /\ Of("member", sender, events[j])
        BY <1>2, <4>3
      <4> QED
        BY <4>1, <4>2, <4>3
    <3> QED
      BY <1>1, <3>1, <3>2, <3>3, OnMemberLemma
  <2> DEFINE new == [v.member EXCEPT ![sender] = OnMember(@, n)]
  <2>2. Handled(v, n) = [member |-> new, audio |-> v.audio, chat |-> v.chat]
    <3>1. Handled(v, n) = [v EXCEPT !.member[log[n].who] = OnMember(@, n)]
      BY <1>10 DEF Handled
    <3> QED
      BY <1>3, <3>1 DEF sender
  <2>3. new \in [Clients -> Nat]
    <3>1. OnMember(v.member[sender], n) \in Nat
      BY <1>1, <1>3, <2>1 DEF SyncCustom
    <3> QED
      BY <1>3, <3>1
  <2>4. ASSUME NEW u \in Clients
        PROVE  Follows(new[u], member[c][u], "member", u, events, i)
    <3>1. CASE u = sender
      <4>1. new[u] = SyncCustom(v.member[u], n)
        BY <1>3, <2>1, <3>1
      <4>2. Of("member", u, n)
        BY <1>7, <1>10, <3>1
      <4> QED
        BY <1>6, <4>1, <4>2
    <3>2. CASE u # sender
      <4>1. new[u] = v.member[u]
        BY <1>3, <3>2
      <4>2. ~Of("member", u, n)
        BY <1>7, <3>2
      <4> QED
        BY <1>6, <4>1, <4>2
    <3> QED
      BY <3>1, <3>2
  <2> HIDE DEF new
  <2>5. \A u \in Clients : Follows(v.audio[u], audio[c][u], "audio", u, events, i)
    BY <1>6, <1>7, <1>10
  <2>6. Handled(v, n) \in ClientViews
    BY <1>3, <2>2, <2>3 DEF ClientViews
  <2>7. /\ Handled(v, n).member = new /\ Handled(v, n).audio = v.audio
        /\ Handled(v, n).chat = v.chat
    BY <2>2
  <2> HIDE DEF n
  <2> QED
    BY <1>8, <1>9, <2>4, <2>5, <2>6, <2>7 DEF HasRead, n
<1>11. CASE log[n].kind = "audio"
  <2> DEFINE new == [v.audio EXCEPT ![sender] = SyncCustom(@, n)]
  <2>2. Handled(v, n) = [member |-> v.member, audio |-> new, chat |-> v.chat]
    <3>1. Handled(v, n) = [v EXCEPT !.audio[log[n].who] = SyncCustom(@, n)]
      BY <1>11 DEF Handled
    <3> QED
      BY <1>3, <3>1 DEF sender
  <2>3. new \in [Clients -> Nat]
    <3>1. SyncCustom(v.audio[sender], n) \in Nat
      BY <1>1, <1>3 DEF SyncCustom
    <3> QED
      BY <1>3, <3>1
  <2>4. ASSUME NEW u \in Clients
        PROVE  Follows(new[u], audio[c][u], "audio", u, events, i)
    <3>1. CASE u = sender
      <4>1. new[u] = SyncCustom(v.audio[u], n)
        BY <1>3, <3>1
      <4>2. Of("audio", u, n)
        BY <1>7, <1>11, <3>1
      <4> QED
        BY <1>6, <4>1, <4>2
    <3>2. CASE u # sender
      <4>1. new[u] = v.audio[u]
        BY <1>3, <3>2
      <4>2. ~Of("audio", u, n)
        BY <1>7, <3>2
      <4> QED
        BY <1>6, <4>1, <4>2
    <3> QED
      BY <3>1, <3>2
  <2> HIDE DEF new
  <2>5. \A u \in Clients : Follows(v.member[u], member[c][u], "member", u, events, i)
    BY <1>6, <1>7, <1>11
  <2>6. Handled(v, n) \in ClientViews
    BY <1>3, <2>2, <2>3 DEF ClientViews
  <2>7. /\ Handled(v, n).audio = new /\ Handled(v, n).member = v.member
        /\ Handled(v, n).chat = v.chat
    BY <2>2
  <2> HIDE DEF n
  <2> QED
    BY <1>8, <1>9, <2>4, <2>5, <2>6, <2>7 DEF HasRead, n
<1>12. CASE log[n].kind = "chat"
  <2> DEFINE new == Append(v.chat, n)
  <2>2. Handled(v, n) = [member |-> v.member, audio |-> v.audio, chat |-> new]
    <3>1. Handled(v, n) = [v EXCEPT !.chat = Append(@, n)]
      BY <1>12 DEF Handled
    <3> QED
      BY <1>3, <3>1
  <2>3. new \in Seq(Nat) /\ Len(new) = Len(v.chat) + 1 /\ DOMAIN new = 1..Len(v.chat) + 1
        /\ new[Len(v.chat) + 1] = n /\ \A k \in DOMAIN v.chat : new[k] = v.chat[k]
    <3> DEFINE q == v.chat
    <3>1. n \in Nat /\ q \in Seq(Nat)
      BY <1>1, <1>3
    <3> HIDE DEF n, q
    <3>2. Append(q, n) \in Seq(Nat) /\ Len(Append(q, n)) = Len(q) + 1
          /\ Append(q, n)[Len(q) + 1] = n /\ \A k \in DOMAIN q : Append(q, n)[k] = q[k]
      BY <3>1, AppendProperties
    <3>3. DOMAIN Append(q, n) = 1..Len(q) + 1
      BY <3>2
    <3> QED
      BY <3>2, <3>3 DEF q
  <2>4. Ascends(new)
    <3>1. ASSUME NEW k \in DOMAIN v.chat
          PROVE  v.chat[k] < n
      <4>1. CASE v.chat[k] <= since[c]
        <5>1. since[c] < n
          BY <1>12 DEF Readable
        <5>2. v.chat[k] \in Nat
          BY <1>3
        <5> QED
          BY <1>1, <1>4, <4>1, <5>1, <5>2
      <4>2. CASE \E j \in 1..i - 1 : v.chat[k] = events[j] /\ log[events[j]].kind = "chat"
        <5>1. PICK j \in 1..i - 1 : v.chat[k] = events[j] /\ log[events[j]].kind = "chat"
          BY <4>2
        <5>2. j \in 1..Len(events) /\ j < i
          BY <1>2
        <5> QED
          BY <1>12, <5>1, <5>2 DEF Readable
      <4> QED
        BY <1>8, <4>1, <4>2
    <3> QED
      BY <1>1, <1>3, <1>8, <3>1, AscendsOn
  <2>5. \A k \in DOMAIN new :
           \/ new[k] <= since[c]
           \/ \E j \in 1..i : new[k] = events[j] /\ log[events[j]].kind = "chat"
    <3> SUFFICES ASSUME NEW k \in DOMAIN new
                 PROVE  \/ new[k] <= since[c]
                        \/ \E j \in 1..i : new[k] = events[j] /\ log[events[j]].kind = "chat"
      OBVIOUS
    <3>1. CASE k \in DOMAIN v.chat
      BY <1>9, <2>3, <3>1
    <3>2. CASE k = Len(v.chat) + 1
      <4>1. i \in 1..i
        OBVIOUS
      <4> QED
        BY <1>12, <2>3, <3>2, <4>1
    <3>3. DOMAIN v.chat = 1..Len(v.chat)
      BY <1>3
    <3> QED
      BY <2>3, <3>1, <3>2, <3>3
  <2> HIDE DEF new
  <2>6. \A u \in Clients :
          /\ Follows(v.member[u], member[c][u], "member", u, events, i)
          /\ Follows(v.audio[u], audio[c][u], "audio", u, events, i)
    BY <1>6, <1>7, <1>12
  <2>7. Handled(v, n) \in ClientViews
    BY <1>3, <2>2, <2>3 DEF ClientViews
  <2>8. /\ Handled(v, n).audio = v.audio /\ Handled(v, n).member = v.member
        /\ Handled(v, n).chat = new
    BY <2>2
  <2> HIDE DEF n
  <2> QED
    BY <2>4, <2>5, <2>6, <2>7, <2>8 DEF HasRead, n
<1> QED
  BY <1>1, <1>10, <1>11, <1>12

\* The whole loop, by induction over the events.
LEMMA ReadLemma ==
    ASSUME MatrixShape, Once, NEW c \in Clients, Sourced(c), NEW events,
           Readable(c, events), Ascends(chat[c]),
           \A k \in DOMAIN chat[c] : chat[c][k] <= since[c]
    PROVE  HasRead(c, OnEvents(c, events), events, Len(events))
<1>1. Len(events) \in Nat
  BY DEF Readable
<1>2. PICK after :
         /\ DOMAIN after = 0..Len(events)
         /\ after[0] = View(c)
         /\ \A i \in 1..Len(events) : after[i] = Handled(after[i - 1], events[i])
         /\ OnEvents(c, events) = after[Len(events)]
  BY <1>1, OnEventsLemma
<1> DEFINE G == {k \in Nat : k <= Len(events) => HasRead(c, after[k], events, k)}
<1>3. 0 \in G
  <2>1. /\ member[c] \in [Clients -> Nat] /\ audio[c] \in [Clients -> Nat]
        /\ chat[c] \in Seq(Nat)
    BY DEF MatrixShape
  <2>2. \A u \in Clients :
          /\ Follows(member[c][u], member[c][u], "member", u, events, 0)
          /\ Follows(audio[c][u], audio[c][u], "audio", u, events, 0)
    BY <2>1 DEF Follows
  <2>3. View(c) \in ClientViews /\ View(c).member = member[c] /\ View(c).audio = audio[c]
        /\ View(c).chat = chat[c]
    BY <2>1 DEF View, ClientViews
  <2>4. HasRead(c, View(c), events, 0)
    BY <2>2, <2>3 DEF HasRead
  <2> QED
    BY <1>2, <2>4
<1>4. ASSUME NEW k \in G
      PROVE  k + 1 \in G
  <2> SUFFICES ASSUME k + 1 <= Len(events)
               PROVE  HasRead(c, after[k + 1], events, k + 1)
    OBVIOUS
  <2>1. k \in Nat /\ k + 1 \in 1..Len(events) /\ (k + 1) - 1 = k
    BY <1>1
  <2>2. HasRead(c, after[(k + 1) - 1], events, (k + 1) - 1)
    BY <1>1, <2>1
  <2>3. after[k + 1] = Handled(after[(k + 1) - 1], events[k + 1])
    BY <1>2, <2>1
  <2> QED
    BY <2>1, <2>2, <2>3, HandledLemma
<1>5. G = Nat
  <2> HIDE DEF G
  <2> QED
    BY <1>3, <1>4, SetInduction DEF G
<1> QED
  BY <1>1, <1>2, <1>5

-----------------------------------------------------------------------------
\* n is the last event of a kind and user among some events, or 0.
IsLatest(n, kind, u, events) ==
    /\ n # 0 => n \in events /\ Of(kind, u, n)
    /\ \A m \in events : Of(kind, u, m) => m <= n

\* Latest is what it is called, and nothing else is.
LEMMA LatestLemma ==
    ASSUME NEW b \in Nat, NEW events \in SUBSET (1..b), NEW kind, NEW u
    PROVE  /\ Latest(kind, u, events) \in 0..b
           /\ IsLatest(Latest(kind, u, events), kind, u, events)
           /\ \A n \in Nat : IsLatest(n, kind, u, events) => n = Latest(kind, u, events)
<1> DEFINE S == {n \in events : Of(kind, u, n)}
           x == Max({0} \cup S)
<1>1. /\ S = {} => x = 0
      /\ S # {} => x \in S
      /\ \A m \in S : m <= x
  <2> HIDE DEF S
  <2>1. S \in SUBSET (1..b)
    BY DEF S
  <2> QED
    BY <2>1, MaxLemma
<1>2. Latest(kind, u, events) = x
  BY DEF Latest
<1> HIDE DEF x
<1>3. x \in 0..b /\ x # 0 => x \in events /\ Of(kind, u, x)
  BY <1>1
<1>4. x \in 0..b
  <2>1. S \in SUBSET (1..b)
    OBVIOUS
  <2> HIDE DEF S
  <2>2. CASE S = {}
    BY <1>1, <2>2
  <2>3. CASE S # {}
    <3>1. x \in 1..b
      BY <1>1, <2>1, <2>3
    <3> QED
      BY <3>1
  <2> QED
    BY <2>2, <2>3
<1>5. \A m \in events : Of(kind, u, m) => m <= x
  BY <1>1
<1>6. ASSUME NEW n \in Nat, IsLatest(n, kind, u, events)
      PROVE  n = x
  <2>1. n # 0 => n <= x
    BY <1>5, <1>6 DEF IsLatest
  <2>2. x # 0 => x <= n
    BY <1>3, <1>4, <1>6 DEF IsLatest
  <2> QED
    BY <1>4, <2>1, <2>2
<1> QED
  BY <1>2, <1>3, <1>4, <1>5, <1>6 DEF IsLatest

\* The largest of three numbers.
LEMMA MaxOfThree ==
    ASSUME NEW a \in Int, NEW b \in Int, NEW d \in Int
    PROVE  /\ Max({a, b, d}) \in {a, b, d}
           /\ a <= Max({a, b, d}) /\ b <= Max({a, b, d}) /\ d <= Max({a, b, d})
<1> DEFINE T == {a, b, d}
<1>1. \E m \in T : \A y \in T : m >= y
  <2>1. CASE a >= b /\ a >= d
    BY <2>1
  <2>2. CASE b >= a /\ b >= d
    BY <2>2
  <2>3. CASE d >= a /\ d >= b
    BY <2>3
  <2> QED
    BY <2>1, <2>2, <2>3
<1>2. Max(T) \in T /\ \A y \in T : Max(T) >= y
  <2> HIDE DEF T
  <2> QED
    BY <1>1 DEF Max
<1> QED
  BY <1>2

\* Where the state of an answer begins.
From(c) == IF MemberSince(c) > since[c] THEN 0 ELSE since[c]

\* What an answer has: the events of the timeline, each in its place, and the
\* last of each kind and user from before.
LEMMA ContentLemma ==
    ASSUME MatrixAssumption, MatrixShape, NEW c \in Clients,
           NEW to \in since[c] + 1..Len(log), MemberSince(c) \in 1..to
    PROVE  /\ First(c, to) \in since[c]..to
           /\ Readable(c, Content(c, to))
           /\ \A j \in 1..Len(Content(c, to)) : Content(c, to)[j] \in 1..to
           /\ \A n \in First(c, to) + 1..to :
                \E j \in 1..Len(Content(c, to)) : Content(c, to)[j] = n
           /\ \A kind \in {"member", "audio"}, u \in Clients :
                LET n == Latest(kind, u, From(c) + 1..First(c, to))
                IN  n # 0 => \E j \in 1..Len(Content(c, to)) : Content(c, to)[j] = n
<1> DEFINE f == First(c, to)
           t == Timeline(c, to)
           last(kind, u) == Latest(kind, u, From(c) + 1..f)
           S == {last(kind, u) : kind \in {"member", "audio"}, u \in Clients} \ {0}
           s == SetToSeq(S)
           K == to - f
           L == Len(s)
           e == Content(c, to)
<1>1. since[c] \in Nat /\ Len(log) \in Nat /\ to \in Nat /\ since[c] < to /\ to <= Len(log)
      /\ DOMAIN log = 1..Len(log)
  BY DEF MatrixShape
<1>2. f \in Nat /\ since[c] <= f /\ f <= to
  <2> DEFINE z == IF to > Limit THEN to - Limit ELSE 0
             m == MemberSince(c) - 1
  <2>1. m \in Nat /\ m <= to /\ z \in Nat /\ z <= to
    BY <1>1 DEF MatrixAssumption
  <2>2. f = Max({since[c], m, z})
    BY DEF First
  <2> HIDE DEF m, z, f
  <2>3. /\ Max({since[c], m, z}) \in {since[c], m, z}
        /\ since[c] <= Max({since[c], m, z})
    <3>1. since[c] \in Int /\ m \in Int /\ z \in Int
      BY <1>1, <2>1
    <3> QED
      BY <3>1, MaxOfThree
  <2> QED
    BY <1>1, <2>1, <2>2, <2>3
<1>3. From(c) \in Nat
  BY <1>1 DEF From
<1>4. t = [i \in 1..K |-> f + i]
  BY DEF Timeline
<1>5. State(c, to) = s
  BY DEF State, From
<1>6. e = t \o s
  BY <1>5 DEF Content
<1> HIDE DEF f, t, s, e, last
<1>7. \A kind, u : last(kind, u) \in 0..f /\ (last(kind, u) # 0 => Of(kind, u, last(kind, u)))
  <2> SUFFICES ASSUME NEW kind, NEW u
               PROVE  last(kind, u) \in 0..f /\ (last(kind, u) # 0 => Of(kind, u, last(kind, u)))
    OBVIOUS
  <2>1. From(c) + 1..f \in SUBSET (1..f)
    BY <1>2, <1>3
  <2> QED
    BY <1>2, <2>1, LatestLemma DEF last, IsLatest
<1>8. S \in SUBSET (1..f) /\ \A n \in S : log[n].kind \in {"member", "audio"}
  <2>1. ASSUME NEW n \in S
        PROVE  n \in 1..f /\ log[n].kind \in {"member", "audio"}
    <3>1. PICK kind \in {"member", "audio"}, u \in Clients : n = last(kind, u) /\ n # 0
      OBVIOUS
    <3>2. n \in 0..f /\ Of(kind, u, n)
      BY <1>7, <3>1
    <3> QED
      BY <1>2, <3>1, <3>2 DEF Of
  <2> QED
    BY <2>1
<1>9. s \in Seq(S) /\ \A x \in S : \E i \in 1..L : s[i] = x
  <2> HIDE DEF S
  <2> QED
    BY <1>2, <1>8, SetToSeqLemma DEF s
<1>10. L \in Nat /\ K \in Nat /\ t \in Seq(Nat) /\ Len(t) = K /\ s \in Seq(Nat)
  <2>1. K \in Nat
    BY <1>1, <1>2
  <2>2. t \in [1..K -> Nat]
    BY <1>2, <1>4, <2>1
  <2>3. t \in Seq(Nat) /\ Len(t) = K
    BY <2>1, <2>2
  <2> HIDE DEF S
  <2>4. S \subseteq Nat
    BY <1>2, <1>8
  <2>5. s \in Seq(Nat)
    BY <1>9, <2>4, SeqMonotonic
  <2>6. L \in Nat
    BY <2>5
  <2> QED
    BY <2>1, <2>3, <2>5, <2>6
<1> HIDE DEF K, L
<1>11. /\ e \in Seq(Nat) /\ Len(e) = K + L
       /\ \A j \in 1..K : e[j] = f + j
       /\ \A j \in 1..L : e[K + j] = s[j]
  <2>1. Len(s) = L
    BY DEF L
  <2>2. e \in Seq(Nat) /\ Len(e) = K + L
        /\ \A j \in 1..K + L : e[j] = IF j <= K THEN t[j] ELSE s[j - K]
    BY <1>6, <1>10, <2>1, ConcatProperties
  <2>3. \A j \in 1..K : e[j] = t[j] /\ t[j] = f + j
    BY <1>4, <1>10, <2>2
  <2>4. \A j \in 1..L : K + j \in 1..K + L /\ ~(K + j <= K) /\ (K + j) - K = j
    BY <1>10
  <2> QED
    BY <2>2, <2>3, <2>4
<1>12. \A j \in 1..Len(e) : j \in 1..K \/ \E i \in 1..L : j = K + i
  <2> SUFFICES ASSUME NEW j \in 1..Len(e), j \notin 1..K
               PROVE  j - K \in 1..L /\ j = K + (j - K)
    OBVIOUS
  <2> QED
    BY <1>10, <1>11
<1>13. \A i \in 1..L : s[i] \in S
  BY <1>9 DEF L
<1>14. /\ \A j \in 1..K : e[j] \in f + 1..to
       /\ \A i \in 1..L : e[K + i] \in 1..f /\ log[e[K + i]].kind \in {"member", "audio"}
  <2>1. ASSUME NEW j \in 1..K
        PROVE  e[j] \in f + 1..to
    <3>1. e[j] = f + j
      BY <1>11
    <3> QED
      BY <1>1, <1>2, <3>1 DEF K
  <2>2. \A i \in 1..L : e[K + i] \in 1..f /\ log[e[K + i]].kind \in {"member", "audio"}
    BY <1>8, <1>11, <1>13
  <2> QED
    BY <2>1, <2>2
<1>15. \A j \in 1..Len(e) : e[j] \in 1..to
  <2> SUFFICES ASSUME NEW j \in 1..Len(e)
               PROVE  e[j] \in 1..to
    OBVIOUS
  <2>1. CASE j \in 1..K
    BY <1>1, <1>2, <1>14, <2>1
  <2>2. CASE \E i \in 1..L : j = K + i
    BY <1>1, <1>2, <1>14, <2>2
  <2> QED
    BY <1>12, <2>1, <2>2
<1>16. \A j \in 1..Len(e) : log[e[j]].kind = "chat" => j \in 1..K
  BY <1>12, <1>14
<1>17. Readable(c, e)
  <2>1. e \in Seq(DOMAIN log)
    <3>1. 1..to \subseteq DOMAIN log
      BY <1>1
    <3>2. \A j \in 1..Len(e) : e[j] \in DOMAIN log
      BY <1>15, <3>1
    <3> QED
      BY <1>11, <3>2
  <2>2. ASSUME NEW i \in 1..Len(e), NEW j \in 1..Len(e), i < j,
               log[e[i]].kind = "chat", log[e[j]].kind = "chat"
        PROVE  e[i] < e[j]
    <3>1. i \in 1..K /\ j \in 1..K
      BY <1>16, <2>2
    <3>2. e[i] = f + i /\ e[j] = f + j
      BY <1>11, <3>1
    <3> QED
      BY <1>2, <2>2, <3>1, <3>2
  <2>3. ASSUME NEW i \in 1..Len(e), log[e[i]].kind = "chat"
        PROVE  since[c] < e[i]
    <3>1. e[i] \in f + 1..to
      BY <1>14, <1>16, <2>3
    <3> QED
      BY <1>1, <1>2, <3>1
  <2> QED
    BY <2>1, <2>2, <2>3 DEF Readable
<1>18. ASSUME NEW n \in f + 1..to
       PROVE  \E j \in 1..Len(e) : e[j] = n
  <2>1. n - f \in 1..K /\ f + (n - f) = n
    BY <1>1, <1>2 DEF K
  <2>2. e[n - f] = n /\ n - f \in 1..Len(e)
    BY <1>10, <1>11, <2>1
  <2> QED
    BY <2>2
<1>19. ASSUME NEW kind \in {"member", "audio"}, NEW u \in Clients, last(kind, u) # 0
       PROVE  \E j \in 1..Len(e) : e[j] = last(kind, u)
  <2>1. last(kind, u) \in S
    BY <1>19
  <2> HIDE DEF S
  <2>2. PICK i \in 1..L : s[i] = last(kind, u)
    BY <1>9, <2>1
  <2>3. K + i \in 1..Len(e) /\ e[K + i] = last(kind, u)
    BY <1>10, <1>11, <2>2
  <2> QED
    BY <2>3
<1>20. f \in since[c]..to
  BY <1>1, <1>2
<1> QED
  BY <1>15, <1>17, <1>18, <1>19, <1>20 DEF e, f, last

-----------------------------------------------------------------------------
\* The members of a room are invited, join and leave, each once.
MemberOnce(u) ==
    /\ phase[u] = "out" =>
        \A n \in DOMAIN log : Of("member", u, n) => log[n].value = {"invite"}
    /\ \A n \in DOMAIN log : Of("member", u, n) =>
        /\ log[n].value \in {{"invite"}, {"join"}, {"leave"}}
        /\ log[n].value = {"leave"} => ~Joined(u)

MembersOnce == Once /\ \A u \in Users : MemberOnce(u)

\* Nobody removes Admin.
AdminStays ==
    /\ phase[Admin] \in {"asked", "in"}
    /\ \A n \in DOMAIN log : Of("member", Admin, n) => log[n].value # {"leave"}

\* A client that may still sync has the last states up to where it is.
ViewsFollow ==
    \A c \in Clients :
        /\ phase[c] \in {"out", "asked", "in"} => \A u \in Clients :
            /\ member[c][u] = Latest("member", u, 1..since[c])
            /\ audio[c][u] = Latest("audio", u, 1..since[c])
        /\ \A i \in DOMAIN chat[c] : chat[c][i] <= since[c]

AudioPuts(u) == {i \in DOMAIN puts[u] : puts[u][i].kind = "audio"}

\* What the log says of the switches of u.
Said(u) ==
    LET n == Latest("audio", u, DOMAIN log) IN IF n = 0 THEN {} ELSE log[n].value

\* The last change of a user is on its way, or in the log.
PutsTellOf(u) ==
    /\ \A i \in DOMAIN puts[u] :
        puts[u][i].who = u /\ puts[u][i].kind \in {"audio", "chat"}
    /\ phase[u] \in {"out", "asked"} => puts[u] = <<>> /\ Said(u) = {} /\ ~raced[u]
    /\ phase[u] = "in" /\ ~raced[u] =>
        /\ AudioPuts(u) = {} => Said(u) = flags[u]
        /\ \A i, j \in AudioPuts(u) : i = j /\ puts[u][i].value = flags[u]

PutsTell == \A u \in Users : PutsTellOf(u)

MatrixInv ==
    /\ MatrixTypeOK /\ MatrixShape /\ MembersOnce /\ AdminStays
    /\ ViewsFollow /\ ChatIsInOrder /\ PutsTell

\* What ViewsFollow says of a client, once it has read an answer up to `to`.
LEMMA FollowsIsLatest ==
    ASSUME MatrixAssumption, MatrixShape, NEW c \in Clients,
           NEW to \in since[c] + 1..Len(log), MemberSince(c) \in 1..to,
           NEW kind \in {"member", "audio"}, NEW u \in Clients,
           NEW x \in Nat, NEW old \in Nat, old = Latest(kind, u, 1..since[c]),
           Follows(x, old, kind, u, Content(c, to), Len(Content(c, to)))
    PROVE  x = Latest(kind, u, 1..to)
<1> DEFINE f == First(c, to)
           e == Content(c, to)
           n == Latest(kind, u, From(c) + 1..f)
<1>1. /\ since[c] \in Nat /\ to \in Nat /\ since[c] < to /\ From(c) \in Nat
      /\ From(c) \in {0, since[c]}
  <2>1. since[c] \in Nat /\ Len(log) \in Nat
    BY DEF MatrixShape
  <2>2. From(c) \in {0, since[c]}
    BY DEF From
  <2> QED
    BY <2>1, <2>2
<1>2. /\ f \in since[c]..to
      /\ \A j \in 1..Len(e) : e[j] \in 1..to
      /\ \A m \in f + 1..to : \E j \in 1..Len(e) : e[j] = m
      /\ n # 0 => \E j \in 1..Len(e) : e[j] = n
  BY ContentLemma
<1>3. /\ x = old \/ \E j \in 1..Len(e) : x = e[j] /\ Of(kind, u, e[j])
      /\ x >= old
      /\ \A j \in 1..Len(e) : Of(kind, u, e[j]) => x >= e[j]
  BY DEF Follows
<1>4. IsLatest(old, kind, u, 1..since[c])
  <2>1. 1..since[c] \in SUBSET (1..since[c])
    OBVIOUS
  <2> QED
    BY <1>1, <2>1, LatestLemma
<1>5. n \in 0..f /\ IsLatest(n, kind, u, From(c) + 1..f)
  <2>1. From(c) + 1..f \in SUBSET (1..f) /\ f \in Nat
    BY <1>1, <1>2
  <2> QED
    BY <2>1, LatestLemma
<1> HIDE DEF f, e, n
<1>6. x # 0 => x \in 1..to /\ Of(kind, u, x)
  <2>1. CASE x = old
    BY <1>1, <1>4, <2>1 DEF IsLatest
  <2>2. CASE \E j \in 1..Len(e) : x = e[j] /\ Of(kind, u, e[j])
    BY <1>2, <2>2
  <2> QED
    BY <1>3, <2>1, <2>2
<1>7. ASSUME NEW m \in 1..to, Of(kind, u, m)
      PROVE  m <= x
  <2>1. CASE m \in f + 1..to
    BY <1>2, <1>3, <1>7, <2>1
  <2>2. CASE m \in From(c) + 1..f
    <3>1. m <= n
      BY <1>5, <1>7, <2>2 DEF IsLatest
    <3>2. n # 0
      BY <1>1, <1>5, <2>2, <3>1
    <3>3. x >= n
      BY <1>2, <1>3, <1>5, <3>2 DEF IsLatest
    <3> QED
      BY <1>5, <3>1, <3>3
  <2>3. CASE m <= From(c)
    <3>1. m \in 1..since[c]
      BY <1>1, <2>3
    <3>2. m <= old
      BY <1>4, <1>7, <3>1 DEF IsLatest
    <3> QED
      BY <1>3, <3>2
  <2> QED
    BY <1>1, <1>2, <2>1, <2>2, <2>3
<1>8. IsLatest(x, kind, u, 1..to)
  BY <1>6, <1>7 DEF IsLatest
<1>9. 1..to \in SUBSET (1..to)
  OBVIOUS
<1> QED
  BY <1>1, <1>8, <1>9, LatestLemma

-----------------------------------------------------------------------------
\* Latest, of any log.
LatestIn(l, kind, u, events) ==
    Max({0} \cup {n \in events : l[n].kind = kind /\ l[n].who = u})

LEMMA LatestInLemma ==
    ASSUME NEW b \in Nat, NEW events \in SUBSET (1..b), NEW l, NEW kind, NEW u
    PROVE  LET x == LatestIn(l, kind, u, events)
           IN  /\ x \in 0..b
               /\ x # 0 => x \in events /\ l[x].kind = kind /\ l[x].who = u
               /\ \A m \in events : l[m].kind = kind /\ l[m].who = u => m <= x
<1> DEFINE S == {n \in events : l[n].kind = kind /\ l[n].who = u}
           x == Max({0} \cup S)
<1>1. S \in SUBSET (1..b)
  OBVIOUS
<1>2. /\ S = {} => x = 0
      /\ S # {} => x \in S
      /\ \A m \in S : m <= x
  <2> HIDE DEF S
  <2> QED
    BY <1>1, MaxLemma
<1>3. LatestIn(l, kind, u, events) = x
  BY DEF LatestIn
<1> HIDE DEF x
<1>4. x \in 0..b
  <2> HIDE DEF S
  <2>1. CASE S = {}
    BY <1>2, <2>1
  <2>2. CASE S # {}
    <3>1. x \in 1..b
      BY <1>1, <1>2, <2>2
    <3> QED
      BY <3>1
  <2> QED
    BY <2>1, <2>2
<1>5. x # 0 => x \in events /\ l[x].kind = kind /\ l[x].who = u
  BY <1>2
<1>6. \A m \in events : l[m].kind = kind /\ l[m].who = u => m <= x
  BY <1>2
<1> QED
  BY <1>3, <1>4, <1>5, <1>6

\* Events that two logs have alike have the same last one.
LEMMA LatestAlike ==
    ASSUME NEW l, NEW m, NEW kind, NEW u, NEW events, \A n \in events : l[n] = m[n]
    PROVE  LatestIn(l, kind, u, events) = LatestIn(m, kind, u, events)
<1>1. {n \in events : l[n].kind = kind /\ l[n].who = u}
        = {n \in events : m[n].kind = kind /\ m[n].who = u}
  OBVIOUS
<1> QED
  BY <1>1 DEF LatestIn

\* An event that is appended is the last of its kind and user, and of no other.
LEMMA LatestAppended ==
    ASSUME NEW l \in Seq(Events), NEW m \in Seq(Events), NEW kind, NEW u,
           Len(m) = Len(l) + 1, \A n \in DOMAIN l : m[n] = l[n]
    PROVE  LET ev == m[Len(l) + 1] IN
           /\ ev.kind = kind /\ ev.who = u =>
                LatestIn(m, kind, u, DOMAIN m) = Len(l) + 1
           /\ ~(ev.kind = kind /\ ev.who = u) =>
                LatestIn(m, kind, u, DOMAIN m) = LatestIn(l, kind, u, DOMAIN l)
<1> DEFINE k == Len(l) + 1
           ev == m[k]
           S == {n \in DOMAIN l : l[n].kind = kind /\ l[n].who = u}
           T == {n \in DOMAIN m : m[n].kind = kind /\ m[n].who = u}
<1>1. /\ k \in Nat \ {0} /\ DOMAIN l = 1..Len(l) /\ DOMAIN m = 1..k
      /\ \A n \in DOMAIN l : m[n] = l[n]
  OBVIOUS
<1>2. CASE ev.kind = kind /\ ev.who = u
  <2>1. k \in DOMAIN m /\ 1..k \in SUBSET (1..k)
    BY <1>1
  <2>2. /\ LatestIn(m, kind, u, 1..k) \in 0..k
        /\ m[k].kind = kind /\ m[k].who = u => k <= LatestIn(m, kind, u, 1..k)
    BY <1>1, <2>1, LatestInLemma
  <2>3. LatestIn(m, kind, u, 1..k) = k
    BY <1>1, <1>2, <2>2
  <2> QED
    BY <1>1, <1>2, <2>3
<1>3. CASE ~(ev.kind = kind /\ ev.who = u)
  <2>1. S = T
    BY <1>1, <1>3
  <2> QED
    BY <1>3, <2>1 DEF LatestIn
<1> QED
  BY <1>2, <1>3

\* The log after an event was appended.
Grows(ev) ==
    /\ log' \in Seq(Events) /\ Len(log) \in Nat
    /\ Len(log') = Len(log) + 1 /\ Len(log') <= MaxLog
    /\ DOMAIN log = 1..Len(log) /\ DOMAIN log' = 1..Len(log) + 1
    /\ \A n \in DOMAIN log : n \in DOMAIN log' /\ log'[n] = log[n]
    /\ log'[Len(log) + 1] = ev
    /\ \A n \in DOMAIN log' : n \in DOMAIN log \/ n = Len(log) + 1

LEMMA GrowthLemma ==
    ASSUME MatrixAssumption, MatrixShape, NEW ev \in Events, Appended(ev)
    PROVE  /\ Grows(ev)
           /\ \A kind, u : Latest(kind, u, DOMAIN log)' =
                IF ev.kind = kind /\ ev.who = u THEN Len(log) + 1
                ELSE Latest(kind, u, DOMAIN log)
<1>1. log \in Seq(Events) /\ log' = Append(log, ev) /\ Len(log) < MaxLog
  BY DEF Appended, MatrixShape
<1>2. Grows(ev)
  BY <1>1 DEF Grows, MatrixAssumption
<1>3. ASSUME NEW kind, NEW u
      PROVE  Latest(kind, u, DOMAIN log)' =
                IF ev.kind = kind /\ ev.who = u THEN Len(log) + 1
                ELSE Latest(kind, u, DOMAIN log)
  <2>1. /\ Latest(kind, u, DOMAIN log)' = LatestIn(log', kind, u, DOMAIN log')
        /\ Latest(kind, u, DOMAIN log) = LatestIn(log, kind, u, DOMAIN log)
    BY DEF Latest, LatestIn, Of
  <2>2. /\ ev.kind = kind /\ ev.who = u =>
                LatestIn(log', kind, u, DOMAIN log') = Len(log) + 1
        /\ ~(ev.kind = kind /\ ev.who = u) =>
                LatestIn(log', kind, u, DOMAIN log') = LatestIn(log, kind, u, DOMAIN log)
    <3>1. /\ log \in Seq(Events) /\ log' \in Seq(Events) /\ Len(log') = Len(log) + 1
          /\ \A n \in DOMAIN log : log'[n] = log[n]
          /\ log'[Len(log) + 1] = ev
      BY <1>1, <1>2 DEF Grows
    <3> QED
      BY <3>1, LatestAppended
  <2> QED
    BY <2>1, <2>2
<1> QED
  BY <1>2, <1>3

\* The log only grows, or stays.
Extends ==
    /\ log' \in Seq(Events) /\ Len(log) \in Nat /\ Len(log') \in Nat
    /\ Len(log) <= Len(log') /\ Len(log') <= MaxLog
    /\ DOMAIN log = 1..Len(log) /\ DOMAIN log' = 1..Len(log')
    /\ \A n \in DOMAIN log : n \in DOMAIN log' /\ log'[n] = log[n]

LEMMA GrowsExtends ==
    ASSUME NEW ev, Grows(ev)
    PROVE  Extends
BY DEF Grows, Extends

LEMMA KeptExtends ==
    ASSUME MatrixShape, MatrixTypeOK, UNCHANGED log
    PROVE  Extends
BY DEF MatrixShape, MatrixTypeOK, Extends

\* What was read stays what it was.
LEMMA ViewsStay ==
    ASSUME MatrixShape, MatrixTypeOK, ViewsFollow, ChatIsInOrder, Extends,
           UNCHANGED <<since, member, audio, chat>>,
           \A c \in Clients : phase'[c] \in {"out", "asked", "in"} =>
                              phase[c] \in {"out", "asked", "in"}
    PROVE  ViewsFollow' /\ ChatIsInOrder'
<1>1. ChatIsInOrder'
  BY DEF ChatIsInOrder
<1>2. ASSUME NEW c \in Clients
      PROVE  \A kind, u : Latest(kind, u, 1..since[c])' = Latest(kind, u, 1..since[c])
  <2>1. 1..since[c] \subseteq DOMAIN log
    BY DEF MatrixTypeOK, Extends
  <2>2. \A n \in 1..since[c] : log'[n] = log[n]
    BY <2>1 DEF Extends
  <2>3. \A kind, u : LatestIn(log', kind, u, 1..since[c]) = LatestIn(log, kind, u, 1..since[c])
    <3> DEFINE events == 1..since[c]
    <3>1. \A n \in events : log'[n] = log[n]
      BY <2>2
    <3> HIDE DEF events
    <3>2. \A kind, u : LatestIn(log', kind, u, events) = LatestIn(log, kind, u, events)
      BY <3>1, LatestAlike
    <3> QED
      BY <3>2 DEF events
  <2>4. \A kind, u : Latest(kind, u, 1..since[c])' = LatestIn(log', kind, u, 1..since'[c])
    BY DEF Latest, LatestIn, Of
  <2>5. \A kind, u : Latest(kind, u, 1..since[c]) = LatestIn(log, kind, u, 1..since[c])
    BY DEF Latest, LatestIn, Of
  <2> QED
    BY <2>3, <2>4, <2>5
<1>3. ASSUME NEW c \in Clients
      PROVE  /\ phase'[c] \in {"out", "asked", "in"} => \A u \in Clients :
                  /\ member'[c][u] = Latest("member", u, 1..since[c])'
                  /\ audio'[c][u] = Latest("audio", u, 1..since[c])'
             /\ \A i \in DOMAIN chat'[c] : chat'[c][i] <= since'[c]
  BY <1>2 DEF ViewsFollow
<1>4. ViewsFollow'
  BY <1>3 DEF ViewsFollow
<1> QED
  BY <1>1, <1>4

\* What a user said stays what it is until another of its states arrives.
LEMMA SaidStays ==
    ASSUME MatrixShape, NEW u,
           \/ UNCHANGED log
           \/ \E ev \in Events :
                /\ Grows(ev) /\ ~(ev.kind = "audio" /\ ev.who = u)
                /\ Latest("audio", u, DOMAIN log)' = Latest("audio", u, DOMAIN log)
    PROVE  Said(u)' = Said(u)
<1>1. CASE UNCHANGED log
  BY <1>1 DEF Said, Latest, Of
<1>2. CASE \E ev \in Events :
              /\ Grows(ev) /\ ~(ev.kind = "audio" /\ ev.who = u)
              /\ Latest("audio", u, DOMAIN log)' = Latest("audio", u, DOMAIN log)
  <2> DEFINE n == Latest("audio", u, DOMAIN log)
  <2>1. /\ n' = n /\ DOMAIN log = 1..Len(log) /\ Len(log) \in Nat
        /\ \A k \in DOMAIN log : log'[k] = log[k]
    BY <1>2 DEF Grows
  <2>2. n # 0 => n \in DOMAIN log
    BY <2>1, LatestLemma DEF IsLatest
  <2>3. Said(u) = IF n = 0 THEN {} ELSE log[n].value
    BY DEF Said
  <2>4. Said(u)' = IF n' = 0 THEN {} ELSE log'[n'].value
    BY DEF Said
  <2> HIDE DEF n
  <2> QED
    BY <2>1, <2>2, <2>3, <2>4
<1> QED
  BY <1>1, <1>2

\* The requests of a user that does nothing say what they said.
LEMMA PutsStay ==
    ASSUME NEW u \in Users, PutsTellOf(u), puts'[u] = puts[u], flags'[u] = flags[u],
           raced'[u] = raced[u], Said(u)' = Said(u),
           \/ phase'[u] = phase[u]
           \/ phase[u] = "out" /\ phase'[u] = "asked"
           \/ phase'[u] \notin {"out", "asked", "in"}
    PROVE  PutsTellOf(u)'
<1>1. AudioPuts(u)' = AudioPuts(u)
  BY DEF AudioPuts
<1> QED
  BY <1>1 DEF PutsTellOf

\* A state nobody had before, or none of a member, comes once.
LEMMA OnceStays ==
    ASSUME MatrixShape, Once, NEW ev \in Events, Grows(ev),
           ev.kind = "member" =>
              \A n \in DOMAIN log : Of("member", ev.who, n) => log[n].value # ev.value
    PROVE  Once'
<1> DEFINE k == Len(log) + 1
<1>1. /\ \A n \in DOMAIN log : log'[n] = log[n]
      /\ \A n \in DOMAIN log' : n \in DOMAIN log \/ n = k
      /\ log'[k] = ev
  BY DEF Grows
<1>2. ASSUME NEW u \in Clients, NEW m \in DOMAIN log', NEW n \in DOMAIN log',
             Of("member", u, m)', Of("member", u, n)', log'[m].value = log'[n].value
      PROVE  m = n
  <2>1. CASE m \in DOMAIN log /\ n \in DOMAIN log
    BY <1>1, <1>2, <2>1 DEF Once, Of
  <2>2. CASE m = k /\ n = k
    BY <2>2
  <2>3. CASE m \in DOMAIN log /\ n = k
    BY <1>1, <1>2, <2>3 DEF Of
  <2>4. CASE m = k /\ n \in DOMAIN log
    BY <1>1, <1>2, <2>4 DEF Of
  <2> QED
    BY <1>1, <2>1, <2>2, <2>3, <2>4
<1> QED
  BY <1>2 DEF Once

\* A user is joined as it was until its own membership changes.
LEMMA JoinedStays ==
    ASSUME MatrixShape, NEW u,
           \/ UNCHANGED log
           \/ \E ev \in Events :
                /\ Grows(ev)
                /\ Latest("member", u, DOMAIN log)' = Latest("member", u, DOMAIN log)
    PROVE  Joined(u)' = Joined(u)
<1>1. CASE UNCHANGED log
  BY <1>1 DEF Joined, Latest, Of
<1>2. CASE \E ev \in Events :
              /\ Grows(ev)
              /\ Latest("member", u, DOMAIN log)' = Latest("member", u, DOMAIN log)
  <2> DEFINE n == Latest("member", u, DOMAIN log)
  <2>1. /\ n' = n /\ DOMAIN log = 1..Len(log) /\ Len(log) \in Nat
        /\ \A k \in DOMAIN log : log'[k] = log[k]
    BY <1>2 DEF Grows
  <2>2. n \in Nat /\ (n # 0 => n \in DOMAIN log)
    BY <2>1, LatestLemma DEF IsLatest
  <2>3. Joined(u) = (n > 0 /\ log[n].value = {"join"})
    BY DEF Joined
  <2>4. Joined(u)' = (n' > 0 /\ log'[n'].value = {"join"})
    BY DEF Joined
  <2> HIDE DEF n
  <2>5. CASE n = 0
    BY <2>1, <2>3, <2>4, <2>5
  <2>6. CASE n # 0
    BY <2>1, <2>2, <2>3, <2>4, <2>6
  <2> QED
    BY <2>5, <2>6
<1> QED
  BY <1>1, <1>2

\* So is what it was before.
LEMMA MemberOnceStays ==
    ASSUME MatrixShape, NEW u \in Users, MemberOnce(u),
           phase'[u] = "out" => phase[u] = "out",
           \/ UNCHANGED log
           \/ \E ev \in Events :
                /\ Grows(ev) /\ ~(ev.kind = "member" /\ ev.who = u)
                /\ Latest("member", u, DOMAIN log)' = Latest("member", u, DOMAIN log)
    PROVE  MemberOnce(u)'
<1>1. Joined(u)' = Joined(u)
  BY JoinedStays
<1>2. \A n \in DOMAIN log' : Of("member", u, n)' =>
         n \in DOMAIN log /\ log'[n] = log[n] /\ Of("member", u, n)
  <2>1. CASE UNCHANGED log
    BY <2>1 DEF Of
  <2>2. CASE \E ev \in Events : Grows(ev) /\ ~(ev.kind = "member" /\ ev.who = u)
    BY <2>2 DEF Of, Grows
  <2> QED
    BY <2>1, <2>2
<1> QED
  BY <1>1, <1>2 DEF MemberOnce

-----------------------------------------------------------------------------
\* The three states of a member are three.
LEMMA ThreeStates ==
    {"invite"} # {"join"} /\ {"join"} # {"leave"} /\ {"invite"} # {"leave"}
<1>1. "invite" # "join" /\ "join" # "leave" /\ "invite" # "leave"
  OBVIOUS
<1> QED
  BY <1>1

\* A user is invited, joins, leaves or is removed.
LEMMA MemberStep ==
    ASSUME MatrixAssumption, MatrixInv, NEW u \in Users,
           NEW value \in {{"invite"}, {"join"}, {"leave"}},
           Appended(Event("member", u, value)), UNCHANGED <<viewVars, sentVars>>,
           phase' \in [Clients -> {"out", "asked", "in", "left", "crashed"}],
           \A c \in Clients \ {u} : phase'[c] = phase[c],
           \/ phase'[u] = phase[u]
           \/ phase[u] = "out" /\ phase'[u] = "asked"
           \/ phase'[u] \notin {"out", "asked", "in"},
           phase'[u] = "out" => value = {"invite"},
           value = {"join"} => phase[u] = "out",
           \A n \in DOMAIN log : Of("member", u, n) => log[n].value # value
    PROVE  MatrixInv'
<1> DEFINE ev == Event("member", u, value)
           k == Len(log) + 1
<1>1. /\ MatrixTypeOK /\ MatrixShape /\ MembersOnce /\ AdminStays
      /\ ViewsFollow /\ ChatIsInOrder /\ PutsTell /\ Once /\ MemberOnce(u)
  BY DEF MatrixInv, MembersOnce
<1>2. /\ UNCHANGED <<room, since, member, audio, chat, flags, puts, raced>>
      /\ u \in Clients /\ u # Admin /\ Admin \in Clients
  BY DEF viewVars, sentVars, Clients, MatrixAssumption
<1>3. ev \in Events /\ ev.kind = "member" /\ ev.who = u /\ ev.value = value
  <2>1. value \in Values
    BY DEF Values
  <2> QED
    BY <1>2, <2>1 DEF Event, Events
<1> HIDE DEF ev
<1>4. /\ Grows(ev)
      /\ \A kind, a : Latest(kind, a, DOMAIN log)' =
            IF ev.kind = kind /\ ev.who = a THEN k ELSE Latest(kind, a, DOMAIN log)
  <2>1. Appended(ev)
    BY DEF ev
  <2> QED
    BY <1>1, <1>3, <2>1, GrowthLemma
<1>5. Extends
  BY <1>4, GrowsExtends
<1>6. MatrixTypeOK'
  <2>1. \A c \in Clients : since[c] \in 0..Len(log')
    BY <1>1, <1>5 DEF MatrixTypeOK, Extends
  <2> QED
    BY <1>1, <1>2, <1>5, <2>1 DEF MatrixTypeOK, Extends
<1>7. MatrixShape'
  BY <1>1, <1>2, <1>5 DEF MatrixShape, Extends
<1>8. ViewsFollow' /\ ChatIsInOrder'
  <2>1. \A c \in Clients : phase'[c] \in {"out", "asked", "in"} =>
                           phase[c] \in {"out", "asked", "in"}
    OBVIOUS
  <2> QED
    BY <1>1, <1>2, <1>5, <2>1, ViewsStay
<1>9. PutsTell'
  <2> SUFFICES ASSUME NEW a \in Users
               PROVE  PutsTellOf(a)'
    BY DEF PutsTell
  <2>1. Said(a)' = Said(a)
    BY <1>1, <1>3, <1>4, SaidStays
  <2>2. a \in Clients
    BY DEF Clients
  <2> QED
    BY <1>1, <1>2, <2>1, <2>2, PutsStay DEF PutsTell
<1>10. MembersOnce'
  <2>1. Once'
    BY <1>1, <1>3, <1>4, OnceStays
  <2>2. ASSUME NEW a \in Users, a # u
        PROVE  MemberOnce(a)'
    <3>1. a \in Clients /\ MemberOnce(a)
      BY <1>1 DEF Clients, MembersOnce
    <3>2. phase'[a] = "out" => phase[a] = "out"
      BY <2>2, <3>1
    <3>3. Latest("member", a, DOMAIN log)' = Latest("member", a, DOMAIN log)
      BY <1>3, <1>4, <2>2
    <3> QED
      BY <1>1, <1>3, <1>4, <2>2, <3>1, <3>2, <3>3, MemberOnceStays
  <2>3. MemberOnce(u)'
    <3>1. Joined(u)' <=> value = {"join"}
      <4>1. Latest("member", u, DOMAIN log)' = k /\ k \in Nat /\ k > 0
        BY <1>3, <1>4 DEF Grows
      <4>2. log'[k].value = value
        BY <1>3, <1>4 DEF Grows
      <4> QED
        BY <4>1, <4>2 DEF Joined
    <3>2. \A n \in DOMAIN log' : Of("member", u, n)' =>
             \/ n \in DOMAIN log /\ log'[n] = log[n] /\ Of("member", u, n)
             \/ log'[n].value = value
      BY <1>3, <1>4 DEF Of, Grows
    <3>3. phase'[u] = "out" => phase[u] = "out"
      OBVIOUS
    <3>4. ASSUME NEW n \in DOMAIN log', Of("member", u, n)'
          PROVE  /\ phase'[u] = "out" => log'[n].value = {"invite"}
                 /\ log'[n].value \in {{"invite"}, {"join"}, {"leave"}}
                 /\ log'[n].value = {"leave"} => ~(Joined(u)')
      <4>1. CASE n \in DOMAIN log /\ log'[n] = log[n] /\ Of("member", u, n)
        <5>1. /\ phase[u] = "out" => log[n].value = {"invite"}
              /\ log[n].value \in {{"invite"}, {"join"}, {"leave"}}
          BY <1>1, <4>1 DEF MemberOnce
        <5>2. log[n].value = {"leave"} => phase[u] # "out"
          BY <5>1, ThreeStates
        <5> QED
          BY <3>1, <3>3, <4>1, <5>1, <5>2
      <4>2. CASE log'[n].value = value
        BY <3>1, <4>2, ThreeStates
      <4> QED
        BY <3>2, <3>4, <4>1, <4>2
    <3> QED
      BY <3>4 DEF MemberOnce
  <2> QED
    BY <2>1, <2>2, <2>3 DEF MembersOnce
<1>11. AdminStays'
  <2>1. \A n \in DOMAIN log' : Of("member", Admin, n)' =>
           n \in DOMAIN log /\ log'[n] = log[n] /\ Of("member", Admin, n)
    BY <1>2, <1>3, <1>4 DEF Of, Grows
  <2>2. phase'[Admin] = phase[Admin]
    BY <1>2
  <2> QED
    BY <1>1, <2>1, <2>2 DEF AdminStays
<1> QED
  BY <1>6, <1>7, <1>8, <1>9, <1>10, <1>11 DEF MatrixInv

\* An invitation.
LEMMA InviteStep ==
    ASSUME MatrixAssumption, MatrixInv, NEW u \in Users, Invite(u)
    PROVE  MatrixInv'
<1>1. /\ Appended(Event("member", u, {"invite"})) /\ UNCHANGED <<viewVars, sentVars>>
      /\ phase' = phase /\ Latest("member", u, DOMAIN log) = 0
  BY DEF Invite
<1>2. \A n \in DOMAIN log : ~Of("member", u, n)
  <2>1. DOMAIN log = 1..Len(log) /\ Len(log) \in Nat
    BY DEF MatrixInv, MatrixShape
  <2>2. \A n \in DOMAIN log : Of("member", u, n) => n <= 0
    BY <1>1, <2>1, LatestLemma DEF IsLatest
  <2> QED
    BY <2>1, <2>2
<1>3. phase' \in [Clients -> {"out", "asked", "in", "left", "crashed"}]
  BY <1>1 DEF MatrixInv, MatrixTypeOK
<1> QED
  BY <1>1, <1>2, <1>3, MemberStep, ThreeStates

\* A removal, or a user that leaves.
LEMMA LeaveStep ==
    ASSUME MatrixAssumption, MatrixInv, NEW u \in Users, Kick(u) \/ Leave(u)
    PROVE  MatrixInv'
<1>1. /\ Appended(Event("member", u, {"leave"})) /\ UNCHANGED <<viewVars, sentVars>>
      /\ phase' = phase \/ phase' = [phase EXCEPT ![u] = "left"]
      /\ Joined(u)
  BY DEF Kick, Leave
<1>2. phase \in [Clients -> {"out", "asked", "in", "left", "crashed"}] /\ u \in Clients
  BY DEF MatrixInv, MatrixTypeOK, Clients
<1>3. /\ phase' \in [Clients -> {"out", "asked", "in", "left", "crashed"}]
      /\ \A c \in Clients \ {u} : phase'[c] = phase[c]
      /\ phase'[u] = phase[u] \/ phase'[u] = "left"
  BY <1>1, <1>2
<1>4. \A n \in DOMAIN log : Of("member", u, n) => log[n].value # {"leave"}
  BY <1>1 DEF MatrixInv, MembersOnce, MemberOnce
<1>5. phase'[u] # "out"
  <2>1. ASSUME phase[u] = "out"
        PROVE  FALSE
    <3> DEFINE n == Latest("member", u, DOMAIN log)
    <3>1. DOMAIN log = 1..Len(log) /\ Len(log) \in Nat
      BY DEF MatrixInv, MatrixShape
    <3>2. n \in Nat /\ n > 0 /\ log[n].value = {"join"}
      BY <1>1, <3>1, LatestLemma DEF Joined
    <3>3. n \in DOMAIN log /\ Of("member", u, n)
      BY <3>1, <3>2, LatestLemma DEF IsLatest
    <3> HIDE DEF n
    <3>4. log[n].value = {"invite"}
      BY <2>1, <3>3 DEF MatrixInv, MembersOnce, MemberOnce
    <3> QED
      BY <3>2, <3>4, ThreeStates
  <2> QED
    BY <1>3, <2>1
<1>6. phase'[u] = phase[u] \/ phase'[u] \notin {"out", "asked", "in"}
  BY <1>3
<1> QED
  BY <1>1, <1>3, <1>4, <1>5, <1>6, MemberStep, ThreeStates

\* A user that joins.
LEMMA JoinStep ==
    ASSUME MatrixAssumption, MatrixInv, NEW u \in Users, Join(u)
    PROVE  MatrixInv'
<1>1. /\ Appended(Event("member", u, {"join"})) /\ UNCHANGED <<viewVars, sentVars>>
      /\ phase' = [phase EXCEPT ![u] = "asked"] /\ phase[u] = "out"
  BY DEF Join
<1>2. phase \in [Clients -> {"out", "asked", "in", "left", "crashed"}] /\ u \in Clients
  BY DEF MatrixInv, MatrixTypeOK, Clients
<1>3. /\ phase' \in [Clients -> {"out", "asked", "in", "left", "crashed"}]
      /\ \A c \in Clients \ {u} : phase'[c] = phase[c]
      /\ phase'[u] = "asked"
  BY <1>1, <1>2
<1>4. \A n \in DOMAIN log : Of("member", u, n) => log[n].value # {"join"}
  BY <1>1, ThreeStates DEF MatrixInv, MembersOnce, MemberOnce
<1> QED
  BY <1>1, <1>3, <1>4, MemberStep

\* A sequence without one of its elements.
LEMMA RemoveAtLemma ==
    ASSUME NEW S, NEW s \in Seq(S), NEW i \in 1..Len(s)
    PROVE  /\ RemoveAt(s, i) \in Seq(S)
           /\ Len(RemoveAt(s, i)) = Len(s) - 1
           /\ \A j \in 1..Len(s) - 1 :
                RemoveAt(s, i)[j] = IF j < i THEN s[j] ELSE s[j + 1]
<1> DEFINE a == SubSeq(s, 1, i - 1)
           b == SubSeq(s, i + 1, Len(s))
           n == Len(s)
<1>1. n \in Nat /\ i \in 1..n
  OBVIOUS
<1>2. a \in Seq(S) /\ Len(a) = i - 1 /\ \A j \in 1..i - 1 : a[j] = s[j]
  BY <1>1
<1>3. b \in Seq(S) /\ Len(b) = n - i /\ \A j \in 1..n - i : b[j] = s[i + j]
  BY <1>1
<1> HIDE DEF a, b, n
<1>4. /\ a \o b \in Seq(S) /\ Len(a \o b) = Len(a) + Len(b)
      /\ \A j \in 1..Len(a) + Len(b) :
           (a \o b)[j] = IF j <= Len(a) THEN a[j] ELSE b[j - Len(a)]
  BY <1>2, <1>3, ConcatProperties
<1>5. Len(a) + Len(b) = n - 1
  BY <1>1, <1>2, <1>3
<1>6. ASSUME NEW j \in 1..n - 1
      PROVE  (a \o b)[j] = IF j < i THEN s[j] ELSE s[j + 1]
  <2>1. CASE j < i
    <3>1. (a \o b)[j] = a[j] /\ j \in 1..i - 1
      BY <1>1, <1>2, <1>4, <1>5, <2>1
    <3> QED
      BY <1>2, <2>1, <3>1
  <2>2. CASE ~(j < i)
    <3>1. j - (i - 1) \in 1..n - i /\ i + (j - (i - 1)) = j + 1 /\ ~(j <= i - 1)
      BY <1>1, <2>2
    <3>2. (a \o b)[j] = b[j - (i - 1)]
      BY <1>2, <1>4, <1>5, <3>1
    <3> QED
      BY <1>3, <2>2, <3>1, <3>2
  <2> QED
    BY <2>1, <2>2
<1>7. RemoveAt(s, i) = a \o b
  BY DEF RemoveAt, a, b
<1> QED
  BY <1>4, <1>5, <1>6, <1>7 DEF n

\* What is left of a sequence of requests, and where it was.
LEMMA PutsLeft ==
    ASSUME NEW s \in Seq(Events), NEW i \in DOMAIN s
    PROVE  LET t == RemoveAt(s, i) IN
           /\ t \in Seq(Events) /\ Len(t) = Len(s) - 1
           /\ \A j \in DOMAIN t : \E k \in DOMAIN s \ {i} : t[j] = s[k]
           /\ \A j, k \in DOMAIN t : j # k =>
                \E m, n \in DOMAIN s : m # n /\ t[j] = s[m] /\ t[k] = s[n]
           /\ \A k \in DOMAIN s \ {i} : \E j \in DOMAIN t : t[j] = s[k]
<1> DEFINE t == RemoveAt(s, i)
           at(j) == IF j < i THEN j ELSE j + 1
<1>1. i \in 1..Len(s) /\ Len(s) \in Nat /\ DOMAIN s = 1..Len(s)
  OBVIOUS
<1>4. /\ t \in Seq(Events) /\ Len(t) = Len(s) - 1
      /\ \A j \in 1..Len(s) - 1 : t[j] = IF j < i THEN s[j] ELSE s[j + 1]
  BY <1>1, RemoveAtLemma
<1> HIDE DEF t
<1>6. DOMAIN t = 1..Len(s) - 1
  BY <1>1, <1>4
<1>7. \A j \in DOMAIN t : at(j) \in DOMAIN s \ {i} /\ t[j] = s[at(j)]
  BY <1>1, <1>4, <1>6
<1>8. \A j, k \in DOMAIN t : j # k => at(j) # at(k)
  BY <1>1, <1>6
<1>9. ASSUME NEW k \in DOMAIN s \ {i}
      PROVE  \E j \in DOMAIN t : t[j] = s[k]
  <2>1. CASE k < i
    <3>1. k \in DOMAIN t /\ t[k] = s[k]
      BY <1>1, <1>4, <1>6, <2>1
    <3> QED
      BY <3>1
  <2>2. CASE k > i
    <3>1. k - 1 \in DOMAIN t /\ ~(k - 1 < i) /\ (k - 1) + 1 = k
      BY <1>1, <1>6, <2>2
    <3>2. t[k - 1] = s[k]
      BY <1>4, <1>6, <3>1
    <3> QED
      BY <3>1, <3>2
  <2> QED
    BY <1>1, <2>1, <2>2
<1> HIDE DEF at
<1> QED
  BY <1>4, <1>7, <1>8, <1>9 DEF t

\* A request reaches the server.
LEMMA PutArrivesStep ==
    ASSUME MatrixAssumption, MatrixInv, NEW u \in Users, PutArrives(u)
    PROVE  MatrixInv'
<1>1. /\ MatrixTypeOK /\ MatrixShape /\ MembersOnce /\ AdminStays
      /\ ViewsFollow /\ ChatIsInOrder /\ PutsTell /\ Once /\ PutsTellOf(u)
  BY DEF MatrixInv, MembersOnce, PutsTell
<1>2. u \in Clients /\ u # Admin /\ Admin \in Clients /\ Users \subseteq Clients
  BY DEF Clients, MatrixAssumption
<1>3. PICK i \in DOMAIN puts[u] :
        /\ puts' = [puts EXCEPT ![u] = RemoveAt(@, i)]
        /\ IF Joined(u) THEN Appended(puts[u][i]) /\ UNCHANGED phase
           ELSE /\ phase' = IF puts[u][i].kind = "audio"
                            THEN [phase EXCEPT ![u] = "crashed"] ELSE phase
                /\ UNCHANGED log
        /\ UNCHANGED <<viewVars, flags, raced>>
  BY DEF PutArrives
<1> DEFINE ev == puts[u][i]
           k == Len(log) + 1
<1>4. UNCHANGED <<room, since, member, audio, chat, flags, raced>>
  BY <1>3 DEF viewVars
<1>5. /\ puts' \in [Clients -> Seq(Events)]
      /\ \A c \in Clients \ {u} : puts'[c] = puts[c]
      /\ Len(puts'[u]) = Len(puts[u]) - 1
      /\ \A j \in DOMAIN puts'[u] :
           \E m \in DOMAIN puts[u] \ {i} : puts'[u][j] = puts[u][m]
      /\ \A j, m \in DOMAIN puts'[u] : j # m =>
           \E a, b \in DOMAIN puts[u] :
               a # b /\ puts'[u][j] = puts[u][a] /\ puts'[u][m] = puts[u][b]
      /\ \A m \in DOMAIN puts[u] \ {i} :
           \E j \in DOMAIN puts'[u] : puts'[u][j] = puts[u][m]
  <2> DEFINE s == puts[u]
             t == RemoveAt(s, i)
  <2>1. /\ puts \in [Clients -> Seq(Events)] /\ s \in Seq(Events) /\ i \in DOMAIN s
    BY <1>1, <1>2 DEF MatrixShape
  <2>2. puts' = [puts EXCEPT ![u] = t]
    BY <1>3
  <2> HIDE DEF s
  <2>3. /\ t \in Seq(Events) /\ Len(t) = Len(s) - 1
        /\ \A j \in DOMAIN t : \E o \in DOMAIN s \ {i} : t[j] = s[o]
        /\ \A j, o \in DOMAIN t : j # o =>
             \E m, n \in DOMAIN s : m # n /\ t[j] = s[m] /\ t[o] = s[n]
        /\ \A o \in DOMAIN s \ {i} : \E j \in DOMAIN t : t[j] = s[o]
    BY <2>1, PutsLeft
  <2> HIDE DEF t
  <2>4. /\ puts' \in [Clients -> Seq(Events)] /\ puts'[u] = t
        /\ \A c \in Clients \ {u} : puts'[c] = puts[c]
    BY <1>2, <2>1, <2>2, <2>3
  <2> QED
    BY <2>3, <2>4 DEF s
<1>6. ev \in Events /\ ev.who = u /\ ev.kind \in {"audio", "chat"}
  <2>1. puts[u] \in Seq(Events)
    BY <1>1, <1>2 DEF MatrixShape
  <2> QED
    BY <1>1, <2>1 DEF PutsTellOf
<1>7. /\ phase' \in [Clients -> {"out", "asked", "in", "left", "crashed"}]
      /\ \A c \in Clients : phase'[c] = phase[c] \/ (c = u /\ phase'[c] = "crashed")
  <2>1. phase \in [Clients -> {"out", "asked", "in", "left", "crashed"}]
    BY <1>1 DEF MatrixTypeOK
  <2>2. phase' = phase \/ phase' = [phase EXCEPT ![u] = "crashed"]
    BY <1>3
  <2> QED
    BY <1>2, <2>1, <2>2
<1>8. Joined(u) => /\ Grows(ev)
                   /\ \A kind, a : Latest(kind, a, DOMAIN log)' =
                         IF ev.kind = kind /\ ev.who = a THEN k ELSE Latest(kind, a, DOMAIN log)
  <2> SUFFICES ASSUME Joined(u)
               PROVE  /\ Grows(ev)
                      /\ \A kind, a : Latest(kind, a, DOMAIN log)' =
                            IF ev.kind = kind /\ ev.who = a THEN k ELSE Latest(kind, a, DOMAIN log)
    OBVIOUS
  <2>1. Appended(ev)
    BY <1>3
  <2> HIDE DEF ev
  <2> QED
    BY <1>1, <1>6, <2>1, GrowthLemma
<1>9. ~Joined(u) => UNCHANGED log
  BY <1>3
<1> HIDE DEF ev
<1>10. Extends
  BY <1>1, <1>8, <1>9, GrowsExtends, KeptExtends
<1>11. MatrixTypeOK'
  <2>1. \A c \in Clients : since[c] \in 0..Len(log')
    BY <1>1, <1>10 DEF MatrixTypeOK, Extends
  <2>2. \A c \in Clients : Len(puts'[c]) <= MaxPuts
    <3>1. \A c \in Clients : Len(puts[c]) \in Nat /\ Len(puts[c]) <= MaxPuts
      BY <1>1 DEF MatrixShape, MatrixTypeOK
    <3>2. MaxPuts \in Nat
      BY DEF MatrixAssumption
    <3>3. \A c \in Clients : Len(puts'[c]) <= Len(puts[c])
      <4>1. Len(puts'[u]) <= Len(puts[u])
        BY <1>2, <1>5, <3>1
      <4>2. \A c \in Clients \ {u} : Len(puts'[c]) <= Len(puts[c])
        BY <1>5, <3>1
      <4> QED
        BY <4>1, <4>2
    <3>4. \A c \in Clients : Len(puts'[c]) \in Nat
      BY <1>5
    <3> QED
      BY <3>1, <3>2, <3>3, <3>4
  <2> QED
    BY <1>1, <1>4, <1>7, <1>10, <2>1, <2>2 DEF MatrixTypeOK, Extends
<1>12. MatrixShape'
  BY <1>1, <1>4, <1>5, <1>10 DEF MatrixShape, Extends
<1>13. ViewsFollow' /\ ChatIsInOrder'
  <2>1. \A c \in Clients : phase'[c] \in {"out", "asked", "in"} =>
                           phase[c] \in {"out", "asked", "in"}
    BY <1>7
  <2> QED
    BY <1>1, <1>4, <1>10, <2>1, ViewsStay
<1>14. MembersOnce'
  <2>1. Once'
    <3>1. CASE Joined(u)
      BY <1>1, <1>6, <1>8, <3>1, OnceStays
    <3>2. CASE ~Joined(u)
      BY <1>1, <1>9, <3>2 DEF Once, Of
    <3> QED
      BY <3>1, <3>2
  <2>2. ASSUME NEW a \in Users
        PROVE  MemberOnce(a)'
    <3>1. phase'[a] = "out" => phase[a] = "out"
      BY <1>2, <1>7
    <3>2. MemberOnce(a)
      BY <1>1 DEF MembersOnce
    <3>3. CASE Joined(u)
      <4>1. Latest("member", a, DOMAIN log)' = Latest("member", a, DOMAIN log)
        BY <1>6, <1>8, <3>3
      <4> QED
        BY <1>1, <1>6, <1>8, <3>1, <3>2, <3>3, <4>1, MemberOnceStays
    <3>4. CASE ~Joined(u)
      BY <1>1, <1>9, <3>1, <3>2, <3>4, MemberOnceStays
    <3> QED
      BY <3>3, <3>4
  <2> QED
    BY <2>1, <2>2 DEF MembersOnce
<1>15. AdminStays'
  <2>1. \A n \in DOMAIN log' : Of("member", Admin, n)' =>
           n \in DOMAIN log /\ log'[n] = log[n] /\ Of("member", Admin, n)
    <3>1. CASE Joined(u)
      BY <1>6, <1>8, <3>1 DEF Of, Grows
    <3>2. CASE ~Joined(u)
      BY <1>9, <3>2 DEF Of
    <3> QED
      BY <3>1, <3>2
  <2>2. phase'[Admin] = phase[Admin]
    BY <1>2, <1>7
  <2> QED
    BY <1>1, <2>1, <2>2 DEF AdminStays
<1>16. PutsTell'
  <2>1. ASSUME NEW a \in Users, a # u
        PROVE  PutsTellOf(a)'
    <3>1. Said(a)' = Said(a)
      <4>1. CASE Joined(u)
        <5>1. Latest("audio", a, DOMAIN log)' = Latest("audio", a, DOMAIN log)
          BY <1>6, <1>8, <2>1, <4>1
        <5> QED
          BY <1>1, <1>6, <1>8, <2>1, <4>1, <5>1, SaidStays
      <4>2. CASE ~Joined(u)
        BY <1>1, <1>9, <4>2, SaidStays
      <4> QED
        BY <4>1, <4>2
    <3>2. a \in Clients \ {u} /\ phase'[a] = phase[a] /\ puts'[a] = puts[a]
      BY <1>2, <1>5, <1>7, <2>1
    <3> QED
      BY <1>1, <1>4, <3>1, <3>2, PutsStay DEF PutsTell
  <2>2. PutsTellOf(u)'
    <3>1. \A j \in DOMAIN puts'[u] :
             puts'[u][j].who = u /\ puts'[u][j].kind \in {"audio", "chat"}
      BY <1>1, <1>5 DEF PutsTellOf
    <3>2. phase[u] \notin {"out", "asked"}
      <4>1. DOMAIN puts[u] # {}
        OBVIOUS
      <4>2. puts[u] = <<>> => DOMAIN puts[u] = {}
        OBVIOUS
      <4> QED
        BY <1>1, <4>1, <4>2 DEF PutsTellOf
    <3>3. phase'[u] \notin {"out", "asked"}
      BY <1>2, <1>7, <3>2
    <3>4. ASSUME phase'[u] = "in", ~raced'[u]
          PROVE  /\ AudioPuts(u)' = {} => Said(u)' = flags'[u]
                 /\ \A j, m \in AudioPuts(u)' : j = m /\ puts'[u][j].value = flags'[u]
      <4>1. phase[u] = "in" /\ ~raced[u] /\ flags'[u] = flags[u]
        BY <1>2, <1>4, <1>7, <3>4
      <4>2. /\ AudioPuts(u) = {} => Said(u) = flags[u]
            /\ \A j, m \in AudioPuts(u) : j = m /\ puts[u][j].value = flags[u]
        BY <1>1, <4>1 DEF PutsTellOf
      <4>3. /\ AudioPuts(u) = {j \in DOMAIN puts[u] : puts[u][j].kind = "audio"}
            /\ AudioPuts(u)' = {j \in DOMAIN puts'[u] : puts'[u][j].kind = "audio"}
        BY DEF AudioPuts
      <4>4. CASE ev.kind = "audio"
        <5>1. \A m \in DOMAIN puts[u] \ {i} : puts[u][m].kind # "audio"
          BY <4>2, <4>3, <4>4 DEF ev
        <5>2. AudioPuts(u)' = {}
          BY <1>5, <4>3, <5>1
        <5>3. Joined(u)
          BY <1>2, <1>3, <3>4, <4>4, <1>7, <1>1 DEF ev, MatrixTypeOK
        <5>4. ev.value = flags[u]
          BY <4>2, <4>3, <4>4 DEF ev
        <5>5. Latest("audio", u, DOMAIN log)' = k /\ k # 0 /\ log'[k] = ev
          BY <1>6, <1>8, <4>4, <5>3 DEF Grows
        <5>6. Said(u)' = ev.value
          BY <5>5 DEF Said
        <5> QED
          BY <4>1, <5>2, <5>4, <5>6
      <4>5. CASE ev.kind = "chat"
        <5>1. Said(u)' = Said(u)
          <6>1. CASE Joined(u)
            <7>1. Latest("audio", u, DOMAIN log)' = Latest("audio", u, DOMAIN log)
              BY <1>6, <1>8, <4>5, <6>1
            <7> QED
              BY <1>1, <1>6, <1>8, <4>5, <6>1, <7>1, SaidStays
          <6>2. CASE ~Joined(u)
            BY <1>1, <1>9, <6>2, SaidStays
          <6> QED
            BY <6>1, <6>2
        <5>2. AudioPuts(u)' = {} => AudioPuts(u) = {}
          <6>1. i \notin AudioPuts(u)
            BY <4>3, <4>5 DEF ev
          <6> QED
            BY <1>5, <4>3, <6>1
        <5>3. ASSUME NEW j \in AudioPuts(u)', NEW m \in AudioPuts(u)'
              PROVE  j = m /\ puts'[u][j].value = flags[u]
          <6>1. j \in DOMAIN puts'[u] /\ m \in DOMAIN puts'[u]
                /\ puts'[u][j].kind = "audio" /\ puts'[u][m].kind = "audio"
            BY <4>3, <5>3
          <6>2. j = m
            <7>1. ASSUME j # m
                  PROVE  FALSE
              <8>1. PICK a \in DOMAIN puts[u], b \in DOMAIN puts[u] :
                       a # b /\ puts'[u][j] = puts[u][a] /\ puts'[u][m] = puts[u][b]
                BY <1>5, <6>1, <7>1
              <8>2. a \in AudioPuts(u) /\ b \in AudioPuts(u)
                BY <4>3, <6>1, <8>1
              <8> QED
                BY <4>2, <8>1, <8>2
            <7> QED
              BY <7>1
          <6>3. PICK a \in DOMAIN puts[u] : puts'[u][j] = puts[u][a]
            BY <1>5, <6>1
          <6>4. a \in AudioPuts(u)
            BY <4>3, <6>1, <6>3
          <6> QED
            BY <4>2, <6>2, <6>3, <6>4
        <5> QED
          BY <4>1, <4>2, <5>1, <5>2, <5>3
      <4> QED
        BY <1>6, <4>4, <4>5
    <3> QED
      BY <3>1, <3>3, <3>4 DEF PutsTellOf
  <2> QED
    BY <2>1, <2>2 DEF PutsTell
<1> QED
  BY <1>11, <1>12, <1>13, <1>14, <1>15, <1>16 DEF MatrixInv

\* The answer to the request that makes the room.
LEMMA CreateAnsweredStep ==
    ASSUME MatrixAssumption, MatrixInv, CreateAnswered
    PROVE  MatrixInv'
<1>1. /\ MatrixTypeOK /\ MatrixShape /\ MembersOnce /\ AdminStays
      /\ ViewsFollow /\ ChatIsInOrder /\ PutsTell /\ Once
  BY DEF MatrixInv, MembersOnce
<1>2. /\ UNCHANGED <<log, since, member, audio, chat, flags, puts, raced>>
      /\ phase[Admin] = "asked" /\ phase' = [phase EXCEPT ![Admin] = "in"]
      /\ room' = [room EXCEPT ![Admin] = TRUE]
      /\ Admin \in Clients /\ \A u \in Users : u \in Clients /\ u # Admin
  BY DEF CreateAnswered, sentVars, Clients, MatrixAssumption
<1>3. /\ phase' \in [Clients -> {"out", "asked", "in", "left", "crashed"}]
      /\ room' \in [Clients -> BOOLEAN]
      /\ phase'[Admin] = "in" /\ \A u \in Clients \ {Admin} : phase'[u] = phase[u]
  BY <1>1, <1>2 DEF MatrixTypeOK
<1>4. MatrixTypeOK' /\ MatrixShape'
  BY <1>1, <1>2, <1>3 DEF MatrixTypeOK, MatrixShape
<1>5. Extends
  BY <1>1, <1>2, KeptExtends
<1>6. ViewsFollow' /\ ChatIsInOrder'
  <2>1. \A c \in Clients : phase'[c] \in {"out", "asked", "in"} =>
                           phase[c] \in {"out", "asked", "in"}
    BY <1>2, <1>3
  <2> QED
    BY <1>1, <1>2, <1>5, <2>1, ViewsStay
<1>7. MembersOnce'
  <2>1. Once'
    BY <1>1, <1>2 DEF Once, Of
  <2>2. \A u \in Users : MemberOnce(u)'
    BY <1>1, <1>2, <1>3, MemberOnceStays DEF MembersOnce
  <2> QED
    BY <2>1, <2>2 DEF MembersOnce
<1>8. AdminStays'
  BY <1>1, <1>2, <1>3 DEF AdminStays, Of
<1>9. PutsTell'
  <2> SUFFICES ASSUME NEW a \in Users
               PROVE  PutsTellOf(a)'
    BY DEF PutsTell
  <2>1. Said(a)' = Said(a)
    BY <1>1, <1>2, SaidStays
  <2> QED
    BY <1>1, <1>2, <1>3, <2>1, PutsStay DEF PutsTell
<1> QED
  BY <1>4, <1>6, <1>7, <1>8, <1>9 DEF MatrixInv

\* What u does with its own switches and messages leaves the log and the others.
LEMMA OwnStep ==
    ASSUME MatrixAssumption, MatrixInv, NEW u \in Users,
           UNCHANGED <<log, since, member, audio, chat>>,
           phase' \in [Clients -> {"out", "asked", "in", "left", "crashed"}],
           phase'[u] = "out" => phase[u] = "out",
           phase'[u] \in {"out", "asked", "in"} => phase[u] \in {"out", "asked", "in"},
           room' \in [Clients -> BOOLEAN], raced' \in [Clients -> BOOLEAN],
           flags' \in [Clients -> Flags], puts' \in [Clients -> Seq(Events)],
           Len(puts'[u]) <= MaxPuts,
           \A c \in Clients \ {u} : /\ phase'[c] = phase[c] /\ raced'[c] = raced[c]
                                    /\ flags'[c] = flags[c] /\ puts'[c] = puts[c],
           PutsTellOf(u)'
    PROVE  MatrixInv'
<1>1. /\ MatrixTypeOK /\ MatrixShape /\ MembersOnce /\ AdminStays
      /\ ViewsFollow /\ ChatIsInOrder /\ PutsTell /\ Once
  BY DEF MatrixInv, MembersOnce
<1>2. Admin \in Clients \ {u} /\ \A a \in Users : a \in Clients
  BY DEF Clients, MatrixAssumption
<1>3. MatrixTypeOK'
  <2>1. \A c \in Clients : flags'[c] \in Flags /\ Len(puts'[c]) <= MaxPuts
    <3>1. \A c \in Clients \ {u} : Len(puts'[c]) <= MaxPuts
      BY <1>1 DEF MatrixTypeOK
    <3> QED
      BY <3>1
  <2> QED
    BY <1>1, <2>1 DEF MatrixTypeOK
<1>4. MatrixShape'
  BY <1>1 DEF MatrixShape
<1>5. Extends
  BY <1>1, KeptExtends
<1>6. ViewsFollow' /\ ChatIsInOrder'
  <2>1. \A c \in Clients : phase'[c] \in {"out", "asked", "in"} =>
                           phase[c] \in {"out", "asked", "in"}
    OBVIOUS
  <2> QED
    BY <1>1, <1>5, <2>1, ViewsStay
<1>7. MembersOnce'
  <2>1. Once'
    BY <1>1 DEF Once, Of
  <2>2. ASSUME NEW a \in Users
        PROVE  MemberOnce(a)'
    <3>1. phase'[a] = "out" => phase[a] = "out"
      BY <1>2
    <3> QED
      BY <1>1, <3>1, MemberOnceStays DEF MembersOnce
  <2> QED
    BY <2>1, <2>2 DEF MembersOnce
<1>8. AdminStays'
  BY <1>1, <1>2 DEF AdminStays, Of
<1>9. PutsTell'
  <2>1. ASSUME NEW a \in Users, a # u
        PROVE  PutsTellOf(a)'
    <3>1. Said(a)' = Said(a)
      BY <1>1, SaidStays
    <3>2. a \in Clients \ {u} /\ PutsTellOf(a)
      BY <1>1, <1>2, <2>1 DEF PutsTell
    <3> QED
      BY <3>1, <3>2, PutsStay
  <2> QED
    BY <2>1 DEF PutsTell
<1> QED
  BY <1>3, <1>4, <1>6, <1>7, <1>8, <1>9 DEF MatrixInv

\* A state is sent: it is the only one on its way, or they race.
LEMMA SentLemma ==
    ASSUME MatrixAssumption, MatrixInv, NEW u \in Users, NEW fs \in Flags, Sent(u, fs), UNCHANGED log,
           phase'[u] = "in", flags'[u] = fs, Len(puts[u]) < MaxPuts
    PROVE  /\ puts' \in [Clients -> Seq(Events)] /\ raced' \in [Clients -> BOOLEAN]
           /\ \A c \in Clients \ {u} : puts'[c] = puts[c] /\ raced'[c] = raced[c]
           /\ Len(puts'[u]) <= MaxPuts
           /\ PutsTellOf(u)'
<1> DEFINE ev == Event("audio", u, fs)
           k == Len(puts[u]) + 1
<1>1. MatrixShape /\ MatrixTypeOK /\ PutsTellOf(u) /\ u \in Clients
  BY DEF MatrixInv, PutsTell, Clients
<1>2. ev \in Events /\ ev.kind = "audio" /\ ev.who = u /\ ev.value = fs
  <2>1. fs \in Values
    BY DEF Flags, Values
  <2> QED
    BY <1>1, <2>1 DEF Event, Events
<1>3. /\ puts' = [puts EXCEPT ![u] = Append(@, ev)]
      /\ raced' = [raced EXCEPT
            ![u] = @ \/ \E i \in DOMAIN puts[u] : puts[u][i].kind = "audio"]
  BY DEF Sent
<1> HIDE DEF ev
<1>4. puts \in [Clients -> Seq(Events)] /\ puts[u] \in Seq(Events) /\ Len(puts[u]) \in Nat
  BY <1>1 DEF MatrixShape
<1>5. /\ puts'[u] = Append(puts[u], ev) /\ puts' \in [Clients -> Seq(Events)]
      /\ \A c \in Clients \ {u} : puts'[c] = puts[c]
  BY <1>1, <1>2, <1>3, <1>4
<1>6. /\ DOMAIN puts'[u] = 1..k /\ DOMAIN puts[u] = 1..Len(puts[u]) /\ Len(puts'[u]) = k
      /\ puts'[u][k] = ev /\ \A i \in DOMAIN puts[u] : puts'[u][i] = puts[u][i]
  BY <1>2, <1>4, <1>5
<1>7. raced \in [Clients -> BOOLEAN]
  BY <1>1 DEF MatrixTypeOK
<1>8. /\ raced' \in [Clients -> BOOLEAN]
      /\ \A c \in Clients \ {u} : raced'[c] = raced[c]
      /\ ~raced'[u] => ~raced[u] /\ \A i \in DOMAIN puts[u] : puts[u][i].kind # "audio"
  <2> DEFINE r == raced[u] \/ \E i \in DOMAIN puts[u] : puts[u][i].kind = "audio"
  <2>1. raced' = [raced EXCEPT ![u] = r] /\ r \in BOOLEAN
    BY <1>3, <1>7, <1>1
  <2>2. ~r => ~raced[u] /\ \A i \in DOMAIN puts[u] : puts[u][i].kind # "audio"
    OBVIOUS
  <2> HIDE DEF r
  <2>3. /\ raced' \in [Clients -> BOOLEAN] /\ raced'[u] = r
        /\ \A c \in Clients \ {u} : raced'[c] = raced[c]
    BY <1>1, <1>7, <2>1
  <2> QED
    BY <2>2, <2>3
<1>9. Len(puts'[u]) <= MaxPuts
  <2>1. MaxPuts \in Nat
    BY DEF MatrixAssumption
  <2> QED
    BY <1>4, <1>6, <2>1
<1>10. PutsTellOf(u)'
  <2>1. \A i \in DOMAIN puts'[u] : i \in DOMAIN puts[u] \/ i = k
    BY <1>4, <1>6
  <2>2. \A i \in DOMAIN puts'[u] :
           puts'[u][i].who = u /\ puts'[u][i].kind \in {"audio", "chat"}
    BY <1>1, <1>2, <1>6, <2>1 DEF PutsTellOf
  <2>3. AudioPuts(u)' = {i \in DOMAIN puts'[u] : puts'[u][i].kind = "audio"}
    BY DEF AudioPuts
  <2>4. ~raced'[u] => AudioPuts(u)' = {k}
    <3>1. k \in DOMAIN puts'[u]
      BY <1>4, <1>6
    <3> QED
      BY <1>2, <1>6, <1>8, <2>1, <2>3, <3>1
  <2>5. puts'[u][k].value = flags'[u]
    BY <1>2, <1>6
  <2> QED
    BY <2>2, <2>4, <2>5 DEF PutsTellOf
<1> QED
  BY <1>5, <1>8, <1>9, <1>10

\* The answer to a join.
LEMMA JoinAnsweredStep ==
    ASSUME MatrixAssumption, MatrixInv, NEW u \in Users, JoinAnswered(u)
    PROVE  MatrixInv'
<1>1. /\ MatrixShape /\ MatrixTypeOK /\ PutsTellOf(u) /\ u \in Clients
  BY DEF MatrixInv, PutsTell, Clients
<1>2. /\ phase[u] = "asked"
      /\ phase' = [phase EXCEPT ![u] = IF room[u] THEN "crashed" ELSE "in"]
      /\ room' = [room EXCEPT ![u] = TRUE]
      /\ IF flags[u] = {} \/ room[u] THEN UNCHANGED <<flags, puts, raced>>
         ELSE Sent(u, flags[u]) /\ UNCHANGED flags
      /\ UNCHANGED <<log, since, member, audio, chat>>
  BY DEF JoinAnswered, sentVars
<1>3. /\ phase \in [Clients -> {"out", "asked", "in", "left", "crashed"}]
      /\ room \in [Clients -> BOOLEAN] /\ raced \in [Clients -> BOOLEAN]
      /\ flags \in [Clients -> Flags] /\ puts \in [Clients -> Seq(Events)]
      /\ \A a \in Clients : Len(puts[a]) <= MaxPuts
  BY <1>1 DEF MatrixTypeOK, MatrixShape
<1>4. /\ phase' \in [Clients -> {"out", "asked", "in", "left", "crashed"}]
      /\ room' \in [Clients -> BOOLEAN]
      /\ phase'[u] = IF room[u] THEN "crashed" ELSE "in"
      /\ \A a \in Clients \ {u} : phase'[a] = phase[a]
  BY <1>1, <1>2, <1>3
<1>5. puts[u] = <<>> /\ Said(u) = {} /\ ~raced[u]
  BY <1>1, <1>2 DEF PutsTellOf
<1>6. CASE flags[u] = {} \/ room[u]
  <2>1. UNCHANGED <<flags, puts, raced>>
    BY <1>2, <1>6
  <2>2. Said(u)' = Said(u)
    BY <1>1, <1>2, SaidStays
  <2>3. DOMAIN puts'[u] = {} /\ AudioPuts(u)' = {}
    BY <1>5, <2>1 DEF AudioPuts
  <2>4. phase'[u] = "in" => flags[u] = {}
    BY <1>4, <1>6
  <2>5. PutsTellOf(u)'
    BY <1>4, <1>5, <2>1, <2>2, <2>3, <2>4 DEF PutsTellOf
  <2>6. /\ phase'[u] = "out" => phase[u] = "out"
        /\ phase'[u] \in {"out", "asked", "in"} => phase[u] \in {"out", "asked", "in"}
    BY <1>2, <1>4
  <2>7. /\ raced' \in [Clients -> BOOLEAN] /\ flags' \in [Clients -> Flags]
        /\ puts' \in [Clients -> Seq(Events)] /\ Len(puts'[u]) <= MaxPuts
        /\ \A a \in Clients \ {u} : /\ phase'[a] = phase[a] /\ raced'[a] = raced[a]
                                 /\ flags'[a] = flags[a] /\ puts'[a] = puts[a]
    BY <1>1, <1>3, <1>4, <2>1
  <2> QED
    BY <1>2, <1>4, <2>5, <2>6, <2>7, OwnStep
<1>7. CASE ~(flags[u] = {} \/ room[u])
  <2>1. Sent(u, flags[u]) /\ UNCHANGED <<flags, log>> /\ phase'[u] = "in" /\ flags[u] \in Flags
    BY <1>1, <1>2, <1>3, <1>4, <1>7
  <2>2. Len(puts[u]) < MaxPuts
    <3>1. Len(puts[u]) = 0
      BY <1>5
    <3> QED
      BY <3>1 DEF MatrixAssumption
  <2>3. /\ puts' \in [Clients -> Seq(Events)] /\ raced' \in [Clients -> BOOLEAN]
        /\ \A c \in Clients \ {u} : puts'[c] = puts[c] /\ raced'[c] = raced[c]
        /\ Len(puts'[u]) <= MaxPuts
        /\ PutsTellOf(u)'
    BY <2>1, <2>2, SentLemma
  <2> QED
    BY <1>2, <1>3, <1>4, <2>1, <2>3, OwnStep
<1> QED
  BY <1>6, <1>7

\* A switch is turned, and the others are told.
LEMMA ChangeFlagsStep ==
    ASSUME MatrixAssumption, MatrixInv, NEW u \in Users, ChangeFlags(u)
    PROVE  MatrixInv'
<1>1. /\ MatrixShape /\ MatrixTypeOK /\ PutsTellOf(u) /\ u \in Clients
  BY DEF MatrixInv, PutsTell, Clients
<1>2. PICK f \in Switches :
        LET fs == (flags[u] \ {f}) \cup ({f} \ flags[u]) IN
        /\ flags' = [flags EXCEPT ![u] = fs]
        /\ IF phase[u] = "in" THEN Sent(u, fs) ELSE UNCHANGED <<puts, raced>>
  BY DEF ChangeFlags
<1> DEFINE fs == (flags[u] \ {f}) \cup ({f} \ flags[u])
<1>3. /\ phase[u] \in {"out", "in"} /\ Len(puts[u]) < MaxPuts
      /\ UNCHANGED <<log, phase, room, since, member, audio, chat>>
      /\ flags' = [flags EXCEPT ![u] = fs]
      /\ IF phase[u] = "in" THEN Sent(u, fs) ELSE UNCHANGED <<puts, raced>>
  BY <1>2 DEF ChangeFlags, viewVars
<1>4. /\ phase \in [Clients -> {"out", "asked", "in", "left", "crashed"}]
      /\ room \in [Clients -> BOOLEAN] /\ raced \in [Clients -> BOOLEAN]
      /\ flags \in [Clients -> Flags] /\ puts \in [Clients -> Seq(Events)]
      /\ \A a \in Clients : Len(puts[a]) <= MaxPuts
  BY <1>1 DEF MatrixTypeOK, MatrixShape
<1>5. fs \in Flags
  BY <1>1, <1>4 DEF Flags
<1> HIDE DEF fs
<1>6. /\ flags' \in [Clients -> Flags] /\ flags'[u] = fs
      /\ \A a \in Clients \ {u} : flags'[a] = flags[a]
  BY <1>1, <1>3, <1>4, <1>5
<1>7. CASE phase[u] = "in"
  <2>1. Sent(u, fs) /\ phase'[u] = "in"
    BY <1>3, <1>7
  <2>2. /\ puts' \in [Clients -> Seq(Events)] /\ raced' \in [Clients -> BOOLEAN]
        /\ \A c \in Clients \ {u} : puts'[c] = puts[c] /\ raced'[c] = raced[c]
        /\ Len(puts'[u]) <= MaxPuts
        /\ PutsTellOf(u)'
    BY <1>3, <1>5, <1>6, <2>1, SentLemma
  <2> QED
    BY <1>3, <1>4, <1>6, <2>2, OwnStep
<1>8. CASE phase[u] # "in"
  <2>1. phase[u] = "out" /\ UNCHANGED <<puts, raced>>
    BY <1>3, <1>8
  <2>2. Said(u)' = Said(u)
    BY <1>1, <1>3, SaidStays
  <2>3. PutsTellOf(u)'
    BY <1>1, <1>3, <2>1, <2>2 DEF PutsTellOf
  <2>4. /\ raced' \in [Clients -> BOOLEAN] /\ phase'[u] = phase[u]
        /\ phase' \in [Clients -> {"out", "asked", "in", "left", "crashed"}]
        /\ room' \in [Clients -> BOOLEAN]
        /\ puts' \in [Clients -> Seq(Events)] /\ Len(puts'[u]) <= MaxPuts
        /\ \A a \in Clients \ {u} : /\ phase'[a] = phase[a] /\ raced'[a] = raced[a]
                                 /\ flags'[a] = flags[a] /\ puts'[a] = puts[a]
    BY <1>1, <1>3, <1>4, <1>6, <2>1
  <2> QED
    BY <1>3, <1>6, <2>3, <2>4, OwnStep
<1> QED
  BY <1>7, <1>8

\* A message is sent.
LEMMA SendChatStep ==
    ASSUME MatrixAssumption, MatrixInv, NEW u \in Users, SendChat(u)
    PROVE  MatrixInv'
<1> DEFINE ev == Event("chat", u, {})
           k == Len(puts[u]) + 1
<1>1. /\ MatrixShape /\ MatrixTypeOK /\ PutsTellOf(u) /\ u \in Clients
  BY DEF MatrixInv, PutsTell, Clients
<1>2. /\ phase[u] = "in" /\ Len(puts[u]) < MaxPuts
      /\ puts' = [puts EXCEPT ![u] = Append(@, ev)]
      /\ UNCHANGED <<log, phase, room, since, member, audio, chat, flags, raced>>
  BY DEF SendChat, viewVars
<1>3. ev \in Events /\ ev.kind = "chat" /\ ev.who = u
  <2>1. {} \in Values
    BY DEF Values
  <2> QED
    BY <1>1, <2>1 DEF Event, Events
<1> HIDE DEF ev
<1>4. /\ phase \in [Clients -> {"out", "asked", "in", "left", "crashed"}]
      /\ room \in [Clients -> BOOLEAN] /\ raced \in [Clients -> BOOLEAN]
      /\ flags \in [Clients -> Flags] /\ puts \in [Clients -> Seq(Events)]
      /\ puts[u] \in Seq(Events) /\ Len(puts[u]) \in Nat
  BY <1>1 DEF MatrixTypeOK, MatrixShape
<1>5. /\ puts'[u] = Append(puts[u], ev) /\ puts' \in [Clients -> Seq(Events)]
      /\ \A c \in Clients \ {u} : puts'[c] = puts[c]
  BY <1>1, <1>2, <1>3, <1>4
<1>6. /\ DOMAIN puts'[u] = 1..k /\ DOMAIN puts[u] = 1..Len(puts[u]) /\ Len(puts'[u]) = k
      /\ puts'[u][k] = ev /\ \A i \in DOMAIN puts[u] : puts'[u][i] = puts[u][i]
  BY <1>3, <1>4, <1>5
<1>7. Len(puts'[u]) <= MaxPuts
  <2>1. MaxPuts \in Nat
    BY DEF MatrixAssumption
  <2> QED
    BY <1>2, <1>4, <1>6, <2>1
<1>8. PutsTellOf(u)'
  <2>1. \A i \in DOMAIN puts'[u] : i \in DOMAIN puts[u] \/ i = k
    BY <1>4, <1>6
  <2>2. DOMAIN puts[u] \subseteq DOMAIN puts'[u]
    BY <1>4, <1>6
  <2>3. \A i \in DOMAIN puts'[u] :
           puts'[u][i].who = u /\ puts'[u][i].kind \in {"audio", "chat"}
    BY <1>1, <1>3, <1>6, <2>1 DEF PutsTellOf
  <2>4. AudioPuts(u)' = AudioPuts(u)
    <3>1. /\ AudioPuts(u) = {j \in DOMAIN puts[u] : puts[u][j].kind = "audio"}
          /\ AudioPuts(u)' = {j \in DOMAIN puts'[u] : puts'[u][j].kind = "audio"}
      BY DEF AudioPuts
    <3> QED
      BY <1>3, <1>6, <2>1, <2>2, <3>1
  <2>5. \A i \in AudioPuts(u) : puts'[u][i] = puts[u][i]
    BY <1>6 DEF AudioPuts
  <2>6. Said(u)' = Said(u)
    BY <1>1, <1>2, SaidStays
  <2>7. phase'[u] = "in" /\ flags'[u] = flags[u] /\ raced'[u] = raced[u] /\ phase[u] = "in"
    BY <1>2
  <2>8. ~raced[u] => /\ AudioPuts(u) = {} => Said(u) = flags[u]
                     /\ \A i, j \in AudioPuts(u) : i = j /\ puts[u][i].value = flags[u]
    BY <1>1, <2>7 DEF PutsTellOf
  <2> QED
    BY <2>3, <2>4, <2>5, <2>6, <2>7, <2>8 DEF PutsTellOf
<1> QED
  BY <1>2, <1>4, <1>5, <1>7, <1>8, OwnStep

-----------------------------------------------------------------------------
\* What a client has after an answer up to `to` is the log up to there.
LEMMA RoomSyncedLemma ==
    ASSUME MatrixAssumption, MatrixInv, NEW c \in Clients,
           phase[c] \in {"asked", "in"}, NEW to \in since[c] + 1..Len(log),
           MemberSince(c) \in 1..to, RoomSynced(c, to)
    PROVE  /\ room' = [room EXCEPT ![c] = TRUE]
           /\ member' \in [Clients -> [Clients -> Nat]]
           /\ audio' \in [Clients -> [Clients -> Nat]]
           /\ chat' \in [Clients -> Seq(Nat)]
           /\ \A a \in Clients \ {c} :
                member'[a] = member[a] /\ audio'[a] = audio[a] /\ chat'[a] = chat[a]
           /\ \A u \in Clients : /\ member'[c][u] = Latest("member", u, 1..to)
                                 /\ audio'[c][u] = Latest("audio", u, 1..to)
                                 /\ member'[c][u] \in 0..to /\ audio'[c][u] \in 0..to
           /\ Ascends(chat'[c]) /\ \A i \in DOMAIN chat'[c] : chat'[c][i] <= to
<1> DEFINE e == Content(c, to)
           v == OnEvents(c, e)
<1>1. MatrixTypeOK /\ MatrixShape /\ Once /\ ViewsFollow /\ ChatIsInOrder
  BY DEF MatrixInv, MembersOnce
<1>2. /\ since[c] \in Nat /\ to \in Nat /\ since[c] < to /\ to <= Len(log)
      /\ DOMAIN log = 1..Len(log) /\ Len(log) \in Nat
      /\ member[c] \in [Clients -> Nat] /\ audio[c] \in [Clients -> Nat]
  BY <1>1 DEF MatrixShape
<1>3. \A u \in Clients : /\ member[c][u] = Latest("member", u, 1..since[c])
                         /\ audio[c][u] = Latest("audio", u, 1..since[c])
  BY <1>1 DEF ViewsFollow
<1>4. Sourced(c)
  <2>1. \A u \in Clients : IsLatest(member[c][u], "member", u, 1..since[c])
    <3> DEFINE events == 1..since[c]
    <3>1. events \in SUBSET (1..since[c]) /\ since[c] \in Nat
      BY <1>2
    <3>2. \A u \in Clients : member[c][u] = Latest("member", u, events)
      BY <1>3
    <3> HIDE DEF events
    <3>3. \A u : IsLatest(Latest("member", u, events), "member", u, events)
      BY <3>1, LatestLemma
    <3> QED
      BY <3>2, <3>3 DEF events
  <2>2. 1..since[c] \subseteq DOMAIN log
    BY <1>2
  <2> QED
    BY <2>1, <2>2 DEF Sourced, IsLatest
<1>5. Readable(c, e) /\ \A j \in 1..Len(e) : e[j] \in 1..to
  BY <1>1, ContentLemma
<1>6. Ascends(chat[c]) /\ \A k \in DOMAIN chat[c] : chat[c][k] <= since[c]
  BY <1>1 DEF ChatIsInOrder, Ascends, ViewsFollow
<1> HIDE DEF e
<1>7. HasRead(c, v, e, Len(e))
  BY <1>1, <1>4, <1>5, <1>6, ReadLemma
<1>8. /\ room' = [room EXCEPT ![c] = TRUE]
      /\ member' = [member EXCEPT ![c] = v.member]
      /\ audio' = [audio EXCEPT ![c] = v.audio]
      /\ chat' = [chat EXCEPT ![c] = v.chat]
  BY DEF RoomSynced, e
<1> HIDE DEF v
<1>9. v.member \in [Clients -> Nat] /\ v.audio \in [Clients -> Nat] /\ v.chat \in Seq(Nat)
  BY <1>7 DEF HasRead, ClientViews
<1>10. /\ member' \in [Clients -> [Clients -> Nat]] /\ member'[c] = v.member
       /\ audio' \in [Clients -> [Clients -> Nat]] /\ audio'[c] = v.audio
       /\ chat' \in [Clients -> Seq(Nat)] /\ chat'[c] = v.chat
       /\ \A a \in Clients \ {c} :
            member'[a] = member[a] /\ audio'[a] = audio[a] /\ chat'[a] = chat[a]
  BY <1>1, <1>8, <1>9 DEF MatrixShape
<1>11. ASSUME NEW u \in Clients
       PROVE  /\ v.member[u] = Latest("member", u, 1..to)
              /\ v.audio[u] = Latest("audio", u, 1..to)
  <2>1. /\ Follows(v.member[u], member[c][u], "member", u, e, Len(e))
        /\ Follows(v.audio[u], audio[c][u], "audio", u, e, Len(e))
    BY <1>7 DEF HasRead
  <2>2. /\ v.member[u] \in Nat /\ v.audio[u] \in Nat
        /\ member[c][u] \in Nat /\ audio[c][u] \in Nat
    BY <1>2, <1>9
  <2>3. v.member[u] = Latest("member", u, 1..to)
    BY <1>1, <1>3, <2>1, <2>2, FollowsIsLatest DEF e
  <2>4. v.audio[u] = Latest("audio", u, 1..to)
    BY <1>1, <1>3, <2>1, <2>2, FollowsIsLatest DEF e
  <2> QED
    BY <2>3, <2>4
<1>12. \A kind, u : Latest(kind, u, 1..to) \in 0..to
  <2>1. 1..to \in SUBSET (1..to)
    OBVIOUS
  <2> QED
    BY <1>2, <2>1, LatestLemma
<1>13. \A i \in DOMAIN v.chat : v.chat[i] <= to
  <2>1. \A i \in DOMAIN v.chat :
          \/ v.chat[i] <= since[c]
          \/ \E j \in 1..Len(e) : v.chat[i] = e[j]
    BY <1>7 DEF HasRead
  <2>2. \A i \in DOMAIN v.chat : v.chat[i] \in Nat
    BY <1>9
  <2>3. \A j \in 1..Len(e) : e[j] <= to
    BY <1>5
  <2> QED
    BY <1>2, <2>1, <2>2, <2>3
<1>14. Ascends(v.chat)
  BY <1>7 DEF HasRead
<1> QED
  BY <1>8, <1>10, <1>11, <1>12, <1>13, <1>14

\* An answer to a sync.
LEMMA SyncedStep ==
    ASSUME MatrixAssumption, MatrixInv, NEW c \in Clients, Synced(c)
    PROVE  MatrixInv'
<1>1. /\ MatrixTypeOK /\ MatrixShape /\ MembersOnce /\ AdminStays
      /\ ViewsFollow /\ ChatIsInOrder /\ PutsTell /\ Once
  BY DEF MatrixInv, MembersOnce
<1>2. PICK to \in since[c] + 1..Len(log) :
        /\ MemberSince(c) \in 1..to
        /\ since' = [since EXCEPT ![c] = to]
        /\ IF Left(c, to)
           THEN /\ phase' = [phase EXCEPT ![c] = IF room[c] THEN "left" ELSE "crashed"]
                /\ room' = [room EXCEPT ![c] = FALSE]
                /\ UNCHANGED <<member, audio, chat>>
           ELSE RoomSynced(c, to) /\ UNCHANGED phase
  BY DEF Synced
<1>3. phase[c] \in {"asked", "in"} /\ UNCHANGED <<log, flags, puts, raced>>
  BY DEF Synced, sentVars
<1>4. /\ since \in [Clients -> Nat] /\ to \in Nat /\ since[c] < to /\ to <= Len(log)
      /\ DOMAIN log = 1..Len(log) /\ Len(log) \in Nat
  BY <1>1 DEF MatrixShape
<1>5. /\ since' \in [Clients -> Nat] /\ since'[c] = to
      /\ \A a \in Clients \ {c} : since'[a] = since[a]
      /\ \A a \in Clients : since'[a] \in 0..Len(log) /\ since[a] <= since'[a]
  <2>1. \A a \in Clients : since[a] \in 0..Len(log)
    BY <1>1 DEF MatrixTypeOK
  <2> QED
    BY <1>2, <1>4, <2>1
<1>6. \A kind, u, events : Latest(kind, u, events)' = LatestIn(log, kind, u, events')
  BY <1>3 DEF Latest, LatestIn, Of
<1>7. \A kind, u, events : Latest(kind, u, events) = LatestIn(log, kind, u, events)
  BY DEF Latest, LatestIn, Of
<1>8. /\ \A a \in Clients, u \in Clients : member'[a][u] \in 0..since'[a]
                                           /\ audio'[a][u] \in 0..since'[a]
      /\ member' \in [Clients -> [Clients -> Nat]]
      /\ audio' \in [Clients -> [Clients -> Nat]]
      /\ chat' \in [Clients -> Seq(Nat)]
      /\ room' \in [Clients -> BOOLEAN]
      /\ phase' \in [Clients -> {"out", "asked", "in", "left", "crashed"}]
      /\ \A a \in Clients : phase'[a] = phase[a]
                            \/ (a = c /\ phase'[a] \in {"left", "crashed"} /\ Left(c, to))
      /\ \A a \in Clients : phase'[a] \in {"out", "asked", "in"} => \A u \in Clients :
            /\ member'[a][u] = LatestIn(log, "member", u, 1..since'[a])
            /\ audio'[a][u] = LatestIn(log, "audio", u, 1..since'[a])
      /\ \A a \in Clients : Ascends(chat'[a])
                            /\ \A i \in DOMAIN chat'[a] : chat'[a][i] <= since'[a]
  <2>1. /\ member \in [Clients -> [Clients -> Nat]]
        /\ audio \in [Clients -> [Clients -> Nat]]
        /\ chat \in [Clients -> Seq(Nat)]
        /\ room \in [Clients -> BOOLEAN]
        /\ phase \in [Clients -> {"out", "asked", "in", "left", "crashed"}]
    BY <1>1 DEF MatrixShape, MatrixTypeOK
  <2>2. \A a \in Clients, u \in Clients :
           member[a][u] \in 0..since[a] /\ audio[a][u] \in 0..since[a]
    BY <1>1 DEF MatrixTypeOK
  <2>3. \A a \in Clients, u \in Clients :
           member[a][u] \in 0..since'[a] /\ audio[a][u] \in 0..since'[a]
    BY <1>4, <1>5, <2>2
  <2>4. \A a \in Clients :
           /\ phase[a] \in {"out", "asked", "in"} => \A u \in Clients :
                /\ member[a][u] = LatestIn(log, "member", u, 1..since[a])
                /\ audio[a][u] = LatestIn(log, "audio", u, 1..since[a])
           /\ Ascends(chat[a]) /\ \A i \in DOMAIN chat[a] : chat[a][i] <= since[a]
    BY <1>1, <1>7 DEF ViewsFollow, ChatIsInOrder, Ascends
  <2>5. \A a \in Clients : \A i \in DOMAIN chat[a] : chat[a][i] <= since'[a]
    <3>1. \A a \in Clients : \A i \in DOMAIN chat[a] : chat[a][i] \in Nat
      BY <2>1
    <3> QED
      BY <1>4, <1>5, <2>4, <3>1
  <2>6. CASE Left(c, to)
    <3>1. /\ phase' = [phase EXCEPT ![c] = IF room[c] THEN "left" ELSE "crashed"]
          /\ room' = [room EXCEPT ![c] = FALSE]
          /\ UNCHANGED <<member, audio, chat>>
      BY <1>2, <2>6
    <3>2. /\ phase'[c] \in {"left", "crashed"}
          /\ \A a \in Clients \ {c} : phase'[a] = phase[a]
          /\ phase' \in [Clients -> {"out", "asked", "in", "left", "crashed"}]
          /\ room' \in [Clients -> BOOLEAN]
      BY <2>1, <3>1
    <3>3. \A a \in Clients : phase'[a] \in {"out", "asked", "in"} =>
             a # c /\ phase[a] = phase'[a] /\ since'[a] = since[a]
      BY <1>5, <3>2
    <3> QED
      BY <2>1, <2>3, <2>4, <2>5, <2>6, <3>1, <3>2, <3>3
  <2>7. CASE ~Left(c, to)
    <3>1. RoomSynced(c, to) /\ UNCHANGED phase
      BY <1>2, <2>7
    <3>2. /\ room' = [room EXCEPT ![c] = TRUE]
          /\ member' \in [Clients -> [Clients -> Nat]]
          /\ audio' \in [Clients -> [Clients -> Nat]]
          /\ chat' \in [Clients -> Seq(Nat)]
          /\ \A a \in Clients \ {c} :
               member'[a] = member[a] /\ audio'[a] = audio[a] /\ chat'[a] = chat[a]
          /\ \A u \in Clients : /\ member'[c][u] = Latest("member", u, 1..to)
                                /\ audio'[c][u] = Latest("audio", u, 1..to)
                                /\ member'[c][u] \in 0..to /\ audio'[c][u] \in 0..to
          /\ Ascends(chat'[c]) /\ \A i \in DOMAIN chat'[c] : chat'[c][i] <= to
      BY <1>2, <1>3, <3>1, RoomSyncedLemma
    <3>3. room' \in [Clients -> BOOLEAN] /\ phase' = phase
      BY <2>1, <3>1, <3>2
    <3>4. ASSUME NEW a \in Clients
          PROVE  /\ \A u \in Clients : member'[a][u] \in 0..since'[a]
                                       /\ audio'[a][u] \in 0..since'[a]
                 /\ phase[a] \in {"out", "asked", "in"} => \A u \in Clients :
                      /\ member'[a][u] = LatestIn(log, "member", u, 1..since'[a])
                      /\ audio'[a][u] = LatestIn(log, "audio", u, 1..since'[a])
                 /\ Ascends(chat'[a]) /\ \A i \in DOMAIN chat'[a] : chat'[a][i] <= since'[a]
      <4>1. CASE a = c
        BY <1>5, <1>7, <3>2, <4>1
      <4>2. CASE a # c
        BY <1>5, <2>3, <2>4, <2>5, <3>2, <4>2
      <4> QED
        BY <4>1, <4>2
    <3> QED
      BY <2>1, <3>2, <3>3, <3>4
  <2> QED
    BY <2>6, <2>7
<1>9. MatrixTypeOK'
  <2>1. \A a \in Clients : /\ member'[a] \in [Clients -> 0..since'[a]]
                           /\ audio'[a] \in [Clients -> 0..since'[a]]
    BY <1>8
  <2> QED
    BY <1>1, <1>3, <1>5, <1>8, <2>1 DEF MatrixTypeOK
<1>10. MatrixShape'
  BY <1>1, <1>3, <1>5, <1>8 DEF MatrixShape
<1>11. ViewsFollow' /\ ChatIsInOrder'
  <2>1. ChatIsInOrder'
    BY <1>8 DEF ChatIsInOrder, Ascends
  <2>2. \A a \in Clients, u \in Clients, kind \in {"member", "audio"} :
           Latest(kind, u, 1..since[a])' = LatestIn(log, kind, u, 1..since'[a])
    BY <1>3 DEF Latest, LatestIn, Of
  <2> QED
    BY <1>8, <2>1, <2>2 DEF ViewsFollow
<1>12. MembersOnce'
  <2>1. Once'
    BY <1>1, <1>3 DEF Once, Of
  <2>2. ASSUME NEW u \in Users
        PROVE  MemberOnce(u)'
    <3>1. phase'[u] = "out" => phase[u] = "out"
      BY <1>8 DEF Clients
    <3> QED
      BY <1>1, <1>3, <3>1, MemberOnceStays DEF MembersOnce
  <2> QED
    BY <2>1, <2>2 DEF MembersOnce
<1>13. AdminStays'
  <2>1. Admin \in Clients
    BY DEF Clients
  <2>2. phase'[Admin] = phase[Admin]
    <3>1. ~Left(Admin, to)
      <4>1. 1..to \subseteq DOMAIN log
        BY <1>4
      <4> QED
        BY <1>1, <4>1 DEF Left, AdminStays
    <3> QED
      BY <1>8, <2>1, <3>1
  <2> QED
    BY <1>1, <1>3, <2>2 DEF AdminStays, Of
<1>14. PutsTell'
  <2> SUFFICES ASSUME NEW u \in Users
               PROVE  PutsTellOf(u)'
    BY DEF PutsTell
  <2>1. Said(u)' = Said(u)
    BY <1>1, <1>3, SaidStays
  <2>2. phase'[u] = phase[u] \/ phase'[u] \notin {"out", "asked", "in"}
    BY <1>8 DEF Clients
  <2> QED
    BY <1>1, <1>3, <2>1, <2>2, PutsStay DEF PutsTell
<1> QED
  BY <1>9, <1>10, <1>11, <1>12, <1>13, <1>14 DEF MatrixInv

\* The room was made.
LEMMA MatrixStarts ==
    ASSUME MatrixAssumption, MatrixInit
    PROVE  MatrixInv
<1> DEFINE ev == Event("member", Admin, {"join"})
<1>1. /\ log = Append(<<>>, ev) /\ phase = [[c \in Clients |-> "out"] EXCEPT ![Admin] = "asked"]
      /\ room = [c \in Clients |-> FALSE] /\ since = [c \in Clients |-> 0]
      /\ member = [c \in Clients |-> [u \in Clients |-> 0]]
      /\ audio = [c \in Clients |-> [u \in Clients |-> 0]]
      /\ chat = [c \in Clients |-> <<>>] /\ flags = [c \in Clients |-> {}]
      /\ puts = [c \in Clients |-> <<>>] /\ raced = [c \in Clients |-> FALSE]
  BY DEF MatrixInit, Nothing
<1>2. ev \in Events /\ ev.kind = "member" /\ ev.who = Admin /\ ev.value = {"join"}
  <2>1. Admin \in Clients /\ {"join"} \in Values
    BY DEF Clients, Values
  <2> QED
    BY <2>1 DEF Event, Events
<1> HIDE DEF ev
<1>3. /\ log \in Seq(Events) /\ Len(log) = 1 /\ DOMAIN log = {1} /\ log[1] = ev
  BY <1>1, <1>2
<1>4. /\ phase \in [Clients -> {"out", "asked", "in", "left", "crashed"}]
      /\ phase[Admin] = "asked" /\ \A u \in Users : phase[u] = "out"
      /\ Admin \notin Users /\ Users \subseteq Clients /\ Admin \in Clients
  BY <1>1 DEF Clients, MatrixAssumption
<1>5. MatrixShape
  BY <1>1, <1>3 DEF MatrixShape, Flags
<1>6. MatrixTypeOK
  BY <1>1, <1>3, <1>4 DEF MatrixTypeOK, Flags, MatrixAssumption
<1>7. MembersOnce
  <2>1. Once
    BY <1>3 DEF Once
  <2>2. \A u \in Users, n \in DOMAIN log : ~Of("member", u, n)
    BY <1>2, <1>3, <1>4 DEF Of
  <2> QED
    BY <2>1, <2>2 DEF MembersOnce, MemberOnce
<1>8. AdminStays
  BY <1>2, <1>3, <1>4, ThreeStates DEF AdminStays
<1>9. ViewsFollow /\ ChatIsInOrder
  <2>1. \A kind, u : Latest(kind, u, 1..0) = 0
    <3>1. 1..0 \in SUBSET (1..0) /\ 0 \in Nat
      OBVIOUS
    <3>2. \A kind, u : Latest(kind, u, 1..0) \in 0..0
      BY <3>1, LatestLemma
    <3> QED
      BY <3>2
  <2> QED
    BY <1>1, <2>1 DEF ViewsFollow, ChatIsInOrder
<1>10. PutsTell
  <2> SUFFICES ASSUME NEW u \in Users
               PROVE  PutsTellOf(u)
    BY DEF PutsTell
  <2>1. Said(u) = {}
    <3>1. Latest("audio", u, DOMAIN log) = 0
      <4>1. DOMAIN log \in SUBSET (1..1)
        BY <1>3
      <4>2. /\ Latest("audio", u, DOMAIN log) \in 0..1
            /\ IsLatest(Latest("audio", u, DOMAIN log), "audio", u, DOMAIN log)
        BY <4>1, LatestLemma
      <4>3. \A n \in DOMAIN log : ~Of("audio", u, n)
        BY <1>2, <1>3 DEF Of
      <4> QED
        BY <4>2, <4>3 DEF IsLatest
    <3> QED
      BY <3>1 DEF Said
  <2>2. puts[u] = <<>> /\ ~raced[u] /\ phase[u] = "out" /\ DOMAIN puts[u] = {}
    BY <1>1, <1>4
  <2> QED
    BY <2>1, <2>2 DEF PutsTellOf
<1> QED
  BY <1>5, <1>6, <1>7, <1>8, <1>9, <1>10 DEF MatrixInv

\* A step of nobody.
LEMMA MatrixStutters ==
    ASSUME MatrixInv, UNCHANGED matrixVars
    PROVE  MatrixInv'
<1>1. UNCHANGED <<log, phase, room, since, member, audio, chat, flags, puts, raced>>
  BY DEF matrixVars, viewVars, sentVars
<1>2. MatrixTypeOK' /\ MatrixShape' /\ ChatIsInOrder'
  BY <1>1 DEF MatrixInv, MatrixTypeOK, MatrixShape, ChatIsInOrder
<1>3. /\ MatrixTypeOK /\ MatrixShape /\ MembersOnce /\ AdminStays /\ ViewsFollow
      /\ ChatIsInOrder /\ PutsTell /\ Extends
  BY <1>1, KeptExtends DEF MatrixInv
<1>4. MembersOnce'
  <2>1. Once'
    BY <1>1, <1>3 DEF MembersOnce, Once, Of
  <2>2. \A u \in Users : MemberOnce(u)'
    BY <1>1, <1>3, MemberOnceStays DEF MembersOnce
  <2> QED
    BY <2>1, <2>2 DEF MembersOnce
<1>5. AdminStays'
  BY <1>1, <1>3 DEF AdminStays, Of
<1>6. ViewsFollow'
  BY <1>1, <1>3, ViewsStay
<1>7. PutsTell'
  <2>1. \A u : Said(u)' = Said(u)
    BY <1>1, <1>3, SaidStays
  <2>2. \A u \in Users : PutsTellOf(u)'
    BY <1>1, <1>3, <2>1, PutsStay DEF PutsTell
  <2> QED
    BY <2>2 DEF PutsTell
<1> QED
  BY <1>2, <1>4, <1>5, <1>6, <1>7 DEF MatrixInv

\* Every step keeps the invariant.
LEMMA MatrixSteps ==
    ASSUME MatrixAssumption, MatrixInv, [MatrixNext]_matrixVars
    PROVE  MatrixInv'
<1>1. CASE UNCHANGED matrixVars
  BY <1>1, MatrixStutters
<1>2. CASE CreateAnswered
  BY <1>2, CreateAnsweredStep
<1>3. CASE \E c \in Clients : Synced(c)
  BY <1>3, SyncedStep
<1>4. CASE \E u \in Users :
             \/ Invite(u) \/ Kick(u) \/ Join(u) \/ JoinAnswered(u) \/ Leave(u)
             \/ ChangeFlags(u) \/ SendChat(u) \/ PutArrives(u)
  BY <1>4, InviteStep, LeaveStep, JoinStep, JoinAnsweredStep, ChangeFlagsStep,
     SendChatStep, PutArrivesStep
<1> QED
  BY <1>1, <1>2, <1>3, <1>4 DEF MatrixNext

\* The invariant is what a member believes of the room, and why.
LEMMA InvSettles ==
    ASSUME MatrixAssumption, MatrixInv
    PROVE  ViewsSettle
<1>1. /\ MatrixTypeOK /\ MatrixShape /\ AdminStays /\ ViewsFollow
      /\ ChatIsInOrder /\ PutsTell
  BY DEF MatrixInv
<1>2. ViewIsTheLog
  <2> SUFFICES ASSUME NEW c \in Views, NEW u \in Clients
               PROVE  /\ LET n == Latest("member", u, 1..since[c])
                         IN  IF n = 0 THEN member[c][u] = 0
                             ELSE member[c][u] > 0 /\ log[member[c][u]].value = log[n].value
                      /\ audio[c][u] = Latest("audio", u, 1..since[c])
    BY DEF ViewIsTheLog
  <2>1. /\ member[c][u] = Latest("member", u, 1..since[c])
        /\ audio[c][u] = Latest("audio", u, 1..since[c])
    BY <1>1 DEF ViewsFollow, Views
  <2>2. member[c][u] \in Nat
    BY <1>1 DEF MatrixShape, Views
  <2> QED
    BY <2>1, <2>2
<1>3. CreatorGoesOn
  BY <1>1 DEF AdminStays, CreatorGoesOn
<1>4. SettledIsHeard
  <2> SUFFICES ASSUME NEW c \in Views, NEW u \in Users, phase[u] = "in",
                      puts[u] = <<>>, ~raced[u], since[c] = Len(log)
               PROVE  Hears(c, u) = flags[u]
    BY DEF SettledIsHeard
  <2>1. c \in Clients /\ phase[c] = "in" /\ u \in Clients
    BY DEF Views, Clients
  <2>2. audio[c][u] = Latest("audio", u, 1..since[c])
    BY <1>1, <2>1 DEF ViewsFollow
  <2>3. DOMAIN log = 1..since[c]
    BY <1>1 DEF MatrixShape
  <2>4. Hears(c, u) = Said(u)
    BY <2>2, <2>3 DEF Hears, Said
  <2>5. AudioPuts(u) = {}
    BY DEF AudioPuts
  <2> QED
    BY <1>1, <2>4, <2>5 DEF PutsTell, PutsTellOf
<1> QED
  BY <1>1, <1>2, <1>3, <1>4 DEF ViewsSettle, ViewsAreSound

\* What a client believes of a room is the log up to where it is, however the
\* syncs cut it, and once nothing is on its way everybody is heard as it is.
THEOREM MembersSeeTheLog == MatrixSpec => []ViewsSettle
<1>1. MatrixInit => MatrixInv
  BY MatrixAssumption, MatrixStarts
<1>2. MatrixInv /\ [MatrixNext]_matrixVars => MatrixInv'
  BY MatrixAssumption, MatrixSteps
<1>3. MatrixInv => ViewsSettle
  BY MatrixAssumption, InvSettles
<1> QED
  BY <1>1, <1>2, <1>3, PTL DEF MatrixSpec

-----------------------------------------------------------------------------
(* The slots of a signal.  What is promised needs that a slot in the list   *)
(* is where it says and nowhere else, that those who wait to be cleaned are  *)
(* not connected, and that an emission goes through the list it took, in     *)
(* order: who was fit all the time was called or is still ahead.             *)

Group(l, x) == [slts |-> l, index |-> x]

TurnOf(i, l, x) == [i |-> i, list |-> Group(l, x)]

\* What is left of a group and its indices when the slot at i went.
Popped(l, x, slts, ix, i, S, b) ==
    /\ l \in Seq(S) /\ x \in [S -> 1..b]
    /\ Len(l) = Len(slts) - 1
    /\ \A j \in 1..Len(slts) - 1 :
        /\ l[j] = IF j = i THEN slts[Len(slts)] ELSE slts[j]
        /\ x[l[j]] = j
    /\ \A y \in S : x[y] = IF y = slts[Len(slts)] THEN i ELSE ix[y]

\* clean and disconnect_if: the last slot takes the place of the one that goes.
LEMMA SwapPopLemma ==
    ASSUME NEW S, NEW b \in Nat, NEW slts \in Seq(S), NEW ix \in [S -> 1..b],
           \A j \in 1..Len(slts) : ix[slts[j]] = j,
           NEW i \in 1..Len(slts)
    PROVE  \E l, x : /\ SwapPop(Group(slts, ix), i) = Group(l, x)
                     /\ Popped(l, x, slts, ix, i, S, b)
<1> DEFINE n == Len(slts)
           q == [slts EXCEPT ![i] = slts[n]]
           l == SubSeq(q, 1, n - 1)
           x1 == [ix EXCEPT ![slts[n]] = i]
<1>1. SwapPop(Group(slts, ix), i) = Group(l, x1)
  BY DEF SwapPop, Group
<1>2. n \in Nat /\ n \in 1..n /\ i \in 1..n /\ slts[n] \in S /\ ix[slts[n]] = n
  OBVIOUS
<1>3. /\ q \in Seq(S) /\ Len(q) = n
      /\ \A j \in 1..n : q[j] = IF j = i THEN slts[n] ELSE slts[j]
  BY <1>2
<1>4. /\ l \in Seq(S) /\ Len(l) = n - 1
      /\ \A j \in 1..n - 1 : l[j] = q[j]
  <2> HIDE DEF q
  <2> QED
    BY <1>2, <1>3
<1>5. x1 \in [S -> 1..b] /\ \A x \in S : x1[x] = IF x = slts[n] THEN i ELSE ix[x]
  <2>1. n \in 1..b
    BY <1>2
  <2>2. i \in 1..b
    BY <1>2, <2>1
  <2> QED
    BY <1>2, <2>2
<1>6. ASSUME NEW j \in 1..n - 1
      PROVE  /\ l[j] = IF j = i THEN slts[n] ELSE slts[j]
             /\ x1[l[j]] = j
  <2>1. l[j] = IF j = i THEN slts[n] ELSE slts[j]
    BY <1>2, <1>3, <1>4
  <2>2. slts[j] \in S /\ ix[slts[j]] = j /\ slts[j] # slts[n]
    BY <1>2
  <2> QED
    BY <1>2, <1>5, <2>1, <2>2
<1> HIDE DEF l, x1
<1>7. Popped(l, x1, slts, ix, i, S, b)
  BY <1>4, <1>5, <1>6 DEF Popped
<1> QED
  BY <1>1, <1>7

\* The loop of disconnect_if is what its recursion says.
LEMMA SweepIsItsLoop ==
    ASSUME NEW slts, NEW ix, NEW M, Len(slts) \in Nat
    PROVE  \E after :
              /\ after[0] = TurnOf(1, slts, ix)
              /\ \A k \in 1..Len(slts) : after[k] = SweepTurn(after[k - 1], M)
              /\ Sweep(slts, ix, M) = after[Len(slts)].list
<1> DEFINE Start == TurnOf(1, slts, ix)
           Turn(g, k) == IF k = 0 THEN Start ELSE SweepTurn(g[k - 1], M)
           Run(g, n) == g = [k \in 0..n |-> Turn(g, k)]
           G == {n \in Nat : \E g : Run(g, n)}
<1>1. 0 \in G
  <2> DEFINE g == [k \in 0..0 |-> Start]
  <2>1. Run(g, 0)
    OBVIOUS
  <2> QED
    BY <2>1
<1>2. ASSUME NEW n \in G
      PROVE  n + 1 \in G
  <2>1. PICK g : Run(g, n)
    BY <1>2
  <2> DEFINE h == [k \in 0..n + 1 |->
                      IF k = n + 1 THEN SweepTurn(g[n], M) ELSE g[k]]
  <2>2. ASSUME NEW k \in 0..n + 1
        PROVE  h[k] = Turn(h, k)
    <3>1. n \in Nat
      OBVIOUS
    <3>2. CASE k = n + 1
      <4>1. h[k] = SweepTurn(g[n], M) /\ h[k - 1] = g[n]
        BY <3>1, <3>2
      <4> HIDE DEF h
      <4> QED
        BY <3>1, <3>2, <4>1
    <3>3. CASE k \in 0..n
      <4>1. h[k] = g[k] /\ (k # 0 => h[k - 1] = g[k - 1])
        BY <3>1, <3>3
      <4>2. g[k] = Turn(g, k)
        BY <2>1, <3>3
      <4> HIDE DEF h
      <4> QED
        BY <4>1, <4>2
    <3> QED
      BY <3>1, <3>2, <3>3
  <2>3. DOMAIN h = 0..n + 1 /\ h = [k \in 0..n + 1 |-> h[k]]
    OBVIOUS
  <2> HIDE DEF h, Turn
  <2>4. Run(h, n + 1)
    BY <2>2, <2>3
  <2> QED
    BY <2>4
<1>3. G = Nat
  <2> HIDE DEF G
  <2> QED
    BY <1>1, <1>2, SetInduction DEF G
<1> DEFINE N == Len(slts)
           f == CHOOSE g : Run(g, N)
<1>4. Run(f, N)
  <2>1. \E g : Run(g, N)
    BY <1>3
  <2> HIDE DEF Run
  <2> QED
    BY <2>1
<1>5. Sweep(slts, ix, M) = f[N].list
  BY DEF Sweep, TurnOf, Group
<1>6. \A k \in 0..N : f[k] = Turn(f, k)
  <2> HIDE DEF f, Turn
  <2> QED
    BY <1>4
<1>7. /\ f[0] = Start
      /\ \A k \in 1..N : f[k] = SweepTurn(f[k - 1], M)
  <2> HIDE DEF f
  <2> QED
    BY <1>6
<1> HIDE DEF f
<1> QED
  BY <1>5, <1>7

In(x, list) == \E j \in 1..Len(list) : list[j] = x

\* What k turns of the loop have made of a group.
Swept(i, l, x, k, S, b, slts, M) ==
    /\ i \in Nat /\ i >= 1
    /\ l \in Seq(S) /\ x \in [S -> 1..b]
    /\ Len(l) + k = Len(slts) + i - 1
    /\ \A j \in 1..Len(l) :
        /\ x[l[j]] = j
        /\ In(l[j], slts)
        /\ j < i => l[j] \notin M
    /\ \A j \in 1..Len(slts) : slts[j] \notin M => In(slts[j], l)

\* One turn.
LEMMA SweepTurnLemma ==
    ASSUME NEW S, NEW b \in Nat, NEW slts \in Seq(S), NEW M,
           NEW k \in Nat, k < Len(slts),
           NEW i, NEW l, NEW x, Swept(i, l, x, k, S, b, slts, M)
    PROVE  \E i2, l2, x2 : /\ SweepTurn(TurnOf(i, l, x), M) = TurnOf(i2, l2, x2)
                           /\ Swept(i2, l2, x2, k + 1, S, b, slts, M)
<1> DEFINE n == Len(l)
           N == Len(slts)
<1>1. /\ i \in Nat /\ i >= 1 /\ l \in Seq(S) /\ n \in Nat /\ x \in [S -> 1..b]
      /\ n + k = N + i - 1 /\ N \in Nat
  BY DEF Swept
<1>2. i \in 1..n
  BY <1>1
<1>3. /\ \A j \in 1..n :
            /\ x[l[j]] = j
            /\ In(l[j], slts)
            /\ j < i => l[j] \notin M
      /\ \A j \in 1..N : slts[j] \notin M => In(slts[j], l)
  BY DEF Swept
<1>4. CASE l[i] \in M
  <2>1. PICK l2, x2 : /\ SwapPop(Group(l, x), i) = Group(l2, x2)
                      /\ Popped(l2, x2, l, x, i, S, b)
    BY <1>1, <1>2, <1>3, SwapPopLemma
  <2>2. SweepTurn(TurnOf(i, l, x), M) = TurnOf(i, l2, x2)
    BY <1>4, <2>1 DEF SweepTurn, TurnOf, Group
  <2>3. /\ l2 \in Seq(S) /\ x2 \in [S -> 1..b] /\ Len(l2) = n - 1
        /\ \A j \in 1..n - 1 :
              /\ l2[j] = IF j = i THEN l[n] ELSE l[j]
              /\ x2[l2[j]] = j
    BY <2>1 DEF Popped
  <2> HIDE DEF n, N
  <2>4. Len(l2) + (k + 1) = N + i - 1
    BY <1>1, <2>3
  <2>5. ASSUME NEW j \in 1..n - 1
        PROVE  /\ x2[l2[j]] = j
               /\ In(l2[j], slts)
               /\ j < i => l2[j] \notin M
    <3>1. j \in 1..n /\ n \in 1..n
      BY <1>1, <1>2
    <3>2. CASE j = i
      BY <1>1, <1>3, <2>3, <3>1, <3>2
    <3>3. CASE j # i
      <4>1. l2[j] = l[j] /\ x2[l2[j]] = j
        BY <2>3, <3>3
      <4> QED
        BY <1>3, <3>1, <4>1
    <3> QED
      BY <3>2, <3>3
  <2>6. ASSUME NEW j \in 1..N, slts[j] \notin M
        PROVE  In(slts[j], l2)
    <3>1. PICK m \in 1..n : l[m] = slts[j]
      BY <1>3, <2>6 DEF In, n
    <3>2. m # i
      BY <1>4, <2>6, <3>1
    <3>3. CASE m = n
      <4>1. i \in 1..n - 1
        BY <1>1, <1>2, <3>2, <3>3
      <4>2. i \in 1..Len(l2) /\ l2[i] = l[n]
        BY <2>3, <4>1
      <4> QED
        BY <3>1, <3>3, <4>2 DEF In
    <3>4. CASE m # n
      <4>1. m \in 1..n - 1
        BY <1>1, <3>4
      <4>2. m \in 1..Len(l2) /\ l2[m] = l[m]
        BY <2>3, <3>2, <4>1
      <4> QED
        BY <3>1, <4>2 DEF In
    <3> QED
      BY <3>3, <3>4
  <2>7. Swept(i, l2, x2, k + 1, S, b, slts, M)
    <3>1. Len(l2) = n - 1
      BY <2>3
    <3>2. /\ \A j \in 1..Len(l2) :
                /\ x2[l2[j]] = j
                /\ In(l2[j], slts)
                /\ j < i => l2[j] \notin M
      BY <2>5, <3>1
    <3> QED
      BY <1>1, <2>3, <2>4, <2>6, <3>2 DEF Swept, N
  <2> QED
    BY <2>2, <2>7
<1>5. CASE l[i] \notin M
  <2>1. SweepTurn(TurnOf(i, l, x), M) = TurnOf(i + 1, l, x)
    BY <1>5 DEF SweepTurn, TurnOf, Group
  <2> HIDE DEF n, N
  <2>3. ASSUME NEW j \in 1..n, j < i + 1
        PROVE  l[j] \notin M
    <3>1. j < i \/ j = i
      BY <1>1, <2>3
    <3> QED
      BY <1>3, <1>5, <3>1
  <2>4. n + (k + 1) = N + (i + 1) - 1 /\ i + 1 \in Nat /\ i + 1 >= 1
    BY <1>1
  <2>5. Swept(i + 1, l, x, k + 1, S, b, slts, M)
    BY <1>1, <1>3, <2>3, <2>4 DEF Swept, n, N
  <2> QED
    BY <2>1, <2>5
<1> QED
  BY <1>4, <1>5

\* What disconnect_if leaves of a group: those it does not select, each at its index.
Remains(l, x, slts, M, S, b) ==
    /\ l \in Seq(S) /\ x \in [S -> 1..b]
    /\ \A j \in 1..Len(l) : x[l[j]] = j /\ In(l[j], slts) /\ l[j] \notin M
    /\ \A j \in 1..Len(slts) : slts[j] \notin M => In(slts[j], l)

\* The whole loop.
LEMMA SweepLemma ==
    ASSUME NEW S, NEW b \in Nat, NEW slts \in Seq(S), NEW ix \in [S -> 1..b], NEW M,
           \A j \in 1..Len(slts) : ix[slts[j]] = j
    PROVE  \E l, x : Sweep(slts, ix, M) = Group(l, x) /\ Remains(l, x, slts, M, S, b)
<1> DEFINE n == Len(slts)
<1>1. n \in Nat
  OBVIOUS
<1>2. PICK after :
              /\ after[0] = TurnOf(1, slts, ix)
              /\ \A k \in 1..n : after[k] = SweepTurn(after[k - 1], M)
              /\ Sweep(slts, ix, M) = after[n].list
  BY <1>1, SweepIsItsLoop
<1> DEFINE Good(k) == \E i, l, x : /\ after[k] = TurnOf(i, l, x)
                                   /\ Swept(i, l, x, k, S, b, slts, M)
           G == {k \in Nat : k <= n => Good(k)}
<1>3. 0 \in G
  <2>1. \A j \in 1..n : In(slts[j], slts)
    BY DEF In
  <2>2. Swept(1, slts, ix, 0, S, b, slts, M)
    BY <1>1, <2>1 DEF Swept
  <2> QED
    BY <1>2, <2>2
<1>4. ASSUME NEW k \in G
      PROVE  k + 1 \in G
  <2> SUFFICES ASSUME k + 1 <= n
               PROVE  Good(k + 1)
    OBVIOUS
  <2>1. k \in Nat /\ k < n /\ k + 1 \in 1..n /\ (k + 1) - 1 = k
    <3>1. k \in Nat
      OBVIOUS
    <3> HIDE DEF n, G
    <3> QED
      BY <1>1, <3>1
  <2>2. Good(k)
    <3> HIDE DEF n, Good
    <3> QED
      BY <1>1, <2>1
  <2>3. PICK i, l, x : after[k] = TurnOf(i, l, x) /\ Swept(i, l, x, k, S, b, slts, M)
    BY <2>2
  <2>4. after[k + 1] = SweepTurn(TurnOf(i, l, x), M)
    BY <1>2, <2>1, <2>3
  <2>5. \E i2, l2, x2 : /\ SweepTurn(TurnOf(i, l, x), M) = TurnOf(i2, l2, x2)
                        /\ Swept(i2, l2, x2, k + 1, S, b, slts, M)
    BY <2>1, <2>3, SweepTurnLemma
  <2> QED
    BY <2>4, <2>5
<1>5. G = Nat
  <2> HIDE DEF G
  <2> QED
    BY <1>3, <1>4, SetInduction DEF G
<1>6. Good(n)
  BY <1>1, <1>5
<1>7. PICK i, l, x : after[n] = TurnOf(i, l, x) /\ Swept(i, l, x, n, S, b, slts, M)
  BY <1>6
<1>8. Sweep(slts, ix, M) = Group(l, x)
  BY <1>2, <1>7 DEF TurnOf
<1>9. i \in Nat /\ Len(l) \in Nat /\ Len(l) = i - 1
  BY <1>1, <1>7 DEF Swept
<1>10. \A j \in 1..Len(l) : j < i
  BY <1>9
<1>11. Remains(l, x, slts, M, S, b)
  BY <1>7, <1>10 DEF Swept, Remains
<1> QED
  BY <1>8, <1>11

-----------------------------------------------------------------------------
\* FlattenSeq is what its recursion says.
LEMMA FlattenIsItsLoop ==
    ASSUME NEW seqs, Len(seqs) \in Nat, Len(seqs) # 0
    PROVE  \E flat :
              /\ \A i \in 1..Len(seqs) :
                    flat[i] = IF i = 1 THEN seqs[i] ELSE flat[i - 1] \o seqs[i]
              /\ FlattenSeq(seqs) = flat[Len(seqs)]
<1> DEFINE Turn(g, i) == IF i = 1 THEN seqs[i] ELSE g[i - 1] \o seqs[i]
           Run(g, n) == g = [i \in 1..n |-> Turn(g, i)]
           G == {n \in Nat : \E g : Run(g, n)}
<1>1. 0 \in G
  <2> DEFINE g == [i \in 1..0 |-> seqs[i]]
  <2>1. \A h : [i \in 1..0 |-> Turn(h, i)] = g
    OBVIOUS
  <2>2. Run(g, 0)
    BY <2>1
  <2> QED
    BY <2>2
<1>2. ASSUME NEW n \in G
      PROVE  n + 1 \in G
  <2>1. PICK g : Run(g, n)
    BY <1>2
  <2> DEFINE h == [i \in 1..n + 1 |-> IF i = n + 1 THEN Turn(g, n + 1) ELSE g[i]]
  <2>2. ASSUME NEW i \in 1..n + 1
        PROVE  h[i] = Turn(h, i)
    <3>1. n \in Nat
      OBVIOUS
    <3>2. CASE i = n + 1
      <4>1. h[i] = Turn(g, n + 1) /\ (i # 1 => h[i - 1] = g[i - 1])
        BY <3>1, <3>2
      <4> HIDE DEF h
      <4> QED
        BY <3>1, <3>2, <4>1
    <3>3. CASE i \in 1..n
      <4>1. h[i] = g[i] /\ (i # 1 => h[i - 1] = g[i - 1])
        BY <3>1, <3>3
      <4>2. g[i] = Turn(g, i)
        BY <2>1, <3>3
      <4> HIDE DEF h
      <4> QED
        BY <4>1, <4>2
    <3> QED
      BY <3>1, <3>2, <3>3
  <2>3. h = [i \in 1..n + 1 |-> h[i]]
    OBVIOUS
  <2> HIDE DEF h, Turn
  <2>4. Run(h, n + 1)
    BY <2>2, <2>3
  <2> QED
    BY <2>4
<1>3. G = Nat
  <2> HIDE DEF G
  <2> QED
    BY <1>1, <1>2, SetInduction DEF G
<1> DEFINE N == Len(seqs)
           f == CHOOSE g : Run(g, N)
<1>4. Run(f, N)
  <2>1. \E g : Run(g, N)
    BY <1>3
  <2> HIDE DEF Run
  <2> QED
    BY <2>1
<1>5. FlattenSeq(seqs) = f[N]
  BY DEF FlattenSeq
<1>6. \A i \in 1..N : f[i] = Turn(f, i)
  <2> HIDE DEF f, Turn
  <2> QED
    BY <1>4
<1> HIDE DEF f
<1> QED
  BY <1>5, <1>6

\* Nothing twice, and by ascending groups.
Ordered(list, g) ==
    \A a, b \in 1..Len(list) : a < b =>
        list[a] # list[b] /\ g[list[a]] <= g[list[b]]

\* Two lists one behind the other.
LEMMA OrderedConcat ==
    ASSUME NEW f \in Seq(Slots), NEW h \in Seq(Slots), NEW g \in [Slots -> Nat],
           Ordered(f, g), Ordered(h, g),
           \A a \in 1..Len(f), b \in 1..Len(h) : g[f[a]] < g[h[b]]
    PROVE  /\ f \o h \in Seq(Slots) /\ Ordered(f \o h, g)
           /\ \A s : In(s, f \o h) <=> In(s, f) \/ In(s, h)
<1> DEFINE q == f \o h
           m == Len(f)
           n == Len(h)
<1>1. m \in Nat /\ n \in Nat
  OBVIOUS
<1>2. /\ q \in Seq(Slots) /\ Len(q) = m + n
      /\ \A i \in 1..m + n : q[i] = IF i <= m THEN f[i] ELSE h[i - m]
  BY ConcatProperties
<1> HIDE DEF q
<1>3. \A i \in 1..m : f[i] \in Slots /\ i \in 1..m + n /\ q[i] = f[i]
  BY <1>1, <1>2
<1>4. ASSUME NEW i \in 1..n
      PROVE  h[i] \in Slots /\ m + i \in 1..m + n /\ q[m + i] = h[i]
  <2>1. h[i] \in Slots
    OBVIOUS
  <2> HIDE DEF m, n
  <2>2. m + i \in 1..m + n /\ ~(m + i <= m) /\ (m + i) - m = i
    BY <1>1
  <2> QED
    BY <1>2, <2>1, <2>2
<1>5. ASSUME NEW i \in 1..m + n
      PROVE  i \in 1..m \/ (i - m \in 1..n /\ q[i] = h[i - m])
  <2> HIDE DEF m, n
  <2>1. CASE i <= m
    <3>1. i \in 1..m
      BY <1>1, <2>1
    <3> QED
      BY <3>1
  <2>2. CASE ~(i <= m)
    <3>1. i - m \in 1..n
      BY <1>1, <2>2
    <3> QED
      BY <1>2, <2>2, <3>1
  <2> QED
    BY <2>1, <2>2
<1>6. ASSUME NEW a \in 1..m + n, NEW c \in 1..m + n, a < c
      PROVE  q[a] # q[c] /\ g[q[a]] <= g[q[c]]
  <2>1. CASE c \in 1..m
    <3>1. a \in 1..m
      BY <1>1, <1>6, <2>1
    <3> QED
      BY <1>3, <1>6, <2>1, <3>1 DEF Ordered
  <2>2. CASE a \in 1..m /\ c - m \in 1..n /\ q[c] = h[c - m]
    <3>1. g[f[a]] < g[h[c - m]] /\ f[a] \in Slots /\ h[c - m] \in Slots
      BY <1>3, <1>4, <2>2
    <3>2. q[a] = f[a]
      BY <1>3, <2>2
    <3>3. g[f[a]] \in Nat /\ g[h[c - m]] \in Nat
      BY <3>1
    <3>4. g[f[a]] <= g[h[c - m]] /\ f[a] # h[c - m]
      BY <3>1, <3>3
    <3> QED
      BY <2>2, <3>2, <3>4
  <2>3. CASE a - m \in 1..n /\ q[a] = h[a - m] /\ c - m \in 1..n /\ q[c] = h[c - m]
    <3>1. a - m < c - m
      BY <1>1, <1>6
    <3> QED
      BY <2>3, <3>1 DEF Ordered
  <2>4. ~(c \in 1..m) => c - m \in 1..n /\ q[c] = h[c - m]
    BY <1>5
  <2>5. ~(a \in 1..m) => a - m \in 1..n /\ q[a] = h[a - m]
    BY <1>5
  <2> QED
    BY <2>1, <2>2, <2>3, <2>4, <2>5
<1>7. ASSUME NEW s
      PROVE  In(s, q) <=> In(s, f) \/ In(s, h)
  <2>1. ASSUME In(s, q)
        PROVE  In(s, f) \/ In(s, h)
    <3>1. PICK i \in 1..m + n : q[i] = s
      BY <1>2, <2>1 DEF In
    <3> QED
      BY <1>3, <1>5, <3>1 DEF In
  <2>2. ASSUME In(s, f)
        PROVE  In(s, q)
    BY <1>2, <1>3, <2>2 DEF In
  <2>3. ASSUME In(s, h)
        PROVE  In(s, q)
    BY <1>2, <1>4, <2>3 DEF In
  <2> QED
    BY <2>1, <2>2, <2>3
<1>8. Ordered(q, g)
  BY <1>2, <1>6 DEF Ordered
<1> QED
  BY <1>2, <1>7, <1>8 DEF q

GroupType == [gid : Gids, slts : Seq(Slots)]

\* A list of groups in which every slot is where it says.
ListGood(gs, g, x, mk) ==
    /\ gs \in Seq(GroupType)
    /\ \A i, j \in 1..Len(gs) : i < j => gs[i].gid < gs[j].gid
    /\ \A i \in 1..Len(gs) : \A j \in 1..Len(gs[i].slts) :
        /\ gs[i].slts[j] \in mk
        /\ g[gs[i].slts[j]] = gs[i].gid
        /\ x[gs[i].slts[j]] = j

IsListed(s, gs) == \E i \in 1..Len(gs) : In(s, gs[i].slts)

\* What an emission gets: every slot of the list once, by ascending groups.
LEMMA FlatLemma ==
    ASSUME SignalsAssumption, NEW gs, NEW g \in [Slots -> Nat], NEW x, NEW mk,
           ListGood(gs, g, x, mk)
    PROVE  \E f \in Seq(Slots) :
              /\ FlattenSeq([i \in DOMAIN gs |-> gs[i].slts]) = f
              /\ Ordered(f, g)
              /\ \A s : In(s, f) <=> IsListed(s, gs)
<1> DEFINE n == Len(gs)
           l == [i \in DOMAIN gs |-> gs[i].slts]
<1>1. /\ n \in Nat /\ DOMAIN gs = 1..n
      /\ \A i \in 1..n : gs[i] \in GroupType /\ gs[i].gid \in Nat /\ gs[i].slts \in Seq(Slots)
  <2>1. gs \in Seq(GroupType)
    BY DEF ListGood
  <2>2. n \in Nat /\ DOMAIN gs = 1..n /\ \A i \in 1..n : gs[i] \in GroupType
    BY <2>1
  <2>3. \A r \in GroupType : r.gid \in Nat /\ r.slts \in Seq(Slots)
    BY DEF GroupType, SignalsAssumption
  <2> QED
    BY <2>2, <2>3
<1>2. Len(l) = n /\ \A i \in 1..n : l[i] = gs[i].slts /\ l[i] \in Seq(Slots)
  BY <1>1
<1>3. CASE n = 0
  <2>1. FlattenSeq(l) = l
    BY <1>2, <1>3 DEF FlattenSeq
  <2>2. l \in Seq(Slots) /\ Len(l) = 0
    BY <1>1, <1>3
  <2>3. \A s : ~In(s, l) /\ ~IsListed(s, gs)
    BY <1>3, <2>2 DEF In, IsListed
  <2>4. Ordered(l, g)
    BY <2>2 DEF Ordered
  <2> HIDE DEF l
  <2> QED
    BY <2>1, <2>2, <2>3, <2>4 DEF l
<1>4. CASE n # 0
  <2> HIDE DEF l
  <2>1. PICK flat :
              /\ \A i \in 1..n : flat[i] = IF i = 1 THEN l[i] ELSE flat[i - 1] \o l[i]
              /\ FlattenSeq(l) = flat[n]
    BY <1>1, <1>2, <1>4, FlattenIsItsLoop
  <2>2. ASSUME NEW i \in 1..n
        PROVE  /\ Ordered(l[i], g)
               /\ \A a \in 1..Len(l[i]) : l[i][a] \in Slots /\ g[l[i][a]] = gs[i].gid
    <3>1. \A a \in 1..Len(l[i]) : l[i][a] \in Slots /\ g[l[i][a]] = gs[i].gid /\ x[l[i][a]] = a
      BY <1>2 DEF ListGood
    <3>2. \A a, b \in 1..Len(l[i]) : a < b => l[i][a] # l[i][b]
      BY <3>1
    <3>3. gs[i].gid <= gs[i].gid
      BY <1>1
    <3> QED
      BY <3>1, <3>2, <3>3 DEF Ordered
  <2> DEFINE Good(i) ==
               /\ flat[i] \in Seq(Slots) /\ Ordered(flat[i], g)
               /\ \A s : In(s, flat[i]) <=> \E j \in 1..i : In(s, l[j])
             G == {i \in Nat : i + 1 <= n => Good(i + 1)}
  <2>3. 0 \in G
    <3>1. flat[1] = l[1] /\ 1 \in 1..n
      BY <1>1, <1>4, <2>1
    <3>2. \A s : In(s, l[1]) <=> \E j \in 1..1 : In(s, l[j])
      OBVIOUS
    <3>3. Good(1)
      BY <1>2, <2>2, <3>1, <3>2
    <3> QED
      BY <3>3
  <2>4. ASSUME NEW k \in G
        PROVE  k + 1 \in G
    <3> SUFFICES ASSUME (k + 1) + 1 <= n
                 PROVE  Good((k + 1) + 1)
      OBVIOUS
    <3> DEFINE i == k + 1
               f == flat[i]
               h == l[i + 1]
    <3>1. k \in Nat /\ i \in 1..n /\ i + 1 \in 1..n /\ (i + 1) - 1 = i /\ i + 1 # 1
      BY <1>1
    <3>2. Good(i)
      BY <3>1
    <3>3. flat[i + 1] = f \o h
      BY <2>1, <3>1
    <3>4. ASSUME NEW a \in 1..Len(f), NEW b \in 1..Len(h)
          PROVE  g[f[a]] < g[h[b]]
      <4>1. PICK j \in 1..i : In(f[a], l[j])
        BY <3>2 DEF In
      <4>2. j \in 1..n /\ j < i + 1
        BY <3>1
      <4>3. g[f[a]] = gs[j].gid
        BY <2>2, <4>1, <4>2 DEF In
      <4>4. g[h[b]] = gs[i + 1].gid
        BY <2>2, <3>1
      <4>5. gs[j].gid < gs[i + 1].gid
        BY <3>1, <4>2 DEF ListGood
      <4> QED
        BY <4>3, <4>4, <4>5
    <3>5. /\ f \in Seq(Slots) /\ h \in Seq(Slots) /\ Ordered(f, g) /\ Ordered(h, g)
          /\ \A s : In(s, f) <=> \E j \in 1..i : In(s, l[j])
      BY <1>2, <2>2, <3>1, <3>2
    <3> HIDE DEF f, h
    <3>6. /\ f \o h \in Seq(Slots) /\ Ordered(f \o h, g)
          /\ \A s : In(s, f \o h) <=> In(s, f) \/ In(s, h)
      BY <3>4, <3>5, OrderedConcat
    <3>7. ASSUME NEW s
          PROVE  In(s, f \o h) <=> \E j \in 1..i + 1 : In(s, l[j])
      <4>1. (\E j \in 1..i + 1 : In(s, l[j])) <=> (\E j \in 1..i : In(s, l[j])) \/ In(s, l[i + 1])
        <5>1. \A j : j \in 1..i + 1 <=> j \in 1..i \/ j = i + 1
          BY <3>1
        <5> HIDE DEF i
        <5> QED
          BY <5>1
      <4> QED
        BY <3>5, <3>6, <4>1 DEF h
    <3>8. Good(i + 1)
      BY <3>3, <3>6, <3>7
    <3> QED
      BY <3>8
  <2>5. G = Nat
    <3> HIDE DEF G
    <3> QED
      BY <2>3, <2>4, SetInduction DEF G
  <2>6. Good(n)
    <3> HIDE DEF n, Good
    <3>1. n - 1 \in Nat /\ (n - 1) + 1 = n /\ n <= n
      BY <1>1, <1>4
    <3>2. n - 1 \in G
      BY <2>5, <3>1
    <3> QED
      BY <3>1, <3>2
  <2>7. \A s : In(s, flat[n]) <=> IsListed(s, gs)
    BY <1>2, <2>6 DEF IsListed
  <2> QED
    BY <2>1, <2>6, <2>7 DEF l
<1> QED
  BY <1>3, <1>4

-----------------------------------------------------------------------------
\* A group that lacks a slot has a place for it.
LEMMA PlaceLemma ==
    ASSUME SignalsAssumption, NEW l \in Seq(Slots), NEW x, NEW s \in Slots, ~In(s, l),
           \A j \in 1..Len(l) : x[l[j]] = j
    PROVE  Len(l) + 1 \in 1..Cardinality(Slots)
<1> DEFINE n == Len(l)
           f == [j \in 1..n + 1 |-> IF j = n + 1 THEN s ELSE l[j]]
<1>1. n \in Nat /\ \A j \in 1..n : l[j] \in Slots /\ l[j] # s
  BY DEF In
<1>2. f \in Injection(1..n + 1, Slots)
  <2> HIDE DEF n
  <2>1. \A j \in 1..n + 1 : j \in 1..n \/ j = n + 1
    BY <1>1
  <2>2. f \in [1..n + 1 -> Slots]
    BY <1>1, <2>1
  <2>3. \A j \in 1..n : f[j] = l[j] /\ x[f[j]] = j
    BY <1>1 DEF n
  <2>4. f[n + 1] = s
    BY <1>1
  <2>5. ASSUME NEW i \in 1..n + 1, NEW j \in 1..n + 1, f[i] = f[j]
        PROVE  i = j
    <3> HIDE DEF f
    <3>1. CASE i \in 1..n /\ j \in 1..n
      BY <2>3, <2>5, <3>1
    <3>2. CASE i = n + 1 /\ j \in 1..n
      BY <1>1, <2>3, <2>4, <2>5, <3>2
    <3>3. CASE j = n + 1 /\ i \in 1..n
      BY <1>1, <2>3, <2>4, <2>5, <3>3
    <3> QED
      BY <2>1, <3>1, <3>2, <3>3
  <2> HIDE DEF f
  <2> QED
    BY <2>2, <2>5 DEF Injection, IsInjective
<1>3. IsFiniteSet(Slots) /\ Cardinality(Slots) \in Nat
  BY FS_CardinalityType DEF SignalsAssumption
<1>4. Cardinality(1..n + 1) = n + 1
  <2> HIDE DEF n
  <2> QED
    BY <1>1, FS_Interval
<1>5. Cardinality(1..n + 1) <= Cardinality(Slots)
  <2> HIDE DEF f, n
  <2> QED
    BY <1>2, <1>3, FS_Injection
<1> QED
  BY <1>1, <1>3, <1>4, <1>5

\* The first of a set of positions.
LEMMA MinLemma ==
    ASSUME NEW b \in Nat, NEW S \in SUBSET (1..b), S # {}
    PROVE  \E m \in S : \A y \in S : m <= y
<1> DEFINE T == {b - y : y \in S}
<1>1. T \in SUBSET (0..b) /\ T # {}
  <2>1. \A y \in S : y \in 1..b /\ b - y \in 0..b
    OBVIOUS
  <2>2. PICK y \in S : TRUE
    OBVIOUS
  <2>3. b - y \in T
    OBVIOUS
  <2> QED
    BY <2>1, <2>3
<1> DEFINE Has(U) == \E m \in U : \A y \in U : m >= y
           G == {n \in Nat : \A U \in SUBSET (0..n) : U # {} => Has(U)}
<1>2. 0 \in G
  <2> SUFFICES ASSUME NEW U \in SUBSET (0..0), U # {}
               PROVE  Has(U)
    OBVIOUS
  <2>1. PICK m \in U : TRUE
    OBVIOUS
  <2>2. m = 0 /\ \A y \in U : y = 0
    OBVIOUS
  <2> QED
    BY <2>2
<1>3. ASSUME NEW n \in G
      PROVE  n + 1 \in G
  <2> SUFFICES ASSUME NEW U \in SUBSET (0..n + 1), U # {}
               PROVE  Has(U)
    OBVIOUS
  <2>1. CASE n + 1 \in U
    BY <2>1
  <2>2. CASE n + 1 \notin U
    <3>1. U \in SUBSET (0..n)
      BY <2>2
    <3> QED
      BY <3>1
  <2> QED
    BY <2>1, <2>2
<1>4. G = Nat
  <2> HIDE DEF G
  <2> QED
    BY <1>2, <1>3, SetInduction DEF G
<1>5. Has(T)
  <2>1. b \in G
    BY <1>4
  <2> HIDE DEF Has, T
  <2> QED
    BY <1>1, <2>1
<1>6. PICK z \in S : \A y \in S : b - z >= b - y
  BY <1>5
<1>7. \A y \in S : z <= y
  BY <1>6
<1> QED
  BY <1>7

\* A sequence with one more element.
LEMMA InsertAtLemma ==
    ASSUME NEW S, NEW s \in Seq(S), NEW i \in 1..Len(s) + 1, NEW e \in S
    PROVE  /\ InsertAt(s, i, e) \in Seq(S)
           /\ Len(InsertAt(s, i, e)) = Len(s) + 1
           /\ \A j \in 1..Len(s) + 1 :
                InsertAt(s, i, e)[j] = IF j < i THEN s[j] ELSE IF j = i THEN e ELSE s[j - 1]
<1> DEFINE n == Len(s)
           a == SubSeq(s, 1, i - 1)
           m == <<e>>
           b == SubSeq(s, i, n)
<1>1. n \in Nat /\ i \in 1..n + 1
  OBVIOUS
<1>2. a \in Seq(S) /\ Len(a) = i - 1 /\ \A j \in 1..i - 1 : a[j] = s[j]
  BY <1>1
<1>3. b \in Seq(S) /\ Len(b) = n + 1 - i /\ \A j \in 1..n + 1 - i : b[j] = s[i + j - 1]
  BY <1>1
<1>4. m \in Seq(S) /\ Len(m) = 1 /\ m[1] = e
  OBVIOUS
<1> HIDE DEF a, b, m, n
<1>5. /\ a \o m \in Seq(S) /\ Len(a \o m) = Len(a) + Len(m)
      /\ \A j \in 1..Len(a) + Len(m) :
           (a \o m)[j] = IF j <= Len(a) THEN a[j] ELSE m[j - Len(a)]
  BY <1>2, <1>4, ConcatProperties
<1> DEFINE q == a \o m
           p == q \o b
<1> HIDE DEF q
<1>6. /\ q \in Seq(S) /\ Len(q) = i
      /\ \A j \in 1..i : q[j] = IF j < i THEN s[j] ELSE e
  <2>1. q \in Seq(S) /\ Len(q) = i
    BY <1>1, <1>2, <1>4, <1>5 DEF q
  <2>2. ASSUME NEW j \in 1..i
        PROVE  q[j] = IF j < i THEN s[j] ELSE e
    <3>1. j \in 1..Len(a) + Len(m)
      BY <1>1, <1>2, <1>4
    <3>2. CASE j < i
      <4>1. j \in 1..i - 1 /\ j <= Len(a)
        BY <1>1, <1>2, <3>2
      <4> QED
        BY <1>2, <1>5, <3>1, <3>2, <4>1 DEF q
    <3>3. CASE j = i
      <4>1. ~(j <= Len(a)) /\ j - Len(a) = 1
        BY <1>1, <1>2, <3>3
      <4> QED
        BY <1>1, <1>4, <1>5, <3>1, <3>3, <4>1 DEF q
    <3> QED
      BY <1>1, <3>2, <3>3
  <2> QED
    BY <2>1, <2>2
<1>7. /\ p \in Seq(S) /\ Len(p) = Len(q) + Len(b)
      /\ \A j \in 1..Len(q) + Len(b) :
           p[j] = IF j <= Len(q) THEN q[j] ELSE b[j - Len(q)]
  BY <1>3, <1>6, ConcatProperties
<1>8. Len(q) + Len(b) = n + 1
  BY <1>1, <1>3, <1>6
<1> HIDE DEF p
<1>9. ASSUME NEW j \in 1..n + 1
      PROVE  p[j] = IF j < i THEN s[j] ELSE IF j = i THEN e ELSE s[j - 1]
  <2>1. CASE j <= i
    <3>1. p[j] = q[j] /\ j \in 1..i
      BY <1>1, <1>6, <1>7, <1>8, <2>1
    <3> QED
      BY <1>1, <1>6, <2>1, <3>1
  <2>2. CASE ~(j <= i)
    <3>1. j - i \in 1..n + 1 - i /\ i + (j - i) - 1 = j - 1
      BY <1>1, <2>2
    <3>2. p[j] = b[j - i]
      BY <1>6, <1>7, <1>8, <2>2
    <3>3. b[j - i] = s[j - 1]
      BY <1>3, <3>1
    <3> QED
      BY <1>1, <2>2, <3>2, <3>3
  <2> QED
    BY <2>1, <2>2
<1>10. InsertAt(s, i, e) = p
  BY DEF InsertAt, p, q, a, m, b, n
<1> QED
  BY <1>7, <1>8, <1>9, <1>10 DEF n

\* A slot comes last in its group, which is there.
Enters(gs, g, x, mk, gs2, g2, x2, at, s) ==
    /\ gs2 \in Seq(GroupType) /\ Len(gs2) = Len(gs) /\ at \in 1..Len(gs)
    /\ \A i \in 1..Len(gs) :
        /\ gs2[i].gid = gs[i].gid
        /\ i # at => gs2[i].slts = gs[i].slts
    /\ gs2[at].slts = Append(gs[at].slts, s)
    /\ \A y \in mk : g2[y] = g[y] /\ x2[y] = x[y]
    /\ g2[s] = gs[at].gid /\ x2[s] = Len(gs[at].slts) + 1

\* A group comes between those that are less and those that are more.
Comes(gs, g, x, mk, gs2, g2, x2, at, s, gd) ==
    /\ gd \in Gids /\ Gids \subseteq Nat
    /\ gs2 \in Seq(GroupType) /\ Len(gs2) = Len(gs) + 1 /\ at \in 1..Len(gs) + 1
    /\ \A i \in 1..Len(gs) : IF i < at THEN gs[i].gid < gd ELSE gd < gs[i].gid
    /\ \A i \in 1..Len(gs) + 1 :
        gs2[i] = IF i < at THEN gs[i]
                 ELSE IF i = at THEN [gid |-> gd, slts |-> <<s>>] ELSE gs[i - 1]
    /\ \A y \in mk : g2[y] = g[y] /\ x2[y] = x[y]
    /\ g2[s] = gd /\ x2[s] = 1

\* add_slot, the group is there.
LEMMA GroupGrows ==
    ASSUME NEW gs, NEW g, NEW x, NEW mk, ListGood(gs, g, x, mk),
           NEW s \in Slots, s \notin mk, NEW gs2, NEW at, NEW g2, NEW x2,
           Enters(gs, g, x, mk, gs2, g2, x2, at, s)
    PROVE  /\ ListGood(gs2, g2, x2, mk \cup {s})
           /\ \A y : IsListed(y, gs2) <=> IsListed(y, gs) \/ y = s
<1> DEFINE n == Len(gs)
           l == gs[at].slts
           h == gs2[at].slts
<1>0. /\ gs2 \in Seq(GroupType) /\ Len(gs2) = n /\ at \in 1..n
      /\ \A i \in 1..n :
            /\ gs2[i].gid = gs[i].gid
            /\ i # at => gs2[i].slts = gs[i].slts
      /\ gs2[at].slts = Append(l, s)
      /\ \A y \in mk : g2[y] = g[y] /\ x2[y] = x[y]
      /\ g2[s] = gs[at].gid /\ x2[s] = Len(l) + 1
  BY DEF Enters
<1> USE <1>0
<1>1. gs \in Seq(GroupType) /\ n \in Nat /\ l \in Seq(Slots)
  <2>1. gs \in Seq(GroupType)
    BY DEF ListGood
  <2>2. n \in Nat /\ gs[at] \in GroupType
    BY <2>1
  <2> QED
    BY <2>1, <2>2 DEF GroupType
<1>2. /\ h \in Seq(Slots) /\ Len(h) = Len(l) + 1 /\ Len(l) \in Nat
      /\ h[Len(l) + 1] = s /\ \A j \in 1..Len(l) : h[j] = l[j]
  BY <1>1, AppendProperties
<1>3. ASSUME NEW i \in 1..n, i # at
      PROVE  \A j \in 1..Len(gs2[i].slts) :
                /\ gs2[i].slts[j] \in mk
                /\ g2[gs2[i].slts[j]] = gs2[i].gid
                /\ x2[gs2[i].slts[j]] = j
  <2>1. gs2[i].slts = gs[i].slts /\ gs2[i].gid = gs[i].gid
    BY <1>3
  <2>2. \A j \in 1..Len(gs[i].slts) :
            gs[i].slts[j] \in mk /\ g[gs[i].slts[j]] = gs[i].gid /\ x[gs[i].slts[j]] = j
    BY DEF ListGood
  <2> QED
    BY <2>1, <2>2
<1>4. ASSUME NEW j \in 1..Len(h)
      PROVE  h[j] \in mk \cup {s} /\ g2[h[j]] = gs2[at].gid /\ x2[h[j]] = j
  <2>1. gs2[at].gid = gs[at].gid
    OBVIOUS
  <2>2. CASE j = Len(l) + 1
    BY <1>2, <2>1, <2>2
  <2>3. CASE j # Len(l) + 1
    <3> HIDE DEF h
    <3>1. j \in 1..Len(l)
      <4> HIDE DEF l
      <4> QED
        BY <1>2, <2>3
    <3>2. l[j] \in mk /\ g[l[j]] = gs[at].gid /\ x[l[j]] = j
      BY <3>1 DEF ListGood
    <3>3. h[j] = l[j]
      BY <1>2, <3>1
    <3> QED
      BY <2>1, <3>2, <3>3
  <2> QED
    BY <2>2, <2>3
<1>5. \A i, j \in 1..Len(gs2) : i < j => gs2[i].gid < gs2[j].gid
  BY DEF ListGood
<1>6. ListGood(gs2, g2, x2, mk \cup {s})
  <2>1. \A i \in 1..Len(gs2) : \A j \in 1..Len(gs2[i].slts) :
            /\ gs2[i].slts[j] \in mk \cup {s}
            /\ g2[gs2[i].slts[j]] = gs2[i].gid
            /\ x2[gs2[i].slts[j]] = j
    BY <1>3, <1>4
  <2> QED
    BY <1>5, <2>1 DEF ListGood
<1>7. \A y : In(y, h) <=> In(y, l) \/ y = s
  <2> HIDE DEF h, l
  <2>1. Len(l) + 1 \in 1..Len(h) /\ \A j \in 1..Len(h) : j \in 1..Len(l) \/ j = Len(l) + 1
    BY <1>2
  <2>2. \A j \in 1..Len(l) : j \in 1..Len(h)
    BY <1>2
  <2> QED
    BY <1>2, <2>1, <2>2 DEF In
<1>8. ASSUME NEW y
      PROVE  IsListed(y, gs2) <=> IsListed(y, gs) \/ y = s
  <2>1. \A i \in 1..n : i # at => (In(y, gs2[i].slts) <=> In(y, gs[i].slts))
    OBVIOUS
  <2> QED
    BY <1>7, <2>1 DEF IsListed
<1> QED
  BY <1>6, <1>8

\* add_slot: the group is new, between those that are less and those that are more.
LEMMA GroupComes ==
    ASSUME NEW gs, NEW g, NEW x, NEW mk, ListGood(gs, g, x, mk),
           NEW s \in Slots, s \notin mk, NEW gd,
           NEW gs2, NEW at, NEW g2, NEW x2, Comes(gs, g, x, mk, gs2, g2, x2, at, s, gd)
    PROVE  /\ ListGood(gs2, g2, x2, mk \cup {s})
           /\ \A y : IsListed(y, gs2) <=> IsListed(y, gs) \/ y = s
<1> DEFINE n == Len(gs)
           new == [gid |-> gd, slts |-> <<s>>]
           \* where a group was
           Was(i) == IF i < at THEN i ELSE i - 1
           Goes(i) == IF i < at THEN i ELSE i + 1
<1>0. /\ gd \in Gids /\ Gids \subseteq Nat
      /\ gs2 \in Seq(GroupType) /\ Len(gs2) = n + 1 /\ at \in 1..n + 1
      /\ \A i \in 1..n : IF i < at THEN gs[i].gid < gd ELSE gd < gs[i].gid
      /\ \A i \in 1..n + 1 :
            gs2[i] = IF i < at THEN gs[i] ELSE IF i = at THEN new ELSE gs[i - 1]
      /\ \A y \in mk : g2[y] = g[y] /\ x2[y] = x[y]
      /\ g2[s] = gd /\ x2[s] = 1
  BY DEF Comes
<1> USE <1>0
<1>1. gs \in Seq(GroupType) /\ n \in Nat /\ at \in 1..n + 1
  BY DEF ListGood
<1>2. \A i \in 1..n : gs[i].gid \in Nat
  <2>1. \A i \in 1..n : gs[i] \in GroupType
    BY <1>1
  <2> QED
    BY <2>1 DEF GroupType
<1>3. new.gid = gd /\ Len(new.slts) = 1 /\ new.slts[1] = s /\ gd \in Nat
  OBVIOUS
<1>4. gs2[at] = new /\ at \in 1..n + 1
  BY <1>1
<1> HIDE DEF n, new
<1>5. ASSUME NEW i \in 1..n + 1, i # at
      PROVE  Was(i) \in 1..n /\ gs2[i] = gs[Was(i)] /\ Goes(Was(i)) = i
  <2>1. CASE i < at
    BY <1>1, <2>1 DEF n
  <2>2. CASE at < i
    <3>1. i - 1 \in 1..n /\ ~(i < at) /\ ~(i - 1 < at) /\ (i - 1) + 1 = i
      BY <1>1, <2>2
    <3> QED
      BY <2>2, <3>1 DEF n
  <2> QED
    BY <1>1, <1>5, <2>1, <2>2
<1>6. ASSUME NEW i \in 1..n
      PROVE  Goes(i) \in 1..n + 1 /\ Goes(i) # at /\ Was(Goes(i)) = i
  BY <1>1
<1>7. ASSUME NEW i \in 1..n + 1, NEW j \in 1..n + 1, i < j
      PROVE  gs2[i].gid < gs2[j].gid
  <2>1. CASE i # at /\ j # at
    <3>1. Was(i) < Was(j)
      BY <1>1, <1>7, <2>1
    <3>2. gs[Was(i)].gid < gs[Was(j)].gid
      BY <1>5, <2>1, <3>1 DEF ListGood, n
    <3> QED
      BY <1>5, <2>1, <3>2
  <2>2. CASE i = at
    <3>1. j # at /\ j - 1 \in 1..n /\ Was(j) = j - 1 /\ ~(j - 1 < at)
      BY <1>1, <1>7, <2>2
    <3>2. gd < gs[j - 1].gid
      BY <3>1 DEF n
    <3> QED
      BY <1>3, <1>4, <1>5, <2>2, <3>1, <3>2
  <2>3. CASE j = at
    <3>1. i # at /\ i \in 1..n /\ Was(i) = i /\ i < at
      BY <1>1, <1>7, <2>3
    <3>2. gs[i].gid < gd
      BY <3>1 DEF n
    <3> QED
      BY <1>3, <1>4, <1>5, <2>3, <3>1, <3>2
  <2> QED
    BY <2>1, <2>2, <2>3
<1>8. ASSUME NEW i \in 1..n + 1
      PROVE  \A j \in 1..Len(gs2[i].slts) :
                /\ gs2[i].slts[j] \in mk \cup {s}
                /\ g2[gs2[i].slts[j]] = gs2[i].gid
                /\ x2[gs2[i].slts[j]] = j
  <2>1. CASE i = at
    <3>1. \A j \in 1..1 : j = 1
      OBVIOUS
    <3> QED
      BY <1>3, <1>4, <2>1, <3>1
  <2>2. CASE i # at
    <3> DEFINE k == Was(i)
    <3>1. k \in 1..n /\ gs2[i] = gs[k]
      BY <1>5, <2>2
    <3> HIDE DEF k
    <3>2. \A j \in 1..Len(gs[k].slts) :
            gs[k].slts[j] \in mk /\ g[gs[k].slts[j]] = gs[k].gid /\ x[gs[k].slts[j]] = j
      BY <3>1 DEF ListGood, n
    <3>3. gs2[i].slts = gs[k].slts /\ gs2[i].gid = gs[k].gid
      BY <3>1
    <3>4. ASSUME NEW j \in 1..Len(gs[k].slts)
          PROVE  /\ gs[k].slts[j] \in mk \cup {s}
                 /\ g2[gs[k].slts[j]] = gs[k].gid
                 /\ x2[gs[k].slts[j]] = j
      BY <3>2
    <3> QED
      BY <3>3, <3>4
  <2> QED
    BY <2>1, <2>2
<1>9. Len(gs2) = n + 1
  BY DEF n
<1>10. ListGood(gs2, g2, x2, mk \cup {s})
  BY <1>7, <1>8, <1>9 DEF ListGood
<1>11. ASSUME NEW y
       PROVE  IsListed(y, gs2) <=> IsListed(y, gs) \/ y = s
  <2>1. In(y, gs2[at].slts) <=> y = s
    <3>1. \A j \in 1..1 : j = 1
      OBVIOUS
    <3>2. 1 \in 1..1
      OBVIOUS
    <3> QED
      BY <1>3, <1>4, <3>1, <3>2 DEF In
  <2>2. ASSUME NEW i \in 1..n, In(y, gs[i].slts)
        PROVE  IsListed(y, gs2)
    <3>1. gs2[Goes(i)] = gs[i] /\ Goes(i) \in 1..n + 1
      BY <1>5, <1>6
    <3> HIDE DEF Goes
    <3> QED
      BY <1>9, <2>2, <3>1 DEF IsListed
  <2>3. ASSUME NEW i \in 1..n + 1, i # at, In(y, gs2[i].slts)
        PROVE  IsListed(y, gs)
    <3>1. gs2[i] = gs[Was(i)] /\ Was(i) \in 1..n
      BY <1>5, <2>3
    <3> HIDE DEF Was
    <3> QED
      BY <2>3, <3>1 DEF IsListed, n
  <2> QED
    BY <1>4, <1>9, <2>1, <2>2, <2>3 DEF IsListed, n
<1> QED
  BY <1>10, <1>11

\* The groups stay and some slots go.
LEMMA GroupsShrink ==
    ASSUME NEW gs, NEW g, NEW x, NEW mk, ListGood(gs, g, x, mk),
           NEW gs2 \in Seq(GroupType), Len(gs2) = Len(gs), NEW x2,
           \A i \in 1..Len(gs) :
              /\ gs2[i].gid = gs[i].gid
              /\ \A j \in 1..Len(gs2[i].slts) :
                    In(gs2[i].slts[j], gs[i].slts) /\ x2[gs2[i].slts[j]] = j
    PROVE  /\ ListGood(gs2, g, x2, mk)
           /\ \A y : IsListed(y, gs2) => IsListed(y, gs)
<1>1. ASSUME NEW i \in 1..Len(gs), NEW y, In(y, gs[i].slts)
      PROVE  y \in mk /\ g[y] = gs[i].gid
  BY <1>1 DEF ListGood, In
<1>2. ASSUME NEW i \in 1..Len(gs2), NEW j \in 1..Len(gs2[i].slts)
      PROVE  /\ gs2[i].slts[j] \in mk
             /\ g[gs2[i].slts[j]] = gs2[i].gid
             /\ x2[gs2[i].slts[j]] = j
  <2>1. In(gs2[i].slts[j], gs[i].slts) /\ x2[gs2[i].slts[j]] = j /\ gs2[i].gid = gs[i].gid
    OBVIOUS
  <2> QED
    BY <1>1, <2>1
<1>3. \A i, j \in 1..Len(gs2) : i < j => gs2[i].gid < gs2[j].gid
  BY DEF ListGood
<1>4. ListGood(gs2, g, x2, mk)
  BY <1>2, <1>3 DEF ListGood
<1>5. ASSUME NEW y, NEW i \in 1..Len(gs2), In(y, gs2[i].slts)
      PROVE  IsListed(y, gs)
  <2>1. PICK j \in 1..Len(gs2[i].slts) : gs2[i].slts[j] = y
    BY <1>5 DEF In
  <2> QED
    BY <2>1 DEF IsListed
<1> QED
  BY <1>4, <1>5 DEF IsListed

-----------------------------------------------------------------------------
\* How far an emission is.
Done(stage, next) == IF stage = "run" THEN next ELSE next - 1

\* An emission goes through slots that were made, in order; what it called is what it
\* is past; and who was fit all the time was called or is ahead.
Serves(stage, all, next, called, steady, g, mk, fit) ==
    /\ \A k \in 1..Len(all) : all[k] \in mk
    /\ Ordered(all, g)
    /\ next \in 1..Len(all) + 1
    /\ stage \in {"call", "run"} => next <= Len(all)
    /\ Ordered(called, g)
    /\ \A i \in 1..Len(called) : \E k \in 1..Len(all) :
            k <= Done(stage, next) /\ called[i] = all[k]
    /\ steady \subseteq fit
    /\ \A s \in steady :
            In(s, called) \/ \E k \in 1..Len(all) : k > Done(stage, next) /\ all[k] = s

\* Slots are made and become unfit meanwhile.
LEMMA ServesMeanwhile ==
    ASSUME NEW stage, NEW all, NEW next, NEW called, NEW steady, NEW g, NEW mk, NEW fit,
           Serves(stage, all, next, called, steady, g, mk, fit),
           NEW steady2, NEW g2, NEW mk2, NEW fit2, steady2 \subseteq steady,
           steady2 \subseteq fit2, mk \subseteq mk2, \A y \in mk : g2[y] = g[y]
    PROVE  Serves(stage, all, next, called, steady2, g2, mk2, fit2)
<1>1. \A k \in 1..Len(all) : all[k] \in mk
  BY DEF Serves
<1>2. \A i \in 1..Len(called) : called[i] \in mk
  BY <1>1 DEF Serves
<1>3. Ordered(all, g2)
  <2>1. Ordered(all, g)
    BY DEF Serves
  <2> QED
    BY <1>1, <2>1 DEF Ordered
<1>4. Ordered(called, g2)
  <2>1. Ordered(called, g)
    BY DEF Serves
  <2> QED
    BY <1>2, <2>1 DEF Ordered
<1> QED
  BY <1>1, <1>3, <1>4 DEF Serves

\* The next slot: nothing more has to become of this one.
LEMMA ServesNext ==
    ASSUME NEW stage \in {"check", "call", "run"}, NEW all \in Seq(Slots), NEW next \in Nat,
           NEW called \in Seq(Slots), NEW steady, NEW g, NEW mk, NEW fit,
           Serves(stage, all, next, called, steady, g, mk, fit), next <= Len(all),
           stage # "run" => all[next] \notin fit
    PROVE  Serves("check", all, next + 1, called, steady, g, mk, fit)
<1> DEFINE n == Len(all)
           d == Done(stage, next)
           d2 == Done("check", next + 1)
<1>1. n \in Nat /\ d2 = next /\ d \in Int /\ d <= next /\ (d = next \/ d = next - 1)
  BY DEF Done
<1>2. stage # "run" => d = next - 1
  BY DEF Done
<1>3. stage = "run" => d = next
  BY DEF Done
<1> HIDE DEF n, d, d2
<1>4. next + 1 \in 1..n + 1
  <2>1. next <= n
    BY DEF n
  <2> QED
    BY <1>1, <2>1
<1>5. \A i \in 1..Len(called) : \E k \in 1..n : k <= d2 /\ called[i] = all[k]
  <2>1. \A i \in 1..Len(called) : \E k \in 1..n : k <= d /\ called[i] = all[k]
    BY DEF Serves, n, d
  <2>2. \A k \in 1..n : k <= d => k <= d2
    BY <1>1
  <2> QED
    BY <2>1, <2>2
<1>6. ASSUME NEW s \in steady
      PROVE  In(s, called) \/ \E k \in 1..n : k > d2 /\ all[k] = s
  <2>1. In(s, called) \/ \E k \in 1..n : k > d /\ all[k] = s
    BY DEF Serves, n, d
  <2>2. ASSUME NEW k \in 1..n, k > d, all[k] = s
        PROVE  k > d2
    <3>1. CASE stage = "run"
      BY <1>1, <1>3, <2>2, <3>1
    <3>2. CASE stage # "run"
      <4>1. s \in fit
        BY DEF Serves
      <4>2. k # next
        BY <2>2, <3>2, <4>1
      <4> QED
        BY <1>1, <1>2, <2>2, <3>2, <4>2
    <3> QED
      BY <3>1, <3>2
  <2> QED
    BY <2>1, <2>2
<1> QED
  BY <1>4, <1>5, <1>6 DEF Serves, n, d2

\* A slot that is called comes behind those that were.
LEMMA ServesRun ==
    ASSUME NEW all \in Seq(Slots), NEW next \in Nat,
           NEW called \in Seq(Slots), NEW steady, NEW g, NEW mk, NEW fit,
           Serves("call", all, next, called, steady, g, mk, fit)
    PROVE  Serves("run", all, next, Append(called, all[next]), steady, g, mk, fit)
<1> DEFINE n == Len(all)
           m == Len(called)
           c == Append(called, all[next])
<1>1. next \in 1..n /\ n \in Nat /\ m \in Nat /\ all[next] \in Slots
  BY DEF Serves
<1>2. /\ Len(c) = m + 1 /\ c[m + 1] = all[next]
      /\ \A i \in 1..m : c[i] = called[i]
  BY <1>1, AppendProperties
<1>3. Done("call", next) = next - 1 /\ Done("run", next) = next
  BY DEF Done
<1> HIDE DEF n, m, c
<1>4. \A i \in 1..m : \E k \in 1..n : k <= next - 1 /\ called[i] = all[k]
  BY <1>3 DEF Serves, n, m
<1>5. \A i \in 1..m + 1 : i \in 1..m \/ i = m + 1
  BY <1>1
<1>6. Ordered(all, g) /\ Ordered(called, g)
  BY DEF Serves
<1>7. Ordered(c, g)
  <2> SUFFICES ASSUME NEW a \in 1..m + 1, NEW b \in 1..m + 1, a < b
               PROVE  c[a] # c[b] /\ g[c[a]] <= g[c[b]]
    BY <1>2 DEF Ordered
  <2>1. CASE b \in 1..m
    <3>1. a \in 1..m
      BY <1>1, <2>1
    <3> QED
      BY <1>2, <1>6, <2>1, <3>1 DEF Ordered, m
  <2>2. CASE b = m + 1
    <3>1. a \in 1..m
      BY <1>1, <2>2
    <3>2. PICK k \in 1..n : k <= next - 1 /\ called[a] = all[k]
      BY <1>4, <3>1
    <3>3. k < next
      BY <1>1, <3>2
    <3>4. all[k] # all[next] /\ g[all[k]] <= g[all[next]]
      BY <1>1, <1>6, <3>3 DEF Ordered, n
    <3> QED
      BY <1>2, <2>2, <3>1, <3>2, <3>4
  <2> QED
    BY <1>5, <2>1, <2>2
<1>8. \A i \in 1..m + 1 : \E k \in 1..n : k <= next /\ c[i] = all[k]
  <2>1. \A i \in 1..m : \E k \in 1..n : k <= next /\ c[i] = all[k]
    <3>1. \A k \in 1..n : k <= next - 1 => k <= next
      BY <1>1
    <3> QED
      BY <1>2, <1>4, <3>1
  <2>2. \E k \in 1..n : k <= next /\ c[m + 1] = all[k]
    BY <1>1, <1>2
  <2> QED
    BY <1>5, <2>1, <2>2
<1>9. ASSUME NEW s \in steady
      PROVE  In(s, c) \/ \E k \in 1..n : k > next /\ all[k] = s
  <2>1. In(s, called) \/ \E k \in 1..n : k > next - 1 /\ all[k] = s
    BY <1>3 DEF Serves, n
  <2>2. CASE In(s, called)
    <3>1. PICK i \in 1..m : called[i] = s
      BY <2>2 DEF In, m
    <3>2. i \in 1..m + 1
      BY <1>1
    <3> QED
      BY <1>2, <3>1, <3>2 DEF In
  <2>3. ASSUME NEW k \in 1..n, k > next - 1, all[k] = s
        PROVE  In(s, c) \/ \E j \in 1..n : j > next /\ all[j] = s
    <3>1. CASE k = next
      <4>1. m + 1 \in 1..m + 1
        BY <1>1
      <4> QED
        BY <1>2, <2>3, <3>1, <4>1 DEF In
    <3>2. CASE k # next
      <4>1. k > next
        BY <1>1, <2>3, <3>2
      <4> QED
        BY <2>3, <4>1
    <3> QED
      BY <3>1, <3>2
  <2> QED
    BY <2>1, <2>2, <2>3
<1>10. /\ \A k \in 1..n : all[k] \in mk
       /\ next \in 1..n + 1 /\ next <= n
       /\ steady \subseteq fit
  BY <1>1 DEF Serves, n
<1> QED
  BY <1>2, <1>3, <1>6, <1>7, <1>8, <1>9, <1>10 DEF Serves, n, c

-----------------------------------------------------------------------------
FitSlots == connected \ (blocked \cup expired)

Emissions ==
    [stage : {"none", "check", "call", "run"}, all : Seq(Slots), next : Nat,
     called : Seq(Slots), steady : SUBSET Slots]

\* Every slot in the list is where it says and was made, nobody's is lost, and
\* those that wait to be cleaned are no longer connected.
ListInv ==
    /\ ListGood(groups, gid, index, made)
    /\ gid \in [Slots -> Nat] /\ index \in [Slots -> 1..Cardinality(Slots)]
    /\ made \subseteq Slots /\ connected \subseteq made /\ bulk \subseteq connected
    /\ blocked \subseteq made /\ expired \subseteq Tracked
    /\ cleaning \subseteq made /\ cleaning \cap connected = {}
    /\ \A s \in made :
        /\ s \in connected \ bulk => IsListed(s, groups)
        /\ s \notin connected \cup cleaning => ~IsListed(s, groups)

ServesIn(e) == Serves(e.stage, e.all, e.next, e.called, e.steady, gid, made, FitSlots)

EmissionInv ==
    /\ emission \in [Threads -> Emissions]
    /\ \A t \in Threads : ServesIn(emission[t])

SignalsInv == ListInv /\ EmissionInv

\* What is valid was made.
LEMMA ListedIsIn ==
    ASSUME ListInv, NEW s
    PROVE  /\ Listed(s) <=> IsListed(s, groups)
           /\ IsListed(s, groups) => s \in made
           /\ DOMAIN groups = 1..Len(groups) /\ Len(groups) \in Nat
           /\ \A i \in 1..Len(groups) :
                groups[i].slts \in Seq(Slots) /\ groups[i].gid \in Gids
<1>1. groups \in Seq(GroupType)
  BY DEF ListInv, ListGood
<1>2. DOMAIN groups = 1..Len(groups) /\ Len(groups) \in Nat
  BY <1>1
<1>3. \A i \in 1..Len(groups) : groups[i].slts \in Seq(Slots) /\ groups[i].gid \in Gids
  <2>1. \A i \in 1..Len(groups) : groups[i] \in GroupType
    BY <1>1
  <2> QED
    BY <2>1 DEF GroupType
<1>4. \A i \in 1..Len(groups) : DOMAIN groups[i].slts = 1..Len(groups[i].slts)
  BY <1>3
<1>5. Listed(s) <=> IsListed(s, groups)
  <2>1. ASSUME Listed(s)
        PROVE  IsListed(s, groups)
    <3>1. PICK i \in 1..Len(groups) : s \in {groups[i].slts[j] : j \in DOMAIN groups[i].slts}
      BY <1>2, <2>1 DEF Listed
    <3>2. PICK j \in 1..Len(groups[i].slts) : groups[i].slts[j] = s
      BY <1>4, <3>1
    <3> QED
      BY <3>2 DEF IsListed, In
  <2>2. ASSUME IsListed(s, groups)
        PROVE  Listed(s)
    <3>1. PICK i \in 1..Len(groups) : In(s, groups[i].slts)
      BY <2>2 DEF IsListed
    <3>2. PICK j \in 1..Len(groups[i].slts) : groups[i].slts[j] = s
      BY <3>1 DEF In
    <3>3. s \in {groups[i].slts[k] : k \in DOMAIN groups[i].slts}
      BY <1>4, <3>2
    <3> QED
      BY <1>2, <3>3 DEF Listed
  <2> QED
    BY <2>1, <2>2
<1>6. IsListed(s, groups) => s \in made
  BY DEF ListInv, ListGood, IsListed, In
<1> QED
  BY <1>2, <1>3, <1>5, <1>6

\* What a connection still refers to was made.
LEMMA ValidIsMade == ASSUME SignalsInv, NEW s, Valid(s) PROVE s \in made
<1>1. CASE Listed(s)
  BY <1>1, ListedIsIn DEF SignalsInv
<1>2. CASE s \in cleaning
  BY <1>2 DEF SignalsInv, ListInv
<1>3. ASSUME NEW t \in Threads, s \in ToSet(emission[t].all)
      PROVE  s \in made
  <2>1. emission[t].all \in Seq(Slots) /\ ServesIn(emission[t])
    BY DEF SignalsInv, EmissionInv, Emissions
  <2>2. \A k \in 1..Len(emission[t].all) : emission[t].all[k] \in made
    BY <2>1 DEF ServesIn, Serves
  <2> QED
    BY <1>3, <2>1, <2>2 DEF ToSet
<1> QED
  BY <1>1, <1>2, <1>3 DEF Valid

\* No thread moves: slots are made, and those that become unfit are struck off.
LEMMA NobodyMoves ==
    ASSUME EmissionInv, emission' \in [Threads -> Emissions],
           \A t \in Threads :
              /\ emission'[t].stage = emission[t].stage
              /\ emission'[t].all = emission[t].all
              /\ emission'[t].next = emission[t].next
              /\ emission'[t].called = emission[t].called
              /\ emission'[t].steady \subseteq emission[t].steady
              /\ emission'[t].steady \subseteq FitSlots',
           made \subseteq made', \A y \in made : gid'[y] = gid[y]
    PROVE  EmissionInv'
<1>1. ASSUME NEW t \in Threads
      PROVE  ServesIn(emission[t])'
  <2> DEFINE e == emission[t]
  <2>1. Serves(e.stage, e.all, e.next, e.called, e.steady, gid, made, FitSlots)
    BY DEF EmissionInv, ServesIn
  <2>2. Serves(e.stage, e.all, e.next, e.called, emission'[t].steady, gid', made', FitSlots')
    <3> HIDE DEF e
    <3>1. /\ emission'[t].steady \subseteq e.steady
          /\ emission'[t].steady \subseteq FitSlots'
      BY DEF e
    <3> DEFINE st == emission'[t].steady
               fs == FitSlots'
    <3> HIDE DEF st, fs
    <3>2. /\ st \subseteq e.steady /\ st \subseteq fs /\ made \subseteq made'
          /\ \A y \in made : gid'[y] = gid[y]
      BY <3>1 DEF st, fs
    <3>3. Serves(e.stage, e.all, e.next, e.called, st, gid', made', fs)
      BY <2>1, <3>2, ServesMeanwhile
    <3> QED
      BY <3>3 DEF st, fs
  <2> QED
    BY <2>2 DEF ServesIn
<1> QED
  BY <1>1 DEF EmissionInv

\* One thread moves.
LEMMA OneMoves ==
    ASSUME EmissionInv, NEW t \in Threads, NEW e \in Emissions, ServesIn(e),
           emission' = [emission EXCEPT ![t] = e],
           gid' = gid, made' = made, FitSlots' = FitSlots
    PROVE  EmissionInv'
<1>1. emission' \in [Threads -> Emissions]
  BY DEF EmissionInv
<1>2. ASSUME NEW u \in Threads
      PROVE  ServesIn(emission[u])'
  <2>1. ServesIn(emission'[u])
    <3>1. CASE u = t
      BY <3>1 DEF EmissionInv
    <3>2. CASE u # t
      BY <3>2 DEF EmissionInv
    <3> QED
      BY <3>1, <3>2
  <2> QED
    BY <2>1 DEF ServesIn
<1> QED
  BY <1>1, <1>2 DEF EmissionInv

\* A slot that becomes unfit is struck off everywhere.
LEMMA UnsteadyLemma ==
    ASSUME EmissionInv, NEW s, emission' = Unsteady(s), FitSlots \subseteq FitSlots' \cup {s},
           made' = made, gid' = gid
    PROVE  EmissionInv'
<1>1. \A t \in Threads :
        /\ emission'[t] \in Emissions
        /\ emission'[t].stage = emission[t].stage
        /\ emission'[t].all = emission[t].all
        /\ emission'[t].next = emission[t].next
        /\ emission'[t].called = emission[t].called
        /\ emission'[t].steady = emission[t].steady \ {s}
  BY DEF EmissionInv, Emissions, Unsteady
<1>2. emission' \in [Threads -> Emissions]
  BY <1>1 DEF Unsteady
<1>3. \A t \in Threads : emission[t].steady \subseteq FitSlots
  BY DEF EmissionInv, ServesIn, Serves
<1>4. \A t \in Threads : emission'[t].steady \subseteq FitSlots'
  BY <1>1, <1>3
<1> QED
  BY <1>1, <1>2, <1>4, NobodyMoves

\* The emissions stay as they are and nobody becomes unfit.
LEMMA StillLemma ==
    ASSUME EmissionInv, emission' = emission, FitSlots \subseteq FitSlots',
           made \subseteq made', \A y \in made : gid'[y] = gid[y]
    PROVE  EmissionInv'
<1>1. emission' \in [Threads -> Emissions]
  BY DEF EmissionInv
<1>2. \A t \in Threads : emission[t].steady \subseteq FitSlots
  BY DEF EmissionInv, ServesIn, Serves
<1>3. \A t \in Threads : emission'[t].steady \subseteq FitSlots'
  BY <1>2
<1> QED
  BY <1>1, <1>3, NobodyMoves

-----------------------------------------------------------------------------
\* The flag goes, and the slot waits to be cleaned.
LEMMA DisconnectStep ==
    ASSUME SignalsInv, NEW s \in Slots, Disconnect(s) PROVE SignalsInv'
<1>1. s \in made /\ s \in connected
  BY DEF Disconnect, SignalsInv, ListInv
<1>2. ListInv'
  BY <1>1 DEF SignalsInv, ListInv, Disconnect
<1>3. EmissionInv'
  <2>1. FitSlots \subseteq FitSlots' \cup {s}
    BY DEF FitSlots, Disconnect
  <2> QED
    BY <2>1, UnsteadyLemma DEF SignalsInv, Disconnect
<1> QED
  BY <1>2, <1>3 DEF SignalsInv

\* A slot is blocked or no longer.
LEMMA BlockSlotStep ==
    ASSUME SignalsInv, NEW s \in Slots, BlockSlot(s) PROVE SignalsInv'
<1>1. s \in made
  BY ValidIsMade DEF BlockSlot
<1>2. ListInv'
  BY <1>1 DEF SignalsInv, ListInv, BlockSlot
<1>3. EmissionInv'
  <2>1. FitSlots \subseteq FitSlots' \cup {s}
    BY DEF FitSlots, BlockSlot
  <2> QED
    BY <2>1, UnsteadyLemma DEF SignalsInv, BlockSlot
<1> QED
  BY <1>2, <1>3 DEF SignalsInv

\* A tracked object goes.
LEMMA ExpireStep ==
    ASSUME SignalsInv, NEW s \in Slots, Expire(s) PROVE SignalsInv'
<1>1. ListInv'
  BY DEF SignalsInv, ListInv, Expire
<1>2. EmissionInv'
  <2>1. FitSlots \subseteq FitSlots' \cup {s}
    BY DEF FitSlots, Expire
  <2> QED
    BY <2>1, UnsteadyLemma DEF SignalsInv, Expire
<1> QED
  BY <1>1, <1>2 DEF SignalsInv

\* A slot comes last in its group, which may be new.
LEMMA AddSlotStep ==
    ASSUME SignalsAssumption, SignalsInv, NEW s \in Slots, s \notin made, NEW g \in Gids,
           AddSlot(s, g)
    PROVE  SignalsInv'
<1> DEFINE n == Len(groups)
           later == {i \in DOMAIN groups : groups[i].gid >= g}
           at == IF later = {} THEN n + 1 ELSE CHOOSE i \in later : \A j \in later : i <= j
           there == at <= n /\ groups[at].gid = g
           new == [gid |-> g, slts |-> <<s>>]
           N == Cardinality(Slots)
<1>1. /\ groups' = IF there THEN [groups EXCEPT ![at].slts = Append(@, s)]
                   ELSE InsertAt(groups, at, new)
      /\ index' = [index EXCEPT ![s] = IF there THEN Len(groups[at].slts) + 1 ELSE 1]
      /\ gid' = [gid EXCEPT ![s] = g]
      /\ made' = made \cup {s}
      /\ connected' = connected \cup {s}
      /\ UNCHANGED <<blocked, expired, cleaning, emission, bulk>>
  BY DEF AddSlot
<1>2. /\ ListInv /\ ListGood(groups, gid, index, made)
      /\ groups \in Seq(GroupType) /\ n \in Nat /\ DOMAIN groups = 1..n
      /\ \A i \in 1..n : groups[i] \in GroupType /\ groups[i].gid \in Nat
      /\ gid \in [Slots -> Nat] /\ index \in [Slots -> 1..N] /\ g \in Nat
  <2>1. ListInv /\ ListGood(groups, gid, index, made) /\ groups \in Seq(GroupType)
    BY DEF SignalsInv, ListInv, ListGood
  <2>2. n \in Nat /\ DOMAIN groups = 1..n /\ \A i \in 1..n : groups[i] \in GroupType
    BY <2>1
  <2> QED
    BY <2>1, <2>2 DEF ListInv, GroupType, SignalsAssumption
<1>3. /\ at \in 1..n + 1
      /\ \A i \in 1..n : i < at => groups[i].gid < g
      /\ at <= n => groups[at].gid >= g
  <2>1. CASE later = {}
    <3>1. at = n + 1
      BY <2>1
    <3> HIDE DEF at
    <3>2. \A i \in 1..n : ~(groups[i].gid >= g)
      BY <1>2, <2>1
    <3> HIDE DEF n
    <3> QED
      BY <1>2, <3>1, <3>2
  <2>2. CASE later # {}
    <3>1. later \in SUBSET (1..n)
      BY <1>2
    <3>2. \E m \in later : \A j \in later : m <= j
      <4> HIDE DEF later, n
      <4> QED
        BY <1>2, <2>2, <3>1, MinLemma
    <3>3. at \in later /\ \A j \in later : at <= j
      <4> HIDE DEF later
      <4> QED
        BY <2>2, <3>2
    <3> HIDE DEF at
    <3>4. ASSUME NEW i \in 1..n, i < at
          PROVE  groups[i].gid < g
      <4>1. i \notin later
        <5>1. at \in 1..n /\ n \in Nat
          BY <1>2, <3>1, <3>3
        <5>2. \A j \in later : at <= j
          BY <3>3
        <5> HIDE DEF later, n
        <5> QED
          BY <3>4, <5>1, <5>2
      <4> QED
        BY <1>2, <4>1
    <3>5. at \in 1..n /\ groups[at].gid >= g
      BY <3>1, <3>3
    <3> HIDE DEF n
    <3> QED
      BY <1>2, <3>4, <3>5
  <2> QED
    BY <2>1, <2>2
<1> HIDE DEF at, later
<1>4. /\ gid' \in [Slots -> Nat]
      /\ gid'[s] = g /\ \A y \in made : gid'[y] = gid[y]
      /\ \A y \in made : y \in Slots /\ y # s
  BY <1>1, <1>2 DEF ListInv
<1>5. /\ ListGood(groups', gid', index', made \cup {s})
      /\ \A y : IsListed(y, groups') <=> IsListed(y, groups) \/ y = s
      /\ index' \in [Slots -> 1..N]
  <2>1. CASE there
    <3> DEFINE l == groups[at].slts
    <3>1. at \in 1..n /\ groups[at].gid = g
      BY <1>2, <1>3, <2>1
    <3>2. l \in Seq(Slots)
      BY <1>2, <3>1 DEF GroupType
    <3>3. /\ groups' = [groups EXCEPT ![at].slts = Append(@, s)]
          /\ index' = [index EXCEPT ![s] = Len(l) + 1]
      BY <1>1, <2>1
    <3>4. Len(l) + 1 \in 1..N
      <4>1. ~In(s, l)
        BY <1>2, <3>1 DEF In, ListGood
      <4>2. \A j \in 1..Len(l) : index[l[j]] = j
        BY <1>2, <3>1 DEF ListGood
      <4> HIDE DEF l
      <4> QED
        BY <3>2, <4>1, <4>2, PlaceLemma
    <3>5. /\ index' \in [Slots -> 1..N] /\ index'[s] = Len(l) + 1
          /\ \A y \in made : index'[y] = index[y]
      <4> HIDE DEF l, N
      <4> QED
        BY <1>2, <1>4, <3>3, <3>4
    <3> DEFINE gs2 == [groups EXCEPT ![at].slts = Append(@, s)]
    <3>6. /\ gs2 \in Seq(GroupType) /\ Len(gs2) = n
          /\ \A i \in 1..n :
                /\ gs2[i].gid = groups[i].gid
                /\ i # at => gs2[i].slts = groups[i].slts
          /\ gs2[at].slts = Append(l, s)
      <4> DEFINE r == [groups[at] EXCEPT !.slts = Append(l, s)]
      <4>1. r \in GroupType /\ r.gid = groups[at].gid /\ r.slts = Append(l, s)
        <5>1. Append(l, s) \in Seq(Slots)
          BY <3>2, AppendProperties
        <5>2. groups[at] \in GroupType
          BY <1>2, <3>1
        <5> HIDE DEF l
        <5> QED
          BY <5>1, <5>2 DEF GroupType
      <4>2. gs2 = [groups EXCEPT ![at] = r]
        BY <3>1
      <4> HIDE DEF r, gs2
      <4> QED
        BY <1>2, <3>1, <4>1, <4>2
    <3>7. groups' = gs2
      BY <3>3
    <3> DEFINE g2 == gid'
               x2 == index'
    <3> HIDE DEF gs2, l, g2, x2
    <3>8. /\ ListGood(gs2, g2, x2, made \cup {s})
          /\ \A y : IsListed(y, gs2) <=> IsListed(y, groups) \/ y = s
      <4>1. Enters(groups, gid, index, made, gs2, g2, x2, at, s)
        <5>1. /\ \A y \in made : g2[y] = gid[y] /\ x2[y] = index[y]
              /\ g2[s] = groups[at].gid /\ x2[s] = Len(groups[at].slts) + 1
          BY <1>4, <3>1, <3>5 DEF g2, x2, l
        <5> QED
          BY <1>2, <3>1, <3>6, <5>1 DEF l, Enters
      <4> HIDE DEF n
      <4> QED
        BY <1>2, <4>1, GroupGrows
    <3> QED
      BY <3>5, <3>7, <3>8 DEF g2, x2
  <2>2. CASE ~there
    <3>1. \A i \in 1..n : IF i < at THEN groups[i].gid < g ELSE g < groups[i].gid
      <4> SUFFICES ASSUME NEW i \in 1..n, ~(i < at)
                   PROVE  g < groups[i].gid
        BY <1>3
      <4>1. at \in 1..n /\ at <= n
        BY <1>2, <1>3
      <4>2. groups[at].gid > g
        BY <1>2, <1>3, <2>2, <4>1
      <4>3. CASE i = at
        BY <1>2, <4>2, <4>3
      <4>4. CASE at < i
        <5>1. groups[at].gid < groups[i].gid
          BY <1>2, <4>1, <4>4 DEF ListGood
        <5> QED
          BY <1>2, <4>1, <4>2, <5>1
      <4> QED
        BY <1>2, <1>3, <4>3, <4>4
    <3>2. /\ groups' = InsertAt(groups, at, new)
          /\ index' = [index EXCEPT ![s] = 1]
      BY <1>1, <2>2
    <3>3. new \in GroupType
      BY DEF GroupType
    <3> DEFINE gs2 == InsertAt(groups, at, new)
    <3>4. /\ gs2 \in Seq(GroupType) /\ Len(gs2) = n + 1
          /\ \A j \in 1..n + 1 :
               gs2[j] = IF j < at THEN groups[j] ELSE IF j = at THEN new ELSE groups[j - 1]
      <4>1. groups \in Seq(GroupType) /\ at \in 1..Len(groups) + 1 /\ new \in GroupType
        BY <1>2, <1>3, <3>3
      <4> HIDE DEF new
      <4> QED
        BY <4>1, InsertAtLemma
    <3>5. 1 \in 1..N
      <4>1. <<>> \in Seq(Slots) /\ Len(<<>>) = 0 /\ ~In(s, <<>>) /\ \A j \in 1..0 : index[<<>>[j]] = j
        BY DEF In
      <4>2. Len(<<>>) + 1 \in 1..Cardinality(Slots)
        BY <4>1, PlaceLemma
      <4> QED
        BY <4>1, <4>2
    <3>6. /\ index' \in [Slots -> 1..N] /\ index'[s] = 1
          /\ \A y \in made : index'[y] = index[y]
      <4> HIDE DEF N
      <4> QED
        BY <1>2, <1>4, <3>2, <3>5
    <3>7. groups' = gs2
      BY <3>2
    <3> DEFINE g2 == gid'
               x2 == index'
    <3> HIDE DEF gs2, g2, x2
    <3>8. /\ ListGood(gs2, g2, x2, made \cup {s})
          /\ \A y : IsListed(y, gs2) <=> IsListed(y, groups) \/ y = s
      <4>1. Comes(groups, gid, index, made, gs2, g2, x2, at, s, g)
        <5>1. /\ \A y \in made : g2[y] = gid[y] /\ x2[y] = index[y]
              /\ g2[s] = g /\ x2[s] = 1
          BY <1>4, <3>6 DEF g2, x2
        <5> QED
          BY <1>2, <1>3, <3>1, <3>4, <5>1 DEF Comes, SignalsAssumption
      <4>2. ListGood(groups, gid, index, made)
        BY <1>2
      <4> HIDE DEF n
      <4> QED
        BY <1>2, <4>1, GroupComes, ZenonT(30)
    <3> QED
      BY <3>6, <3>7, <3>8 DEF g2, x2
  <2> QED
    BY <2>1, <2>2
<1>6. ListInv'
  <2>1. /\ connected' \subseteq made' /\ made' \subseteq Slots /\ bulk' \subseteq connected'
        /\ blocked' \subseteq made' /\ expired' \subseteq Tracked
        /\ cleaning' \subseteq made' /\ cleaning' \cap connected' = {}
    BY <1>1, <1>2 DEF ListInv
  <2>2. ASSUME NEW y \in made'
        PROVE  /\ y \in connected' \ bulk' => IsListed(y, groups')
               /\ y \notin connected' \cup cleaning' => ~IsListed(y, groups')
    BY <1>1, <1>2, <1>5 DEF ListInv
  <2> QED
    BY <1>1, <1>4, <1>5, <2>1, <2>2 DEF ListInv
<1>7. EmissionInv'
  <2>1. FitSlots \subseteq FitSlots'
    BY <1>1 DEF FitSlots
  <2> QED
    BY <1>1, <1>4, <2>1, StillLemma DEF SignalsInv
<1> QED
  BY <1>6, <1>7 DEF SignalsInv

\* connect, with or without an object to track.
LEMMA ConnectStep ==
    ASSUME SignalsAssumption, SignalsInv, NEW s \in Slots, Connect(s) \/ ConnectTracked(s)
    PROVE  SignalsInv'
<1>1. s \notin made /\ \E g \in Gids : AddSlot(s, g)
  BY DEF Connect, ConnectTracked
<1>2. PICK g \in Gids : AddSlot(s, g)
  BY <1>1
<1> QED
  BY <1>1, <1>2, SignalsAssumption, AddSlotStep

\* There is a number of slots.
LEMMA SlotsAreCounted == ASSUME SignalsAssumption PROVE Cardinality(Slots) \in Nat
  BY FS_CardinalityType DEF SignalsAssumption

\* One group has other slots.
LEMMA SltsLemma ==
    ASSUME NEW gs \in Seq(GroupType), NEW at \in 1..Len(gs), NEW h \in Seq(Slots)
    PROVE  /\ [gs EXCEPT ![at].slts = h] \in Seq(GroupType)
           /\ Len([gs EXCEPT ![at].slts = h]) = Len(gs)
           /\ \A i \in 1..Len(gs) :
                /\ [gs EXCEPT ![at].slts = h][i].gid = gs[i].gid
                /\ [gs EXCEPT ![at].slts = h][i].slts = IF i = at THEN h ELSE gs[i].slts
<1> DEFINE r == [gs[at] EXCEPT !.slts = h]
           gs2 == [gs EXCEPT ![at].slts = h]
<1>1. gs[at] \in GroupType
  OBVIOUS
<1>2. r \in GroupType /\ r.gid = gs[at].gid /\ r.slts = h
  BY <1>1 DEF GroupType
<1>3. gs2 = [gs EXCEPT ![at] = r]
  OBVIOUS
<1> HIDE DEF r
<1>4. /\ gs2 \in Seq(GroupType) /\ Len(gs2) = Len(gs)
      /\ \A i \in 1..Len(gs) : gs2[i] = IF i = at THEN r ELSE gs[i]
  <2> HIDE DEF gs2
  <2> QED
    BY <1>2, <1>3
<1> HIDE DEF gs2
<1>5. \A i \in 1..Len(gs) : /\ gs2[i].gid = gs[i].gid
                            /\ gs2[i].slts = IF i = at THEN h ELSE gs[i].slts
  BY <1>2, <1>4
<1> QED
  BY <1>4, <1>5 DEF gs2

\* No slot is in two groups.
LEMMA GroupsAreDisjoint ==
    ASSUME SignalsAssumption, NEW gs, NEW g, NEW x, NEW mk, ListGood(gs, g, x, mk),
           NEW i \in 1..Len(gs), NEW j \in 1..Len(gs), i # j,
           NEW y, In(y, gs[i].slts)
    PROVE  ~In(y, gs[j].slts)
<1> SUFFICES ASSUME In(y, gs[j].slts)
             PROVE  FALSE
  OBVIOUS
<1>1. g[y] = gs[i].gid /\ g[y] = gs[j].gid
  BY DEF ListGood, In
<1>2. gs[i].gid < gs[j].gid \/ gs[j].gid < gs[i].gid
  <2>1. i < j \/ j < i
    OBVIOUS
  <2> QED
    BY <2>1 DEF ListGood
<1>3. gs[i].gid \in Nat
  <2>1. gs \in Seq(GroupType)
    BY DEF ListGood
  <2>2. gs[i] \in GroupType
    BY <2>1
  <2> QED
    BY <2>2 DEF GroupType, SignalsAssumption
<1> QED
  BY <1>1, <1>2, <1>3

\* Who is in a group that lost the slot at k.
LEMMA PoppedLemma ==
    ASSUME NEW S, NEW b, NEW l \in Seq(S), NEW ix, \A j \in 1..Len(l) : ix[l[j]] = j,
           NEW k \in 1..Len(l), NEW h, NEW x, Popped(h, x, l, ix, k, S, b), NEW y
    PROVE  In(y, h) <=> In(y, l) /\ y # l[k]
<1> DEFINE n == Len(l)
<1>1. n \in Nat /\ n \in 1..n /\ k \in 1..n
  OBVIOUS
<1>2. Len(h) = n - 1 /\ \A j \in 1..n - 1 : h[j] = IF j = k THEN l[n] ELSE l[j]
  BY DEF Popped
<1>3. \A i, j \in 1..n : l[i] = l[j] => i = j
  OBVIOUS
<1> HIDE DEF n
<1>4. ASSUME NEW j \in 1..n - 1
      PROVE  In(h[j], l) /\ h[j] # l[k]
  <2>1. j \in 1..n /\ j # n
    BY <1>1
  <2>2. CASE j = k
    BY <1>1, <1>2, <1>3, <2>1, <2>2 DEF In, n
  <2>3. CASE j # k
    BY <1>1, <1>2, <1>3, <2>1, <2>3 DEF In, n
  <2> QED
    BY <2>2, <2>3
<1>5. ASSUME NEW j \in 1..n, l[j] # l[k]
      PROVE  In(l[j], h)
  <2>1. j # k
    BY <1>5
  <2>2. CASE j = n
    <3>1. k \in 1..n - 1
      BY <1>1, <2>1, <2>2
    <3> QED
      BY <1>2, <2>2, <3>1 DEF In
  <2>3. CASE j # n
    <3>1. j \in 1..n - 1
      BY <1>1, <2>3
    <3> QED
      BY <1>2, <2>1, <3>1 DEF In
  <2> QED
    BY <2>2, <2>3
<1>6. ASSUME In(y, h)
      PROVE  In(y, l) /\ y # l[k]
  <2>1. PICK j \in 1..n - 1 : h[j] = y
    BY <1>2, <1>6 DEF In
  <2> QED
    BY <1>4, <2>1
<1>7. ASSUME In(y, l), y # l[k]
      PROVE  In(y, h)
  <2>1. PICK j \in 1..n : l[j] = y
    BY <1>7 DEF In, n
  <2> QED
    BY <1>5, <1>7, <2>1
<1> QED
  BY <1>6, <1>7

\* clean: the slot at the index of s is s, or somebody swept it.
LEMMA CleanStep ==
    ASSUME SignalsAssumption, SignalsInv, NEW s \in Slots, Clean(s) PROVE SignalsInv'
<1> DEFINE n == Len(groups)
           at == {i \in Positions(gid[s]) :
                    index[s] <= Len(groups[i].slts) /\ groups[i].slts[index[s]] = s}
           N == Cardinality(Slots)
<1>1. /\ s \in cleaning /\ cleaning' = cleaning \ {s}
      /\ UNCHANGED <<made, gid, connected, blocked, expired, emission, bulk>>
  BY DEF Clean
<1>2. /\ ListInv /\ ListGood(groups, gid, index, made) /\ groups \in Seq(GroupType)
      /\ s \in made /\ s \notin connected /\ made \subseteq Slots
      /\ index \in [Slots -> 1..N] /\ gid \in [Slots -> Nat]
  BY <1>1 DEF SignalsInv, ListInv, ListGood
<1>3. /\ n \in Nat /\ DOMAIN groups = 1..n
      /\ \A i \in 1..n : groups[i].slts \in Seq(Slots)
  BY <1>2, ListedIsIn
<1>4. ASSUME NEW i \in 1..n, In(s, groups[i].slts)
      PROVE  i \in at
  <2>1. PICK j \in 1..Len(groups[i].slts) : groups[i].slts[j] = s
    BY <1>4 DEF In
  <2>2. gid[s] = groups[i].gid /\ index[s] = j /\ Len(groups[i].slts) \in Nat
    BY <1>2, <1>3, <2>1 DEF ListGood
  <2>3. index[s] <= Len(groups[i].slts) /\ groups[i].slts[index[s]] = s
    BY <2>1, <2>2
  <2> QED
    BY <1>3, <2>2, <2>3 DEF Positions
<1>5. /\ ListGood(groups', gid, index', made)
      /\ index' \in [Slots -> 1..N]
      /\ ~IsListed(s, groups')
      /\ \A y : y # s => (IsListed(y, groups') <=> IsListed(y, groups))
  <2>1. CASE at = {}
    <3>1. groups' = groups /\ index' = index
      BY <2>1 DEF Clean
    <3>2. ~IsListed(s, groups)
      <4> HIDE DEF at
      <4> QED
        BY <1>4, <2>1 DEF IsListed
    <3> QED
      BY <1>2, <3>1, <3>2
  <2>2. CASE at # {}
    <3> DEFINE i == CHOOSE i \in at : TRUE
               l == groups[i].slts
               p == SwapPop([slts |-> l, index |-> index], index[s])
    <3>1. i \in at
      <4> HIDE DEF at
      <4> QED
        BY <2>2
    <3>2. groups' = [groups EXCEPT ![i].slts = p.slts] /\ index' = p.index
      BY <2>2 DEF Clean
    <3> HIDE DEF i
    <3>3. i \in 1..n /\ index[s] <= Len(l) /\ l[index[s]] = s
      BY <1>3, <3>1 DEF Positions
    <3>4. /\ l \in Seq(Slots) /\ index[s] \in 1..N
          /\ \A j \in 1..Len(l) : index[l[j]] = j
      BY <1>2, <1>3, <3>3 DEF ListGood
    <3>5. index[s] \in 1..Len(l)
      BY <3>3, <3>4
    <3> DEFINE k == index[s]
    <3>6. N \in Nat
      BY SignalsAssumption, SlotsAreCounted
    <3>7. PICK h, x : /\ SwapPop(Group(l, index), k) = Group(h, x)
                      /\ Popped(h, x, l, index, k, Slots, N)
      <4> HIDE DEF l, k, N
      <4> QED
        BY <1>2, <3>4, <3>5, <3>6, SwapPopLemma DEF l, k
    <3>8. p.slts = h /\ p.index = x
      BY <3>7 DEF Group
    <3>9. groups' = [groups EXCEPT ![i].slts = h] /\ index' = x
      BY <3>2, <3>8
    <3> DEFINE gs2 == [groups EXCEPT ![i].slts = h]
    <3> HIDE DEF l, p, k, n, N
    <3>10. /\ h \in Seq(Slots) /\ x \in [Slots -> 1..N]
           /\ \A j \in 1..Len(h) : x[h[j]] = j
           /\ \A y \in Slots : y # l[Len(l)] => x[y] = index[y]
      BY <3>7 DEF Popped
    <3>11. /\ gs2 \in Seq(GroupType) /\ Len(gs2) = n
           /\ \A j \in 1..n : /\ gs2[j].gid = groups[j].gid
                              /\ gs2[j].slts = IF j = i THEN h ELSE groups[j].slts
      BY <1>2, <3>3, <3>10, SltsLemma DEF n
    <3> HIDE DEF gs2
    <3>12. \A y : In(y, h) <=> In(y, l) /\ y # s
      <4>1. l[k] = s
        BY <3>3 DEF k
      <4>2. l \in Seq(Slots) /\ k \in 1..Len(l) /\ \A j \in 1..Len(l) : index[l[j]] = j
        BY <3>4, <3>5 DEF k
      <4>3. \A y : In(y, h) <=> In(y, l) /\ y # l[k]
        BY <3>7, <4>2, PoppedLemma
      <4> QED
        BY <4>1, <4>3
    <3>13. ASSUME NEW m \in 1..n, m # i, NEW y, In(y, groups[m].slts)
           PROVE  y \in Slots /\ ~In(y, l) /\ y # l[Len(l)] /\ y # s
      <4>1. y \in made
        BY <1>2, <3>13 DEF ListGood, In, n
      <4>2. ~In(y, l)
        BY <1>2, <3>3, <3>13, SignalsAssumption, GroupsAreDisjoint DEF l, n
      <4>3. In(l[Len(l)], l) /\ In(s, l)
        <5>1. Len(l) \in 1..Len(l)
          BY <3>4, <3>5
        <5> QED
          BY <3>3, <3>5, <5>1 DEF In, k
      <4> QED
        BY <1>2, <4>1, <4>2, <4>3
    <3>14. ASSUME NEW m \in 1..n, NEW j \in 1..Len(gs2[m].slts)
           PROVE  In(gs2[m].slts[j], groups[m].slts) /\ x[gs2[m].slts[j]] = j
      <4>1. CASE m = i
        <5>1. gs2[m].slts = h
          BY <3>11, <4>1
        <5>2. j \in 1..Len(h)
          BY <3>14, <5>1
        <5>3. In(h[j], h)
          BY <5>2 DEF In
        <5> QED
          BY <3>10, <3>12, <4>1, <5>1, <5>2, <5>3 DEF l
      <4>2. CASE m # i
        <5> DEFINE q == groups[m].slts
        <5>1. gs2[m].slts = q
          BY <3>11, <4>2
        <5>2. j \in 1..Len(q)
          BY <3>14, <5>1
        <5>3. In(q[j], q) /\ index[q[j]] = j
          BY <1>2, <5>2 DEF In, ListGood, n
        <5>4. q[j] \in Slots /\ q[j] # l[Len(l)]
          BY <3>13, <4>2, <5>3
        <5> HIDE DEF q
        <5> QED
          BY <3>10, <5>1, <5>3, <5>4 DEF q
      <4> QED
        BY <4>1, <4>2
    <3>15. ListGood(gs2, gid, x, made)
      BY <1>2, <3>11, <3>14, GroupsShrink DEF n
    <3>16. \A y : IsListed(y, gs2) <=> IsListed(y, groups) /\ y # s
      <4>1. ASSUME NEW y, NEW m \in 1..n, In(y, gs2[m].slts)
            PROVE  In(y, groups[m].slts) /\ y # s
        <5>1. CASE m = i
          BY <3>11, <3>12, <4>1, <5>1 DEF l
        <5>2. CASE m # i
          BY <3>11, <3>13, <4>1, <5>2
        <5> QED
          BY <5>1, <5>2
      <4>2. ASSUME NEW y, NEW m \in 1..n, In(y, groups[m].slts), y # s
            PROVE  In(y, gs2[m].slts)
        BY <3>11, <3>12, <4>2 DEF l
      <4> QED
        BY <3>11, <4>1, <4>2 DEF IsListed, n
    <3>17. groups' = gs2
      BY <3>9 DEF gs2
    <3> QED
      BY <3>9, <3>10, <3>15, <3>16, <3>17
  <2> QED
    BY <2>1, <2>2
<1> HIDE DEF at, N, n
<1>6. ListInv'
  <2>1. ASSUME NEW y \in made
        PROVE  /\ y \in connected' \ bulk' => IsListed(y, groups')
               /\ y \notin connected' \cup cleaning' => ~IsListed(y, groups')
    <3>1. CASE y = s
      BY <1>1, <1>2, <1>5, <3>1
    <3>2. CASE y # s
      <4>1. /\ y \in connected \ bulk => IsListed(y, groups)
            /\ y \notin connected \cup cleaning => ~IsListed(y, groups)
        BY <1>2 DEF ListInv
      <4> QED
        BY <1>1, <1>5, <3>2, <4>1
    <3> QED
      BY <3>1, <3>2
  <2> QED
    BY <1>1, <1>2, <1>5, <2>1 DEF ListInv, N
<1>7. EmissionInv'
  <2>1. FitSlots' = FitSlots
    BY <1>1 DEF FitSlots
  <2> QED
    BY <1>1, <2>1, StillLemma DEF SignalsInv
<1> QED
  BY <1>6, <1>7 DEF SignalsInv

\* Slots that go without being disconnected count as such, if they were connected.
LEMMA SweptAway ==
    ASSUME SignalsInv, ListGood(groups', gid, index', made),
           index' \in [Slots -> 1..Cardinality(Slots)], NEW M,
           \A y : IsListed(y, groups') <=> IsListed(y, groups) /\ y \notin M,
           bulk' = bulk \cup (M \cap connected),
           UNCHANGED <<made, gid, connected, blocked, expired, cleaning, emission>>
    PROVE  SignalsInv'
<1>1. ASSUME NEW y \in made
      PROVE  /\ y \in connected' \ bulk' => IsListed(y, groups')
             /\ y \notin connected' \cup cleaning' => ~IsListed(y, groups')
  <2>1. /\ y \in connected \ bulk => IsListed(y, groups)
        /\ y \notin connected \cup cleaning => ~IsListed(y, groups)
    BY DEF SignalsInv, ListInv
  <2> QED
    BY <2>1
<1>2. ListInv'
  BY <1>1 DEF SignalsInv, ListInv
<1>3. EmissionInv'
  <2>1. FitSlots' = FitSlots
    BY DEF FitSlots
  <2> QED
    BY <2>1, StillLemma DEF SignalsInv
<1> QED
  BY <1>2, <1>3 DEF SignalsInv

\* disconnect(group): all slots of one group go.
LEMMA DisconnectGroupStep ==
    ASSUME SignalsAssumption, SignalsInv, DisconnectGroup PROVE SignalsInv'
<1> DEFINE n == Len(groups)
<1>1. ListInv /\ ListGood(groups, gid, index, made) /\ groups \in Seq(GroupType)
  BY DEF SignalsInv, ListInv, ListGood
<1>2. /\ n \in Nat /\ DOMAIN groups = 1..n
      /\ \A i \in 1..n : groups[i].slts \in Seq(Slots)
  BY <1>1, ListedIsIn
<1>3. PICK i \in 1..n :
        /\ groups' = [groups EXCEPT ![i].slts = <<>>]
        /\ bulk' = bulk \cup (ToSet(groups[i].slts) \cap connected)
        /\ UNCHANGED <<slotVars, cleaning, emission>>
  BY <1>2 DEF DisconnectGroup
<1> DEFINE gs2 == [groups EXCEPT ![i].slts = <<>>]
           M == ToSet(groups[i].slts)
<1>4. /\ gs2 \in Seq(GroupType) /\ Len(gs2) = n
      /\ \A j \in 1..n : /\ gs2[j].gid = groups[j].gid
                         /\ gs2[j].slts = IF j = i THEN <<>> ELSE groups[j].slts
  <2> DEFINE h == <<>>
  <2>1. h \in Seq(Slots)
    OBVIOUS
  <2> HIDE DEF h
  <2>2. /\ [groups EXCEPT ![i].slts = h] \in Seq(GroupType)
        /\ Len([groups EXCEPT ![i].slts = h]) = n
        /\ \A j \in 1..n :
             /\ [groups EXCEPT ![i].slts = h][j].gid = groups[j].gid
             /\ [groups EXCEPT ![i].slts = h][j].slts = IF j = i THEN h ELSE groups[j].slts
    BY <1>1, <2>1, SltsLemma
  <2> QED
    BY <2>2 DEF h
<1> HIDE DEF gs2, n
<1>5. \A y : In(y, groups[i].slts) <=> y \in M
  BY <1>2 DEF ToSet, In
<1> HIDE DEF M
<1>6. ASSUME NEW m \in 1..n, NEW j \in 1..Len(gs2[m].slts)
      PROVE  In(gs2[m].slts[j], groups[m].slts) /\ index[gs2[m].slts[j]] = j
  <2>1. CASE m = i
    <3>1. j \in 1..Len(<<>>)
      BY <1>4, <1>6, <2>1
    <3> QED
      BY <3>1
  <2>2. CASE m # i
    <3>1. gs2[m].slts = groups[m].slts
      BY <1>4, <2>2
    <3> QED
      BY <1>1, <1>6, <3>1 DEF ListGood, In, n
  <2> QED
    BY <2>1, <2>2
<1>7. ListGood(gs2, gid, index, made)
  BY <1>1, <1>4, <1>6, GroupsShrink DEF n
<1>8. \A y : IsListed(y, gs2) <=> IsListed(y, groups) /\ y \notin M
  <2>1. \A y : ~In(y, gs2[i].slts)
    <3>1. gs2[i].slts = <<>>
      BY <1>3, <1>4
    <3> QED
      BY <3>1 DEF In
  <2>2. ASSUME NEW m \in 1..n, m # i, NEW y, In(y, groups[m].slts)
        PROVE  y \notin M
    BY <1>1, <1>3, <1>5, <2>2, SignalsAssumption, GroupsAreDisjoint DEF n
  <2>3. \A m \in 1..n : m # i => gs2[m].slts = groups[m].slts
    BY <1>4
  <2> QED
    BY <1>3, <1>4, <1>5, <2>1, <2>2, <2>3 DEF IsListed, n
<1>9. groups' = gs2 /\ index' = index /\ bulk' = bulk \cup (M \cap connected)
  BY <1>3 DEF gs2, M, slotVars
<1>10. UNCHANGED <<made, gid, connected, blocked, expired, cleaning, emission>>
  BY <1>3 DEF slotVars
<1>11. index \in [Slots -> 1..Cardinality(Slots)]
  BY <1>1 DEF ListInv
<1>12. /\ ListGood(groups', gid, index', made)
       /\ index' \in [Slots -> 1..Cardinality(Slots)]
       /\ \A y : IsListed(y, groups') <=> IsListed(y, groups) /\ y \notin M
  BY <1>7, <1>8, <1>9, <1>11
<1> QED
  BY <1>9, <1>10, <1>12, SweptAway

\* disconnect_all and clear: the list is empty.
LEMMA DisconnectAllStep ==
    ASSUME SignalsAssumption, SignalsInv, DisconnectAll PROVE SignalsInv'
<1>1. /\ ListInv /\ ListGood(groups, gid, index, made)
      /\ gid \in [Slots -> Nat] /\ index \in [Slots -> 1..Cardinality(Slots)]
  BY DEF SignalsInv, ListInv
<1>2. /\ groups' = <<>> /\ bulk' = bulk \cup (ToSet(Flat) \cap connected)
      /\ index' = index
      /\ UNCHANGED <<made, gid, connected, blocked, expired, cleaning, emission>>
  BY DEF DisconnectAll, slotVars
<1> DEFINE M == ToSet(Flat)
<1>3. \A y : IsListed(y, groups) => y \in M
  <2>1. PICK f \in Seq(Slots) : /\ Flat = f
                                /\ \A y : In(y, f) <=> IsListed(y, groups)
    BY <1>1, SignalsAssumption, FlatLemma DEF Flat
  <2> QED
    BY <2>1 DEF ToSet, In
<1> HIDE DEF M
<1>4. ListGood(<<>>, gid, index, made)
  BY DEF ListGood
<1>5. \A y : ~IsListed(y, <<>>)
  BY DEF IsListed
<1>6. /\ ListGood(groups', gid, index', made)
      /\ index' \in [Slots -> 1..Cardinality(Slots)]
      /\ \A y : IsListed(y, groups') <=> IsListed(y, groups) /\ y \notin M
      /\ bulk' = bulk \cup (M \cap connected)
  BY <1>1, <1>2, <1>3, <1>4, <1>5 DEF M
<1> QED
  BY <1>2, <1>6, SweptAway

\* disconnect_if sweeps every group.
LEMMA DisconnectIfStep ==
    ASSUME SignalsAssumption, SignalsInv, DisconnectIf PROVE SignalsInv'
<1> DEFINE n == Len(groups)
           N == Cardinality(Slots)
<1>1. /\ ListInv /\ ListGood(groups, gid, index, made) /\ groups \in Seq(GroupType)
      /\ gid \in [Slots -> Nat] /\ index \in [Slots -> 1..N] /\ made \subseteq Slots
      /\ N \in Nat
  BY SignalsAssumption, SlotsAreCounted DEF SignalsInv, ListInv, ListGood
<1>2. /\ n \in Nat /\ DOMAIN groups = 1..n
      /\ \A i \in 1..n : groups[i].slts \in Seq(Slots) /\ groups[i].gid \in Gids
      /\ \A i \in 1..n : groups[i] \in GroupType
  BY <1>1, ListedIsIn
<1>3. PICK M \in Matching :
        /\ groups' = [i \in DOMAIN groups |->
                        [groups[i] EXCEPT !.slts = Sweep(groups[i].slts, index, M).slts]]
        /\ index' = [s \in Slots |->
                        LET at == Positions(gid[s])
                        IN  IF at = {} THEN index[s]
                            ELSE Sweep(groups[CHOOSE i \in at : TRUE].slts, index, M).index[s]]
        /\ bulk' = bulk \cup (M \cap connected)
        /\ UNCHANGED <<made, gid, connected, blocked, expired, cleaning, emission>>
  BY DEF DisconnectIf
<1> DEFINE l(i) == Sweep(groups[i].slts, index, M).slts
           x(i) == Sweep(groups[i].slts, index, M).index
<1>4. ASSUME NEW i \in 1..n
      PROVE  /\ l(i) \in Seq(Slots) /\ x(i) \in [Slots -> 1..N]
             /\ \A j \in 1..Len(l(i)) :
                    x(i)[l(i)[j]] = j /\ In(l(i)[j], groups[i].slts) /\ l(i)[j] \notin M
             /\ \A j \in 1..Len(groups[i].slts) :
                    groups[i].slts[j] \notin M => In(groups[i].slts[j], l(i))
  <2> DEFINE q == groups[i].slts
  <2>1. q \in Seq(Slots) /\ \A j \in 1..Len(q) : index[q[j]] = j
    BY <1>1, <1>2 DEF ListGood
  <2> HIDE DEF q, N
  <2>2. PICK h, z : Sweep(q, index, M) = Group(h, z) /\ Remains(h, z, q, M, Slots, N)
    BY <1>1, <2>1, SweepLemma
  <2>3. l(i) = h /\ x(i) = z
    BY <2>2 DEF Group, q
  <2> HIDE DEF l, x
  <2> QED
    BY <2>2, <2>3 DEF q, Remains
<1>5. /\ groups' \in Seq(GroupType) /\ Len(groups') = n
      /\ \A i \in 1..n : groups'[i].gid = groups[i].gid /\ groups'[i].slts = l(i)
  <2>1. ASSUME NEW i \in 1..n
        PROVE  /\ groups'[i] \in GroupType
               /\ groups'[i].gid = groups[i].gid /\ groups'[i].slts = l(i)
    <3>1. groups'[i] = [groups[i] EXCEPT !.slts = l(i)]
      BY <1>2, <1>3
    <3>2. l(i) \in Seq(Slots) /\ groups[i] \in GroupType
      BY <1>2, <1>4
    <3> HIDE DEF l
    <3> QED
      BY <3>1, <3>2 DEF GroupType
  <2>2. groups' = [i \in 1..n |-> groups'[i]]
    BY <1>2, <1>3
  <2>3. groups' \in [1..n -> GroupType]
    BY <2>1, <2>2
  <2> HIDE DEF n, l
  <2>4. groups' \in Seq(GroupType) /\ Len(groups') = n
    BY <1>2, <2>3
  <2> QED
    BY <2>1, <2>4
<1>6. ASSUME NEW s \in Slots
      PROVE  /\ index'[s] \in 1..N
             /\ \A i \in 1..n : gid[s] = groups[i].gid => index'[s] = x(i)[s]
  <2> DEFINE at == Positions(gid[s])
  <2>1. \A i : i \in at <=> i \in 1..n /\ groups[i].gid = gid[s]
    BY <1>2 DEF Positions
  <2>2. \A i, j \in at : i = j
    <3> SUFFICES ASSUME NEW i \in at, NEW j \in at, i < j
                 PROVE  FALSE
      BY <2>1
    <3>1. groups[i].gid < groups[j].gid
      BY <1>1, <2>1 DEF ListGood
    <3> QED
      BY <1>1, <2>1, <3>1
  <2>3. CASE at = {}
    <3>1. index'[s] = index[s]
      BY <1>3, <2>3
    <3> HIDE DEF at, l, x
    <3> QED
      BY <1>1, <2>1, <2>3, <3>1
  <2>4. CASE at # {}
    <3> DEFINE m == CHOOSE i \in at : TRUE
    <3>1. index'[s] = x(m)[s]
      BY <1>3, <2>4
    <3>2. m \in at
      <4> HIDE DEF at
      <4> QED
        BY <2>4
    <3> HIDE DEF at, l, x, m
    <3>3. m \in 1..n /\ x(m)[s] \in 1..N
      <4>1. m \in 1..n
        BY <2>1, <3>2
      <4> QED
        BY <1>4, <4>1
    <3>4. \A i \in 1..n : gid[s] = groups[i].gid => i = m
      BY <2>1, <2>2, <3>2
    <3> QED
      BY <3>1, <3>3, <3>4
  <2> QED
    BY <2>3, <2>4
<1> HIDE DEF l, x
<1>7. index' \in [Slots -> 1..N]
  <2>1. index' = [s \in Slots |-> index'[s]]
    BY <1>3
  <2> HIDE DEF N
  <2> QED
    BY <1>6, <2>1
<1>8. ASSUME NEW i \in 1..n, NEW j \in 1..Len(groups'[i].slts)
      PROVE  In(groups'[i].slts[j], groups[i].slts) /\ index'[groups'[i].slts[j]] = j
  <2>1. groups'[i].slts = l(i) /\ j \in 1..Len(l(i))
    BY <1>5, <1>8
  <2> DEFINE y == l(i)[j]
  <2>2. y \in Slots /\ x(i)[y] = j /\ In(y, groups[i].slts)
    BY <1>4, <2>1
  <2>3. gid[y] = groups[i].gid
    BY <1>1, <2>2 DEF ListGood, In
  <2>4. index'[y] = j
    BY <1>6, <2>2, <2>3
  <2> QED
    BY <2>1, <2>2, <2>4
<1> DEFINE gs2 == groups'
           x2 == index'
<1> HIDE DEF gs2, x2
<1>9. /\ ListGood(gs2, gid, x2, made)
  <2>1. /\ gs2 \in Seq(GroupType) /\ Len(gs2) = Len(groups)
        /\ \A i \in 1..Len(groups) :
              /\ gs2[i].gid = groups[i].gid
              /\ \A j \in 1..Len(gs2[i].slts) :
                    In(gs2[i].slts[j], groups[i].slts) /\ x2[gs2[i].slts[j]] = j
    BY <1>5, <1>8 DEF gs2, x2
  <2> QED
    BY <1>1, <2>1, GroupsShrink
<1>10. ASSUME NEW y
       PROVE  IsListed(y, groups') <=> IsListed(y, groups) /\ y \notin M
  <2>1. ASSUME NEW i \in 1..n
        PROVE  In(y, groups'[i].slts) <=> In(y, groups[i].slts) /\ y \notin M
    <3>1. groups'[i].slts = l(i)
      BY <1>5
    <3>2. In(y, l(i)) <=> In(y, groups[i].slts) /\ y \notin M
      <4>1. ASSUME In(y, l(i))
            PROVE  In(y, groups[i].slts) /\ y \notin M
        <5>1. PICK j \in 1..Len(l(i)) : l(i)[j] = y
          BY <4>1 DEF In
        <5> QED
          BY <1>4, <5>1
      <4>2. ASSUME In(y, groups[i].slts), y \notin M
            PROVE  In(y, l(i))
        <5>1. PICK j \in 1..Len(groups[i].slts) : groups[i].slts[j] = y
          BY <4>2 DEF In
        <5> QED
          BY <1>4, <4>2, <5>1
      <4> QED
        BY <4>1, <4>2
    <3> QED
      BY <3>1, <3>2
  <2> QED
    BY <1>5, <2>1 DEF IsListed
<1>11. ListGood(groups', gid, index', made)
  BY <1>9 DEF gs2, x2
<1> QED
  BY <1>3, <1>7, <1>10, <1>11, SweptAway
-----------------------------------------------------------------------------
\* The list does not change.
LEMMA ListStays ==
    ASSUME ListInv, UNCHANGED <<groups, slotVars, cleaning, bulk>>
    PROVE  ListInv' /\ gid' = gid /\ made' = made /\ FitSlots' = FitSlots
<1>1. UNCHANGED <<groups, made, gid, index, connected, blocked, expired, cleaning, bulk>>
  BY DEF slotVars
<1>2. ListInv'
  BY <1>1 DEF ListInv
<1>3. FitSlots' = FitSlots
  BY <1>1 DEF FitSlots
<1> QED
  BY <1>1, <1>2, <1>3

\* What the emission of a thread is.
LEMMA EmissionParts ==
    ASSUME EmissionInv, NEW t \in Threads
    PROVE  /\ emission[t] \in Emissions
           /\ emission[t].stage \in {"none", "check", "call", "run"}
           /\ emission[t].all \in Seq(Slots) /\ emission[t].next \in Nat
           /\ emission[t].called \in Seq(Slots) /\ emission[t].steady \subseteq Slots
           /\ Serves(emission[t].stage, emission[t].all, emission[t].next,
                   emission[t].called, emission[t].steady, gid, made, FitSlots)
<1>1. emission[t] \in Emissions /\ ServesIn(emission[t])
  BY DEF EmissionInv
<1> QED
  BY <1>1 DEF Emissions, ServesIn

\* operator() takes the list as it is.
LEMMA EmitStep ==
    ASSUME SignalsAssumption, SignalsInv, NEW t \in Threads, Emit(t)
    PROVE  SignalsInv'
<1>1. ListInv /\ EmissionInv
  BY DEF SignalsInv
<1>2. ListInv' /\ gid' = gid /\ made' = made /\ FitSlots' = FitSlots
  BY <1>1, ListStays DEF Emit
<1>3. PICK f \in Seq(Slots) : /\ Flat = f
                              /\ Ordered(f, gid)
                              /\ \A y : In(y, f) <=> IsListed(y, groups)
  <2>1. ListGood(groups, gid, index, made) /\ gid \in [Slots -> Nat]
    BY <1>1 DEF ListInv
  <2> QED
    BY <2>1, SignalsAssumption, FlatLemma DEF Flat
<1> DEFINE St == {s \in Slots : Listed(s) /\ Fit(s)}
           e == [stage |-> "check", all |-> Flat, next |-> 1, called |-> <<>>,
                 steady |-> St]
<1>4. /\ St \subseteq FitSlots /\ St \subseteq Slots /\ St \in SUBSET Slots
      /\ \A s \in St : In(s, f)
  <2>1. \A s \in St : Listed(s) /\ Fit(s)
    OBVIOUS
  <2>2. \A s \in St : s \in FitSlots
    BY <2>1 DEF Fit, FitSlots
  <2>3. \A s \in St : IsListed(s, groups)
    BY <1>1, <2>1, ListedIsIn
  <2> QED
    BY <1>3, <2>2, <2>3
<1>5. emission' = [emission EXCEPT ![t] = e]
  <2>1. [Quiet EXCEPT !.stage = "check", !.all = Flat, !.steady = St] = e
    <3> DEFINE q1 == [Quiet EXCEPT !.stage = "check"]
               q2 == [q1 EXCEPT !.all = Flat]
               q3 == [q2 EXCEPT !.steady = St]
    <3>1. Quiet \in Emissions
      BY DEF Quiet, Emissions
    <3>2. Quiet.next = 1 /\ Quiet.called = <<>>
      BY DEF Quiet
    <3>3. /\ q1 \in Emissions
          /\ q1.stage = "check" /\ q1.next = Quiet.next /\ q1.called = Quiet.called
      BY <3>1 DEF Emissions
    <3> HIDE DEF q1
    <3>4. /\ q2 \in Emissions
          /\ q2.stage = q1.stage /\ q2.all = Flat /\ q2.next = q1.next
          /\ q2.called = q1.called
      BY <1>3, <3>3 DEF Emissions
    <3> HIDE DEF q2
    <3>5. q3 = [stage |-> q2.stage, all |-> q2.all, next |-> q2.next, called |-> q2.called,
                steady |-> St]
      <4>1. St \in SUBSET Slots
        BY <1>4
      <4>2. q2 \in Emissions
        BY <3>4
      <4> HIDE DEF St
      <4> QED
        BY <4>1, <4>2 DEF Emissions
    <3>6. q3 = e
      BY <3>2, <3>3, <3>4, <3>5
    <3> HIDE DEF e
    <3>7. [Quiet EXCEPT !.stage = "check", !.all = Flat, !.steady = St] = q3
      BY DEF q1, q2
    <3> QED
      BY <3>6, <3>7
  <2> HIDE DEF e
  <2>2. emission' = [emission EXCEPT
            ![t] = [Quiet EXCEPT !.stage = "check", !.all = Flat, !.steady = St]]
    BY DEF Emit
  <2> QED
    BY <2>1, <2>2
<1> HIDE DEF St
<1>6. Serves("check", f, 1, <<>>, St, gid, made, FitSlots)
  <2>1. \A k \in 1..Len(f) : f[k] \in made
    <3>1. \A k \in 1..Len(f) : In(f[k], f)
      BY DEF In
    <3> QED
      BY <1>1, <1>3, <3>1, ListedIsIn
  <2>2. Ordered(<<>>, gid) /\ Len(<<>>) = 0
    BY DEF Ordered
  <2>3. Len(f) \in Nat /\ Done("check", 1) = 0
    BY DEF Done
  <2>4. \A s \in St : \E k \in 1..Len(f) : k > 0 /\ f[k] = s
    BY <1>4, <2>3 DEF In
  <2> QED
    BY <1>3, <1>4, <2>1, <2>2, <2>3, <2>4 DEF Serves
<1>7. e \in Emissions
  <2>1. <<>> \in Seq(Slots)
    OBVIOUS
  <2> QED
    BY <1>3, <1>4, <2>1 DEF Emissions
<1>8. ServesIn(e)
  BY <1>3, <1>6 DEF ServesIn
<1> HIDE DEF e
<1>9. EmissionInv'
  BY <1>1, <1>2, <1>5, <1>7, <1>8, OneMoves
<1> QED
  BY <1>2, <1>9 DEF SignalsInv

\* A slot that is not called, or was, is left behind.
LEMMA SkipLemma ==
    ASSUME EmissionInv, NEW t \in Threads,
           emission[t].stage \in {"check", "call", "run"},
           emission[t].next <= Len(emission[t].all),
           \/ emission[t].stage = "run"
           \/ emission[t].all[emission[t].next] \notin FitSlots,
           emission' = Skip(t), gid' = gid, made' = made, FitSlots' = FitSlots
    PROVE  EmissionInv'
<1> DEFINE stage == emission[t].stage
           all == emission[t].all
           next == emission[t].next
           called == emission[t].called
           steady == emission[t].steady
           e == [stage |-> "check", all |-> all, next |-> next + 1, called |-> called,
                 steady |-> steady]
<1>1. /\ emission[t] \in Emissions
      /\ all \in Seq(Slots) /\ next \in Nat /\ called \in Seq(Slots) /\ steady \subseteq Slots
      /\ Serves(stage, all, next, called, steady, gid, made, FitSlots)
  BY EmissionParts
<1>2. emission' = [emission EXCEPT ![t] = e]
  <2>1. [emission[t] EXCEPT !.stage = "check", !.next = @ + 1] = e
    <3> DEFINE q == [emission[t] EXCEPT !.stage = "check"]
    <3>1. q = [stage |-> "check", all |-> all, next |-> next, called |-> called,
               steady |-> steady]
      BY <1>1 DEF Emissions
    <3>2. [q EXCEPT !.next = q.next + 1] = e
      <4> HIDE DEF q, all, next, called, steady
      <4> QED
        BY <3>1
    <3> QED
      BY <3>2 DEF q
  <2>2. emission \in [Threads -> Emissions]
    BY DEF EmissionInv
  <2>3. Skip(t) = [emission EXCEPT ![t] = [emission[t] EXCEPT !.stage = "check", !.next = @ + 1]]
    BY <2>2 DEF Skip
  <2> QED
    BY <2>1, <2>3
<1>3. e \in Emissions
  BY <1>1 DEF Emissions
<1>4. Serves("check", all, next + 1, called, steady, gid, made, FitSlots)
  <2>1. /\ stage \in {"check", "call", "run"} /\ next <= Len(all)
        /\ stage # "run" => all[next] \notin FitSlots
    OBVIOUS
  <2> HIDE DEF stage, all, next, called, steady
  <2> QED
    BY <1>1, <2>1, ServesNext
<1>5. ServesIn(e)
  BY <1>4 DEF ServesIn
<1> HIDE DEF e
<1> QED
  BY <1>2, <1>3, <1>5, OneMoves

\* A thread that is to call a slot, or calls it, is at one.
LEMMA AtASlot ==
    ASSUME EmissionInv, NEW t \in Threads, emission[t].stage \in {"call", "run"}
    PROVE  emission[t].next <= Len(emission[t].all)
  BY EmissionParts DEF Serves

\* The next slot is called if it is fit.
LEMMA CheckStep ==
    ASSUME SignalsInv, NEW t \in Threads, Check(t)
    PROVE  SignalsInv'
<1>1. ListInv /\ EmissionInv
  BY DEF SignalsInv
<1>2. ListInv' /\ gid' = gid /\ made' = made /\ FitSlots' = FitSlots
  BY <1>1, ListStays DEF Check
<1>3. emission[t].stage = "check" /\ emission[t].next <= Len(emission[t].all)
  BY DEF Check, SlotsOf
<1>4. CASE Fit(emission[t].all[emission[t].next])
  <2> DEFINE e == [emission[t] EXCEPT !.stage = "call"]
  <2>1. emission' = [emission EXCEPT ![t] = e]
    <3>1. emission' = [emission EXCEPT ![t].stage = "call"]
      BY <1>4 DEF Check, SlotsOf
    <3> QED
      BY <3>1
  <2>2. /\ e \in Emissions
        /\ e.stage = "call" /\ e.all = emission[t].all /\ e.next = emission[t].next
        /\ e.called = emission[t].called /\ e.steady = emission[t].steady
    BY <1>1, EmissionParts DEF Emissions
  <2>3. Serves("call", emission[t].all, emission[t].next, emission[t].called,
             emission[t].steady, gid, made, FitSlots)
    <3>1. Serves("check", emission[t].all, emission[t].next, emission[t].called,
               emission[t].steady, gid, made, FitSlots)
      BY <1>1, <1>3, EmissionParts
    <3>2. Done("call", emission[t].next) = Done("check", emission[t].next)
      BY DEF Done
    <3> QED
      BY <1>3, <3>1, <3>2 DEF Serves
  <2> HIDE DEF e
  <2>4. ServesIn(e)
    BY <2>2, <2>3 DEF ServesIn
  <2>5. EmissionInv'
    BY <1>1, <1>2, <2>1, <2>2, <2>4, OneMoves
  <2> QED
    BY <1>2, <2>5 DEF SignalsInv
<1>5. CASE ~Fit(emission[t].all[emission[t].next])
  <2>1. emission' = Skip(t)
    BY <1>5 DEF Check, SlotsOf
  <2>2. emission[t].all[emission[t].next] \notin FitSlots
    BY <1>5 DEF Fit, FitSlots
  <2>3. EmissionInv'
    BY <1>1, <1>2, <1>3, <2>1, <2>2, SkipLemma
  <2> QED
    BY <1>2, <2>3 DEF SignalsInv
<1> QED
  BY <1>4, <1>5

\* A slot whose object is gone disconnects itself; one that was disconnected is left
\* out if it tracks an object.
LEMMA CallStep ==
    ASSUME SignalsInv, NEW t \in Threads, Call(t)
    PROVE  SignalsInv'
<1> DEFINE s == emission[t].all[emission[t].next]
<1>1. ListInv /\ EmissionInv
  BY DEF SignalsInv
<1>2. emission[t].stage = "call" /\ emission[t].next <= Len(emission[t].all)
  BY <1>1, AtASlot DEF Call
<1>3. UNCHANGED <<groups, made, gid, index, blocked, expired>>
  BY DEF Call
<1>4. CASE s \in Tracked /\ s \in expired
  <2>1. /\ connected' = connected \ {s}
        /\ cleaning' = IF s \in connected THEN cleaning \cup {s} ELSE cleaning
        /\ bulk' = bulk \ {s}
        /\ emission' = Skip(t)
    BY <1>4 DEF Call, SlotsOf
  <2> HIDE DEF s
  <2>2. ListInv'
    <3>1. connected \subseteq made
      BY <1>1 DEF ListInv
    <3>2. cleaning' \subseteq made' /\ cleaning' \cap connected' = {}
      BY <1>1, <1>3, <2>1, <3>1 DEF ListInv
    <3>3. ASSUME NEW y \in made
          PROVE  /\ y \in connected' \ bulk' => IsListed(y, groups')
                 /\ y \notin connected' \cup cleaning' => ~IsListed(y, groups')
      BY <1>1, <1>3, <2>1 DEF ListInv
    <3> QED
      BY <1>1, <1>3, <2>1, <3>2, <3>3 DEF ListInv
  <2>3. FitSlots' = FitSlots /\ s \notin FitSlots
    BY <1>3, <1>4, <2>1 DEF FitSlots
  <2>4. EmissionInv'
    BY <1>1, <1>2, <1>3, <2>1, <2>3, SkipLemma DEF s
  <2> QED
    BY <2>2, <2>4 DEF SignalsInv
<1>5. CASE ~(s \in Tracked /\ s \in expired)
  <2>1. /\ emission' = IF s \in Tracked /\ s \notin connected THEN Skip(t)
                       ELSE [emission EXCEPT ![t].stage = "run",
                                             ![t].called = Append(@, s)]
        /\ UNCHANGED <<connected, cleaning, bulk>>
    BY <1>5 DEF Call, SlotsOf
  <2>2. ListInv' /\ gid' = gid /\ made' = made /\ FitSlots' = FitSlots
    BY <1>1, <1>3, <2>1, ListStays DEF slotVars
  <2>3. CASE s \in Tracked /\ s \notin connected
    <3>1. s \notin FitSlots /\ emission' = Skip(t)
      BY <2>1, <2>3 DEF FitSlots
    <3>2. EmissionInv'
      BY <1>1, <1>2, <2>2, <3>1, SkipLemma
    <3> QED
      BY <2>2, <3>2 DEF SignalsInv
  <2>4. CASE ~(s \in Tracked /\ s \notin connected)
    <3> DEFINE all == emission[t].all
               next == emission[t].next
               called == emission[t].called
               steady == emission[t].steady
               q == [emission[t] EXCEPT !.stage = "run"]
               e == [q EXCEPT !.called = Append(called, s)]
    <3>1. /\ emission[t] \in Emissions
          /\ all \in Seq(Slots) /\ next \in Nat /\ called \in Seq(Slots)
          /\ Serves("call", all, next, called, steady, gid, made, FitSlots)
      BY <1>1, <1>2, EmissionParts
    <3>2. emission' = [emission EXCEPT ![t] = e]
      <4>1. emission' = [emission EXCEPT ![t].stage = "run", ![t].called = Append(@, s)]
        BY <2>1, <2>4
      <4>2. emission \in [Threads -> Emissions]
        BY <1>1 DEF EmissionInv
      <4>3. q.called = called
        OBVIOUS
      <4> HIDE DEF s
      <4> QED
        BY <4>1, <4>2, <4>3
    <3>3. /\ q \in Emissions /\ q.stage = "run" /\ q.all = all /\ q.next = next
          /\ q.called = called /\ q.steady = steady
      BY <3>1 DEF Emissions
    <3>4. Append(called, s) \in Seq(Slots)
      <4>1. s \in Slots
        BY <1>2, <3>1 DEF Serves
      <4> HIDE DEF s, called
      <4> QED
        BY <3>1, <4>1
    <3> HIDE DEF q
    <3>5. /\ e \in Emissions /\ e.stage = "run" /\ e.all = all /\ e.next = next
          /\ e.called = Append(called, s) /\ e.steady = steady
      <4> HIDE DEF s, called, all, next, steady
      <4> QED
        BY <3>3, <3>4 DEF Emissions
    <3>6. Serves("run", all, next, Append(called, s), steady, gid, made, FitSlots)
      <4>1. s = all[next]
        OBVIOUS
      <4> HIDE DEF s, called, all, next, steady
      <4> QED
        BY <3>1, <4>1, ServesRun
    <3> HIDE DEF e
    <3>7. ServesIn(e)
      BY <3>5, <3>6 DEF ServesIn
    <3>8. EmissionInv'
      BY <1>1, <2>2, <3>2, <3>5, <3>7, OneMoves
    <3> QED
      BY <2>2, <3>8 DEF SignalsInv
  <2> QED
    BY <2>3, <2>4
<1> QED
  BY <1>4, <1>5

\* The slot is done.
LEMMA ReturnStep ==
    ASSUME SignalsInv, NEW t \in Threads, Return(t)
    PROVE  SignalsInv'
<1>1. ListInv /\ EmissionInv
  BY DEF SignalsInv
<1>2. ListInv' /\ gid' = gid /\ made' = made /\ FitSlots' = FitSlots
  BY <1>1, ListStays DEF Return
<1>3. /\ emission[t].stage = "run" /\ emission[t].next <= Len(emission[t].all)
      /\ emission' = Skip(t)
  BY <1>1, AtASlot DEF Return
<1>4. EmissionInv'
  BY <1>1, <1>2, <1>3, SkipLemma
<1> QED
  BY <1>2, <1>4 DEF SignalsInv

\* Nothing is emitted.
LEMMA QuietLemma == Quiet \in Emissions /\ ServesIn(Quiet)
<1>1. Quiet \in Emissions
  BY DEF Quiet, Emissions
<1>2. /\ Quiet.stage = "none" /\ Quiet.all = <<>> /\ Quiet.next = 1
      /\ Quiet.called = <<>> /\ Quiet.steady = {}
  BY DEF Quiet
<1>3. Serves("none", <<>>, 1, <<>>, {}, gid, made, FitSlots)
  BY DEF Serves, Ordered
<1> QED
  BY <1>1, <1>2, <1>3 DEF ServesIn

\* The emission is over.
LEMMA FinishStep ==
    ASSUME SignalsInv, NEW t \in Threads, Finish(t)
    PROVE  SignalsInv'
<1>1. ListInv /\ EmissionInv
  BY DEF SignalsInv
<1>2. ListInv' /\ gid' = gid /\ made' = made /\ FitSlots' = FitSlots
  BY <1>1, ListStays DEF Finish
<1>3. emission' = [emission EXCEPT ![t] = Quiet]
  BY DEF Finish
<1>4. Quiet \in Emissions /\ ServesIn(Quiet)
  BY QuietLemma
<1>5. EmissionInv'
  BY <1>1, <1>2, <1>3, <1>4, OneMoves
<1> QED
  BY <1>2, <1>5 DEF SignalsInv

-----------------------------------------------------------------------------
\* It holds from the start.
LEMMA SignalsStart ==
    ASSUME SignalsAssumption, SignalsInit
    PROVE  SignalsInv
<1>1. /\ groups = <<>>
      /\ made = {} /\ connected = {} /\ blocked = {} /\ expired = {}
      /\ gid = [s \in Slots |-> 0] /\ index = [s \in Slots |-> 1]
      /\ cleaning = {} /\ bulk = {}
      /\ emission = [t \in Threads |-> Quiet]
  BY DEF SignalsInit
<1>2. ListGood(<<>>, gid, index, made)
  BY DEF ListGood
<1>3. index \in [Slots -> 1..Cardinality(Slots)]
  <2>1. ASSUME NEW s \in Slots
        PROVE  1 \in 1..Cardinality(Slots)
    <3>1. <<>> \in Seq(Slots) /\ Len(<<>>) = 0 /\ ~In(s, <<>>) /\ \A j \in 1..0 : index[<<>>[j]] = j
      BY DEF In
    <3>2. Len(<<>>) + 1 \in 1..Cardinality(Slots)
      BY <3>1, SignalsAssumption, PlaceLemma
    <3> QED
      BY <3>1, <3>2
  <2> QED
    BY <1>1, <2>1
<1>4. ListInv
  <2>1. gid \in [Slots -> Nat]
    BY <1>1
  <2>2. ListGood(groups, gid, index, made)
    BY <1>1, <1>2
  <2>3. /\ made \subseteq Slots /\ connected \subseteq made /\ bulk \subseteq connected
        /\ blocked \subseteq made /\ expired \subseteq Tracked
        /\ cleaning \subseteq made /\ cleaning \cap connected = {}
        /\ \A s \in made : FALSE
    BY <1>1
  <2> QED
    BY <1>3, <2>1, <2>2, <2>3 DEF ListInv
<1>5. EmissionInv
  BY <1>1, QuietLemma DEF EmissionInv
<1> QED
  BY <1>4, <1>5 DEF SignalsInv

\* Every step keeps it.
LEMMA SignalsStep ==
    ASSUME SignalsAssumption, SignalsInv, [SignalsNext]_signalsVars
    PROVE  SignalsInv'
<1>1. CASE DisconnectIf \/ DisconnectGroup \/ DisconnectAll
  BY <1>1, SignalsAssumption, DisconnectIfStep, DisconnectGroupStep, DisconnectAllStep
<1>2. ASSUME NEW s \in Slots,
             \/ Connect(s) \/ ConnectTracked(s) \/ Disconnect(s) \/ Clean(s)
             \/ BlockSlot(s) \/ Expire(s)
      PROVE  SignalsInv'
  BY <1>2, SignalsAssumption, ConnectStep, DisconnectStep, CleanStep, BlockSlotStep, ExpireStep
<1>3. ASSUME NEW t \in Threads, Emit(t) \/ Check(t) \/ Call(t) \/ Return(t) \/ Finish(t)
      PROVE  SignalsInv'
  BY <1>3, SignalsAssumption, EmitStep, CheckStep, CallStep, ReturnStep, FinishStep
<1>4. CASE UNCHANGED signalsVars
  <2>1. /\ UNCHANGED <<groups, slotVars, cleaning, bulk>>
        /\ emission' = emission
    BY <1>4 DEF signalsVars
  <2>2. ListInv' /\ gid' = gid /\ made' = made /\ FitSlots' = FitSlots
    BY <2>1, ListStays DEF SignalsInv
  <2>3. EmissionInv'
    BY <2>1, <2>2, StillLemma DEF SignalsInv
  <2> QED
    BY <2>2, <2>3 DEF SignalsInv
<1> QED
  BY <1>1, <1>2, <1>3, <1>4 DEF SignalsNext

\* It says what is promised.
LEMMA SignalsSound ==
    ASSUME SignalsAssumption, SignalsInv
    PROVE  SignalsHold
<1>1. ListInv /\ EmissionInv
  BY DEF SignalsInv
<1>2. /\ groups \in Seq(GroupType) /\ ListGood(groups, gid, index, made)
      /\ DOMAIN groups = 1..Len(groups) /\ Len(groups) \in Nat
      /\ \A i \in 1..Len(groups) : groups[i].slts \in Seq(Slots)
  BY <1>1, ListedIsIn DEF ListInv, ListGood
<1>3. SignalsTypeOK
  <2>1. groups \in Seq([gid : Gids, slts : Seq(Slots)])
    BY <1>2 DEF GroupType
  <2>2. \A t \in Threads : emission[t].stage \in {"none", "check", "call", "run"}
    BY <1>1, EmissionParts
  <2> QED
    BY <1>1, <2>1, <2>2 DEF ListInv, SignalsTypeOK
<1>4. ListIsConsistent
  <2>1. \A i \in 1..Len(groups) : DOMAIN groups[i].slts = 1..Len(groups[i].slts)
    BY <1>2
  <2> QED
    BY <1>2, <2>1 DEF ListIsConsistent, ListGood
<1>5. OnlyTheDisconnectedGo
  BY <1>1, ListedIsIn DEF OnlyTheDisconnectedGo, ListInv
<1>6. EffectHolds
  <2> SUFFICES ASSUME NEW t \in Threads
               PROVE  /\ /\ emission[t].stage = "check"
                         /\ emission[t].next > Len(emission[t].all)
                         => emission[t].steady \subseteq ToSet(emission[t].called)
                      /\ \A i, j \in DOMAIN emission[t].called : i < j =>
                           /\ emission[t].called[i] # emission[t].called[j]
                           /\ gid[emission[t].called[i]] <= gid[emission[t].called[j]]
    BY DEF EffectHolds, SlotsOf
  <2> DEFINE all == emission[t].all
             next == emission[t].next
             called == emission[t].called
             steady == emission[t].steady
  <2>1. /\ all \in Seq(Slots) /\ next \in Nat /\ called \in Seq(Slots)
        /\ Serves(emission[t].stage, all, next, called, steady, gid, made, FitSlots)
    BY <1>1, EmissionParts
  <2>2. ASSUME emission[t].stage = "check", next > Len(all)
        PROVE  steady \subseteq ToSet(called)
    <3> HIDE DEF all, next, called, steady
    <3>1. Len(all) \in Nat /\ Done("check", next) = next - 1
      BY <2>1 DEF Done
    <3>2. \A k \in 1..Len(all) : ~(k > next - 1)
      BY <2>1, <2>2, <3>1
    <3>3. \A s \in steady : In(s, called)
      BY <2>1, <2>2, <3>1, <3>2 DEF Serves
    <3> QED
      BY <2>1, <3>3 DEF In, ToSet
  <2>3. \A i, j \in DOMAIN called : i < j =>
          called[i] # called[j] /\ gid[called[i]] <= gid[called[j]]
    <3> HIDE DEF all, next, called, steady
    <3>1. Ordered(called, gid) /\ DOMAIN called = 1..Len(called)
      BY <2>1 DEF Serves
    <3> QED
      BY <3>1 DEF Ordered
  <2> QED
    BY <2>2, <2>3
<1> QED
  BY <1>3, <1>4, <1>5, <1>6 DEF SignalsHold, SlotsAreSound

\* signal: nobody's slot is lost, and an emission calls who is fit all the time.
THEOREM SlotsAreKept == SignalsSpec => []SignalsHold
<1>1. SignalsInit => SignalsInv
  BY SignalsAssumption, SignalsStart
<1>2. SignalsInv /\ [SignalsNext]_signalsVars => SignalsInv'
  BY SignalsAssumption, SignalsStep
<1>3. SignalsInv => SignalsHold
  BY SignalsAssumption, SignalsSound
<1> QED
  BY <1>1, <1>2, <1>3, PTL DEF SignalsSpec

=============================================================================
