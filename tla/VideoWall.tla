------------------------------ MODULE VideoWall ------------------------------
(***************************************************************************)
(* What a user sees of a room: participants_model has a row per            *)
(* participant, participants_with_video_model picks those with a picture,  *)
(* a Repeater makes an item of each of these rows (app/VideoWall.qml), and *)
(* video_layout shows all items or enlarges one.  A participant_model      *)
(* shows one picture, though its participant may send a camera and a       *)
(* screen.                                                                 *)
(*                                                                         *)
(* Everything runs on the thread of the user interface; a signal is        *)
(* handled before the handler that emits it goes on.  Where the items are  *)
(* placed is left out.                                                     *)
(***************************************************************************)
EXTENDS Naturals, FiniteSets

CONSTANTS
    Own,        \* the user's own participant
    Guests,     \* the other people
    Bot,        \* the account that made the room
    Camera, Screen,     \* what one participant can send
    Nobody      \* null

ASSUME WallAssumption ==
    /\ Own \notin Guests /\ Bot \notin Guests \cup {Own}
    /\ Nobody \notin Guests \cup {Own, Bot, Camera, Screen}

People == Guests \cup {Own}
Pictures == {Camera, Screen}

VARIABLES
    w           \* the objects of the user interface and of the room

wallVars == <<w>>

Empty == [
    inRoom |-> FALSE,                       \* rooms_model::room_
    members |-> {},                         \* participants::participants_
    sends |-> [p \in People |-> {}],        \* pictures, remote_participant::videos
    rows |-> {},                            \* participants_model
    video |-> [p \in People |-> Nobody],    \* participant_model::video
    followed |-> {},                        \* rows whose video_changed is connected
    wall |-> {},                            \* participants_with_video_model
    available |-> FALSE,                    \* room_model::videos_available
    layout |-> "grid",
    focused |-> Nobody,
    visible |-> {},                         \* items of the wall that are shown
    sized |-> TRUE,                         \* whether the layout has a size
    broken |-> FALSE]                       \* a null pointer was followed

-----------------------------------------------------------------------------
(* video_layout: the items are the rows of the wall                        *)

\* One item alone is shown whatever the layout.  An item that came while there
\* was no size is visible, as items are.
Recalculate(s) ==
    IF ~s.sized \/ s.wall = {} THEN s
    ELSE [s EXCEPT !.visible =
            IF s.layout = "full" /\ Cardinality(s.wall) > 1 THEN {s.focused} ELSE s.wall]

SetLayout(s, layout) ==
    IF layout = s.layout THEN s ELSE Recalculate([s EXCEPT !.layout = layout])

\* Mutant: the layout stays when its focused item goes.
ItemGoesOnly(s, p) == Recalculate([s EXCEPT !.visible = @ \ {p}])

\* itemChange: a focused item that goes takes the layout back to the grid.
ItemGoes(s, p) ==
    LET gone == [s EXCEPT !.visible = @ \ {p}]
    IN  Recalculate(IF s.focused = p
                    THEN [SetLayout(gone, "grid") EXCEPT !.focused = Nobody]
                    ELSE gone)

-----------------------------------------------------------------------------
(* participants_with_video_model and room_model                            *)

RecalculateAvailable(s) == [s EXCEPT !.available = s.wall # {}]

AddToWall(s, p) ==
    IF p \in s.wall THEN s
    ELSE RecalculateAvailable(Recalculate(
            [s EXCEPT !.wall = @ \cup {p}, !.visible = @ \cup {p}]))

RemoveFromWall(s, p) ==
    IF p \notin s.wall THEN s
    ELSE RecalculateAvailable(ItemGoes([s EXCEPT !.wall = @ \ {p}], p))

\* video_changed reaches the wall if the row was there when it listened.
VideoChanged(s, p) ==
    IF p \notin s.followed THEN s
    ELSE IF s.video[p] # Nobody THEN AddToWall(s, p) ELSE RemoveFromWall(s, p)

-----------------------------------------------------------------------------
(* participant_model                                                       *)

\* A new picture replaces the one that is shown.
VideoAdded(s, p, x) == VideoChanged([s EXCEPT !.video[p] = x], p)

\* A picture that was replaced is nobody's business; the one it replaced does
\* not come back.  Without a picture there is a null pointer.
VideoRemoved(s, p, x) ==
    CASE s.video[p] = Nobody -> [s EXCEPT !.broken = TRUE]
      [] s.video[p] # x /\ s.video[p] # Nobody -> s
      [] OTHER -> VideoChanged([s EXCEPT !.video[p] = Nobody], p)

\* The constructor shows the pictures that the participant already sends, the
\* last of them stays; a shared screen of the own participant is not asked for.
FirstVideos(s, p) ==
    LET given == IF p = Own THEN s.sends[p] \ {Screen} ELSE s.sends[p]
    IN  IF given = {} THEN {Nobody} ELSE given

-----------------------------------------------------------------------------
(* participants_model                                                      *)

\* on_joins and, for a row that is inserted, the wall's on_participants_inserted.
Insert(s, p, x) ==
    LET r == [s EXCEPT !.rows = @ \cup {p}, !.video[p] = x, !.followed = @ \cup {p}]
    IN  IF x = Nobody THEN r ELSE AddToWall(r, p)

\* on_leaves, with rowsAboutToBeRemoved.
TakeOut(s, p) ==
    [RemoveFromWall(s, p) EXCEPT
        !.rows = @ \ {p}, !.followed = @ \ {p}, !.video[p] = Nobody]

Shows(s) == ~w.broken /\ w' = s

\* participants::add.  The bot is a participant without a row.
Joins(p) ==
    /\ p \notin w.members
    /\ LET s == [w EXCEPT !.members = @ \cup {p}]
       IN  IF ~w.inRoom \/ p = Bot THEN Shows(s)
           ELSE \E x \in FirstVideos(s, p) : Shows(Insert(s, p, x))

\* participants::remove_by_id.  Pictures of a guest go with its connection,
\* unannounced; the own ones are the user's.
Leaves(p) ==
    /\ p \in w.members
    /\ LET s == [w EXCEPT !.members = @ \ {p},
                          !.sends = [q \in People |-> IF q = p /\ p # Own THEN {} ELSE @[q]]]
       IN  Shows(IF p \in w.rows THEN TakeOut(s, p) ELSE s)

\* rooms_model::on_room_set: a model of the room is made, whose rows are filled
\* before the wall listens to them.
RoomSet ==
    /\ ~w.inRoom
    /\ LET here == w.members \ {Bot}
       IN  \E first \in [here -> Pictures \cup {Nobody}] :
            /\ \A p \in here : first[p] \in FirstVideos(w, p)
            /\ Shows([w EXCEPT !.inRoom = TRUE, !.rows = here,
                        !.video = [p \in People |-> IF p \in here THEN first[p] ELSE Nobody]])

\* The leaver, which stops sharing first, sets no room; the next one begins anew.
RoomLeft ==
    /\ w.inRoom /\ Screen \notin w.sends[Own]
    /\ Shows([Empty EXCEPT !.sends[Own] = w.sends[Own], !.sized = w.sized])

\* A camera or a screen starts and stops.  A guest's comes as a track of its
\* connection (rtc/google/connection.cpp), the own one from own_video and
\* desktop_sharing, which is offered in a room only.
PictureAdded(p, x) ==
    /\ x \notin w.sends[p]
    /\ IF p = Own THEN x = Camera \/ w.inRoom ELSE p \in w.members
    /\ LET s == [w EXCEPT !.sends[p] = @ \cup {x}]
       IN  Shows(IF p \in w.rows THEN VideoAdded(s, p, x) ELSE s)

PictureRemoved(p, x) ==
    /\ x \in w.sends[p]
    /\ LET s == [w EXCEPT !.sends[p] = @ \ {x}]
       IN  Shows(IF p \in w.rows THEN VideoRemoved(s, p, x) ELSE s)

\* A click on an item that is shown.
NextLayout(layout) ==
    CASE layout = "grid" -> "enlarged" [] layout = "enlarged" -> "full" [] OTHER -> "grid"

EnlargeItem(s, p) ==
    IF s.focused = p \/ s.layout = "grid"
    THEN SetLayout([s EXCEPT !.focused = p], NextLayout(s.layout))
    ELSE Recalculate([s EXCEPT !.focused = p])

Enlarge(p) == w.sized /\ p \in w.visible /\ Shows(EnlargeItem(w, p))

\* From the full layout shrink leads to the full layout.
Shrink(p) ==
    /\ w.sized /\ p \in w.visible
    /\ Shows(IF w.layout = "enlarged" THEN SetLayout(w, "grid") ELSE w)

\* The window is folded and unfolded.
Resize == Shows(Recalculate([w EXCEPT !.sized = ~@]))

-----------------------------------------------------------------------------
WallInit == w = Empty

WallNext ==
    \/ RoomSet \/ RoomLeft \/ Resize
    \/ \E p \in People \cup {Bot} : Joins(p) \/ Leaves(p)
    \/ \E p \in People : Enlarge(p) \/ Shrink(p)
    \/ \E p \in People, x \in Pictures : PictureAdded(p, x) \/ PictureRemoved(p, x)

WallSpec == WallInit /\ [][WallNext]_wallVars

-----------------------------------------------------------------------------
\* The wall has exactly the participants that are followed and show a picture,
\* no picture is kept that its participant stopped sending, and nobody who left
\* (app/participants_with_video_model.cpp:35-94, participant_model.cpp:113).
WallIsTheVideos ==
    /\ w.wall = {p \in w.followed : w.video[p] # Nobody}
    /\ \A p \in People : w.video[p] \in w.sends[p] \cup {Nobody}
    /\ w.inRoom => w.rows = w.members \ {Bot}
    /\ w.followed \subseteq w.rows
    /\ w.available <=> w.wall # {}

\* A layout with a size hides nothing but what a full item covers, and the item
\* in focus is on the wall: however items come, go and are clicked
\* (video_layout/video_layout.cpp:136-271).
FocusIsShown ==
    /\ w.layout # "grid" => w.focused \in w.wall
    /\ w.sized /\ w.wall # {} =>
        w.visible = IF w.layout = "full" /\ Cardinality(w.wall) > 1
                    THEN {w.focused} ELSE w.wall

\* Both: what can be seen of a room is there and shown.
WallIsSound == WallIsTheVideos /\ FocusIsShown

=============================================================================
