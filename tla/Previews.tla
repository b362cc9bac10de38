------------------------------- MODULE Previews -------------------------------
(***************************************************************************)
(* The selection of a window or screen to share: desktop_sharing_previews  *)
(* keeps an interval_capturer per window while the selection is open, an   *)
(* interval_timer looks for new windows, and share_desktop_previews_model  *)
(* shows the list.  Screens and windows go the same way; the model has one *)
(* list.                                                                   *)
(*                                                                         *)
(* The selection is opened and closed by Qt, between two polls of the      *)
(* executor (app/poll_asio_by_qt.cpp).  A wait that is due fires within a  *)
(* poll, so closing cancels it; what interval_timer::start_immediately     *)
(* posted stays in the queue.                                              *)
(***************************************************************************)
EXTENDS Naturals

CONSTANTS
    Wins,       \* windows and screens
    MaxPosts    \* bound: posted handlers of a timer that have not run

ASSUME PreviewsAssumption == MaxPosts \in Nat \ {0}

VARIABLES
    selecting,  \* the selection is open
    look,       \* the timer that enumerates
    capture,    \* the timer of each window's capturer
    list,       \* screen_previews and window_previews
    rows,       \* what share_desktop_previews_model shows
    there,      \* external: windows that are there
    faults      \* assertions that did not hold

previewsVars == <<selecting, look, capture, list, rows, there, faults>>

-----------------------------------------------------------------------------
(* interval_timer; the callback is set exactly while it is started         *)

Idle == [started |-> FALSE, posted |-> 0, waiting |-> FALSE]

Timers == [started : BOOLEAN, posted : 0..MaxPosts, waiting : BOOLEAN]

Started(t) == [t EXCEPT !.started = TRUE, !.waiting = TRUE]

StartedNow(t) == [t EXCEPT !.started = TRUE, !.posted = @ + 1]

StoppedTimer(t) == [t EXCEPT !.started = FALSE, !.waiting = FALSE]

\* on_timeout of what was posted or waited for, with a callback that leaves the
\* timer running.
Ran(t) ==
    [t EXCEPT !.posted = IF @ > 0 THEN @ - 1 ELSE 0, !.waiting = TRUE]

Due(t) == t.posted > 0 \/ t.waiting

-----------------------------------------------------------------------------
(* desktop_sharing_previews                                                *)

Alive == faults = {}

\* create_previews for what the enumerator finds: each new window gets a
\* capturer, a row, and is started.
Created(timers) ==
    [w \in Wins |-> IF w \in there \ list THEN StartedNow(Idle) ELSE timers[w]]

Enumerated(timers) ==
    /\ list' = list \cup there
    /\ rows' = rows \cup there
    /\ capture' = Created(timers)

\* Mutant: the capturers of an earlier selection are not started again.
OpenNewOnly ==
    /\ Alive /\ ~selecting
    /\ selecting' = TRUE
    /\ Enumerated(capture)
    /\ look' = Started(look)
    /\ UNCHANGED <<there, faults>>

\* start: the previews of an earlier selection go on.
Open ==
    /\ Alive /\ ~selecting
    /\ \A w \in list : capture[w].posted < MaxPosts
    /\ selecting' = TRUE
    /\ Enumerated([w \in Wins |->
            IF w \in list THEN StartedNow(capture[w]) ELSE capture[w]])
    /\ look' = Started(look)
    /\ UNCHANGED <<there, faults>>

\* stop: the promise of each capturer is fulfilled, which removes nothing.
Close ==
    /\ Alive /\ selecting
    /\ selecting' = FALSE
    /\ look' = StoppedTimer(look)
    /\ capture' = [w \in Wins |-> StoppedTimer(capture[w])]
    /\ faults' = IF \A w \in list : capture[w].started THEN {} ELSE {"stop:48"}
    /\ UNCHANGED <<list, rows, there>>

\* Mutant: windows are only looked for when the selection is opened.
LookNothing ==
    /\ Alive /\ Due(look)
    /\ look' = Ran(look)
    /\ UNCHANGED <<selecting, list, rows, capture, there, faults>>

Look ==
    /\ Alive /\ Due(look)
    /\ look' = Ran(look)
    /\ Enumerated(capture)
    /\ UNCHANGED <<selecting, there, faults>>

\* interval_capturer::on_timeout.  A window that is there, and an error that is
\* temporary, lead to the next interval.
Capture(w) ==
    /\ Alive /\ Due(capture[w]) /\ capture[w].started
    /\ w \in there
    /\ capture' = [capture EXCEPT ![w] = Ran(@)]
    /\ UNCHANGED <<selecting, look, list, rows, there, faults>>

\* A window that is gone: on_captured fails the promise, whose continuation
\* removes the preview; capturer and timer go with it, and what the timer had
\* posted finds its alive_check gone.
CaptureFailed(w) ==
    /\ Alive /\ Due(capture[w]) /\ capture[w].started
    /\ w \notin there
    /\ capture' = [capture EXCEPT ![w] = Idle]
    /\ list' = list \ {w}
    /\ rows' = rows \ {w}
    /\ UNCHANGED <<selecting, look, there, faults>>

\* What was posted for a timer that was stopped runs on_timeout with no
\* callback, which ends the process.
PostedTooLate(w) ==
    /\ Alive
    /\ capture[w].posted > 0 /\ ~capture[w].started
    /\ faults' = {"on_timeout:86"}
    /\ UNCHANGED <<selecting, look, capture, list, rows, there>>

\* External: the windows of the desktop.
ComeOrGo ==
    \E w \in Wins :
        /\ there' = IF w \in there THEN there \ {w} ELSE there \cup {w}
        /\ UNCHANGED <<selecting, look, capture, list, rows, faults>>

-----------------------------------------------------------------------------
PreviewsInit ==
    /\ selecting = FALSE /\ look = Idle
    /\ capture = [w \in Wins |-> Idle]
    /\ list = {} /\ rows = {} /\ faults = {}
    /\ there \in SUBSET Wins

PreviewsNext ==
    \/ Open \/ Close \/ Look \/ ComeOrGo
    \/ \E w \in Wins : Capture(w) \/ CaptureFailed(w) \/ PostedTooLate(w)

PreviewsSpec == PreviewsInit /\ [][PreviewsNext]_previewsVars

\* Each timer is polled.
PreviewsFairness ==
    /\ WF_previewsVars(Look)
    /\ \A w \in Wins :
        /\ WF_previewsVars(CaptureFailed(w))
        /\ WF_previewsVars(PostedTooLate(w))

-----------------------------------------------------------------------------
(* Types, and a stopped timer waits for nothing.                           *)
PreviewsTypeOK ==
    /\ selecting \in BOOLEAN /\ look \in Timers
    /\ capture \in [Wins -> Timers]
    /\ list \subseteq Wins /\ rows \subseteq Wins /\ there \subseteq Wins
    /\ \A w \in Wins : capture[w].waiting => capture[w].started

(* While the selection is open every preview of the list captures and has  *)
(* a timeout ahead of it, and only then; the model shows the list; the     *)
(* assertions of start and stop hold (client/desktop_sharing.cpp:48, :54,  *)
(* utils/timer.cpp:45), whatever windows come and go in the meantime.      *)
ListedIsCapturing ==
    /\ PreviewsTypeOK
    /\ rows = list
    /\ faults \subseteq {"on_timeout:86"}
    /\ look.started => Due(look)
    /\ \A w \in Wins :
        /\ capture[w].started <=> selecting /\ w \in list
        /\ capture[w].started => Due(capture[w])

(* In an open selection a window that appears is shown in the end, and one *)
(* that is gone disappears (client/desktop_sharing.cpp:24, :64).           *)
SelectionFollows ==
    \A w \in Wins :
        /\ selecting /\ w \in there
            ~> w \in rows \/ w \notin there \/ ~selecting \/ ~Alive
        /\ selecting /\ w \notin there
            ~> w \notin rows \/ w \in there \/ ~selecting \/ ~Alive

=============================================================================
