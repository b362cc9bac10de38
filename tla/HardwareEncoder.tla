----------------------------- MODULE HardwareEncoder -----------------------------
(***************************************************************************)
(* v4l2_hw_h264: encoders for webrtc that hand out what one camera has     *)
(* encoded.  A reader opens the camera, maps its buffers and reads frames  *)
(* in a thread of its own; the encoders of the streams share it and call   *)
(* it on the encoder queue of their stream.                                *)
(*                                                                         *)
(* webrtc and the driver are external: an encoder is made, initialised,    *)
(* used and released in this order, a call of the driver may fail.  An     *)
(* exception that leaves the thread or a destructor ends the process.      *)
(***************************************************************************)
EXTENDS Naturals, FiniteSets

CONSTANTS
    Encoders,   \* one per outgoing stream
    Readers,    \* bound: reader_impl instances
    NoReader

ASSUME HardwareAssumption == NoReader \notin Readers

VARIABLES
    encoder,    \* "none", "created", "ready" or "failed", "releasing", "released"
    uses,       \* the reader each encoder was made with
    shared,     \* shared_reader_, a weak reference
    made,       \* readers that were made, the last ones are gone
    fd,         \* readers with an open device
    setup,      \* buffers: "none", "part" or "all" are mapped, or "streaming"
    running,    \* readers with run set
    thread,     \* "none", "select", "emit", "exited"
    toCall,     \* slots of on_data the thread has yet to call
    refused,    \* history: the driver refused something
    ended       \* why the process ended, if it did

readerVars == <<fd, setup, running, thread>>
encoderVars == <<encoder, uses, shared, made>>
hardwareVars == <<encoderVars, readerVars, toCall, refused, ended>>

HardwareInit ==
    /\ encoder = [e \in Encoders |-> "none"] /\ uses = [e \in Encoders |-> NoReader]
    /\ shared = NoReader /\ made = {} /\ fd = {} /\ running = {}
    /\ setup = [r \in Readers |-> "none"] /\ thread = [r \in Readers |-> "none"]
    /\ toCall = [r \in Readers |-> {}] /\ refused = FALSE /\ ended = {}

\* Encoders that share reader r, one that gave up the last share is none.
Holders(r) ==
    {e \in Encoders : uses[e] = r /\ encoder[e] \in {"created", "ready", "failed"}}
Dies(why) == ended' = ended \cup why

-----------------------------------------------------------------------------
(* Encoder queues                                                          *)

\* CreateVideoEncoder: the weak reference is locked while an encoder holds the
\* reader, not while the last one destroys it.
CreateVideoEncoder(e) ==
    /\ encoder[e] = "none"
    /\ \E r \in Readers :
        /\ IF Holders(shared) # {} THEN r = shared ELSE r \notin made
        /\ shared' = r /\ made' = made \cup {r}
        /\ uses' = [uses EXCEPT ![e] = r]
    /\ encoder' = [encoder EXCEPT ![e] = "created"]
    /\ UNCHANGED <<readerVars, toCall, refused, ended>>

\* What the driver may refuse while a reader is initialised, in this order, and
\* what stays behind: nothing is undone.
Steps == {"open", "enumerate_ctrls", "init_device", "init_mmap", "set_bitrate",
          "start_capturing"}
LeftSetUp(step) ==
    CASE step \in {"open", "enumerate_ctrls", "init_device"} -> "none"
      [] step = "init_mmap" -> "part"
      [] OTHER -> "all"

\* InitEncode and initialise, which returns at once while the device is open.
\* webrtc releases an encoder that could not be initialised.
InitEncode(e) ==
    LET r == uses[e] IN
    /\ encoder[e] = "created"
    /\ IF r \in fd
       THEN /\ encoder' = [encoder EXCEPT ![e] = "ready"]
            /\ UNCHANGED <<fd, setup, refused>>
       ELSE \/ /\ encoder' = [encoder EXCEPT ![e] = "ready"]
               /\ fd' = fd \cup {r}
               /\ setup' = [setup EXCEPT ![r] = "streaming"]
               /\ UNCHANGED refused
            \/ \E step \in Steps :
               /\ refused' = TRUE
               /\ fd' = fd \cup (IF step = "open" THEN {} ELSE {r})
               /\ setup' = [setup EXCEPT ![r] = LeftSetUp(step)]
               /\ encoder' = [encoder EXCEPT ![e] = "failed"]
    /\ UNCHANGED <<uses, shared, made, running, thread, toCall, ended>>

\* Encode and mainloop.  Assigning to a thread that runs ends the process.
StartsThread(r) == r \notin running

Encode(e) ==
    LET r == uses[e] IN
    /\ encoder[e] = "ready"
    /\ StartsThread(r)
    /\ running' = running \cup {r}
    /\ thread' = [thread EXCEPT ![r] = "select"]
    /\ Dies(IF thread[r] # "none" THEN {"thread started twice"} ELSE {})
    /\ UNCHANGED <<encoderVars, fd, setup, toCall, refused>>

\* SetRates: the driver may refuse, nothing catches that.
SetRatesRefused(e) ==
    /\ encoder[e] = "ready" /\ ~ refused
    /\ refused' = TRUE
    /\ Dies({"SetRates"})
    /\ UNCHANGED <<encoderVars, readerVars, toCall>>

\* Mutant: the thread is joined and not told to end.
StopRunningLate(r) == running

StopRunning(r) == running \ {r}

\* Release drops the encoder's share of the reader and its slot; the last one
\* destroys the reader, and waits for its thread.
Release(e) ==
    LET r == uses[e]
        last == Holders(r) = {e}
    IN
    /\ e \in Holders(r)
    /\ encoder' = [encoder EXCEPT ![e] = IF last THEN "releasing" ELSE "released"]
    /\ running' = IF last THEN StopRunning(r) ELSE running
    /\ toCall' = [toCall EXCEPT ![r] = @ \ {e}]
    /\ UNCHANGED <<uses, shared, made, fd, setup, thread, refused, ended>>

\* Mutant: the thread is not waited for.
JoinsNothing(r) == TRUE

Joined(r) == thread[r] \in {"none", "exited"}

\* The rest of ~reader_impl: stop_capturing, uninit_device and close_device, each
\* of which throws when it fails.
Released(e) ==
    LET r == uses[e] IN
    /\ encoder[e] = "releasing" /\ Joined(r)
    /\ encoder' = [encoder EXCEPT ![e] = "released"]
    /\ fd' = fd \ {r}
    /\ setup' = [setup EXCEPT ![r] = "none"]
    /\ Dies((IF r \in fd THEN {} ELSE {"STREAMOFF"})
            \cup (IF setup[r] = "part" THEN {"munmap"} ELSE {}))
    /\ UNCHANGED <<uses, shared, made, running, thread, toCall, refused>>

-----------------------------------------------------------------------------
(* The thread of a reader                                                  *)

ThreadStep(r, at, calls) ==
    /\ thread' = [thread EXCEPT ![r] = at]
    /\ toCall' = [toCall EXCEPT ![r] = calls]
    /\ UNCHANGED <<encoderVars, fd, setup, running>>

\* The loop ends, after the timeout of select at the latest.
LoopEnds(r) ==
    /\ thread[r] = "select" /\ r \notin running
    /\ ThreadStep(r, "exited", {})
    /\ UNCHANGED <<refused, ended>>

\* read_frame takes a buffer; a device that was not started has none.
Dequeue(r) ==
    /\ thread[r] = "select" /\ r \in running
    /\ IF setup[r] = "streaming"
       THEN ThreadStep(r, "emit", Holders(r)) /\ UNCHANGED ended
       ELSE ThreadStep(r, "exited", {}) /\ Dies({"VIDIOC_DQBUF"})
    /\ UNCHANGED refused

\* process_image, through reader_shared: on_data of each encoder.
OnData(r) ==
    /\ thread[r] = "emit" /\ r \in running
    /\ \E e \in toCall[r] : ThreadStep(r, "emit", toCall[r] \ {e})
    /\ UNCHANGED <<refused, ended>>

\* The buffer goes back to the driver, which may refuse it.
Enqueue(r) ==
    /\ thread[r] = "emit" /\ (toCall[r] = {} \/ r \notin running)
    /\ \/ ThreadStep(r, "select", {}) /\ UNCHANGED <<refused, ended>>
       \/ ~ refused /\ refused' = TRUE
          /\ ThreadStep(r, "exited", {}) /\ Dies({"VIDIOC_QBUF"})

-----------------------------------------------------------------------------
Thread(r) == LoopEnds(r) \/ Dequeue(r) \/ OnData(r) \/ Enqueue(r)

HardwareNext ==
    /\ ended = {}
    /\ \/ \E e \in Encoders :
            \/ CreateVideoEncoder(e) \/ InitEncode(e) \/ Encode(e) \/ SetRatesRefused(e)
            \/ Release(e) \/ Released(e)
       \/ \E r \in Readers : Thread(r)

\* The thread runs, its select has a timeout of two seconds (reader.cpp:347),
\* and so does the queue that waits for it.
HardwareFairness ==
    /\ \A e \in Encoders : WF_hardwareVars(ended = {} /\ Released(e))
    /\ \A r \in Readers : WF_hardwareVars(ended = {} /\ Thread(r))

HardwareSpec == HardwareInit /\ [][HardwareNext]_hardwareVars /\ HardwareFairness

-----------------------------------------------------------------------------
\* The thread has its buffers and its device as long as it runs: whoever destroys
\* the reader waits for it first, and the shares of the other encoders keep the
\* reader (reader.cpp:337-366, 406-428).
ThreadHasBuffers ==
    \A r \in Readers : thread[r] \in {"select", "emit"} =>
        r \in fd /\ (thread[r] = "emit" => setup[r] = "streaming")

\* Nothing that the encoders do to each other ends the process: it takes a call
\* that the driver refuses, or a reader that never got a device
\* (reader.cpp:328-337, 411-412).
EndsByTheDriver == ended # {} => refused \/ ended = {"STREAMOFF"}

\* Whoever waits for the thread of a reader gets on (reader.cpp:406-409).
ReleasesEnd ==
    \A e \in Encoders : encoder[e] = "releasing" ~> encoder[e] = "released" \/ ended # {}

\* The reader that encoders share is sound: a thread of it has its buffers, and
\* only the driver brings the process down.
ReadersAreSound == ThreadHasBuffers /\ EndsByTheDriver

=============================================================================
