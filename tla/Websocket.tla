------------------------------- MODULE Websocket -------------------------------
(***************************************************************************)
(* A websocket of the signaling: the connector of the client and the       *)
(* acceptor of the server make its two ends, each a connection_impl that   *)
(* queues what it sends and reads one message when it is asked to.         *)
(*                                                                         *)
(* Beast's stream is external: a message that was written reaches the      *)
(* other end in its order, an operation fails once the stream is closed or *)
(* the line is down.  Handlers run one at a time.                          *)
(***************************************************************************)
EXTENDS Naturals, Sequences, FiniteSets, SequencesExt

CONSTANTS
    MaxSends    \* bound: messages each end sends

ASSUME WebsocketAssumption == MaxSends \in Nat

Ends == {"client", "server"}
Peer(e) == IF e = "client" THEN "server" ELSE "client"
Ids == 1..MaxSends
CloseFrame == 0

VARIABLES
    stage,      \* how far the connector got
    upgrade,    \* the server's side: "none", "tcp" accepted, "done", "failed"
    accepting,  \* the acceptor waits for the next tcp connection
    ends,       \* ends that somebody owns: alive_check
    stream,     \* of each end: "open", "closing" (async_close waits for the
                \* write under way), "closed" (the close frame is out)
    line,       \* tcp carries data
    chan,       \* frames on their way to each end
    queue,      \* send_queue
    sending,
    writes,     \* async_write operations under way at each end
    pledge,     \* the futures of the messages
    reading,
    readOps,    \* ends with an async_read under way
    readPledge, \* read_promise: "none", "open" or how the last one was answered
    got,        \* history: messages each end read
    faults      \* assertions and promises that failed

openVars == <<stage, upgrade, accepting>>
sendVars == <<queue, sending, writes, pledge>>
readVars == <<reading, readOps, readPledge, got>>
websocketVars == <<openVars, ends, stream, line, chan, sendVars, readVars, faults>>

Answered == {"sent", "failed", "broken"}

WebsocketInit ==
    /\ stage = "idle" /\ upgrade = "none" /\ accepting = TRUE
    /\ ends = {} /\ line = "up"
    /\ stream = [e \in Ends |-> "open"]
    /\ chan = [e \in Ends |-> <<>>]
    /\ queue = [e \in Ends |-> <<>>]
    /\ sending = [e \in Ends |-> FALSE]
    /\ writes = [e \in Ends |-> <<>>]
    /\ pledge = [e \in Ends |-> [i \in Ids |-> "none"]]
    /\ reading = [e \in Ends |-> FALSE]
    /\ readPledge = [e \in Ends |-> "none"]
    /\ readOps = {}
    /\ got = [e \in Ends |-> <<>>]
    /\ faults = {}

-----------------------------------------------------------------------------
(* connector and acceptor                                                  *)

Stages == <<"resolve", "connect", "secure", "handshake">>
After(s) == Stages[CHOOSE i \in 2..4 : Stages[i - 1] = s]

Connect ==
    /\ stage = "idle"
    /\ stage' = "resolve"
    /\ UNCHANGED <<upgrade, accepting, ends, stream, line, chan, sendVars, readVars, faults>>

\* on_resolved, on_connected and on_secured start the next operation; a plain
\* connection is not secured.
StageDone ==
    /\ stage \in {"resolve", "connect", "secure"}
    /\ stage' \in {After(stage)} \cup (IF stage = "connect" THEN {"handshake"} ELSE {})
    /\ UNCHANGED <<upgrade, accepting, ends, stream, line, chan, sendVars, readVars, faults>>

Handshaken ==
    /\ stage = "handshake" /\ upgrade = "done" /\ line = "up"
    /\ stage' = "connected"
    /\ ends' = ends \cup {"client"}
    /\ UNCHANGED <<upgrade, accepting, stream, line, chan, sendVars, readVars, faults>>

\* check_error: any operation may fail.
StageFails ==
    /\ stage \in ToSet(Stages)
    /\ stage' = "failed" /\ line' = "down"
    /\ UNCHANGED <<upgrade, accepting, ends, stream, chan, sendVars, readVars, faults>>

\* The handler of acceptor::run: an error ends accepting for good.
Accepted ==
    /\ accepting /\ stage \in {"secure", "handshake", "failed"} /\ upgrade = "none"
    /\ upgrade' = "tcp" /\ accepting' = TRUE
    /\ UNCHANGED <<stage, ends, stream, line, chan, sendVars, readVars, faults>>

\* Bound: later ones change nothing here, there is one connection.
AcceptFails ==
    /\ accepting /\ upgrade = "none"
    /\ accepting' = FALSE
    /\ UNCHANGED <<stage, upgrade, ends, stream, line, chan, sendVars, readVars, faults>>

\* The handler of acceptor::successful_tcp.
Upgraded ==
    /\ upgrade = "tcp"
    /\ \/ /\ stage = "handshake" /\ line = "up"
          /\ upgrade' = "done" /\ ends' = ends \cup {"server"}
       \/ /\ line = "down"
          /\ upgrade' = "failed" /\ UNCHANGED ends
    /\ UNCHANGED <<stage, accepting, stream, line, chan, sendVars, readVars, faults>>

-----------------------------------------------------------------------------
(* connection_impl: what an end sends                                      *)

Sent(e) == {i \in Ids : pledge[e][i] # "none"}

\* send_next_from_queue writes the front of the queue, which stays there.
Foremost(q) == IF q = <<>> THEN <<>> ELSE <<Head(q)>>

Idle(e) == ~ sending[e]

Send(e) ==
    /\ e \in ends /\ Cardinality(Sent(e)) < MaxSends
    /\ LET i == Cardinality(Sent(e)) + 1 IN
       /\ queue' = [queue EXCEPT ![e] = Append(@, i)]
       /\ pledge' = [pledge EXCEPT ![e][i] = "waiting"]
    /\ writes' = [writes EXCEPT ![e] = @ \o IF Idle(e) THEN Foremost(queue'[e]) ELSE <<>>]
    /\ sending' = [sending EXCEPT ![e] = TRUE]
    /\ UNCHANGED <<openVars, ends, stream, line, chan, readVars, faults>>

\* The future of message i is answered.
Settle(e, i, how) ==
    /\ pledge' = [pledge EXCEPT ![e][i] = how]
    /\ faults' = faults \cup (IF pledge[e][i] = "waiting" THEN {} ELSE {"answered twice"})

\* Mutant: the next message is not written.
NoNextWrite(q) == <<>>

NextWrite(q) == Foremost(q)

\* on_send without an error; what async_close waited for is over.
Wrote(e) ==
    LET left == Tail(queue[e]) IN
    /\ Settle(e, Head(queue[e]), "sent")
    /\ chan' = [chan EXCEPT ![Peer(e)] = @ \o Foremost(writes[e])
                    \o IF stream[e] = "closing" THEN <<CloseFrame>> ELSE <<>>]
    /\ stream' = [stream EXCEPT ![e] = IF @ = "closing" THEN "closed" ELSE @]
    /\ queue' = [queue EXCEPT ![e] = left]
    /\ sending' = [sending EXCEPT ![e] = left # <<>>]
    /\ writes' = [writes EXCEPT ![e] = Tail(@) \o NextWrite(left)]

\* Mutant: the next send starts to write again.
WriteFailedGoesOn(e) ==
    /\ Settle(e, Head(queue[e]), "failed")
    /\ sending' = [sending EXCEPT ![e] = FALSE]
    /\ writes' = [writes EXCEPT ![e] = Tail(@)]
    /\ UNCHANGED <<chan, stream, queue>>

\* on_send with an error: neither the queue nor sending change, so nothing is
\* written any more.
WriteFailed(e) ==
    /\ Settle(e, Head(queue[e]), "failed")
    /\ writes' = [writes EXCEPT ![e] = Tail(@)]
    /\ UNCHANGED <<chan, stream, queue, sending>>

\* What becomes of the promises of a queue that is dropped.
Broken(e) == [i \in Ids |-> IF pledge[e][i] = "waiting" THEN "broken" ELSE pledge[e][i]]

\* The handler of async_write keeps the queue of an end that is gone.
WriteDropped(e) ==
    /\ pledge' = [pledge EXCEPT ![e] = Broken(e)]
    /\ writes' = [writes EXCEPT ![e] = <<>>]
    /\ UNCHANGED <<chan, stream, queue, sending, faults>>

WriteDone(e) ==
    /\ writes[e] # <<>>
    /\ \/ e \in ends /\ stream[e] # "closed" /\ line = "up" /\ Wrote(e)
       \/ e \in ends /\ (stream[e] = "closed" \/ line = "down") /\ WriteFailed(e)
       \/ e \notin ends /\ WriteDropped(e)
    /\ UNCHANGED <<openVars, ends, line, readVars>>

\* close: the frame follows the message being written and overtakes the queue.
Close(e) ==
    /\ e \in ends /\ stream[e] = "open" /\ line = "up"
    /\ stream' = [stream EXCEPT ![e] = IF writes[e] = <<>> THEN "closed" ELSE "closing"]
    /\ chan' = IF writes[e] = <<>> THEN [chan EXCEPT ![Peer(e)] = Append(@, CloseFrame)] ELSE chan
    /\ UNCHANGED <<openVars, ends, line, sendVars, readVars, faults>>

-----------------------------------------------------------------------------
(* connection_impl: what an end reads                                      *)

\* The connections of the signaling ask for the next message in a task that
\* runs once the last was answered, and for none after an error.
Read(e) ==
    /\ e \in ends /\ readPledge[e] \in {"none", "read"}
    /\ reading' = [reading EXCEPT ![e] = TRUE]
    /\ readPledge' = [readPledge EXCEPT ![e] = "open"]
    /\ readOps' = readOps \cup {e}
    /\ faults' = faults \cup IF reading[e] THEN {"!reading"} ELSE {}
    /\ UNCHANGED <<openVars, ends, stream, line, chan, sendVars, got>>

\* on_read with a message
GotMessage(e) ==
    /\ chan[e] # <<>> /\ Head(chan[e]) # CloseFrame
    /\ chan' = [chan EXCEPT ![e] = Tail(@)]
    /\ IF e \in ends
       THEN /\ got' = [got EXCEPT ![e] = Append(@, Head(chan[e]))]
            /\ readPledge' = [readPledge EXCEPT ![e] = "read"]
            /\ reading' = [reading EXCEPT ![e] = FALSE]
       ELSE UNCHANGED <<got, readPledge, reading>>
    /\ UNCHANGED stream

\* on_read with an error; the stream answers a close frame with its own.
GotError(e) ==
    /\ \/ chan[e] # <<>> /\ Head(chan[e]) = CloseFrame
       \/ chan[e] = <<>> /\ line = "down"
    /\ stream' = [stream EXCEPT ![e] = "closed"]
    /\ chan' = [chan EXCEPT ![e] = <<>>,
                    ![Peer(e)] = IF stream[e] = "closed" \/ line = "down" THEN @
                                 ELSE Append(@, CloseFrame)]
    /\ IF e \in ends
       THEN /\ readPledge' = [readPledge EXCEPT ![e] = "failed"]
            /\ reading' = [reading EXCEPT ![e] = FALSE]
       ELSE UNCHANGED <<readPledge, reading>>
    /\ UNCHANGED got

ReadDone(e) ==
    /\ e \in readOps
    /\ readOps' = readOps \ {e}
    /\ GotMessage(e) \/ GotError(e)
    /\ UNCHANGED <<openVars, ends, line, sendVars, faults>>

\* ~connection_impl.  Operations under way keep the stream and the socket.
Destroy(e) ==
    /\ e \in ends
    /\ ends' = ends \ {e}
    /\ readPledge' = [readPledge EXCEPT ![e] = IF reading[e] THEN "failed" ELSE @]
    /\ pledge' = [pledge EXCEPT ![e] = IF writes[e] = <<>> THEN Broken(e) ELSE @]
    /\ faults' = faults \cup IF reading[e] /\ readPledge[e] # "open"
                             THEN {"read_promise"} ELSE {}
    /\ UNCHANGED <<openVars, stream, line, chan, queue, sending, writes, reading, readOps, got>>

\* The last operation of an end that is gone was its socket's last owner; or
\* the network fails.
Down ==
    /\ line = "up" /\ stage # "idle"
    /\ line' = "down"
    /\ UNCHANGED <<openVars, ends, stream, chan, sendVars, readVars, faults>>

-----------------------------------------------------------------------------
WebsocketNext ==
    \/ Connect \/ StageDone \/ Handshaken \/ StageFails
    \/ Accepted \/ AcceptFails \/ Upgraded \/ Down
    \/ \E e \in Ends :
        Send(e) \/ WriteDone(e) \/ Close(e) \/ Read(e) \/ ReadDone(e) \/ Destroy(e)

\* The stream answers every operation that is under way.
WebsocketFairness == \A e \in Ends : WF_websocketVars(WriteDone(e))

WebsocketSpec ==
    WebsocketInit /\ [][WebsocketNext]_websocketVars /\ WebsocketFairness

-----------------------------------------------------------------------------
\* No promise is answered twice, none that is gone is answered, and no read is
\* asked for while one is under way (connection_impl.cpp:86-90, 121, 155).
PromisesAreKept == faults = {}

\* What an end reads is what the other one sent, from the first message on and
\* without gaps, and what is on its way goes on from there: the queue keeps the
\* order although each message is written by an operation of its own
\* (connection_impl.cpp:46-97).
ReadsAreTheSent ==
    \A e \in ends :
        /\ \A i \in DOMAIN got[e] : got[e][i] = i
        /\ \A i \in DOMAIN chan[e] : chan[e][i] \in {Len(got[e]) + i, CloseFrame}

\* Every send is answered, unless an earlier one failed: the messages queued
\* behind that one wait until the connection is destroyed
\* (connection_impl.cpp:85-88).
SendsAreAnswered ==
    \A e \in Ends : \A i \in Ids :
        pledge[e][i] = "waiting" ~>
            pledge[e][i] \in Answered \/ \E j \in 1..(i - 1) : pledge[e][j] = "failed"

=============================================================================
