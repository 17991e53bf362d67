------------------------------ MODULE SocketLoop -------------------------------
(***************************************************************************)
(* One live connection: the socket loop task (src/socket_loop.rs), the     *)
(* handles that talk to it through the two bounded channels and the        *)
(* terminal-error slot (src/lib.rs, src/split.rs), and the peer.           *)
(*                                                                         *)
(* A call is one invocation of an async method on a handle.  It may be     *)
(* waiting for channel capacity, waiting for the loop's answer, cancelled  *)
(* (its future dropped) in either wait, or finished.  The await points of  *)
(* the loop are the values of pc, so everything another task can do while  *)
(* the loop is suspended is interleaved there.                             *)
(*                                                                         *)
(* Data frames of the peer are numbered 1, 2, 3 ... in the order sent.     *)
(***************************************************************************)
EXTENDS Integers, Sequences, WebSocket

CONSTANTS
    Sends,        \* calls of send / send_raw (confirmed)
    Fires,        \* calls of send_unconfirmed / send_raw_unconfirmed
    Closes,       \* calls of SocketeerTx::close
    Finals,       \* the call of Socketeer::close_connection, at most one
    Cancellable,  \* calls whose future the user may drop while it is pending
    NoCall,       \* "no call": not a call
    ChannelSize,  \* CHANNEL_SIZE of both mpsc channels
    Keepalive,    \* is keepalive_interval set?
    Faults,       \* may the peer vanish without Close, or send garbage?
    HandlerSawEnd, \* may on_connected have seen or caused the end of the stream?
    MaxData,      \* bound: data frames the peer sends
    MaxControl    \* bound: ping, pong and malformed frames the peer sends

Calls == Sends \cup Fires \cup Closes \cup Finals

\* Calls that carry a Close frame, and calls that carry a one-shot.
CloseCalls == Closes \cup Finals
Confirmed == Calls \ Fires

ASSUME CallKinds ==
    /\ Sends \cap Fires = {} /\ CloseCalls \cap (Sends \cup Fires) = {}
    /\ Closes \cap Finals = {}
    /\ \A a, b \in Finals : a = b
    /\ Cancellable \subseteq Calls
    /\ NoCall \notin Calls

\* tokio's mpsc::channel(0) panics, so no connection exists with size 0.
ASSUME Sizes ==
    /\ ChannelSize \in Nat \ {0}
    /\ MaxData \in Nat /\ MaxControl \in Nat
    /\ {Keepalive, Faults, HandlerSawEnd} \subseteq BOOLEAN

VARIABLES
    pc,             \* where the loop task is suspended
    state,          \* LoopState
    frame,          \* data frame held in deliver_with_backpressure, or 0
    cur,            \* payload being written by send_socket_message, or NoCall
    tx_chan,        \* handle -> loop channel: queued calls
    rx_chan,        \* loop -> handle channel: queued data frames
    terminal_error, \* the shared slot
    ws,             \* state of the WebSocket protocol on our side
    inbound,        \* what the peer has sent and the loop has not read
    peer,           \* "open", "closed" (it has sent Close) or "gone"
    tx_alive,       \* does any handle with a Sender exist?
    rx,             \* the handle with the Receiver
    call,           \* progress of every call
    close_result,   \* what close_connection returned
    produced,       \* history: data frames the peer sent
    controls,       \* history: control and malformed frames the peer sent
    read,           \* history: data frames the loop has read
    delivered,      \* history: data frames handed to the consumer, in order
    accepted,       \* history: calls in the order their payload was enqueued
    wire,           \* history: calls in the order their frame was written
    rx_saw,         \* history: how the consumer learnt of the end
    taker           \* history: who consumed the terminal cause

chans   == <<tx_chan, rx_chan>>
loop    == <<pc, state, frame, cur>>
network == <<ws, inbound, peer, produced, controls>>
handles == <<tx_alive, rx, call, close_result>>
history == <<read, delivered, accepted, wire, rx_saw, taker>>
vars    == <<loop, chans, terminal_error, network, handles, history>>

--------------------------------------------------------------------------------
\* Error values (src/error.rs) the loop can end with, and LoopState.
Errors == {"WebsocketError", "WebsocketClosed", "SocketeerDroppedWithoutClosing"}
LoopStates == {"Running", "Closed"} \cup Errors

PcValues == {"select", "sending", "ponging", "closing", "backpressure", "keepalive",
             "exit", "recorded", "rxClosed", "done"}

\* "ok": Ok(()); "err": the loop answered with an error; "cause", "closed": the
\* channel was closed and the call returned the recorded cause or the generic
\* WebsocketClosed; "panic": the one-shot was dropped without an answer.
CallValues == {"idle", "enqueuing", "queued", "ok", "err", "cause", "closed",
               "cancelled", "panic"}

\* n: how many data frames the peer has sent when it has sent this frame.
Kinds == {"data", "ping", "pong", "bad", "close", "fin"}
Frames == [kind : Kinds, n : Nat]

\* connect_with_codec: fresh channels, an empty slot and a spawned loop.  The
\* handler has run on the same stream: it may have sent a Close frame, read the
\* peer's, or met the end of the stream or a read error, and still have returned Ok.
Init ==
    /\ pc = "select" /\ state = "Running" /\ frame = 0 /\ cur = NoCall
    /\ tx_chan = <<>> /\ rx_chan = <<>>
    /\ terminal_error = "None"
    /\ \/ ws = "Active" /\ peer = "open"
       \/ HandlerSawEnd /\ ws = "ClosedByUs" /\ peer = "open"
       \/ HandlerSawEnd /\ ws \in {"ClosedByPeer", "CloseAcknowledged"} /\ peer = "closed"
       \/ HandlerSawEnd /\ ws = "Terminated" /\ peer \in {"open", "gone"}
    /\ inbound = <<>> /\ produced = 0 /\ controls = 0
    /\ tx_alive = TRUE /\ rx = "open"
    /\ call = [c \in Calls |-> "idle"] /\ close_result = "none"
    /\ read = 0 /\ delivered = <<>> /\ accepted = <<>> /\ wire = <<>>
    /\ rx_saw = "none" /\ taker = "nobody"

--------------------------------------------------------------------------------
(* The channels and the terminal-error slot.                               *)

\* Slip: the capacity is off by one.
HasRoomPlusOne(chan) == Len(chan) <= ChannelSize

\* tokio's bounded mpsc: is there a permit?
HasRoom(chan) == Len(chan) < ChannelSize

\* take_terminal_error_opt: the first taker empties the slot.
\* who: "rx" (the consumer), "call" (a send) or "final" (close_connection).
Take(who) ==
    /\ terminal_error' = "None"
    /\ taker' = IF terminal_error = "None" THEN taker ELSE who

--------------------------------------------------------------------------------
(* The handles.                                                            *)

\* The close_connection call waits for the loop task to end.
Joining(c) ==
    c \in Finals /\ call[c] \in {"ok", "err", "closed"} /\ close_result = "none"

Pending(c) == call[c] \in {"enqueuing", "queued"} \/ Joining(c)

\* A method is called on a handle.  close_connection consumes the Socketeer:
\* its Receiver is kept, undrained, until the method returns.
StartCall(c) ==
    /\ call[c] = "idle" /\ tx_alive
    /\ c \in Finals => rx = "open"
    /\ call' = [call EXCEPT ![c] = "enqueuing"]
    /\ rx' = IF c \in Finals THEN "parked" ELSE rx
    /\ UNCHANGED <<loop, chans, terminal_error, network, tx_alive, close_result, history>>

\* sender.send(payload).await gets a slot of the channel.  An unconfirmed send
\* returns Ok here, the others go on to wait for the one-shot.
Enqueue(c) ==
    /\ call[c] = "enqueuing" /\ pc # "done"
    /\ HasRoom(tx_chan)
    /\ tx_chan' = Append(tx_chan, c)
    /\ accepted' = Append(accepted, c)
    /\ call' = [call EXCEPT ![c] = IF c \in Fires THEN "ok" ELSE "queued"]
    /\ UNCHANGED <<loop, rx_chan, terminal_error, network, tx_alive, rx, close_result,
                   read, delivered, wire, rx_saw, taker>>

\* sender.send fails because the loop has dropped its receiver.  A send reports
\* the recorded cause; send_close does not look at the slot.
EnqueueFail(c) ==
    /\ call[c] = "enqueuing" /\ pc = "done"
    /\ \/ /\ c \in CloseCalls
          /\ call' = [call EXCEPT ![c] = "closed"]
          /\ UNCHANGED <<terminal_error, taker>>
       \/ /\ c \notin CloseCalls
          /\ call' = [call EXCEPT ![c] = IF terminal_error = "None" THEN "closed" ELSE "cause"]
          /\ Take("call")
    /\ UNCHANGED <<loop, chans, network, tx_alive, rx, close_result,
                   read, delivered, accepted, wire, rx_saw>>

\* The user drops the future of a pending call (a timeout, a select).  Of
\* close_connection it drops the consumed Socketeer with it.
Cancel(c) ==
    /\ c \in Cancellable /\ Pending(c)
    /\ call' = [call EXCEPT ![c] = "cancelled"]
    /\ rx' = IF c \in Finals THEN "dropped" ELSE rx
    /\ rx_chan' = IF c \in Finals THEN <<>> ELSE rx_chan
    /\ UNCHANGED <<loop, tx_chan, terminal_error, network, tx_alive, close_result, history>>

\* Slip: close_connection reports the close frame's result and ignores the slot.
JoinReturnIgnoringCause(c) ==
    /\ Joining(c) /\ pc = "done"
    /\ close_result' = call[c]
    /\ Take("final")
    /\ rx' = "dropped" /\ rx_chan' = <<>>
    /\ UNCHANGED <<loop, tx_chan, network, tx_alive, call,
                   read, delivered, accepted, wire, rx_saw>>

\* close_connection after the join: the loop's cause, else the result of the
\* close frame; then the Socketeer is dropped.
JoinReturn(c) ==
    /\ Joining(c) /\ pc = "done"
    /\ close_result' = IF terminal_error = "None" THEN call[c] ELSE terminal_error
    /\ Take("final")
    /\ rx' = "dropped" /\ rx_chan' = <<>>
    /\ UNCHANGED <<loop, tx_chan, network, tx_alive, call,
                   read, delivered, accepted, wire, rx_saw>>

\* The last handle with a Sender is dropped: none of its methods is running.
DropTx ==
    /\ tx_alive /\ \A c \in Calls : ~Pending(c)
    /\ tx_alive' = FALSE
    /\ UNCHANGED <<loop, chans, terminal_error, network, rx, call, close_result, history>>

\* The handle with the Receiver is dropped, and what is queued with it.
DropRx ==
    /\ rx = "open"
    /\ rx' = "dropped" /\ rx_chan' = <<>>
    /\ UNCHANGED <<loop, tx_chan, terminal_error, network, tx_alive, call, close_result, history>>

\* recv_raw / poll_recv_raw find a frame.
RecvRaw ==
    /\ rx = "open" /\ rx_chan # <<>>
    /\ delivered' = Append(delivered, Head(rx_chan))
    /\ rx_chan' = Tail(rx_chan)
    /\ UNCHANGED <<loop, tx_chan, terminal_error, network, handles,
                   read, accepted, wire, rx_saw, taker>>

\* Slip: the consumer is told of the end while frames are still queued.
RecvEndBeforeDrained ==
    /\ rx = "open" /\ pc \in {"rxClosed", "done"} /\ rx_saw = "none"
    /\ rx_saw' = IF terminal_error = "None" THEN "closed" ELSE "cause"
    /\ Take("rx")
    /\ UNCHANGED <<loop, chans, network, handles, read, delivered, accepted, wire>>

\* Slip: a graceful end is not reported to the consumer.
RecvEndOnlyWithCause ==
    /\ rx = "open" /\ rx_chan = <<>> /\ pc \in {"rxClosed", "done"} /\ rx_saw = "none"
    /\ terminal_error # "None"
    /\ rx_saw' = "cause"
    /\ Take("rx")
    /\ UNCHANGED <<loop, chans, network, handles, read, delivered, accepted, wire>>

\* recv_raw / poll_recv_raw find the channel closed and drained.
RecvEnd ==
    /\ rx = "open" /\ rx_chan = <<>> /\ pc \in {"rxClosed", "done"} /\ rx_saw = "none"
    /\ rx_saw' = IF terminal_error = "None" THEN "closed" ELSE "cause"
    /\ Take("rx")
    /\ UNCHANGED <<loop, chans, network, handles, read, delivered, accepted, wire>>

--------------------------------------------------------------------------------
(* The loop.                                                               *)

\* A handler returned this LoopState: leave the loop, or go on in the select it
\* came from (the one that holds a frame, if there is one).
Stop(s) == pc' = "exit" /\ state' = s /\ frame' = 0
Resume ==
    /\ pc' = IF frame = 0 THEN "select" ELSE "backpressure"
    /\ UNCHANGED <<state, frame>>
Proceed(s) == IF s = "Running" THEN Resume ELSE Stop(s)

\* Slip: outgoing payloads are not served while a frame is held.
RecvOutgoingOnlyInSelect ==
    /\ pc = "select" /\ tx_chan # <<>>
    /\ cur' = Head(tx_chan) /\ tx_chan' = Tail(tx_chan)
    /\ pc' = "sending"
    /\ UNCHANGED <<state, frame, rx_chan, terminal_error, network, handles, history>>

\* receiver.recv() yields a payload; both selects have this arm.
RecvOutgoing ==
    /\ pc \in {"select", "backpressure"} /\ tx_chan # <<>>
    /\ cur' = Head(tx_chan) /\ tx_chan' = Tail(tx_chan)
    /\ pc' = "sending"
    /\ UNCHANGED <<state, frame, rx_chan, terminal_error, network, handles, history>>

\* receiver.recv() yields None.
SendersGone ==
    /\ pc \in {"select", "backpressure"} /\ tx_chan = <<>> /\ ~tx_alive
    /\ Stop("SocketeerDroppedWithoutClosing")
    /\ UNCHANGED <<cur, chans, terminal_error, network, handles, history>>

\* Slip: the answer does not depend on the write.
AnswerOk(ok) == "ok"

\* What the loop puts into the one-shot.
Answer(ok) == IF ok THEN "ok" ELSE "err"

\* Slip: a payload without one-shot is taken for one whose caller is gone.
CallerGoneOrUnconfirmed(c) == call[c] # "queued"

\* The one-shot's receiver has been dropped.
CallerGone(c) == c \in Confirmed /\ call[c] = "cancelled"

\* Slip: a failed write does not end the loop.
StateAfterSendIgnoringError(c, ok) ==
    IF CallerGone(c) THEN "SocketeerDroppedWithoutClosing" ELSE "Running"

\* Slip: a failed write is looked at before the missing caller.
StateAfterSendErrorFirst(c, ok) ==
    IF ~ok THEN "WebsocketClosed"
    ELSE IF CallerGone(c) THEN "SocketeerDroppedWithoutClosing" ELSE "Running"

StateAfterSend(c, ok) ==
    IF CallerGone(c) THEN "SocketeerDroppedWithoutClosing"
    ELSE IF ok THEN "Running" ELSE "WebsocketClosed"

\* sink.send(message).await completes; the caller is answered, and the loop ends
\* if the caller is gone or the write failed.
send_socket_message ==
    /\ pc = "sending"
    /\ \E ok \in SendOutcomes(ws, peer = "gone") :
        /\ wire' = IF ok THEN Append(wire, cur) ELSE wire
        /\ ws' = IF cur \in CloseCalls THEN AfterSendClose(ws) ELSE ws
        /\ call' = IF call[cur] = "queued" THEN [call EXCEPT ![cur] = Answer(ok)] ELSE call
        /\ Proceed(StateAfterSend(cur, ok))
    /\ cur' = NoCall
    /\ UNCHANGED <<chans, terminal_error, inbound, peer, produced, controls, tx_alive, rx,
                   close_result, read, delivered, accepted, rx_saw, taker>>

\* Slip: a Close is handled at once, even while a frame is held.
ReadingCloseWhileHolding(kind) ==
    /\ pc = "select" \/ (pc = "backpressure" /\ kind = "close")
    /\ ws # "Terminated" /\ inbound # <<>> /\ Head(inbound).kind = kind

\* stream.next() yields a frame of this kind; only the outer select reads.
Reading(kind) ==
    /\ pc = "select" /\ ws # "Terminated"
    /\ inbound # <<>> /\ Head(inbound).kind = kind

\* Slip: a frame that finds the channel full is discarded.
DiscardFrame(n) == UNCHANGED <<pc, state, frame, rx_chan>>

HoldFrame(n) == frame' = n /\ pc' = "backpressure" /\ UNCHANGED <<state, rx_chan>>

\* A data frame, and the try_send at the head of deliver_with_backpressure:
\* receiver gone, delivered, or full and held.
ReadData ==
    /\ Reading("data")
    /\ inbound' = Tail(inbound) /\ read' = Head(inbound).n
    /\ \/ /\ rx = "dropped"
          /\ Stop("SocketeerDroppedWithoutClosing") /\ UNCHANGED rx_chan
       \/ /\ rx # "dropped" /\ HasRoom(rx_chan)
          /\ rx_chan' = Append(rx_chan, Head(inbound).n)
          /\ UNCHANGED <<pc, state, frame>>
       \/ rx # "dropped" /\ ~HasRoom(rx_chan) /\ HoldFrame(Head(inbound).n)
    /\ UNCHANGED <<cur, tx_chan, terminal_error, ws, peer, produced, controls, handles,
                   delivered, accepted, wire, rx_saw, taker>>

\* sender.reserve() yields a permit, or finds the receiver gone.
Reserve ==
    /\ pc = "backpressure"
    /\ \/ /\ rx = "dropped"
          /\ Stop("SocketeerDroppedWithoutClosing") /\ UNCHANGED rx_chan
       \/ /\ rx # "dropped" /\ HasRoom(rx_chan)
          /\ rx_chan' = Append(rx_chan, frame)
          /\ frame' = 0 /\ pc' = "select" /\ UNCHANGED state
    /\ UNCHANGED <<cur, tx_chan, terminal_error, network, handles, history>>

\* A ping is answered; a pong is ignored.
ReadPing ==
    /\ Reading("ping")
    /\ inbound' = Tail(inbound) /\ pc' = "ponging"
    /\ UNCHANGED <<state, frame, cur, chans, terminal_error, ws, peer, produced, controls,
                   handles, history>>

ReadPong ==
    /\ Reading("pong")
    /\ inbound' = Tail(inbound)
    /\ UNCHANGED <<loop, chans, terminal_error, ws, peer, produced, controls, handles, history>>

PongDone ==
    /\ pc = "ponging"
    /\ \E ok \in SendOutcomes(ws, peer = "gone") :
        Proceed(IF ok THEN "Running" ELSE "WebsocketError")
    /\ UNCHANGED <<cur, chans, terminal_error, network, handles, history>>

\* The peer's Close: sink.close() flushes the reply.
ReadClose ==
    /\ Reading("close")
    /\ inbound' = Tail(inbound) /\ ws' = AfterRecvClose(ws) /\ pc' = "closing"
    /\ UNCHANGED <<state, frame, cur, chans, terminal_error, peer, produced, controls,
                   handles, history>>

CloseDone ==
    /\ pc = "closing"
    /\ \E ok \in CloseOutcomes(peer = "gone") : Stop(IF ok THEN "Closed" ELSE "WebsocketError")
    /\ UNCHANGED <<cur, chans, terminal_error, network, handles, history>>

\* The read side yields an error: a malformed frame, or the end of the stream
\* before the closing handshake.
ReadError ==
    /\ \/ Reading("bad")
       \/ Reading("fin") /\ ResetWithoutClosingHandshake(ws)
    /\ inbound' = Tail(inbound) /\ ws' = "Terminated"
    /\ Stop("WebsocketError")
    /\ UNCHANGED <<cur, chans, terminal_error, peer, produced, controls, handles, history>>

\* stream.next() yields None: the stream ends after a Close the handler had read, or
\* had ended before the loop started.
ReadNone ==
    /\ \/ Reading("fin") /\ ~ResetWithoutClosingHandshake(ws)
       \/ pc = "select" /\ ws = "Terminated"
    /\ Stop("WebsocketClosed")
    /\ UNCHANGED <<cur, chans, terminal_error, network, handles, history>>

\* Slip: no keepalive while a frame is held.
KeepaliveFireOnlyInSelect ==
    /\ Keepalive /\ pc = "select"
    /\ pc' = "keepalive"
    /\ UNCHANGED <<state, frame, cur, chans, terminal_error, network, handles, history>>

\* sleep(interval) elapses; it is re-armed on every turn of either select.
KeepaliveFire ==
    /\ Keepalive /\ pc \in {"select", "backpressure"}
    /\ pc' = "keepalive"
    /\ UNCHANGED <<state, frame, cur, chans, terminal_error, network, handles, history>>

send_keepalive ==
    /\ pc = "keepalive"
    /\ \E ok \in SendOutcomes(ws, peer = "gone") :
        Proceed(IF ok THEN "Running" ELSE "WebsocketError")
    /\ UNCHANGED <<cur, chans, terminal_error, network, handles, history>>

\* After the while loop: record the cause ...
RecordTerminal ==
    /\ pc = "exit"
    /\ terminal_error' = IF state = "Closed" THEN "None" ELSE state
    /\ pc' = "recorded"
    /\ UNCHANGED <<state, frame, cur, chans, network, handles, history>>

\* Slip: the channel is closed before the cause is recorded.
DropSenderEarly ==
    /\ pc \in {"exit", "recorded"}
    /\ pc' = "rxClosed"
    /\ UNCHANGED <<state, frame, cur, chans, terminal_error, network, handles, history>>

\* ... and return: the parameters are dropped in reverse order, sender first,
DropSender ==
    /\ pc = "recorded"
    /\ pc' = "rxClosed"
    /\ UNCHANGED <<state, frame, cur, chans, terminal_error, network, handles, history>>

\* then receiver, with the payloads still queued in it and their one-shots: a
\* caller waiting for its answer reaches unreachable!().
DropReceiver ==
    /\ pc = "rxClosed"
    /\ pc' = "done" /\ tx_chan' = <<>>
    /\ call' = [c \in Calls |-> IF call[c] = "queued" THEN "panic" ELSE call[c]]
    /\ IF \E c \in Finals : call[c] = "queued"
         THEN rx' = "dropped" /\ rx_chan' = <<>>
         ELSE UNCHANGED <<rx, rx_chan>>
    /\ UNCHANGED <<state, frame, cur, terminal_error, network, tx_alive, close_result, history>>

--------------------------------------------------------------------------------
(* The peer and the network.                                               *)

Arrives(kind, n) == inbound' = Append(inbound, [kind |-> kind, n |-> n])

PeerData ==
    /\ peer = "open" /\ produced < MaxData
    /\ produced' = produced + 1 /\ Arrives("data", produced + 1)
    /\ UNCHANGED <<loop, chans, terminal_error, ws, peer, controls, handles, history>>

PeerControl(kind) ==
    /\ peer = "open" /\ controls < MaxControl
    /\ kind = "bad" => Faults
    /\ controls' = controls + 1 /\ Arrives(kind, produced)
    /\ UNCHANGED <<loop, chans, terminal_error, ws, peer, produced, handles, history>>

PeerClose ==
    /\ peer = "open"
    /\ peer' = "closed" /\ Arrives("close", produced)
    /\ UNCHANGED <<loop, chans, terminal_error, ws, produced, controls, handles, history>>

\* The peer closes the TCP stream, after its Close frame or (a fault) without.
PeerFin ==
    /\ peer = "closed" \/ (peer = "open" /\ Faults)
    /\ peer' = "gone" /\ Arrives("fin", produced)
    /\ UNCHANGED <<loop, chans, terminal_error, ws, produced, controls, handles, history>>

\* The connection is reset: the next read past what has arrived is an error.
LinkReset ==
    /\ Faults /\ peer # "gone"
    /\ peer' = "gone" /\ Arrives("bad", produced)
    /\ UNCHANGED <<loop, chans, terminal_error, ws, produced, controls, handles, history>>

--------------------------------------------------------------------------------
CallStep(c) ==
    StartCall(c) \/ Enqueue(c) \/ EnqueueFail(c) \/ Cancel(c) \/ JoinReturn(c)

Consumer == RecvRaw \/ RecvEnd

IncomingArm ==
    ReadData \/ ReadPing \/ ReadPong \/ ReadClose \/ ReadError \/ ReadNone

OutgoingArm == RecvOutgoing \/ SendersGone

Completion ==
    \/ send_socket_message \/ PongDone \/ CloseDone \/ send_keepalive
    \/ RecordTerminal \/ DropSender \/ DropReceiver

Loop == IncomingArm \/ OutgoingArm \/ Reserve \/ KeepaliveFire \/ Completion

Environment ==
    \/ PeerData \/ PeerClose \/ PeerFin \/ LinkReset
    \/ \E kind \in {"ping", "pong", "bad"} : PeerControl(kind)

Next ==
    \/ \E c \in Calls : CallStep(c)
    \/ DropTx \/ DropRx \/ Consumer \/ Loop \/ Environment

Spec == Init /\ [][Next]_vars

--------------------------------------------------------------------------------
(* Safety.                                                                 *)

\* Every variable has its type, and neither channel exceeds CHANNEL_SIZE.
TypeOK ==
    /\ pc \in PcValues /\ state \in LoopStates
    /\ frame \in Nat /\ cur \in Calls \cup {NoCall}
    /\ tx_chan \in Seq(Calls) /\ Len(tx_chan) <= ChannelSize
    /\ rx_chan \in Seq(Nat) /\ Len(rx_chan) <= ChannelSize
    /\ terminal_error \in Errors \cup {"None"}
    /\ ws \in WsStates /\ inbound \in Seq(Frames) /\ peer \in {"open", "closed", "gone"}
    /\ tx_alive \in BOOLEAN /\ rx \in {"open", "parked", "dropped"}
    /\ call \in [Calls -> CallValues]
    /\ close_result \in {"none", "ok", "err", "closed"} \cup Errors
    /\ produced \in Nat /\ controls \in Nat /\ read \in Nat
    /\ delivered \in Seq(Nat) /\ accepted \in Seq(Calls) /\ wire \in Seq(Calls)
    /\ rx_saw \in {"none", "cause", "closed"}
    /\ taker \in {"nobody", "rx", "call", "final"}

Held == IF frame = 0 THEN 0 ELSE 1

\* Zero data loss, in order, in bounded memory: the consumer gets frame 1, 2, 3 ...
\* without a gap through any amount of backpressure; what is queued and what is
\* held continues that sequence; while the loop runs, or after a graceful close,
\* nothing it has read is missing, and an abnormal end loses only the held frame.
InOrderNoLoss ==
    /\ \A i \in 1..Len(delivered) : delivered[i] = i
    /\ rx # "dropped" =>
        /\ \A i \in 1..Len(rx_chan) : rx_chan[i] = Len(delivered) + i
        /\ frame # 0 => frame = Len(delivered) + Len(rx_chan) + 1
        /\ state \in {"Running", "Closed"} => read = Len(delivered) + Len(rx_chan) + Held
        /\ read <= Len(delivered) + Len(rx_chan) + 1

\* A close handshake initiated by either side loses nothing: when the loop ends in
\* Closed, every data frame the peer ever sent has been or can still be received.
GracefulCloseLosesNothing ==
    state = "Closed" /\ rx # "dropped" => Len(delivered) + Len(rx_chan) = produced

\* Frames reach the socket in the order their calls entered the channel, with no
\* frame skipped, whatever tasks sent them and however the calls ended.
WireFifo ==
    /\ Len(wire) <= Len(accepted)
    /\ \A i \in 1..Len(wire) : wire[i] = accepted[i]

Written(c) == \E i \in 1..Len(wire) : wire[i] = c

\* A confirmed call tells the truth: Ok means its frame was written, an error of any
\* sort (or a call not yet queued) means it was not; and no frame is written twice.
OutcomeTruthful ==
    /\ \A c \in Confirmed :
        /\ call[c] = "ok" => Written(c)
        /\ call[c] \in {"idle", "enqueuing", "err", "cause", "closed", "panic"} => ~Written(c)
    /\ \A i, j \in 1..Len(wire) : wire[i] = wire[j] => i = j

\* The terminal cause is surfaced exactly once.  From the moment the loop has
\* recorded it, it sits in the slot until one caller takes it; a consumer or a
\* sender is told of a generic closure only if the close was graceful or somebody
\* else already has the cause.  This is the race the comment at
\* socket_loop.rs:211-214 rules out.
CauseSurfacedOnce ==
    /\ pc \in {"recorded", "rxClosed", "done"} /\ state # "Closed" =>
        terminal_error = IF taker = "nobody" THEN state ELSE "None"
    /\ rx_saw = "closed" \/ (\E c \in Sends \cup Fires : call[c] = "closed") =>
        state = "Closed" \/ taker # "nobody"

\* Nothing else ends the connection: not a slow or a stopped consumer, not a
\* cancelled unconfirmed send, not a keepalive.  If the loop has left Running, the
\* user dropped a half or a pending confirmed call, or a Close frame or a read
\* error was met, or the peer is gone.
NoSpuriousDisconnect ==
    state # "Running" =>
        \/ ~tx_alive \/ rx = "dropped"
        \/ \E c \in Confirmed : call[c] = "cancelled"
        \/ ws # "Active" \/ peer = "gone"

\* Every real cause reaches somebody, but for one: the loop ends with the generic
\* WebsocketClosed only if the stream ended after a Close frame or had ended before,
\* if a confirmed caller was given the error of its write, or if the write of an
\* unconfirmed send failed, whose error is told to nobody (socket_loop.rs:241-242).
RealCauseReachesSomebody ==
    [][state = "Running" /\ state' = "WebsocketClosed" =>
        \/ ws \in {"ClosedByPeer", "CloseAcknowledged", "Terminated"}
        \/ cur \in Fires \/ (cur \in Confirmed /\ call[cur] = "queued" /\ call'[cur] = "err")]_vars

\* close_connection returns Ok only for a connection that ended gracefully, unless
\* a failing send of a clone consumed the cause first; an error it returns from the
\* loop is the loop's own.
CloseTruthful ==
    /\ close_result = "ok" => state = "Closed" \/ taker = "call"
    /\ close_result \in Errors => close_result = state /\ taker = "final"

--------------------------------------------------------------------------------
(* What the repository's comments say, and the code does not do.           *)

\* "Socket loop always sends response before dropping one-shot" (socket_loop.rs:87
\* and :123): no caller waits on a one-shot that is dropped unanswered.
EveryCallAnswered == \A c \in Calls : call[c] # "panic"

\* "Error thrown if socketeer is dropped without closing the connection"
\* (error.rs:31): the loop ends that way only when a half has been dropped.
DroppedMeansDropped ==
    state = "SocketeerDroppedWithoutClosing" => ~tx_alive \/ rx = "dropped"

\* "Prefer the loop's recorded cause (it errored during or before the close)"
\* (lib.rs:317): close_connection is Ok only if the loop did not error.
CloseReportsCause == close_result = "ok" => state = "Closed"

\* "Close the WebSocket connection gracefully" (lib.rs:303): once the Close frame is
\* written, close_connection fails only if the peer goes away.
CloseIsGraceful ==
    close_result \in Errors /\ (\E c \in Finals : call[c] = "ok") => peer = "gone"

--------------------------------------------------------------------------------
(* The receive path implements its contract.                               *)

Phase == IF rx = "dropped" THEN "abandoned"
         ELSE IF state = "Running" THEN "open" ELSE "stopped"

Deliverable == Len(delivered) + (IF rx = "dropped" THEN 0 ELSE Len(rx_chan) + Held)

Contract == INSTANCE DeliveryContract WITH
    Capacity <- ChannelSize + 1, deliverable <- Deliverable,
    phase <- Phase, told <- (rx_saw # "none")

\* Seen from the consumer, the loop with its selects, its keepalives and its held
\* frame is an in-order buffer of CHANNEL_SIZE + 1 frames whose end is reported
\* only after the last receivable frame (deliver_with_backpressure, recv_raw).
KeepsContract == Contract!Spec

--------------------------------------------------------------------------------
(* Liveness.                                                               *)

\* The loop task is scheduled, its socket operations complete, and select! (which
\* polls its arms in random order) does not pass over a ready arm for ever.
LoopFairness ==
    /\ WF_vars(Completion)
    /\ SF_vars(OutgoingArm) /\ SF_vars(IncomingArm) /\ SF_vars(Reserve)

\* A caller is woken when it can go on; tokio hands out permits in FIFO order.
CallFairness ==
    \A c \in Calls : SF_vars(Enqueue(c)) /\ WF_vars(EnqueueFail(c)) /\ WF_vars(JoinReturn(c))

\* The consumer may stop reading for ever, and nothing is asked of the peer.
LiveSpec == Spec /\ LoopFairness /\ CallFairness

\* A consumer that keeps calling next_message.
ConsumerReads == WF_vars(Consumer)

\* The idle timer elapses if nothing else happens.
TimerRuns == WF_vars(KeepaliveFire)

\* The peer answers a Close frame.
AnsweringPeerSpec == LiveSpec /\ WF_vars(ws = "ClosedByUs" /\ PeerClose)

Waiting(c) == call[c] \in {"enqueuing", "queued"}

\* Every send and close on a handle ends, even while the consumer has stopped
\* reading and the loop sits in deliver_with_backpressure with a full channel.
CallsResolve == \A c \in Calls : Waiting(c) ~> ~Waiting(c)

\* A consumer that keeps reading gets every frame the peer sends, unless it drops
\* its half or the connection ends abnormally.
EveryFrameReceived ==
    ConsumerReads => \A n \in 1..MaxData :
        produced = n ~> Len(delivered) >= n \/ rx # "open" \/ state \in Errors

\* A consumer that keeps reading is told when the loop has ended.
ConsumerLearnsEnd ==
    ConsumerReads => (state # "Running" ~> rx_saw # "none" \/ rx # "open")

\* close_connection returns ("will wait for the connection to close before
\* returning", lib.rs:304), or it is cancelled or panics; with keepalive enabled the
\* timer is enough for it, and neither the consumer nor the peer need do anything.
CloseReturns ==
    TimerRuns => \A c \in Finals :
        call[c] = "enqueuing" ~> close_result # "none" \/ call[c] \in {"cancelled", "panic"}

================================================================================
