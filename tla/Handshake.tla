------------------------------- MODULE Handshake -------------------------------
(***************************************************************************)
(* connect_with_codec between the upgrade and the start of the loop        *)
(* (src/lib.rs): the user's on_connected drives the HandshakeContext       *)
(* (src/handler.rs) against a peer that sends what it likes.  The handler  *)
(* is arbitrary: it makes any sequence of calls, may drop a pending one    *)
(* (a timeout), and returns Ok or Err when it likes.                       *)
(***************************************************************************)
EXTENDS Naturals, Sequences, Codec, WebSocket

CONSTANTS
    Codecs,      \* codecs the connection may have
    MaxFrames,   \* bound: Text, Binary and Close frames the peer sends
    MaxControl   \* bound: Ping and Pong frames the peer sends

ASSUME HandshakeBounds ==
    /\ Codecs \subseteq CodecNames
    /\ {MaxFrames, MaxControl} \subseteq Nat

VARIABLES
    codec,    \* the connection's codec
    pc,       \* the HandshakeContext call the handler awaits, or how it returned
    ws,       \* the library's state
    inbound,  \* what the peer has sent and nobody has read
    peer,     \* "open", "closed" or "gone"
    seen,     \* the same, as far as the handler has read
    last,     \* the call that returned last: what it took from the peer, what it gave
    consumed, \* history: frames of the peer that receives have taken
    sent,     \* history: Text, Binary and Close frames the peer has sent
    controls  \* history: Ping and Pong frames the peer has sent

vars == <<codec, pc, ws, inbound, peer, seen, last, consumed, sent, controls>>

RecvOps == {"recv", "recv_text", "recv_raw"}
SendOps == {"send", "send_text", "send_binary"}

NoFrame == Item("none", "none", 0)

Init ==
    /\ codec \in Codecs /\ pc = "idle" /\ ws = "Active"
    /\ inbound = <<>> /\ peer = "open" /\ seen = "open"
    /\ last = [op |-> "none", frame |-> NoFrame, out |-> NoFrame]
    /\ consumed = 0 /\ sent = 0 /\ controls = 0

--------------------------------------------------------------------------------
\* A call returns out; frame is the peer's frame it consumed, if any.
Return(op, frame, out) ==
    /\ last' = [op |-> op, frame |-> frame, out |-> out]
    /\ consumed' = IF frame = NoFrame THEN consumed ELSE consumed + 1
    /\ pc' = "idle"

\* Slip: the library would take a second Close for the first.
AfterCloseAgain(m) == IF m.type = "Close" THEN "ClosedByUs" ELSE ws

AfterWrite(m) == IF m.type = "Close" THEN AfterSendClose(ws) ELSE ws

\* What the handler passes to each send: typed values, or messages for RawCodec
\* (control frames too); a string; bytes.
Outgoing(op) ==
    CASE op = "send_text" -> {Item("Text", "other", 0)}
      [] op = "send_binary" -> {Item("Binary", "other", 0)}
      [] codec = "Raw" -> {encode(codec, Item(t, "other", 0)) : t \in {"Text", "Close"}}
      [] OTHER -> {encode(codec, Value(0)), encode(codec, Unserializable(0))}

\* send, send_text, send_binary: encode, then sink.send.
SendFrame(op) ==
    /\ pc = "idle"
    /\ \E m \in Outgoing(op) :
        \/ /\ m.type \in ErrorVariants
           /\ Return(op, NoFrame, m) /\ UNCHANGED ws
        \/ /\ m.type \notin ErrorVariants
           /\ ws' = AfterWrite(m)
           /\ \E ok \in SendOutcomes(ws, peer = "gone") :
                Return(op, NoFrame, IF ok THEN Value(0) ELSE Error("WebsocketError"))
    /\ UNCHANGED <<codec, inbound, peer, seen, sent, controls>>

StartRecv(op) ==
    /\ pc = "idle"
    /\ pc' = op
    /\ UNCHANGED <<codec, ws, inbound, peer, seen, last, consumed, sent, controls>>

\* Slip: recv hands every frame to the codec.
SurfaceCloseToCodec(op, m) ==
    CASE op = "recv_raw" -> m
      [] op = "recv_text" -> IF m.type = "Text" THEN m ELSE Error("UnexpectedMessageType")
      [] op = "recv" -> decode(codec, m)

\* What recv, recv_text and recv_raw make of a frame that is no ping or pong.
Surface(op, m) ==
    CASE op = "recv_raw" -> m
      [] op = "recv_text" -> IF m.type = "Text" THEN m ELSE Error("UnexpectedMessageType")
      [] op = "recv" -> IF m.type = "Close" THEN Error("WebsocketClosed") ELSE decode(codec, m)

\* Slip: recv_text waits for a text frame.
SkippedUntilText(op) ==
    IF op = "recv_text" THEN {"Ping", "Pong", "Binary"} ELSE {"Ping", "Pong"}

\* Slip: recv_raw returns whatever comes.
SkippedNothing(op) == {}

\* Frames the loop in recv_raw passes over.
Skipped(op) == {"Ping", "Pong"}

Reading == pc \in RecvOps /\ ws # "Terminated" /\ inbound # <<>>

RecvSkips ==
    /\ Reading /\ Head(inbound).type \in Skipped(pc)
    /\ inbound' = Tail(inbound)
    /\ UNCHANGED <<codec, pc, ws, peer, seen, last, consumed, sent, controls>>

RecvFrame ==
    /\ Reading /\ Head(inbound).type \notin Skipped(pc) \cup {"bad", "fin"}
    /\ inbound' = Tail(inbound)
    /\ \/ Head(inbound).type = "Close" /\ ws' = AfterRecvClose(ws) /\ seen' = "closed"
       \/ Head(inbound).type # "Close" /\ UNCHANGED <<ws, seen>>
    /\ Return(pc, Head(inbound), Surface(pc, Head(inbound)))
    /\ UNCHANGED <<codec, peer, sent, controls>>

\* stream.next() yields an error, or None after a closing handshake ...
RecvError ==
    /\ Reading /\ Head(inbound).type \in {"bad", "fin"}
    /\ inbound' = Tail(inbound) /\ ws' = "Terminated"
    /\ seen' = IF Head(inbound).type = "fin" THEN "gone" ELSE seen
    /\ Return(pc, NoFrame,
              IF Head(inbound).type = "bad" \/ ResetWithoutClosingHandshake(ws)
                THEN Error("WebsocketError") ELSE Error("WebsocketClosed"))
    /\ UNCHANGED <<codec, peer, sent, controls>>

\* Slip: the loop in recv_raw goes on when the stream has ended.
RecvNoneRetries == pc \in RecvOps /\ ws = "Terminated" /\ UNCHANGED vars

\* ... and None for ever after.
RecvNone ==
    /\ pc \in RecvOps /\ ws = "Terminated"
    /\ Return(pc, NoFrame, Error("WebsocketClosed"))
    /\ UNCHANGED <<codec, ws, inbound, peer, seen, sent, controls>>

\* The handler drops the future of a receive.
CancelRecv ==
    /\ pc \in RecvOps
    /\ pc' = "idle"
    /\ UNCHANGED <<codec, ws, inbound, peer, seen, last, consumed, sent, controls>>

\* on_connected returns Ok: the stream goes to the loop.
HandOff ==
    /\ pc = "idle" /\ pc' = "handed"
    /\ UNCHANGED <<codec, ws, inbound, peer, seen, last, consumed, sent, controls>>

\* on_connected returns Err, or the future of connect is dropped.
Fail ==
    /\ pc \in RecvOps \cup {"idle"} /\ pc' = "failed"
    /\ UNCHANGED <<codec, ws, inbound, peer, seen, last, consumed, sent, controls>>

--------------------------------------------------------------------------------
(* The peer: it may write in its own format, in ours or in none.           *)

Bodies == {encode("Json", Value(0)), encode("MsgPack", Value(0)),
           Item("Binary", "json", 0), Item("Binary", "other", 0)}

PeerFrame ==
    /\ peer = "open" /\ sent < MaxFrames
    /\ sent' = sent + 1
    /\ \E b \in Bodies \cup {Item("Close", "none", 0)} :
        /\ inbound' = Append(inbound, [b EXCEPT !.n = sent + 1])
        /\ peer' = IF b.type = "Close" THEN "closed" ELSE peer
    /\ UNCHANGED <<codec, pc, ws, seen, last, consumed, controls>>

PeerControl ==
    /\ peer = "open" /\ controls < MaxControl
    /\ controls' = controls + 1
    /\ \E t \in {"Ping", "Pong"} : inbound' = Append(inbound, Item(t, "none", 0))
    /\ UNCHANGED <<codec, pc, ws, peer, seen, last, consumed, sent>>

\* The end of the stream or, before a Close, a malformed frame or a reset.
PeerEnds ==
    /\ peer # "gone" /\ peer' = "gone"
    /\ \E t \in IF peer = "open" THEN {"fin", "bad"} ELSE {"fin"} :
        inbound' = Append(inbound, Item(t, "none", 0))
    /\ UNCHANGED <<codec, pc, ws, seen, last, consumed, sent, controls>>

Receive == RecvSkips \/ RecvFrame \/ RecvError \/ RecvNone

Next ==
    \/ \E op \in SendOps : SendFrame(op)
    \/ \E op \in RecvOps : StartRecv(op)
    \/ Receive \/ CancelRecv \/ HandOff \/ Fail
    \/ PeerFrame \/ PeerControl \/ PeerEnds

Spec == Init /\ [][Next]_vars

\* The task that runs connect is scheduled.
LiveSpec == Spec /\ WF_vars(Receive)

--------------------------------------------------------------------------------
FrameTypes == {"Text", "Binary", "Ping", "Pong", "Close", "bad", "fin"}

Items == [type : FrameTypes \cup ErrorVariants \cup {"value", "none"},
          format : {"json", "msgpack", "serializable", "unserializable", "other", "none"},
          n : Nat]

\* Every variable has its type, and a handler has read no more than the peer has sent.
TypeOK ==
    /\ codec \in Codecs /\ pc \in RecvOps \cup {"idle", "handed", "failed"}
    /\ ws \in WsStates /\ {peer, seen} \subseteq {"open", "closed", "gone"}
    /\ inbound \in Seq(Items) /\ \A i \in DOMAIN inbound : inbound[i].type \in FrameTypes
    /\ last \in [op : SendOps \cup RecvOps \cup {"none"}, frame : Items, out : Items]
    /\ sent \in 0..MaxFrames /\ consumed \in 0..sent /\ controls \in 0..MaxControl
    /\ seen # "open" => peer # "open"

\* Positions of the frames that will surface: not the pings and pongs, not the end.
Unread == {i \in DOMAIN inbound : inbound[i].type \in {"Text", "Binary", "Close"}}

\* No frame falls between handler and loop: the handler's receives get the peer's
\* frames 1, 2, 3 ... whatever they are and whether or not they decode, a cancelled
\* receive takes none, and the loop finds exactly the rest, in order.
NothingLostAtHandOff ==
    /\ last.frame # NoFrame => last.frame.n = consumed
    /\ \A i, j \in Unread : i < j => inbound[i].n < inbound[j].n
    /\ {inbound[i].n : i \in Unread} = (consumed + 1)..sent

\* The protocol stays out of the typed interface: no call returns a ping or a pong,
\* and recv reports the peer's Close as WebsocketClosed with every codec, RawCodec
\* included (handler.rs:46-48).
ProtocolFramesHidden ==
    /\ last.out.type \notin {"Ping", "Pong"}
    /\ last.op = "recv" =>
        last.out.type # "Close" /\ (last.frame.type = "Close" => last.out = Error("WebsocketClosed"))

\* Two ends with the same codec understand each other and different ones never
\* misunderstand: recv returns the value a frame was encoded from, and a typed value
\* only from a frame in the codec's own format.
CodecsAgree ==
    last.op = "recv" /\ codec # "Raw" /\ last.frame # NoFrame =>
        /\ last.frame = encode(codec, Value(last.frame.n)) => last.out = Value(last.frame.n)
        /\ last.out.type = "value" =>
            last.frame.format = Format(codec) /\ last.out.n = last.frame.n

\* The socket loop as it starts on what the handler has left: nothing read or queued,
\* the peer in the state the handler has seen.
Loop == INSTANCE SocketLoop WITH
    Sends <- {}, Fires <- {}, Closes <- {}, Finals <- {}, Cancellable <- {}, NoCall <- 0,
    ChannelSize <- 1, Keepalive <- FALSE, Faults <- TRUE, HandlerSawEnd <- TRUE,
    MaxData <- MaxFrames, MaxControl <- MaxControl,
    pc <- "select", state <- "Running", frame <- 0, cur <- 0, tx_chan <- <<>>,
    rx_chan <- <<>>, terminal_error <- "None", ws <- ws, inbound <- <<>>, peer <- seen,
    tx_alive <- TRUE, rx <- "open", call <- <<>>, close_result <- "none", produced <- 0,
    controls <- 0, read <- 0, delivered <- <<>>, accepted <- <<>>, wire <- <<>>,
    rx_saw <- "none", taker <- "nobody"

\* Whatever the handler has done, read or caused, the loop starts in an initial state
\* of SocketLoop; what is unread arrives after that.
HandsOverInitialState == pc = "handed" => Loop!Init

\* A receive returns once something other than pings and pongs has arrived: it waits
\* for the peer only (on_connected itself has no timeout).
RecvReturns ==
    pc \in RecvOps /\ (ws = "Terminated" \/ \E i \in DOMAIN inbound : inbound[i].type \notin {"Ping", "Pong"})
        ~> pc \notin RecvOps

================================================================================
