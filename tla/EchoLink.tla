-------------------------------- MODULE EchoLink -------------------------------
(***************************************************************************)
(* A socketeer connection (SocketLoop) and echo_server (MockServer) at the *)
(* two ends of a TCP connection whose buffers are bounded.  A write that   *)
(* finds its buffer full waits, and while it waits neither the loop nor    *)
(* the server reads: each may be waiting for the other.                    *)
(*                                                                         *)
(* The handles are kept and no call is cancelled, so the connection ends   *)
(* by a Close only; what a server does without its client is in MockServer.*)
(***************************************************************************)
EXTENDS SocketLoop, FiniteSets

CONSTANTS
    ToServer,  \* frames the buffers hold on the way to the server
    ToClient   \* frames they hold on the way back

ASSUME LinkAssumption ==
    /\ ToServer \in Nat \ {0} /\ ToClient \in Nat \ {0}
    /\ IsFiniteSet(Calls) /\ MaxData = Cardinality(Sends \cup Fires)
    /\ ~Faults /\ ~HandlerSawEnd /\ Cancellable = {} /\ MaxControl = 0 /\ ~Keepalive

VARIABLES
    taken,   \* how many frames of wire the server has read
    held,    \* the frame it has read and not answered, or NoCall
    serving  \* has the handler not returned?

server == <<taken, held, serving>>
linkVars == <<vars, server>>

LinkInit == Init /\ taken = 0 /\ held = NoCall /\ serving = TRUE

--------------------------------------------------------------------------------
OnTheWay == Len(wire) - taken

\* Slip: sink.send waits until the peer has read what was sent before.
WriteReadyWhenRead == pc = "sending" /\ ws = "Active" => OnTheWay = 0

\* sink.send returns when the frame is in the buffer, or at once if it is refused.
WriteReady == pc = "sending" /\ ws = "Active" => OnTheWay < ToServer

\* A step of the client's end.
Client(A) == A /\ WriteReady /\ UNCHANGED server

\* stream.next() in echo_server, which then answers before it reads again.
ServerReads ==
    /\ serving /\ pc # "done" /\ held = NoCall /\ taken < Len(wire)
    /\ held' = wire[taken + 1] /\ taken' = taken + 1
    /\ UNCHANGED <<vars, serving>>

\* Slip: the server echoes the same message again.
ServerEchoesAgain ==
    /\ serving /\ pc # "done" /\ held \in Sends \cup Fires /\ Len(inbound) < ToClient
    /\ PeerData /\ UNCHANGED server

\* The echo: sink.send(message).await.
ServerEchoes ==
    /\ serving /\ pc # "done" /\ held \in Sends \cup Fires /\ Len(inbound) < ToClient
    /\ PeerData /\ held' = NoCall /\ UNCHANGED <<taken, serving>>

\* The answer to our Close, and the end of echo_server.
ServerCloses ==
    /\ serving /\ pc # "done" /\ held \in CloseCalls /\ Len(inbound) < ToClient
    /\ PeerClose /\ held' = NoCall /\ serving' = FALSE /\ UNCHANGED taken

Server == ServerReads \/ ServerEchoes \/ ServerCloses

LinkNext ==
    \/ \E c \in Calls : Client(CallStep(c))
    \/ Client(Consumer) \/ Client(Loop)
    \/ Server

LinkSpec == LinkInit /\ [][LinkNext]_linkVars

--------------------------------------------------------------------------------
(* The server's end implements MockServer.                                 *)

\* How many of the first i frames of w are messages: nothing follows a Close.
MessagesIn(w, i) == IF i > 0 /\ w[i] \in CloseCalls THEN i - 1 ELSE i

\* Frame i of w, and all frames after the first u, as MockServer's client sends them.
ClientFrame(w, i) ==
    [kind |-> IF w[i] \in CloseCalls THEN "close" ELSE "Message", n |-> MessagesIn(w, i)]

FramesAfter(w, u) == [i \in 1..(Len(w) - u) |-> ClientFrame(w, u + i)]

Unanswered == IF held = NoCall THEN taken ELSE taken - 1

Mock == INSTANCE MockServer WITH
    Clients <- {"link"}, NoClient <- "nobody", Flavours <- {"json"},
    Kinds <- {"Message", "close"}, MaxFrames <- Cardinality(Calls),
    flavour <- "json", srv <- IF serving THEN "serving" ELSE "accepting",
    who <- IF serving THEN "link" ELSE "nobody",
    ws <- IF serving THEN "Active" ELSE "ClosedByPeer",
    shutting_down <- FALSE, backlog <- <<>>,
    client <- [c \in {"link"} |-> IF ~serving THEN "gone"
                                  ELSE IF ws # "Active" THEN "closing" ELSE "connected"],
    inbox <- [c \in {"link"} |-> FramesAfter(wire, Unanswered)],
    frames <- [c \in {"link"} |-> Len(wire)],
    messages <- [c \in {"link"} |-> MessagesIn(wire, Len(wire))],
    echoes <- [c \in {"link"} |-> [i \in 1..produced |-> i]],
    asked <- FALSE

\* Every step of the composed system is, at the server's end, a step of MockServer or
\* none: the peer that SocketLoop leaves open is here the one the tests use.
ServerIsMock == [][Mock!Next]_(Mock!vars)

--------------------------------------------------------------------------------
\* The loop waits in sink.send for the server to read, and the server in its own
\* sink.send for the loop to read: nothing can move.
MutualWait == ~WriteReady /\ held \in Sends \cup Fires /\ Len(inbound) >= ToClient

\* Messages the loop has taken from its channel and not read the echo of.
Outstanding == Len(wire) + (IF pc = "sending" THEN 1 ELSE 0) - read

\* The only way to the mutual wait is to have as many messages outstanding as both
\* buffers and the two ends hold: a client that stays below that is safe from it.  (The loop
\* does not read while sink.send is pending, socket_loop.rs:234.)
MutualWaitNeedsWindow == MutualWait => Outstanding >= ToServer + ToClient + 2

\* And the mutual wait is the only wait: as long as a message has not come back to a
\* consumer that keeps reading, and nobody has closed, somebody can take a step.
OnlyMutualWait ==
    \/ MutualWait \/ Len(delivered) >= Len(accepted) \/ ws # "Active" \/ rx # "open"
    \/ ENABLED (Client(Consumer) \/ Client(Loop) \/ Server)

================================================================================
