------------------------------ MODULE MockServer -------------------------------
(***************************************************************************)
(* The mock servers of the `mocking` feature (src/mock_server.rs):         *)
(* get_mock_address accepts one client at a time and runs echo_server,     *)
(* msgpack_echo_server or auth_echo_server on it.  Clients send any        *)
(* sequence of frames and may vanish at any time.                          *)
(***************************************************************************)
EXTENDS Naturals, Sequences, WebSocket

CONSTANTS
    Clients,    \* the clients
    NoClient,   \* "no client"
    Flavours,   \* handlers get_mock_address may have been given
    Kinds,      \* kinds of frames clients send, see ClientKinds
    MaxFrames   \* bound: frames a client sends

\* EchoControlMessages in the handler's own encoding, an AuthMsg with the right and
\* with a wrong token, a body that is none of these ("garbage"), a data frame of the
\* type the handler ignores ("other"), and the protocol's frames.
ClientKinds == {"Message", "SendPing", "Close", "Abort", "auth", "badauth", "garbage",
                "other", "ping", "pong", "close"}

ASSUME MockServerConstants ==
    /\ NoClient \notin Clients /\ MaxFrames \in Nat
    /\ Flavours \subseteq {"json", "msgpack", "auth"} /\ Kinds \subseteq ClientKinds

VARIABLES
    flavour,       \* the handler
    srv,           \* the server task: where it waits, or how it ended
    who,           \* the client being served
    ws,            \* the server's side of its connection
    shutting_down, \* has the handler sent a Close frame on request?
    backlog,       \* clients the listener has not accepted
    client,        \* "new", "connecting", "connected", "closing" or "gone"
    inbox,         \* frames of each client the server has not read
    frames,        \* history: frames each client has sent
    messages,      \* history: how many of them were Messages
    echoes,        \* history: numbers of the Messages echoed to each client
    asked          \* history: has a client asked for the end of the server?

connection == <<srv, who, ws, shutting_down>>
clients == <<client, inbox, frames, messages>>
vars == <<flavour, connection, backlog, clients, echoes, asked>>

Init ==
    /\ flavour \in Flavours /\ srv = "accepting" /\ who = NoClient
    /\ ws = "Active" /\ shutting_down = FALSE /\ backlog = <<>>
    /\ client = [c \in Clients |-> "new"] /\ inbox = [c \in Clients |-> <<>>]
    /\ frames = [c \in Clients |-> 0] /\ messages = [c \in Clients |-> 0]
    /\ echoes = [c \in Clients |-> <<>>] /\ asked = FALSE

--------------------------------------------------------------------------------
(* get_mock_address.                                                       *)

\* Slip: the accept loop does not wait for the handler.
AcceptsAnytime == srv \in {"accepting", "serving"}

\* The accept loop awaits the handler before it accepts again.
Accepts == srv = "accepting"

\* listener.accept and accept_async; the upgrade of a client that has vanished may
\* fail, and is unwrapped.
Accept ==
    /\ Accepts /\ backlog # <<>>
    /\ backlog' = Tail(backlog)
    /\ \/ /\ who' = Head(backlog)
          /\ srv' = IF flavour = "auth" THEN "auth" ELSE "serving"
          /\ client' = [client EXCEPT ![who'] = IF @ = "gone" THEN @ ELSE "connected"]
       \/ /\ client[Head(backlog)] = "gone"
          /\ srv' = "panicked" /\ UNCHANGED <<who, client>>
    /\ ws' = "Active" /\ shutting_down' = FALSE
    /\ UNCHANGED <<flavour, inbox, frames, messages, echoes, asked>>

\* The handler returns and its socket is dropped: Ok(true) ends the server, Ok(false)
\* accepts the next client, an Err is unwrapped.
Finish(result) ==
    /\ srv' = CASE result = "true" -> "exited"
                [] result = "false" -> "accepting"
                [] OTHER -> "panicked"
    /\ who' = NoClient /\ client' = [client EXCEPT ![who] = "gone"]

Continue == srv' = "serving" /\ UNCHANGED <<who, client>>

Return(down) == Finish(IF down THEN "true" ELSE "false")

--------------------------------------------------------------------------------
(* echo_server and msgpack_echo_server.                                    *)

\* stream.next() yields a frame of one of these kinds.
Reads(kinds) ==
    /\ srv \in {"auth", "serving"} /\ inbox[who] # <<>> /\ ws # "Terminated"
    /\ Head(inbox[who]).kind \in kinds
    /\ inbox' = [inbox EXCEPT ![who] = Tail(@)]

\* sink.send(...).await: on failure the handler returns the error (?) or panics
\* (unwrap), which is the same to the server task.
Sent == SendOutcomes(ws, client[who] = "gone")

\* Slip: after its own Close the server drops the message instead of failing.
EchoUnlessClosing(ok) == IF ok \/ shutting_down THEN Continue ELSE Finish("err")

ContinueIf(ok) == IF ok THEN Continue ELSE Finish("err")

EchoMessage ==
    /\ srv = "serving" /\ Reads({"Message"})
    /\ \E ok \in Sent :
        /\ ContinueIf(ok)
        /\ echoes' = IF ok THEN [echoes EXCEPT ![who] = Append(@, Head(inbox[who]).n)]
                     ELSE echoes
    /\ UNCHANGED <<flavour, ws, shutting_down, backlog, frames, messages, asked>>

\* A Ping on request, or a Pong for a ping.
AnswerControl ==
    /\ srv = "serving" /\ Reads({"SendPing", "ping"})
    /\ \E ok \in Sent : ContinueIf(ok)
    /\ UNCHANGED <<flavour, ws, shutting_down, backlog, frames, messages, echoes, asked>>

CloseRequested ==
    /\ srv = "serving" /\ Reads({"Close"})
    /\ \E ok \in Sent : ContinueIf(ok) /\ shutting_down' = (shutting_down \/ ok)
    /\ ws' = AfterSendClose(ws) /\ asked' = TRUE
    /\ UNCHANGED <<flavour, backlog, frames, messages, echoes>>

\* The socket is dropped without a closing handshake.
AbortRequested ==
    /\ srv = "serving" /\ Reads({"Abort"})
    /\ Return(TRUE) /\ asked' = TRUE
    /\ UNCHANGED <<flavour, ws, shutting_down, backlog, frames, messages, echoes>>

\* The body does not deserialize: unwrap.
Unparsable ==
    /\ srv = "serving" /\ Reads({"garbage", "auth", "badauth"})
    /\ Finish("err")
    /\ UNCHANGED <<flavour, ws, shutting_down, backlog, frames, messages, echoes, asked>>

\* Pongs and data frames of the other type.
Ignored ==
    /\ srv = "serving" /\ Reads({"pong", "other"})
    /\ Continue
    /\ UNCHANGED <<flavour, ws, shutting_down, backlog, frames, messages, echoes, asked>>

\* Slip: a client's Close ends the server.
ResultTrue == TRUE

Result == shutting_down

\* The client's Close, possibly the answer to ours.
CloseReceived ==
    /\ srv = "serving" /\ Reads({"close"})
    /\ ws' = AfterRecvClose(ws)
    /\ \E ok \in IF shutting_down THEN {TRUE} ELSE CloseOutcomes(client[who] = "gone") :
        IF ok THEN Return(Result) ELSE Finish("err")
    /\ UNCHANGED <<flavour, shutting_down, backlog, frames, messages, echoes, asked>>

\* Slip: the handler waits on a stream that has ended.
StreamEndsIfClosed ==
    /\ srv = "serving" /\ Reads({"fin"}) /\ ~ResetWithoutClosingHandshake(ws)
    /\ Return(Result) /\ UNCHANGED ws
    /\ UNCHANGED <<flavour, shutting_down, backlog, frames, messages, echoes, asked>>

\* The end of the stream.  Before a closing handshake it is an error first, which the
\* match ignores, and then None.
StreamEnds ==
    /\ srv = "serving" /\ Reads({"fin"})
    /\ ws' = IF ResetWithoutClosingHandshake(ws) THEN "Terminated" ELSE ws
    /\ Return(Result)
    /\ UNCHANGED <<flavour, shutting_down, backlog, frames, messages, echoes, asked>>

--------------------------------------------------------------------------------
(* The first frame of auth_echo_server.                                    *)

AuthAccepted ==
    /\ srv = "auth" /\ Reads({"auth"})
    /\ \E ok \in Sent : ContinueIf(ok)
    /\ UNCHANGED <<flavour, ws, shutting_down, backlog, frames, messages, echoes, asked>>

AuthRejected ==
    /\ srv = "auth" /\ Reads({"badauth"})
    /\ \E ok \in Sent : IF ok THEN Return(TRUE) ELSE Finish("err")
    /\ asked' = TRUE
    /\ UNCHANGED <<flavour, ws, shutting_down, backlog, frames, messages, echoes>>

\* Anything that is no AuthMsg in a text frame, or the end of the stream, is dropped,
\* and echo_server goes on from there.
AuthSkipped ==
    /\ srv = "auth" /\ Reads((ClientKinds \cup {"fin"}) \ {"auth", "badauth"})
    /\ ws' = CASE Head(inbox[who]).kind = "close" -> AfterRecvClose(ws)
               [] Head(inbox[who]).kind = "fin" -> "Terminated"
               [] OTHER -> ws
    /\ Continue
    /\ UNCHANGED <<flavour, shutting_down, backlog, frames, messages, echoes, asked>>

\* The end was read in place of the auth message: the next read yields None.
EndsUnauthenticated ==
    /\ srv = "serving" /\ ws = "Terminated"
    /\ Return(Result)
    /\ UNCHANGED <<flavour, ws, shutting_down, backlog, inbox, frames, messages, echoes,
                   asked>>

--------------------------------------------------------------------------------
(* The clients.                                                            *)

Connect(c) ==
    /\ client[c] = "new" /\ srv \notin {"exited", "panicked"}
    /\ client' = [client EXCEPT ![c] = "connecting"] /\ backlog' = Append(backlog, c)
    /\ UNCHANGED <<flavour, connection, inbox, frames, messages, echoes, asked>>

SendFrame(c, kind) ==
    /\ client[c] = "connected" /\ frames[c] < MaxFrames
    /\ frames' = [frames EXCEPT ![c] = @ + 1]
    /\ messages' = [messages EXCEPT ![c] = IF kind = "Message" THEN @ + 1 ELSE @]
    /\ inbox' = [inbox EXCEPT ![c] = Append(@, [kind |-> kind, n |-> messages'[c]])]
    /\ client' = [client EXCEPT ![c] = IF kind = "close" THEN "closing" ELSE @]
    /\ UNCHANGED <<flavour, connection, backlog, echoes, asked>>

\* The client closes the TCP stream, or is gone.
Leave(c) ==
    /\ client[c] \in {"connecting", "connected", "closing"}
    /\ client' = [client EXCEPT ![c] = "gone"]
    /\ inbox' = [inbox EXCEPT ![c] = Append(@, [kind |-> "fin", n |-> messages[c]])]
    /\ UNCHANGED <<flavour, connection, backlog, frames, messages, echoes, asked>>

--------------------------------------------------------------------------------
EchoServer ==
    \/ EchoMessage \/ AnswerControl \/ CloseRequested \/ AbortRequested \/ Unparsable
    \/ Ignored \/ CloseReceived \/ StreamEnds

AuthServer == AuthAccepted \/ AuthRejected \/ AuthSkipped \/ EndsUnauthenticated

Server == Accept \/ EchoServer \/ AuthServer

Next ==
    \/ Server
    \/ \E c \in Clients : Connect(c) \/ Leave(c) \/ \E kind \in Kinds : SendFrame(c, kind)

Spec == Init /\ [][Next]_vars

\* The server task is scheduled, and no client stays connected for ever; a client
\* that waits for its turn is patient.
LiveSpec ==
    Spec /\ WF_vars(Server) /\ \A c \in Clients : WF_vars(client[c] # "connecting" /\ Leave(c))

--------------------------------------------------------------------------------
Frame == [kind : ClientKinds \cup {"fin"}, n : Nat]

\* Every variable has its type, a client is served only while the server runs, and
\* nothing is read from anybody else.
TypeOK ==
    /\ flavour \in Flavours /\ srv \in {"accepting", "auth", "serving", "exited", "panicked"}
    /\ who \in Clients \cup {NoClient} /\ (who # NoClient <=> srv \in {"auth", "serving"})
    /\ ws \in WsStates /\ shutting_down \in BOOLEAN /\ backlog \in Seq(Clients)
    /\ client \in [Clients -> {"new", "connecting", "connected", "closing", "gone"}]
    /\ inbox \in [Clients -> Seq(Frame)] /\ echoes \in [Clients -> Seq(Nat)]
    /\ frames \in [Clients -> 0..MaxFrames] /\ messages \in [Clients -> 0..MaxFrames]
    /\ asked \in BOOLEAN
    /\ \A c \in Clients : client[c] \in {"connected", "closing"} <=> c = who /\ client[c] # "gone"

\* The Messages in q are those numbered lo + 1 to hi, in order.
Continues(q, lo, hi) ==
    LET at == {i \in DOMAIN q : q[i].kind = "Message"}
    IN  /\ \A i, j \in at : i < j => q[i].n < q[j].n
        /\ {q[i].n : i \in at} = (lo + 1)..hi

\* Messages are echoed in order, each once; while the server serves, every Message it
\* has read has been echoed, except one that auth_echo_server took for the auth message.
EchoesEveryMessage ==
    \A c \in Clients :
        LET e == echoes[c]
            skipped == IF flavour = "auth" /\ e # <<>> THEN e[1] - 1 ELSE 0
        IN  /\ skipped \in {0, 1} /\ \A i \in DOMAIN e : e[i] = i + skipped
            /\ c = who /\ (flavour = "auth" => e # <<>>) => Continues(inbox[c], Len(e) + skipped, messages[c])

\* The server outlives its clients: it exits only if a client asked for it (Close,
\* Abort) or was rejected, never because one closed or vanished, so that a test can
\* reconnect to it.
ExitsOnlyWhenAsked == srv = "exited" => asked

\* Clients are served one at a time, but each gets its turn, if only the ones before it
\* leave and none of them makes the server end.
EveryoneServed ==
    \A c \in Clients : client[c] = "connecting" ~>
        client[c] # "connecting" \/ srv \in {"exited", "panicked"}

================================================================================
