------------------------------- MODULE Lifecycle -------------------------------
(***************************************************************************)
(* Many connections and the handles that own them: connect, split, clone,  *)
(* reunite, reconnect, close_connection and drop (src/lib.rs,              *)
(* src/split.rs), with the ConnectionHandler's callbacks (src/handler.rs). *)
(*                                                                         *)
(* SocketLoop looks inside one connection.  Here a connection is its loop  *)
(* task (does it accept writes, is it ending, has it ended) and the calls  *)
(* waiting on its channel; the question is which handle reaches which      *)
(* connection while methods are suspended, cancelled or panic.             *)
(***************************************************************************)
EXTENDS Naturals, SequencesExt

CONSTANTS
    Handlers,     \* ConnectionHandler values, one per connect
    NoHandler,    \* "no handler"
    Handles,      \* tasks of the user's program, each owning at most one handle
    ChannelSize,  \* CHANNEL_SIZE
    MaxConns      \* bound: connections established

ASSUME LifecycleSizes ==
    /\ ChannelSize \in Nat \ {0} /\ MaxConns \in Nat
    /\ NoHandler \notin Handlers

Conns == 1..MaxConns

VARIABLES
    handle,    \* what each task owns
    op,        \* where the method running on it is suspended
    loop,      \* the loop task of each connection
    queue,     \* calls on each connection's tx channel: the first ChannelSize are
               \* in it, the others wait for a permit (tokio's semaphore is FIFO)
    owner,     \* history: the ConnectionHandler each connection was made with
    callbacks  \* history: what each ConnectionHandler has been told

history == <<owner, callbacks>>
vars == <<handle, op, loop, queue, history>>

--------------------------------------------------------------------------------
\* Socketeer, SocketeerTx and SocketeerRx.  A field is 0 where the type has none;
\* receiver stands for the JoinHandle too, slot is the identity of the Arc.
HandleType == [kind : {"none", "whole", "tx", "rx"}, sender : Conns \cup {0},
               receiver : Conns \cup {0}, slot : Conns \cup {0},
               handler : Handlers \cup {NoHandler}]

Gone == [kind |-> "none", sender |-> 0, receiver |-> 0, slot |-> 0,
         handler |-> NoHandler]

Whole(k, g) == [kind |-> "whole", sender |-> k, receiver |-> k, slot |-> k,
                handler |-> g]

\* Waits for a one-shot or a permit: send, SocketeerTx::close, and the send_close of
\* reconnect and of close_connection.
WaitOps == {"send", "tx_close", "send_close", "close"}
Ops == {"idle", "on_disconnected", "connect_async", "on_connected", "join",
        "panicked"} \cup WaitOps

\* "closed": a Close frame has been exchanged and the library refuses every write.
LoopStates == {"unborn", "running", "closed", "ending", "ended"}

Payloads == [by : Handles, what : {"data", "close"}, live : BOOLEAN]

Init ==
    /\ handle = [h \in Handles |-> Gone] /\ op = [h \in Handles |-> "idle"]
    /\ loop = [k \in Conns |-> "unborn"] /\ queue = [k \in Conns |-> <<>>]
    /\ owner = [k \in Conns |-> NoHandler] /\ callbacks = [g \in Handlers |-> <<>>]

--------------------------------------------------------------------------------
(* Calls on the tx channel.                                                *)

Ready(h, kinds) == op[h] = "idle" /\ handle[h].kind \in kinds

\* Where the method goes on when send_confirmed or send_close returns, Ok or Err:
\* reconnect ignores the result, close_connection joins the loop.
After(o) == CASE o = "send_close" -> "connect_async"
              [] o = "close" -> "join"
              [] OTHER -> "idle"

\* Enqueue a payload, or find the channel closed.
Enqueue(h, o) ==
    LET k == handle[h].sender
        p == [by |-> h, what |-> IF o = "send" THEN "data" ELSE "close", live |-> TRUE]
    IN  \/ /\ loop[k] = "ended"
           /\ op' = [op EXCEPT ![h] = After(o)] /\ UNCHANGED queue
        \/ /\ loop[k] # "ended"
           /\ op' = [op EXCEPT ![h] = o]
           /\ queue' = [queue EXCEPT ![k] = Append(@, p)]

Send(h) ==
    /\ Ready(h, {"whole", "tx"}) /\ Enqueue(h, "send")
    /\ UNCHANGED <<handle, loop, history>>

TxClose(h) ==
    /\ Ready(h, {"tx"}) /\ Enqueue(h, "tx_close")
    /\ UNCHANGED <<handle, loop, history>>

\* Slip: close_connection relies on the drop of its sender, which comes too late.
CloseConnectionJoins(h) ==
    /\ Ready(h, {"whole"}) /\ op' = [op EXCEPT ![h] = "join"]
    /\ UNCHANGED <<handle, loop, queue, history>>

CloseConnection(h) ==
    /\ Ready(h, {"whole"}) /\ Enqueue(h, "close")
    /\ UNCHANGED <<handle, loop, history>>

\* The task is joined, and self is dropped.
JoinReturn(h) ==
    /\ op[h] = "join" /\ loop[handle[h].receiver] = "ended"
    /\ op' = [op EXCEPT ![h] = "idle"] /\ handle' = [handle EXCEPT ![h] = Gone]
    /\ UNCHANGED <<loop, queue, history>>

Mine(p, h) == p.by = h /\ p.live

\* Slip: the payload of a cancelled call keeps its one-shot alive.
AbandonNothing(q, h) == q

\* The future that waits on q is dropped: a payload in the channel stays there with a
\* dead one-shot, one that still waits for a permit disappears.
Abandon(q, h) ==
    IF \E i \in DOMAIN q : i > ChannelSize /\ Mine(q[i], h)
      THEN RemoveAt(q, CHOOSE i \in DOMAIN q : Mine(q[i], h))
      ELSE [i \in DOMAIN q |-> IF Mine(q[i], h) THEN [q[i] EXCEPT !.live = FALSE] ELSE q[i]]

\* The user drops a pending future; reconnect, close_connection and connect own
\* their handle and take it along, the ConnectionHandler included.
Cancel(h) ==
    /\ op[h] \notin {"idle", "panicked"}
    /\ op' = [op EXCEPT ![h] = "idle"]
    /\ handle' = [handle EXCEPT ![h] = IF op[h] \in {"send", "tx_close"} THEN @ ELSE Gone]
    /\ queue' = [k \in Conns |-> IF k = handle[h].sender /\ op[h] \in WaitOps
                                   THEN Abandon(queue[k], h) ELSE queue[k]]
    /\ UNCHANGED <<loop, history>>

--------------------------------------------------------------------------------
(* connect and reconnect.                                                  *)

Tell(g, what) == callbacks' = [callbacks EXCEPT ![g] = Append(@, what)]

\* connect, connect_with, connect_with_codec with a handler of its own.
Connect(h) ==
    /\ op[h] = "idle" /\ handle[h] = Gone
    /\ \E g \in Handlers :
        /\ callbacks[g] = <<>> /\ \A i \in Handles : handle[i].handler # g
        /\ handle' = [handle EXCEPT ![h].handler = g]
    /\ op' = [op EXCEPT ![h] = "connect_async"]
    /\ UNCHANGED <<loop, queue, history>>

\* connect_async has upgraded a new stream: the handler's on_connected runs on it.
Upgraded(h) ==
    /\ op[h] = "connect_async"
    /\ op' = [op EXCEPT ![h] = "on_connected"]
    /\ Tell(handle[h].handler, "connected")
    /\ UNCHANGED <<handle, loop, queue, owner>>

\* on_connected returns Ok: fresh channels, a fresh slot and a new loop, on a stream
\* on which the handler may have exchanged a Close frame already.  What reconnect
\* still held of the old connection is dropped only now.
Spawn(h) ==
    /\ op[h] = "on_connected"
    /\ \E k \in Conns, s \in {"running", "closed"} :
        /\ loop[k] = "unborn" /\ \A j \in 1..(k - 1) : loop[j] # "unborn"
        /\ loop' = [loop EXCEPT ![k] = s]
        /\ owner' = [owner EXCEPT ![k] = handle[h].handler]
        /\ handle' = [handle EXCEPT ![h] = Whole(k, handle[h].handler)]
    /\ op' = [op EXCEPT ![h] = "idle"]
    /\ UNCHANGED <<queue, callbacks>>

\* The URL, the request, connect_async or on_connected fails: everything is dropped.
ConnectFails(h) ==
    /\ op[h] \in {"connect_async", "on_connected"}
    /\ op' = [op EXCEPT ![h] = "idle"] /\ handle' = [handle EXCEPT ![h] = Gone]
    /\ UNCHANGED <<loop, queue, history>>

\* Slip: the handler is told only of connections that have ended by themselves.
ReconnectTellsIfEnded(h) ==
    /\ Ready(h, {"whole"})
    /\ op' = [op EXCEPT ![h] = "on_disconnected"]
    /\ IF loop[handle[h].slot] = "ended" THEN Tell(handle[h].handler, "disconnected")
       ELSE UNCHANGED callbacks
    /\ UNCHANGED <<handle, loop, queue, owner>>

\* reconnect: on_disconnected first,
Reconnect(h) ==
    /\ Ready(h, {"whole"})
    /\ op' = [op EXCEPT ![h] = "on_disconnected"]
    /\ Tell(handle[h].handler, "disconnected")
    /\ UNCHANGED <<handle, loop, queue, owner>>

\* Slip: reconnect leaves the old connection to the drop of its handle.
ReconnectWithoutClose(h) ==
    /\ op[h] = "on_disconnected"
    /\ op' = [op EXCEPT ![h] = "connect_async"]
    /\ UNCHANGED <<handle, loop, queue, history>>

\* then a Close frame on the old connection, then connect_with_codec.
ReconnectClose(h) ==
    /\ op[h] = "on_disconnected" /\ Enqueue(h, "send_close")
    /\ UNCHANGED <<handle, loop, history>>

--------------------------------------------------------------------------------
(* split, clone, reunite, drop.                                            *)

\* Slip: the receive half keeps a sender, ready for reunite.
SplitKeepingSender(h, t) ==
    /\ Ready(h, {"whole"}) /\ op[t] = "idle" /\ handle[t] = Gone
    /\ handle' = [handle EXCEPT
            ![h] = [@ EXCEPT !.kind = "rx"],
            ![t] = [Gone EXCEPT !.kind = "tx", !.sender = handle[h].sender,
                                !.slot = handle[h].slot]]
    /\ UNCHANGED <<op, loop, queue, history>>

Split(h, t) ==
    /\ Ready(h, {"whole"}) /\ op[t] = "idle" /\ handle[t] = Gone
    /\ handle' = [handle EXCEPT
            ![h] = [@ EXCEPT !.kind = "rx", !.sender = 0],
            ![t] = [Gone EXCEPT !.kind = "tx", !.sender = handle[h].sender,
                                !.slot = handle[h].slot]]
    /\ UNCHANGED <<op, loop, queue, history>>

Clone(t, u) ==
    /\ Ready(t, {"tx"}) /\ op[u] = "idle" /\ handle[u] = Gone
    /\ handle' = [handle EXCEPT ![u] = handle[t]]
    /\ UNCHANGED <<op, loop, queue, history>>

\* Slip: any two halves reunite.
AnyHalves(r, t) == TRUE

\* Arc::ptr_eq on the slots.
SameSlot(r, t) == handle[r].slot = handle[t].slot

\* The halves become a Socketeer; if they do not match, both are handed back.
Reunite(r, t) ==
    /\ Ready(r, {"rx"}) /\ Ready(t, {"tx"}) /\ SameSlot(r, t)
    /\ handle' = [handle EXCEPT
            ![r] = [@ EXCEPT !.kind = "whole", !.sender = handle[t].sender],
            ![t] = Gone]
    /\ UNCHANGED <<op, loop, queue, history>>

Drop(h) ==
    /\ Ready(h, {"whole", "tx", "rx"})
    /\ handle' = [handle EXCEPT ![h] = Gone]
    /\ UNCHANGED <<op, loop, queue, history>>

--------------------------------------------------------------------------------
(* The loops.                                                              *)

Alive(k) == loop[k] \in {"running", "closed"}

\* send_socket_message.  A write fails if the peer is gone or a Close frame has been
\* exchanged; a failed write or a dead one-shot ends the loop.
Serve(k) ==
    /\ Alive(k) /\ queue[k] # <<>>
    /\ \E ok \in IF loop[k] = "running" THEN BOOLEAN ELSE {FALSE} :
        LET p == Head(queue[k])
        IN  /\ loop' = [loop EXCEPT ![k] = IF ~p.live \/ ~ok THEN "ending"
                                           ELSE IF p.what = "close" THEN "closed" ELSE @]
            /\ op' = IF p.live THEN [op EXCEPT ![p.by] = After(@)] ELSE op
    /\ queue' = [queue EXCEPT ![k] = Tail(@)]
    /\ UNCHANGED <<handle, history>>

\* The peer's Close, the end of the stream, a read error, a refused pong or
\* keepalive, or a data frame for which there is no receiver any more.
ConnectionLost(k) ==
    /\ Alive(k)
    /\ loop' = [loop EXCEPT ![k] = "ending"]
    /\ UNCHANGED <<handle, op, queue, history>>

SendersGone(k) ==
    /\ Alive(k) /\ queue[k] = <<>> /\ \A h \in Handles : handle[h].sender # k
    /\ loop' = [loop EXCEPT ![k] = "ending"]
    /\ UNCHANGED <<handle, op, queue, history>>

InChannel(k, h) == \E i \in DOMAIN queue[k] : i <= ChannelSize /\ Mine(queue[k][i], h)
Waiting(k, h) == \E i \in DOMAIN queue[k] : Mine(queue[k][i], h)

\* The loop returns and drops its channel ends.  A call whose payload is in the
\* channel panics, and the task that made it drops what it owns; a call that waits for
\* a permit gets an error.
LoopReturns(k) ==
    /\ loop[k] = "ending"
    /\ loop' = [loop EXCEPT ![k] = "ended"] /\ queue' = [queue EXCEPT ![k] = <<>>]
    /\ op' = [h \in Handles |-> IF InChannel(k, h) THEN "panicked"
                                ELSE IF Waiting(k, h) THEN After(op[h]) ELSE op[h]]
    /\ handle' = [h \in Handles |-> IF InChannel(k, h) THEN Gone ELSE handle[h]]
    /\ UNCHANGED history

--------------------------------------------------------------------------------
Method(h) ==
    \/ Send(h) \/ TxClose(h) \/ CloseConnection(h) \/ JoinReturn(h) \/ Cancel(h)
    \/ Connect(h) \/ Upgraded(h) \/ Spawn(h) \/ ConnectFails(h)
    \/ Reconnect(h) \/ ReconnectClose(h) \/ Drop(h)

TwoHandles(h, i) == Split(h, i) \/ Clone(h, i) \/ Reunite(h, i)

LoopStep(k) == Serve(k) \/ SendersGone(k) \/ LoopReturns(k)

Next ==
    \/ \E h \in Handles : Method(h)
    \/ \E h, i \in Handles : TwoHandles(h, i)
    \/ \E k \in Conns : LoopStep(k) \/ ConnectionLost(k)

Spec == Init /\ [][Next]_vars

--------------------------------------------------------------------------------
(* Safety.                                                                 *)

\* Every variable has its type, and calls and channels agree: a suspended call has
\* exactly one live payload, on the connection its handle sends to, and no other.
TypeOK ==
    /\ handle \in [Handles -> HandleType] /\ op \in [Handles -> Ops]
    /\ loop \in [Conns -> LoopStates] /\ queue \in [Conns -> Seq(Payloads)]
    /\ owner \in [Conns -> Handlers \cup {NoHandler}]
    /\ callbacks \in [Handlers -> Seq({"connected", "disconnected"})]
    /\ \A k \in Conns, h \in Handles :
        /\ Waiting(k, h) <=> op[h] \in WaitOps /\ handle[h].sender = k
        /\ \A i, j \in DOMAIN queue[k] : Mine(queue[k][i], h) /\ Mine(queue[k][j], h) => i = j

\* A Socketeer's sender, receiver and slot are of one connection, the one its handler
\* was told of, through any sequence of split, clone, reunite and reconnect; no two
\* handles share a receiver or a handler.
PartsBelongTogether ==
    /\ \A h \in Handles :
        LET x == handle[h]
        IN  /\ x.kind \in {"whole", "tx"} => x.sender = x.slot
            /\ x.kind \in {"whole", "rx"} => x.receiver = x.slot /\ owner[x.slot] = x.handler
    /\ \A h, i \in Handles : h # i /\ handle[h].kind # "tx" /\ handle[h] # Gone =>
        /\ handle[h].receiver # handle[i].receiver \/ handle[h].receiver = 0
        /\ handle[h].handler # handle[i].handler

\* close_connection never waits for a loop nobody has told to stop: while it joins,
\* the loop has exchanged a Close frame or is on its way out (lib.rs:312-316).
JoinsAClosingLoop ==
    \A h \in Handles : op[h] = "join" => loop[handle[h].receiver] \in {"closed", "ending", "ended"}

\* reconnect waits for the answer to its Close before it connects: a handler never has
\* two connections that accept writes, so no clone of a send half left behind on the
\* old one can get a frame out once the new one is up (lib.rs:283-300).
OneLiveConnection ==
    \A j, k \in Conns : owner[j] = owner[k] /\ loop[j] = "running" /\ loop[k] = "running" => j = k

\* A handler hears connected, disconnected, connected ... whatever is cancelled or
\* fails in between, and whoever can use a connection has a handler that was last told
\* connected (handler.rs:153-168).
CallbacksAlternate ==
    /\ \A g \in Handlers : \A i \in DOMAIN callbacks[g] :
        callbacks[g][i] = IF i % 2 = 1 THEN "connected" ELSE "disconnected"
    /\ \A h \in Handles : handle[h].kind \in {"whole", "rx"} /\ op[h] \in {"idle", "send"} =>
        Len(callbacks[handle[h].handler]) % 2 = 1

Abandoned(k) ==
    loop[k] # "unborn" /\ \A h \in Handles : handle[h].kind \in {"whole", "tx"} => handle[h].slot # k

\* No loop outlives the handles that can send on it: not after drop or reconnect, after
\* a cancelled or panicked method, or while the receive half is kept.  Once they are
\* gone the loop waits for nobody: it has a step of its own to take until it has ended.
NoOrphanLoop ==
    \A k \in Conns : Abandoned(k) /\ loop[k] # "ended" => ENABLED LoopStep(k)

================================================================================
