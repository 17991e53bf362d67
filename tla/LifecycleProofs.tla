----------------------------- MODULE LifecycleProofs ---------------------------
(***************************************************************************)
(* Proofs about Lifecycle, for any number of handles, handlers and         *)
(* connections and every CHANNEL_SIZE.                                     *)
(***************************************************************************)
EXTENDS Lifecycle, SequenceTheorems, TLAPS

Connecting == {"connect_async", "on_connected"}
Untold == {"on_disconnected", "send_close", "connect_async"}

\* The fields each type has, and the methods that can be suspended on it.
HandleOK(h) ==
    /\ handle[h].kind = "none" =>
        /\ handle[h].sender = 0 /\ handle[h].receiver = 0 /\ handle[h].slot = 0
        /\ op[h] \in Connecting \cup {"idle", "panicked"}
        /\ handle[h].handler \in Handlers <=> op[h] \in Connecting
    /\ handle[h].kind = "whole" =>
        /\ handle[h].sender = handle[h].slot /\ handle[h].receiver = handle[h].slot
        /\ handle[h].handler \in Handlers /\ op[h] \notin {"tx_close", "panicked"}
    /\ handle[h].kind = "tx" =>
        /\ handle[h].sender = handle[h].slot /\ handle[h].receiver = 0
        /\ handle[h].handler = NoHandler /\ op[h] \in {"idle", "send", "tx_close"}
    /\ handle[h].kind = "rx" =>
        /\ handle[h].sender = 0 /\ handle[h].receiver = handle[h].slot
        /\ handle[h].handler \in Handlers /\ op[h] = "idle"
    /\ handle[h].kind # "none" => handle[h].slot \in Conns /\ loop[handle[h].slot] # "unborn"
    /\ handle[h].receiver # 0 => owner[handle[h].receiver] = handle[h].handler

\* Receivers and handlers are not shared.
Unshared ==
    \A h, i \in Handles : h # i =>
        /\ handle[h].receiver # 0 => handle[h].receiver # handle[i].receiver
        /\ handle[h].handler \in Handlers => handle[h].handler # handle[i].handler

\* A live payload is what the call suspended on it sends.
PayloadOK ==
    \A k \in Conns, h \in Handles : \A i \in DOMAIN queue[k] :
        Mine(queue[k][i], h) => (queue[k][i].what = "data" <=> op[h] = "send")

\* A handler has been told of every connection made with it, and has one that
\* accepts writes only while its handle holds that one and is not making another.
OwnerOK ==
    /\ \A k \in Conns : loop[k] = "unborn" <=> owner[k] = NoHandler
    /\ \A k \in Conns : owner[k] # NoHandler => callbacks[owner[k]] # <<>>
    /\ \A h \in Handles, k \in Conns :
        handle[h].handler \in Handlers /\ owner[k] = handle[h].handler /\ loop[k] = "running" =>
            k = handle[h].receiver /\ op[h] \notin Connecting
    /\ OneLiveConnection

\* What a handler was told last.
ToldOK ==
    /\ \A g \in Handlers : \A i \in DOMAIN callbacks[g] :
        callbacks[g][i] = IF i % 2 = 1 THEN "connected" ELSE "disconnected"
    /\ \A h \in Handles : handle[h].handler \in Handlers =>
        (Len(callbacks[handle[h].handler]) % 2 = 1 <=> op[h] \notin Untold)

HandlesOK == \A h \in Handles : HandleOK(h)

\* TypeOK in two parts.
Types ==
    /\ handle \in [Handles -> HandleType] /\ op \in [Handles -> Ops]
    /\ loop \in [Conns -> LoopStates] /\ queue \in [Conns -> Seq(Payloads)]
    /\ owner \in [Conns -> Handlers \cup {NoHandler}]
    /\ callbacks \in [Handlers -> Seq({"connected", "disconnected"})]

Agree ==
    \A k \in Conns, h \in Handles :
        /\ Waiting(k, h) <=> op[h] \in WaitOps /\ handle[h].sender = k
        /\ \A i, j \in DOMAIN queue[k] : Mine(queue[k][i], h) /\ Mine(queue[k][j], h) => i = j

HandleInv == HandlesOK /\ Unshared /\ OwnerOK /\ ToldOK /\ JoinsAClosingLoop
QueueInv == Agree /\ PayloadOK
IInv == Types /\ HandleInv /\ QueueInv

LEMMA InitIInv == Init => IInv
<1> SUFFICES ASSUME Init PROVE IInv
  OBVIOUS
<1> USE LifecycleSizes DEF Init
<1>1. Types
  BY DEF Types, HandleType, Gone, Ops, LoopStates
<1>2. HandlesOK
  BY DEF HandlesOK, HandleOK, Gone, Connecting
<1>3. Unshared
  BY DEF Unshared, Gone
<1>4. OwnerOK
  BY DEF OwnerOK, OneLiveConnection, Gone
<1>5. ToldOK
  BY DEF ToldOK, Gone
<1>6. JoinsAClosingLoop
  BY DEF JoinsAClosingLoop
<1>7. Agree /\ PayloadOK
  BY DEF Agree, PayloadOK, Waiting, WaitOps
<1> QED BY <1>1, <1>2, <1>3, <1>4, <1>5, <1>6, <1>7 DEF IInv, HandleInv, QueueInv

--------------------------------------------------------------------------------
(* Steps that make no connection and tell no handler anything.             *)

Closing == {"closed", "ending", "ended"}

\* No loop comes into being or accepts writes again.
LoopsGoOn ==
    /\ loop' \in [Conns -> LoopStates]
    /\ \A k \in Conns : /\ loop'[k] = "running" => loop[k] = "running"
                        /\ loop'[k] = "unborn" <=> loop[k] = "unborn"
                        /\ loop[k] \in Closing => loop'[k] \in Closing

\* What may happen to a handle: it loses its receiver and its handler or keeps both,
\* and it starts to connect or to join only when its loop takes no more writes.
Move(i) ==
    /\ handle'[i] \in HandleType /\ op'[i] \in Ops
    /\ HandleOK(i)'
    /\ handle'[i].receiver \in {0, handle[i].receiver}
    /\ handle'[i].handler \in {NoHandler, handle[i].handler}
    /\ handle'[i].handler \in Handlers =>
        /\ handle'[i].receiver = handle[i].receiver
        /\ op'[i] \in Untold <=> op[i] \in Untold
        /\ op'[i] \in Connecting => op[i] \in Connecting \/ loop'[handle[i].receiver] # "running"
    /\ op'[i] = "join" => loop'[handle'[i].receiver] \in Closing

LEMMA SteadyStep ==
  ASSUME IInv, UNCHANGED history, LoopsGoOn, \A i \in Handles : Move(i)
  PROVE  HandleInv'
<1> USE DEF IInv, HandleInv, history
<1>1. HandlesOK'
  BY DEF HandlesOK, Move
<1>2. Unshared'
  BY LifecycleSizes DEF Unshared, Move
<1>3. OwnerOK'
  <2>1. \A k \in Conns : loop'[k] = "unborn" <=> owner'[k] = NoHandler
    BY DEF OwnerOK, LoopsGoOn
  <2>2. \A k \in Conns : owner'[k] # NoHandler => callbacks'[owner'[k]] # <<>>
    BY DEF OwnerOK
  <2>3. ASSUME NEW h \in Handles, NEW k \in Conns,
               handle'[h].handler \in Handlers, owner'[k] = handle'[h].handler, loop'[k] = "running"
        PROVE  k = handle'[h].receiver /\ op'[h] \notin Connecting
    <3>1. handle[h].handler = handle'[h].handler /\ handle'[h].receiver = handle[h].receiver
      BY <2>3, LifecycleSizes DEF Move
    <3>2. k = handle[h].receiver /\ op[h] \notin Connecting
      BY <2>3, <3>1 DEF OwnerOK, LoopsGoOn
    <3> QED BY <2>3, <3>1, <3>2 DEF Move
  <2>4. OneLiveConnection'
    BY DEF OwnerOK, OneLiveConnection, LoopsGoOn
  <2> QED BY <2>1, <2>2, <2>3, <2>4 DEF OwnerOK
<1>4. ToldOK'
  <2>1. ASSUME NEW h \in Handles, handle'[h].handler \in Handlers
        PROVE  Len(callbacks'[handle'[h].handler]) % 2 = 1 <=> op'[h] \notin Untold
    <3>1. handle[h].handler = handle'[h].handler /\ (op'[h] \in Untold <=> op[h] \in Untold)
      BY <2>1, LifecycleSizes DEF Move
    <3> QED BY <2>1, <3>1 DEF ToldOK
  <2> QED BY <2>1 DEF ToldOK
<1>5. JoinsAClosingLoop'
  BY DEF JoinsAClosingLoop, Move, Closing
<1> QED BY <1>1, <1>2, <1>3, <1>4, <1>5

LEMMA StaysPut ==
  ASSUME IInv, UNCHANGED history, LoopsGoOn, NEW i \in Handles,
         handle'[i] = handle[i], op'[i] = op[i]
  PROVE  Move(i)
<1>1. handle[i] \in HandleType /\ op[i] \in Ops
  BY DEF IInv, Types
<1>2. HandleOK(i)'
  BY <1>1 DEF IInv, HandleInv, HandlesOK, HandleOK, LoopsGoOn, history
<1>3. op[i] = "join" => handle[i].receiver \in Conns /\ loop[handle[i].receiver] \in Closing
  BY <1>1 DEF IInv, HandleInv, HandlesOK, HandleOK, JoinsAClosingLoop, Closing, Connecting, HandleType
<1>4. op'[i] = "join" => loop'[handle'[i].receiver] \in Closing
  BY <1>3 DEF LoopsGoOn
<1> QED BY <1>1, <1>2, <1>4 DEF Move

--------------------------------------------------------------------------------
(* The calls on the tx channels.                                           *)

LEMMA QuietQueue ==
  ASSUME IInv, queue' = queue,
         \A h \in Handles : op[h] \in WaitOps =>
            op'[h] = op[h] /\ handle'[h].sender = handle[h].sender,
         \A h \in Handles : op[h] \notin WaitOps => op'[h] \notin WaitOps
  PROVE  QueueInv'
<1>1. \A k \in Conns, h \in Handles : Waiting(k, h)' <=> Waiting(k, h)
  BY DEF Waiting
<1>2. Agree'
  BY <1>1 DEF IInv, QueueInv, Agree
<1>3. ASSUME NEW k \in Conns, NEW h \in Handles, NEW i \in DOMAIN queue[k], Mine(queue[k][i], h)
      PROVE  queue[k][i].what = "data" <=> op'[h] = "send"
  <2>1. op[h] \in WaitOps
    BY <1>3 DEF IInv, QueueInv, Agree, Waiting
  <2> QED BY <1>3, <2>1 DEF IInv, QueueInv, PayloadOK
<1>4. PayloadOK'
  BY <1>3 DEF PayloadOK
<1> QED BY <1>2, <1>4 DEF QueueInv

LEMMA AfterLeaves ==
  ASSUME NEW o \in WaitOps
  PROVE  /\ After(o) \in Ops \ WaitOps
         /\ After(o) = "connect_async" <=> o = "send_close"
         /\ After(o) = "join" <=> o = "close"
         /\ After(o) = "idle" <=> o \in {"send", "tx_close"}
BY DEF After, WaitOps, Ops

LEMMA EnqueueQueue ==
  ASSUME IInv, NEW h \in Handles, NEW o \in WaitOps, op[h] \notin WaitOps,
         handle[h].sender \in Conns, Enqueue(h, o), handle' = handle
  PROVE  QueueInv' /\ queue' \in [Conns -> Seq(Payloads)] /\ op' \in [Handles -> Ops]
<1> DEFINE k == handle[h].sender
           p == [by |-> h, what |-> IF o = "send" THEN "data" ELSE "close", live |-> TRUE]
<1>0. op \in [Handles -> Ops] /\ queue \in [Conns -> Seq(Payloads)] /\ queue[k] \in Seq(Payloads)
      /\ k \in Conns /\ After(o) \in Ops \ WaitOps /\ o \in Ops
  BY AfterLeaves DEF IInv, Types, Ops
<1>1. CASE op' = [op EXCEPT ![h] = After(o)] /\ queue' = queue
  <2>1. \A g \in Handles : g # h => op'[g] = op[g]
    BY <1>0, <1>1
  <2>2. op'[h] \notin WaitOps /\ op' \in [Handles -> Ops]
    BY <1>0, <1>1
  <2>3. QueueInv'
    BY <1>1, <2>1, <2>2, QuietQueue
  <2> QED BY <1>0, <1>1, <2>2, <2>3
<1>2. CASE op' = [op EXCEPT ![h] = o] /\ queue' = [queue EXCEPT ![k] = Append(@, p)]
  <2>1. p \in Payloads /\ p.by = h /\ p.live /\ (p.what = "data" <=> o = "send")
    BY DEF Payloads
  <2>2. op' \in [Handles -> Ops] /\ op'[h] = o /\ \A g \in Handles : g # h => op'[g] = op[g]
    BY <1>0, <1>2
  <2> HIDE DEF p
  <2>3. /\ queue' \in [Conns -> Seq(Payloads)] /\ queue'[k] = Append(queue[k], p)
        /\ \A j \in Conns : j # k => queue'[j] = queue[j]
    BY <1>0, <1>2, <2>1
  <2>4. /\ DOMAIN queue[k] = 1..Len(queue[k]) /\ Len(queue[k]) \in Nat
        /\ DOMAIN queue'[k] = 1..(Len(queue[k]) + 1) /\ queue'[k][Len(queue[k]) + 1] = p
        /\ \A i \in 1..Len(queue[k]) : queue'[k][i] = queue[k][i]
    BY <1>0, <2>3
  <2>5. \A j \in Conns : ~Waiting(j, h)
    BY DEF IInv, QueueInv, Agree
  <2>6. \A g \in Handles : Mine(p, g) <=> g = h
    BY <2>1 DEF Mine
  <2>7. \A i \in DOMAIN queue'[k] : i \in DOMAIN queue[k] \/ i = Len(queue[k]) + 1
    BY <2>4
  <2>8. \A i \in DOMAIN queue[k] : i \in DOMAIN queue'[k] /\ queue'[k][i] = queue[k][i] /\ i # Len(queue[k]) + 1
    BY <2>4
  <2>9. /\ Len(queue[k]) + 1 \in DOMAIN queue'[k] /\ queue'[k][Len(queue[k]) + 1] = p
    BY <2>4
  <2>10. ASSUME NEW j \in Conns, NEW g \in Handles
         PROVE  Waiting(j, g)' <=> Waiting(j, g) \/ (j = k /\ g = h)
    <3>1. CASE j # k
      BY <2>3, <3>1 DEF Waiting
    <3>2. CASE j = k
      <4>1. Waiting(k, g) => Waiting(k, g)'
        BY <2>8 DEF Waiting
      <4>2. g = h => Waiting(k, g)'
        BY <2>6, <2>9 DEF Waiting
      <4>3. Waiting(k, g)' => Waiting(k, g) \/ g = h
        BY <2>6, <2>7, <2>8, <2>9 DEF Waiting
      <4>4. k' = k
        OBVIOUS
      <4> QED BY <3>2, <4>1, <4>2, <4>3, <4>4
    <3> QED BY <3>1, <3>2
  <2>11. ASSUME NEW j \in Conns, NEW g \in Handles
         PROVE  Waiting(j, g)' <=> op'[g] \in WaitOps /\ handle'[g].sender = j
    BY <2>2, <2>5, <2>10 DEF IInv, QueueInv, Agree
  <2>12. ASSUME NEW j \in Conns, NEW g \in Handles, NEW a \in DOMAIN queue'[j], NEW b \in DOMAIN queue'[j],
                Mine(queue'[j][a], g), Mine(queue'[j][b], g)
         PROVE  a = b
    <3>1. CASE j # k
      BY <2>3, <2>12, <3>1 DEF IInv, QueueInv, Agree
    <3>2. CASE j = k /\ g # h
      <4>1. a \in DOMAIN queue[k] /\ b \in DOMAIN queue[k]
        BY <2>6, <2>7, <2>9, <2>12, <3>2
      <4> QED BY <2>8, <2>12, <3>2, <4>1 DEF IInv, QueueInv, Agree
    <3>3. CASE j = k /\ g = h
      <4>1. \A i \in DOMAIN queue[k] : ~Mine(queue[k][i], h)
        BY <1>0, <2>5 DEF Waiting
      <4> QED BY <2>7, <2>8, <2>12, <3>3, <4>1
    <3> QED BY <3>1, <3>2, <3>3
  <2>13. ASSUME NEW j \in Conns, NEW g \in Handles, NEW a \in DOMAIN queue'[j], Mine(queue'[j][a], g)
         PROVE  queue'[j][a].what = "data" <=> op'[g] = "send"
    <3>1. CASE j = k /\ a = Len(queue[k]) + 1
      BY <2>1, <2>2, <2>6, <2>9, <2>13, <3>1
    <3>2. CASE ~(j = k /\ a = Len(queue[k]) + 1)
      <4>1. a \in DOMAIN queue[j] /\ queue'[j][a] = queue[j][a] /\ Mine(queue[j][a], g)
        BY <2>3, <2>7, <2>8, <2>13, <3>2
      <4>2. g # h
        BY <2>5, <4>1 DEF Waiting
      <4> QED BY <2>2, <4>1, <4>2 DEF IInv, QueueInv, PayloadOK
    <3> QED BY <3>1, <3>2
  <2>14. QueueInv'
    BY <2>11, <2>12, <2>13 DEF QueueInv, Agree, PayloadOK
  <2> QED BY <2>2, <2>3, <2>14
<1> QED BY <1>1, <1>2 DEF Enqueue

\* The loop takes the first payload of k and answers it if there is a caller.
LEMMA ServeQueue ==
  ASSUME IInv, NEW k \in Conns, queue[k] # <<>>, queue' = [queue EXCEPT ![k] = Tail(@)], handle' = handle,
         \A h \in Handles : op'[h] = IF Mine(Head(queue[k]), h) THEN After(op[h]) ELSE op[h]
  PROVE  QueueInv' /\ queue' \in [Conns -> Seq(Payloads)]
<1>0. queue \in [Conns -> Seq(Payloads)] /\ queue[k] \in Seq(Payloads)
  BY DEF IInv, Types
<1>1. /\ Tail(queue[k]) \in Seq(Payloads) /\ Head(queue[k]) = queue[k][1] /\ 1 \in DOMAIN queue[k]
      /\ DOMAIN queue[k] = 1..Len(queue[k]) /\ DOMAIN Tail(queue[k]) = 1..(Len(queue[k]) - 1)
      /\ Len(queue[k]) \in Nat
      /\ \A i \in 1..(Len(queue[k]) - 1) : Tail(queue[k])[i] = queue[k][i + 1]
  BY <1>0
<1>2. /\ queue' \in [Conns -> Seq(Payloads)] /\ queue'[k] = Tail(queue[k])
      /\ \A j \in Conns : j # k => queue'[j] = queue[j]
  BY <1>0, <1>1
<1>3. \A i \in DOMAIN queue'[k] : /\ i + 1 \in DOMAIN queue[k] /\ i + 1 # 1 /\ i \in Nat
                                  /\ queue'[k][i] = queue[k][i + 1]
  BY <1>1, <1>2
<1>4. \A i \in DOMAIN queue[k] : i = 1 \/ (i - 1 \in DOMAIN queue'[k] /\ queue'[k][i - 1] = queue[k][i])
  BY <1>1, <1>2
<1>5. ASSUME NEW h \in Handles, Mine(Head(queue[k]), h)
      PROVE  /\ op[h] \in WaitOps /\ handle[h].sender = k /\ op'[h] \notin WaitOps
             /\ \A i \in DOMAIN queue'[k] : ~Mine(queue'[k][i], h)
  <2>1. op[h] \in WaitOps /\ handle[h].sender = k
    BY <1>1, <1>5 DEF IInv, QueueInv, Agree, Waiting
  <2>2. op'[h] \notin WaitOps
    BY <1>5, <2>1, AfterLeaves
  <2>3. \A i \in DOMAIN queue'[k] : ~Mine(queue'[k][i], h)
    BY <1>1, <1>3, <1>5 DEF IInv, QueueInv, Agree
  <2> QED BY <2>1, <2>2, <2>3
<1>6. ASSUME NEW j \in Conns, NEW h \in Handles
      PROVE  Waiting(j, h)' <=> Waiting(j, h) /\ ~(j = k /\ Mine(Head(queue[k]), h))
  <2>1. CASE j # k
    BY <1>2, <2>1 DEF Waiting
  <2>2. CASE j = k /\ Mine(Head(queue[k]), h)
    BY <1>5, <2>2 DEF Waiting
  <2>3. CASE j = k /\ ~Mine(Head(queue[k]), h)
    <3>1. Waiting(k, h)' => Waiting(k, h)
      BY <1>3 DEF Waiting
    <3>2. Waiting(k, h) => Waiting(k, h)'
      BY <1>1, <1>4, <2>3 DEF Waiting
    <3> QED BY <2>3, <3>1, <3>2
  <2> QED BY <2>1, <2>2, <2>3
<1>7. ASSUME NEW j \in Conns, NEW h \in Handles
      PROVE  Waiting(j, h)' <=> op'[h] \in WaitOps /\ handle'[h].sender = j
  <2>1. CASE Mine(Head(queue[k]), h)
    BY <1>5, <1>6, <2>1 DEF IInv, QueueInv, Agree
  <2>2. CASE ~Mine(Head(queue[k]), h)
    BY <1>6, <2>2 DEF IInv, QueueInv, Agree
  <2> QED BY <2>1, <2>2
<1>8. ASSUME NEW j \in Conns, NEW h \in Handles, NEW a \in DOMAIN queue'[j], NEW b \in DOMAIN queue'[j],
             Mine(queue'[j][a], h), Mine(queue'[j][b], h)
      PROVE  a = b
  <2>1. CASE j # k
    BY <1>2, <1>8, <2>1 DEF IInv, QueueInv, Agree
  <2>2. CASE j = k
    <3>1. a + 1 = b + 1
      BY <1>3, <1>8, <2>2 DEF IInv, QueueInv, Agree
    <3> QED BY <1>3, <2>2, <3>1
  <2> QED BY <2>1, <2>2
<1>9. ASSUME NEW j \in Conns, NEW h \in Handles, NEW a \in DOMAIN queue'[j], Mine(queue'[j][a], h)
      PROVE  queue'[j][a].what = "data" <=> op'[h] = "send"
  <2>1. PICK b \in DOMAIN queue[j] : queue[j][b] = queue'[j][a]
    BY <1>2, <1>3
  <2>2. ~Mine(Head(queue[k]), h)
    <3>1. CASE j = k
      BY <1>5, <1>9, <3>1
    <3>2. CASE j # k
      <4>1. handle[h].sender = j
        BY <1>9, <2>1 DEF IInv, QueueInv, Agree, Waiting
      <4> QED BY <1>5, <3>2, <4>1
    <3> QED BY <3>1, <3>2
  <2> QED BY <1>9, <2>1, <2>2 DEF IInv, QueueInv, PayloadOK
<1>10. Agree'
  BY <1>7, <1>8 DEF Agree
<1>11. PayloadOK'
  BY <1>9 DEF PayloadOK
<1> QED BY <1>2, <1>10, <1>11 DEF QueueInv

\* The channel of k is dropped with everything in it.
LEMMA ReturnQueue ==
  ASSUME IInv, NEW k \in Conns, LoopReturns(k)
  PROVE  QueueInv' /\ queue' \in [Conns -> Seq(Payloads)]
<1>0. queue \in [Conns -> Seq(Payloads)] /\ queue' = [queue EXCEPT ![k] = <<>>]
  BY DEF IInv, Types, LoopReturns
<1>1. /\ queue' \in [Conns -> Seq(Payloads)] /\ queue'[k] = <<>>
      /\ \A j \in Conns : j # k => queue'[j] = queue[j]
  BY <1>0
<1>2. \A h \in Handles : Waiting(k, h) <=> op[h] \in WaitOps /\ handle[h].sender = k
  BY DEF IInv, QueueInv, Agree
<1>3. \A h \in Handles : InChannel(k, h) => Waiting(k, h)
  BY DEF InChannel, Waiting
<1>4. \A h \in Handles : IF Waiting(k, h) THEN op'[h] \notin WaitOps
                         ELSE op'[h] = op[h] /\ handle'[h] = handle[h]
  <2> TAKE h \in Handles
  <2>1. CASE InChannel(k, h)
    BY <1>3, <2>1 DEF LoopReturns, WaitOps
  <2>2. CASE ~InChannel(k, h) /\ Waiting(k, h)
    BY <1>2, <2>2, AfterLeaves DEF LoopReturns
  <2>3. CASE ~Waiting(k, h)
    BY <1>3, <2>3 DEF LoopReturns
  <2> QED BY <2>1, <2>2, <2>3
<1>5. ASSUME NEW j \in Conns, NEW h \in Handles
      PROVE  Waiting(j, h)' <=> Waiting(j, h) /\ j # k
  BY <1>1 DEF Waiting
<1>6. ASSUME NEW j \in Conns, NEW h \in Handles
      PROVE  Waiting(j, h)' <=> op'[h] \in WaitOps /\ handle'[h].sender = j
  BY <1>2, <1>4, <1>5 DEF IInv, QueueInv, Agree
<1>7. ASSUME NEW j \in Conns, NEW h \in Handles, NEW a \in DOMAIN queue'[j], Mine(queue'[j][a], h)
      PROVE  j # k /\ queue'[j] = queue[j] /\ op'[h] = op[h]
  <2>1. j # k /\ queue'[j] = queue[j]
    BY <1>1
  <2>2. handle[h].sender = j
    BY <1>7, <2>1 DEF IInv, QueueInv, Agree, Waiting
  <2> QED BY <1>2, <1>4, <2>1, <2>2
<1>8. Agree'
  BY <1>6, <1>7 DEF IInv, QueueInv, Agree
<1>9. PayloadOK'
  BY <1>7 DEF IInv, QueueInv, PayloadOK
<1> QED BY <1>1, <1>8, <1>9 DEF QueueInv

LEMMA RemoveAtFacts ==
  ASSUME NEW S, NEW s \in Seq(S), NEW x \in 1..Len(s)
  PROVE  /\ RemoveAt(s, x) \in Seq(S) /\ Len(RemoveAt(s, x)) = Len(s) - 1
         /\ \A i \in 1..(Len(s) - 1) : RemoveAt(s, x)[i] = s[IF i < x THEN i ELSE i + 1]
<1> DEFINE l == SubSeq(s, 1, x - 1)
           r == SubSeq(s, x + 1, Len(s))
<1>1. Len(s) \in Nat /\ x \in Nat /\ 1 <= x /\ x <= Len(s) /\ \A i \in 1..Len(s) : s[i] \in S
  OBVIOUS
<1>2. /\ l \in Seq(S) /\ Len(l) = x - 1 /\ \A i \in 1..(x - 1) : l[i] = s[i]
  <2>1. \A i \in 1..(x - 1) : s[i] \in S
    BY <1>1
  <2>2. 1 \in Int /\ x - 1 \in Int
    BY <1>1
  <2>3. /\ l \in Seq(S) /\ Len(l) = IF 1 <= x - 1 THEN (x - 1) - 1 + 1 ELSE 0
        /\ \A i \in 1..((x - 1) - 1 + 1) : l[i] = s[1 + i - 1]
    BY <2>1, <2>2, SubSeqProperties
  <2> HIDE DEF l
  <2>4. Len(l) = x - 1
    BY <1>1, <2>3
  <2>5. ASSUME NEW i \in 1..(x - 1) PROVE l[i] = s[i]
    <3>1. i \in 1..((x - 1) - 1 + 1) /\ 1 + i - 1 = i
      BY <1>1
    <3>2. l[i] = s[1 + i - 1]
      BY <2>3, <3>1
    <3> QED BY <3>1, <3>2
  <2> QED BY <2>3, <2>4, <2>5
<1>3. /\ r \in Seq(S) /\ Len(r) = Len(s) - x /\ \A i \in 1..(Len(s) - x) : r[i] = s[x + i]
  <2>1. \A i \in (x + 1)..Len(s) : s[i] \in S
    BY <1>1
  <2>2. x + 1 \in Int /\ Len(s) \in Int
    BY <1>1
  <2>3. /\ r \in Seq(S) /\ Len(r) = IF x + 1 <= Len(s) THEN Len(s) - (x + 1) + 1 ELSE 0
        /\ \A i \in 1..(Len(s) - (x + 1) + 1) : r[i] = s[(x + 1) + i - 1]
    BY <2>1, <2>2, SubSeqProperties
  <2> HIDE DEF r
  <2> QED BY <1>1, <2>3
<1>4. RemoveAt(s, x) = l \o r
  BY DEF RemoveAt
<1> HIDE DEF l, r
<1>5. /\ l \o r \in Seq(S) /\ Len(l \o r) = Len(l) + Len(r)
      /\ \A i \in 1..(Len(l) + Len(r)) : (l \o r)[i] = IF i <= Len(l) THEN l[i] ELSE r[i - Len(l)]
  BY <1>2, <1>3, ConcatProperties
<1>6. ASSUME NEW i \in 1..(Len(s) - 1) PROVE (l \o r)[i] = s[IF i < x THEN i ELSE i + 1]
  <2>1. CASE i < x
    BY <1>1, <1>2, <1>3, <1>5, <2>1
  <2>2. CASE ~(i < x)
    <3>1. (l \o r)[i] = r[i - (x - 1)]
      BY <1>1, <1>2, <1>3, <1>5, <2>2
    <3>2. i - (x - 1) \in 1..(Len(s) - x) /\ x + (i - (x - 1)) = i + 1
      BY <1>1, <2>2
    <3> QED BY <1>3, <2>2, <3>1, <3>2
  <2> QED BY <2>1, <2>2
<1>7. Len(l) + Len(r) = Len(s) - 1
  BY <1>1, <1>2, <1>3
<1>8. l \o r \in Seq(S) /\ Len(l \o r) = Len(s) - 1
  BY <1>5, <1>7
<1> QED BY <1>4, <1>6, <1>8, Zenon

\* A cancelled call leaves nothing live behind, and the other calls as they are.
LEMMA AbandonFacts ==
  ASSUME NEW q \in Seq(Payloads), NEW h \in Handles,
         \A g \in Handles : \A i, j \in DOMAIN q : Mine(q[i], g) /\ Mine(q[j], g) => i = j
  PROVE  /\ Abandon(q, h) \in Seq(Payloads)
         /\ \A j \in DOMAIN Abandon(q, h) : ~Mine(Abandon(q, h)[j], h)
         /\ \A g \in Handles \ {h} :
              /\ \A i \in DOMAIN q : Mine(q[i], g) => \E j \in DOMAIN Abandon(q, h) : Abandon(q, h)[j] = q[i]
              /\ \A j \in DOMAIN Abandon(q, h) : Mine(Abandon(q, h)[j], g) =>
                    \E i \in DOMAIN q : Abandon(q, h)[j] = q[i]
              /\ \A i, j \in DOMAIN Abandon(q, h) :
                    Mine(Abandon(q, h)[i], g) /\ Mine(Abandon(q, h)[j], g) => i = j
<1> DEFINE r == Abandon(q, h)
<1>0. DOMAIN q = 1..Len(q) /\ Len(q) \in Nat /\ \A i \in DOMAIN q : q[i] \in Payloads
  OBVIOUS
<1>1. CASE \E i \in DOMAIN q : i > ChannelSize /\ Mine(q[i], h)
  <2> DEFINE x == CHOOSE i \in DOMAIN q : Mine(q[i], h)
             pos(j) == IF j < x THEN j ELSE j + 1
  <2>1. x \in DOMAIN q /\ Mine(q[x], h)
    BY <1>1
  <2>2. r = RemoveAt(q, x)
    BY <1>1 DEF Abandon
  <2> HIDE DEF x, r
  <2>3. /\ r \in Seq(Payloads) /\ Len(r) = Len(q) - 1
        /\ \A j \in 1..(Len(q) - 1) : r[j] = q[IF j < x THEN j ELSE j + 1]
    <3>1. x \in 1..Len(q)
      BY <1>0, <2>1
    <3> QED BY <2>2, <3>1, RemoveAtFacts
  <2>4. DOMAIN r = 1..(Len(q) - 1)
    BY <2>3
  <2>5. \A j \in DOMAIN r : pos(j) \in DOMAIN q /\ pos(j) # x /\ r[j] = q[pos(j)]
    BY <1>0, <2>1, <2>3, <2>4
  <2>6. \A i, j \in DOMAIN r : pos(i) = pos(j) => i = j
    BY <1>0, <2>1, <2>4
  <2>7. ASSUME NEW i \in DOMAIN q, i # x PROVE \E j \in DOMAIN r : r[j] = q[i]
    <3>1. CASE i < x
      <4>1. i \in DOMAIN r /\ pos(i) = i
        BY <1>0, <2>1, <2>4, <3>1
      <4> QED BY <2>5, <4>1
    <3>2. CASE i > x
      <4>1. i - 1 \in DOMAIN r /\ pos(i - 1) = i
        BY <1>0, <2>1, <2>4, <3>2
      <4> QED BY <2>5, <4>1
    <3> QED BY <1>0, <2>1, <2>7, <3>1, <3>2
  <2> HIDE DEF pos
  <2>8. \A j \in DOMAIN r : ~Mine(r[j], h)
    BY <2>1, <2>5
  <2>9. ASSUME NEW g \in Handles \ {h}
        PROVE  /\ \A i \in DOMAIN q : Mine(q[i], g) => \E j \in DOMAIN r : r[j] = q[i]
               /\ \A j \in DOMAIN r : Mine(r[j], g) => \E i \in DOMAIN q : r[j] = q[i]
               /\ \A i, j \in DOMAIN r : Mine(r[i], g) /\ Mine(r[j], g) => i = j
    <3>1. ~Mine(q[x], g)
      BY <2>1 DEF Mine
    <3>2. \A i \in DOMAIN q : Mine(q[i], g) => \E j \in DOMAIN r : r[j] = q[i]
      BY <2>7, <3>1
    <3>3. \A j \in DOMAIN r : Mine(r[j], g) => \E i \in DOMAIN q : r[j] = q[i]
      BY <2>5
    <3>4. \A i, j \in DOMAIN r : Mine(r[i], g) /\ Mine(r[j], g) => i = j
      BY <2>5, <2>6
    <3> QED BY <3>2, <3>3, <3>4
  <2> QED BY <2>3, <2>8, <2>9 DEF r
<1>2. CASE ~\E i \in DOMAIN q : i > ChannelSize /\ Mine(q[i], h)
  <2>1. r = [i \in DOMAIN q |-> IF Mine(q[i], h) THEN [q[i] EXCEPT !.live = FALSE] ELSE q[i]]
    BY <1>2, Zenon DEF Abandon
  <2> HIDE DEF r
  <2>2. DOMAIN r = DOMAIN q /\ \A i \in DOMAIN q : r[i] = IF Mine(q[i], h) THEN [q[i] EXCEPT !.live = FALSE] ELSE q[i]
    BY <2>1
  <2>3. \A i \in DOMAIN q : /\ r[i] \in Payloads /\ ~Mine(r[i], h)
                            /\ \A g \in Handles \ {h} : Mine(q[i], g) \/ Mine(r[i], g) => r[i] = q[i]
    BY <1>0, <2>2 DEF Payloads, Mine
  <2>4. r \in Seq(Payloads)
    <3>1. r = [i \in 1..Len(q) |-> r[i]]
      BY <1>0, <2>1, <2>2
    <3> QED BY <1>0, <2>3, <3>1
  <2>5. ASSUME NEW g \in Handles \ {h}
        PROVE  /\ \A i \in DOMAIN q : Mine(q[i], g) => \E j \in DOMAIN r : r[j] = q[i]
               /\ \A j \in DOMAIN r : Mine(r[j], g) => \E i \in DOMAIN q : r[j] = q[i]
               /\ \A i, j \in DOMAIN r : Mine(r[i], g) /\ Mine(r[j], g) => i = j
    BY <2>2, <2>3
  <2> QED BY <2>2, <2>3, <2>4, <2>5 DEF r
<1> QED BY <1>1, <1>2

LEMMA CancelQueue ==
  ASSUME IInv, NEW h \in Handles, Cancel(h)
  PROVE  QueueInv' /\ queue' \in [Conns -> Seq(Payloads)]
<1>0. /\ queue \in [Conns -> Seq(Payloads)] /\ op \in [Handles -> Ops] /\ handle \in [Handles -> HandleType]
      /\ op'[h] = "idle" /\ "idle" \notin WaitOps
      /\ \A g \in Handles : g # h => op'[g] = op[g] /\ handle'[g] = handle[g]
  BY DEF IInv, Types, Cancel, WaitOps
<1>1. CASE op[h] \notin WaitOps
  <2>1. queue' = queue
    BY <1>0, <1>1 DEF Cancel
  <2> QED BY <1>0, <1>1, <2>1, QuietQueue
<1>2. CASE op[h] \in WaitOps
  <2> DEFINE k == handle[h].sender
             r == Abandon(queue[k], h)
  <2>1. \A j \in Conns : queue'[j] = IF j = k THEN r ELSE queue[j]
    BY <1>2 DEF Cancel
  <2>2. PICK c \in Conns \cup {0} : c = k
    BY <1>0 DEF HandleType
  <2>3. ASSUME k \in Conns
        PROVE  /\ r \in Seq(Payloads) /\ \A j \in DOMAIN r : ~Mine(r[j], h)
               /\ \A g \in Handles \ {h} :
                    /\ \A i \in DOMAIN queue[k] : Mine(queue[k][i], g) => \E j \in DOMAIN r : r[j] = queue[k][i]
                    /\ \A j \in DOMAIN r : Mine(r[j], g) => \E i \in DOMAIN queue[k] : r[j] = queue[k][i]
                    /\ \A i, j \in DOMAIN r : Mine(r[i], g) /\ Mine(r[j], g) => i = j
    <3>1. queue[k] \in Seq(Payloads)
      BY <1>0, <2>3
    <3>2. \A g \in Handles : \A i, j \in DOMAIN queue[k] : Mine(queue[k][i], g) /\ Mine(queue[k][j], g) => i = j
      BY <2>3 DEF IInv, QueueInv, Agree
    <3> HIDE DEF k
    <3> QED BY <3>1, <3>2, AbandonFacts
  <2>4. queue' \in [Conns -> Seq(Payloads)]
    <3>1. \A j \in Conns : queue'[j] \in Seq(Payloads)
      BY <1>0, <2>1, <2>3
    <3>2. queue' = [j \in Conns |-> queue'[j]]
      BY DEF Cancel
    <3> HIDE DEF r, k
    <3> QED BY <3>1, <3>2
  <2>5. \A j \in Conns : ~Waiting(j, h)'
    <3> TAKE j \in Conns
    <3>1. CASE j = k
      BY <2>1, <2>3, <3>1 DEF Waiting
    <3>2. CASE j # k
      BY <2>1, <3>2 DEF Waiting, IInv, QueueInv, Agree
    <3> QED BY <3>1, <3>2
  <2> HIDE DEF r
  <2>6. ASSUME NEW j \in Conns, NEW g \in Handles \ {h} PROVE Waiting(j, g)' <=> Waiting(j, g)
    <3>1. CASE j = k
      BY <2>1, <2>3, <3>1 DEF Waiting
    <3>2. CASE j # k
      BY <2>1, <3>2 DEF Waiting
    <3> QED BY <3>1, <3>2
  <2>7. ASSUME NEW j \in Conns, NEW g \in Handles
        PROVE  Waiting(j, g)' <=> op'[g] \in WaitOps /\ handle'[g].sender = j
    BY <1>0, <2>5, <2>6 DEF IInv, QueueInv, Agree
  <2>8. ASSUME NEW j \in Conns, NEW g \in Handles, NEW a \in DOMAIN queue'[j], Mine(queue'[j][a], g)
        PROVE  /\ g # h /\ \E b \in DOMAIN queue[j] : queue'[j][a] = queue[j][b]
               /\ \A b \in DOMAIN queue'[j] : Mine(queue'[j][b], g) => a = b
    <3>1. g # h
      BY <2>5, <2>8 DEF Waiting
    <3>2. CASE j = k
      BY <2>1, <2>3, <2>8, <3>1, <3>2
    <3>3. CASE j # k
      BY <2>1, <2>8, <3>1, <3>3 DEF IInv, QueueInv, Agree
    <3> QED BY <3>1, <3>2, <3>3
  <2>9. Agree'
    BY <2>7, <2>8 DEF Agree
  <2>10. PayloadOK'
    BY <1>0, <2>8 DEF IInv, QueueInv, PayloadOK
  <2> QED BY <2>4, <2>9, <2>10 DEF QueueInv
<1> QED BY <1>1, <1>2

--------------------------------------------------------------------------------
(* The moves of a handle.                                                  *)

LEMMA LoopsStay ==
  ASSUME IInv, loop' = loop
  PROVE  LoopsGoOn
BY DEF IInv, Types, LoopsGoOn

LEMMA DroppedMove ==
  ASSUME IInv, NEW h \in Handles, handle'[h] = Gone, op'[h] \in {"idle", "panicked"}
  PROVE  Move(h)
<1>1. Gone \in HandleType /\ op'[h] \in Ops
  BY DEF Gone, HandleType, Ops
<1>2. HandleOK(h)'
  BY LifecycleSizes DEF HandleOK, Gone, Connecting
<1> QED BY <1>1, <1>2, LifecycleSizes DEF Move, Gone

\* A suspended call has a sender.
LEMMA CallerHasSender ==
  ASSUME IInv, NEW h \in Handles, op[h] \in WaitOps
  PROVE  /\ handle[h].kind \in {"whole", "tx"} /\ handle[h].sender \in Conns
         /\ op[h] \in {"send_close", "close"} =>
              handle[h].kind = "whole" /\ handle[h].receiver = handle[h].sender
         /\ op[h] = "tx_close" => handle[h].kind = "tx"
<1>1. handle[h] \in HandleType /\ HandleOK(h)
  BY DEF IInv, Types, HandleInv, HandlesOK
<1> QED BY <1>1 DEF HandleOK, HandleType, WaitOps, Connecting

LEMMA ReturnMove ==
  ASSUME IInv, UNCHANGED history, LoopsGoOn, NEW h \in Handles,
         handle'[h] = handle[h], op[h] \in WaitOps, op'[h] = After(op[h]),
         op[h] \in {"send_close", "close"} => loop'[handle[h].sender] \in Closing
  PROVE  Move(h)
<1>1. handle[h] \in HandleType /\ HandleOK(h)
  BY DEF IInv, Types, HandleInv, HandlesOK
<1>2. /\ op'[h] \in Ops
      /\ op'[h] \in {"connect_async", "join", "idle"}
      /\ op'[h] = "connect_async" <=> op[h] = "send_close"
      /\ op'[h] = "join" <=> op[h] = "close"
  BY AfterLeaves DEF WaitOps
<1>3. HandleOK(h)'
  <2>1. handle[h].kind \in {"whole", "tx"} /\ (op[h] \in {"send_close", "close"} => handle[h].kind = "whole")
    BY CallerHasSender
  <2>2. /\ op'[h] \notin {"tx_close", "panicked"}
        /\ handle[h].kind = "tx" => op'[h] = "idle"
    BY <1>2, <2>1
  <2> QED BY <1>1, <2>1, <2>2 DEF HandleOK, LoopsGoOn, history
<1>4. op'[h] \in {"connect_async", "join"} => loop'[handle[h].receiver] \in Closing
  BY <1>2, CallerHasSender
<1>5. op'[h] \in Untold <=> op[h] \in Untold
  BY <1>2 DEF Untold, WaitOps
<1>6. op'[h] \in Connecting => loop'[handle[h].receiver] # "running"
  BY <1>2, <1>4 DEF Connecting, Closing
<1> QED BY <1>1, <1>2, <1>3, <1>4, <1>5, <1>6 DEF Move

LEMMA SteadyIInv ==
  ASSUME IInv, UNCHANGED history, LoopsGoOn, \A i \in Handles : Move(i), QueueInv',
         handle' \in [Handles -> HandleType], op' \in [Handles -> Ops],
         queue' \in [Conns -> Seq(Payloads)]
  PROVE  IInv'
<1>1. HandleInv'
  BY SteadyStep
<1>2. Types'
  BY DEF IInv, Types, LoopsGoOn, history
<1> QED BY <1>1, <1>2 DEF IInv

\* A step of one handle.
LEMMA OneMove ==
  ASSUME IInv, UNCHANGED history, LoopsGoOn, NEW h \in Handles, Move(h),
         \A i \in Handles : i # h => handle'[i] = handle[i] /\ op'[i] = op[i]
  PROVE  \A i \in Handles : Move(i)
BY StaysPut

LEMMA EnqueueStep ==
  ASSUME IInv, NEW h \in Handles, NEW o \in WaitOps, Enqueue(h, o),
         UNCHANGED <<handle, loop, history>>,
         \/ handle[h].kind = "whole" /\ op[h] = "idle" /\ o \in {"send", "close"}
         \/ handle[h].kind = "tx" /\ op[h] = "idle" /\ o \in {"send", "tx_close"}
         \/ op[h] = "on_disconnected" /\ o = "send_close"
  PROVE  IInv'
<1>1. handle[h] \in HandleType /\ HandleOK(h) /\ op \in [Handles -> Ops]
  BY DEF IInv, Types, HandleInv, HandlesOK
<1>2. /\ op[h] \in {"idle", "on_disconnected"} /\ op[h] \notin WaitOps
      /\ op[h] = "on_disconnected" <=> o = "send_close"
      /\ handle[h].kind \in {"whole", "tx"} /\ handle[h].sender = handle[h].slot
      /\ handle[h].slot \in Conns
      /\ o \in {"send_close", "close"} => handle[h].kind = "whole" /\ handle[h].receiver = handle[h].slot
      /\ o = "tx_close" => handle[h].kind = "tx"
  BY <1>1 DEF HandleOK, HandleType, WaitOps, Connecting
<1>3. QueueInv' /\ queue' \in [Conns -> Seq(Payloads)] /\ op' \in [Handles -> Ops]
  BY <1>2, EnqueueQueue
<1>4. \A i \in Handles : i # h => op'[i] = op[i]
  BY <1>1 DEF Enqueue
<1>5. op'[h] = o \/ (op'[h] = After(o) /\ loop[handle[h].slot] = "ended")
  BY <1>1, <1>2 DEF Enqueue
<1>6. /\ op'[h] \in {o, "idle", "connect_async", "join"}
      /\ op'[h] = "connect_async" => o = "send_close" /\ loop[handle[h].slot] = "ended"
      /\ op'[h] = "join" => o = "close" /\ loop[handle[h].slot] = "ended"
      /\ op'[h] = "idle" => o \in {"send", "tx_close"}
  BY <1>5, AfterLeaves DEF WaitOps
<1>7. HandleOK(h)'
  <2>1. handle[h].kind = "tx" => op'[h] \in {"idle", "send", "tx_close"}
    BY <1>2, <1>6 DEF WaitOps
  <2>2. handle[h].kind = "whole" => op'[h] \notin {"tx_close", "panicked"}
    BY <1>2, <1>6 DEF WaitOps
  <2> QED BY <1>1, <1>2, <2>1, <2>2 DEF HandleOK, history
<1>8. /\ op'[h] \in Untold <=> op[h] \in Untold
      /\ op'[h] \in Connecting => loop[handle[h].receiver] # "running"
      /\ op'[h] = "join" => loop[handle[h].receiver] \in Closing
  BY <1>2, <1>6 DEF Untold, Connecting, Closing, WaitOps
<1>9. Move(h)
  BY <1>1, <1>3, <1>7, <1>8 DEF Move
<1> QED BY <1>1, <1>3, <1>4, <1>9, LoopsStay, OneMove, SteadyIInv DEF IInv, Types

\* A handle is dropped, or its method returns, while no call waits on it.
LEMMA DropStep ==
  ASSUME IInv, NEW h \in Handles, op[h] \notin WaitOps, UNCHANGED <<loop, queue, history>>,
         handle' = [handle EXCEPT ![h] = Gone], op' = [op EXCEPT ![h] = "idle"]
  PROVE  IInv'
<1>1. /\ handle \in [Handles -> HandleType] /\ op \in [Handles -> Ops] /\ queue \in [Conns -> Seq(Payloads)]
      /\ Gone \in HandleType /\ "idle" \in Ops \ WaitOps
  BY DEF IInv, Types, Gone, HandleType, Ops, WaitOps
<1>2. /\ handle' \in [Handles -> HandleType] /\ op' \in [Handles -> Ops]
      /\ handle'[h] = Gone /\ op'[h] = "idle"
      /\ \A i \in Handles : i # h => handle'[i] = handle[i] /\ op'[i] = op[i]
  BY <1>1
<1>3. QueueInv'
  BY <1>1, <1>2, QuietQueue
<1>4. Move(h)
  BY <1>2, DroppedMove
<1> QED BY <1>1, <1>2, <1>3, <1>4, LoopsStay, OneMove, SteadyIInv

LEMMA CancelStep ==
  ASSUME IInv, NEW h \in Handles, Cancel(h)
  PROVE  IInv'
<1>1. /\ handle \in [Handles -> HandleType] /\ op \in [Handles -> Ops]
      /\ Gone \in HandleType /\ "idle" \in Ops \ WaitOps
  BY DEF IInv, Types, Gone, HandleType, Ops, WaitOps
<1>2. /\ handle' \in [Handles -> HandleType] /\ op' \in [Handles -> Ops]
      /\ op'[h] = "idle" /\ handle'[h] = IF op[h] \in {"send", "tx_close"} THEN handle[h] ELSE Gone
      /\ \A i \in Handles : i # h => handle'[i] = handle[i] /\ op'[i] = op[i]
  BY <1>1 DEF Cancel
<1>3. QueueInv' /\ queue' \in [Conns -> Seq(Payloads)]
  BY CancelQueue
<1>4. LoopsGoOn /\ UNCHANGED history
  BY LoopsStay DEF Cancel
<1>5. Move(h)
  <2>1. CASE op[h] \in {"send", "tx_close"}
    <3>1. op[h] \in WaitOps /\ op'[h] = After(op[h])
      BY <1>2, <2>1 DEF WaitOps, After
    <3> QED BY <1>2, <1>4, <2>1, <3>1, ReturnMove
  <2>2. CASE op[h] \notin {"send", "tx_close"}
    BY <1>2, <2>2, DroppedMove
  <2> QED BY <2>1, <2>2
<1> QED BY <1>2, <1>3, <1>4, <1>5, OneMove, SteadyIInv

LEMMA SplitStep ==
  ASSUME IInv, NEW h \in Handles, NEW t \in Handles, Split(h, t)
  PROVE  IInv'
<1>1. /\ handle \in [Handles -> HandleType] /\ op \in [Handles -> Ops] /\ queue \in [Conns -> Seq(Payloads)]
      /\ handle[h] \in HandleType /\ handle[t] = Gone /\ HandleOK(h)
      /\ op[h] = "idle" /\ op[t] = "idle" /\ handle[h].kind = "whole" /\ h # t
  BY DEF IInv, Types, HandleInv, HandlesOK, Split, Ready, Gone
<1>2. /\ handle[h].sender = handle[h].slot /\ handle[h].slot \in Conns /\ loop[handle[h].slot] # "unborn"
  BY <1>1 DEF HandleOK
<1>3. /\ handle'[h] = [handle[h] EXCEPT !.kind = "rx", !.sender = 0]
      /\ handle'[t] = [Gone EXCEPT !.kind = "tx", !.sender = handle[h].sender, !.slot = handle[h].slot]
      /\ \A i \in Handles : i # h /\ i # t => handle'[i] = handle[i]
      /\ handle' = [i \in Handles |-> handle'[i]]
  BY <1>1 DEF Split
<1>4. /\ handle'[h].kind = "rx" /\ handle'[h].sender = 0 /\ handle'[h].receiver = handle[h].receiver
      /\ handle'[h].slot = handle[h].slot /\ handle'[h].handler = handle[h].handler
      /\ handle'[h] \in HandleType
  BY <1>1, <1>3 DEF HandleType
<1>5. /\ handle'[t].kind = "tx" /\ handle'[t].sender = handle[h].slot /\ handle'[t].receiver = 0
      /\ handle'[t].slot = handle[h].slot /\ handle'[t].handler = NoHandler
      /\ handle'[t] \in HandleType
  BY <1>2, <1>3 DEF HandleType, Gone
<1>6. UNCHANGED <<op, loop, queue, history>>
  BY DEF Split
<1>7. Move(h)
  <2>1. HandleOK(h)'
    BY <1>1, <1>2, <1>4, <1>6 DEF HandleOK, history
  <2> QED BY <1>1, <1>4, <1>6, <2>1 DEF Move, Connecting
<1>8. Move(t)
  <2>1. HandleOK(t)'
    BY <1>1, <1>2, <1>5, <1>6 DEF HandleOK, history
  <2> QED BY <1>1, <1>5, <1>6, <2>1, LifecycleSizes DEF Move, Connecting
<1>9. \A i \in Handles : Move(i)
  BY <1>3, <1>6, <1>7, <1>8, LoopsStay, StaysPut
<1>10. handle' \in [Handles -> HandleType]
  <2>1. \A i \in Handles : handle'[i] \in HandleType
    BY <1>1, <1>3, <1>4, <1>5
  <2> QED BY <1>3, <2>1
<1>11. QueueInv'
  <2>1. op[h] \notin WaitOps /\ op[t] \notin WaitOps
    BY <1>1 DEF WaitOps
  <2> QED BY <1>3, <1>6, <2>1, QuietQueue
<1> QED BY <1>1, <1>6, <1>9, <1>10, <1>11, LoopsStay, SteadyIInv

LEMMA CloneStep ==
  ASSUME IInv, NEW t \in Handles, NEW u \in Handles, Clone(t, u)
  PROVE  IInv'
<1>1. /\ handle \in [Handles -> HandleType] /\ op \in [Handles -> Ops] /\ queue \in [Conns -> Seq(Payloads)]
      /\ handle[t] \in HandleType /\ HandleOK(t) /\ op[u] = "idle" /\ handle[t].kind = "tx"
  BY DEF IInv, Types, HandleInv, HandlesOK, Clone, Ready
<1>2. /\ handle' \in [Handles -> HandleType] /\ handle'[u] = handle[t]
      /\ \A i \in Handles : i # u => handle'[i] = handle[i]
      /\ UNCHANGED <<op, loop, queue, history>>
  BY <1>1 DEF Clone
<1>3. Move(u)
  <2>1. HandleOK(u)'
    BY <1>1, <1>2 DEF HandleOK, history
  <2>2. handle'[u].receiver = 0 /\ handle'[u].handler = NoHandler
    BY <1>1, <1>2 DEF HandleOK
  <2> QED BY <1>1, <1>2, <2>1, <2>2, LifecycleSizes DEF Move
<1>4. QueueInv'
  <2>1. op[u] \notin WaitOps
    BY <1>1 DEF WaitOps
  <2> QED BY <1>2, <2>1, QuietQueue
<1> QED BY <1>1, <1>2, <1>3, <1>4, LoopsStay, OneMove, SteadyIInv

LEMMA ReuniteStep ==
  ASSUME IInv, NEW r \in Handles, NEW t \in Handles, Reunite(r, t)
  PROVE  IInv'
<1>1. /\ handle \in [Handles -> HandleType] /\ op \in [Handles -> Ops] /\ queue \in [Conns -> Seq(Payloads)]
      /\ handle[r] \in HandleType /\ HandleOK(r) /\ HandleOK(t) /\ r # t
      /\ op[r] = "idle" /\ op[t] = "idle" /\ handle[r].kind = "rx" /\ handle[t].kind = "tx"
      /\ handle[r].slot = handle[t].slot /\ Gone \in HandleType
  BY DEF IInv, Types, HandleInv, HandlesOK, Reunite, Ready, SameSlot, Gone, HandleType
<1>2. handle[t].sender = handle[r].slot /\ handle[r].slot \in Conns
  BY <1>1 DEF HandleOK
<1>3. /\ handle'[r] = [handle[r] EXCEPT !.kind = "whole", !.sender = handle[t].sender]
      /\ handle'[t] = Gone /\ \A i \in Handles : i # r /\ i # t => handle'[i] = handle[i]
      /\ handle' = [i \in Handles |-> handle'[i]]
  BY <1>1 DEF Reunite
<1>4. /\ handle'[r].kind = "whole" /\ handle'[r].sender = handle[r].slot
      /\ handle'[r].receiver = handle[r].receiver /\ handle'[r].slot = handle[r].slot
      /\ handle'[r].handler = handle[r].handler /\ handle'[r] \in HandleType
  BY <1>1, <1>2, <1>3 DEF HandleType
<1>5. UNCHANGED <<op, loop, queue, history>>
  BY DEF Reunite
<1>6. Move(r)
  <2>1. HandleOK(r)'
    BY <1>1, <1>2, <1>4, <1>5 DEF HandleOK, history
  <2> QED BY <1>1, <1>4, <1>5, <2>1 DEF Move, Connecting
<1>7. \A i \in Handles : Move(i)
  BY <1>1, <1>3, <1>5, <1>6, LoopsStay, StaysPut, DroppedMove
<1>8. handle' \in [Handles -> HandleType]
  <2>1. \A i \in Handles : handle'[i] \in HandleType
    BY <1>1, <1>3, <1>4
  <2> QED BY <1>3, <2>1
<1>9. QueueInv'
  <2>1. op[r] \notin WaitOps /\ op[t] \notin WaitOps
    BY <1>1 DEF WaitOps
  <2> QED BY <1>3, <1>5, <2>1, QuietQueue
<1> QED BY <1>1, <1>5, <1>7, <1>8, <1>9, LoopsStay, SteadyIInv

--------------------------------------------------------------------------------
(* The loops.                                                              *)

LEMMA ServeStep ==
  ASSUME IInv, NEW k \in Conns, Serve(k)
  PROVE  IInv'
<1> DEFINE p == Head(queue[k])
<1>1. /\ handle \in [Handles -> HandleType] /\ op \in [Handles -> Ops] /\ loop \in [Conns -> LoopStates]
      /\ queue[k] \in Seq(Payloads) /\ queue[k] # <<>> /\ loop[k] \in {"running", "closed"}
  BY DEF IInv, Types, Serve, Alive
<1>2. p \in Payloads /\ p = queue[k][1] /\ 1 \in DOMAIN queue[k]
  BY <1>1
<1>3. p.by \in Handles /\ p.what \in {"data", "close"}
  BY <1>2 DEF Payloads
<1>4. /\ queue' = [queue EXCEPT ![k] = Tail(@)] /\ handle' = handle /\ UNCHANGED history
      /\ op' = IF p.live THEN [op EXCEPT ![p.by] = After(@)] ELSE op
      /\ \E s \in {"ending", "closed", loop[k]} :
            loop' = [loop EXCEPT ![k] = s] /\ (p.what = "close" => s \in Closing)
  <2>1. PICK ok \in BOOLEAN :
          /\ loop' = [loop EXCEPT ![k] = IF ~p.live \/ ~ok THEN "ending"
                                         ELSE IF p.what = "close" THEN "closed" ELSE @]
          /\ op' = IF p.live THEN [op EXCEPT ![p.by] = After(@)] ELSE op
    BY Zenon DEF Serve
  <2>2. queue' = [queue EXCEPT ![k] = Tail(@)] /\ handle' = handle /\ UNCHANGED history
    BY DEF Serve
  <2> DEFINE s == IF ~p.live \/ ~ok THEN "ending" ELSE IF p.what = "close" THEN "closed" ELSE loop[k]
  <2>3. s \in {"ending", "closed", loop[k]} /\ (p.what = "close" => s \in Closing)
    BY DEF Closing
  <2>4. loop' = [loop EXCEPT ![k] = s]
    BY <2>1
  <2> HIDE DEF s, p
  <2> QED BY <2>1, <2>2, <2>3, <2>4
<1> HIDE DEF p
<1>5. \A h \in Handles : op'[h] = IF Mine(p, h) THEN After(op[h]) ELSE op[h]
  BY <1>1, <1>3, <1>4 DEF Mine
<1>6. QueueInv' /\ queue' \in [Conns -> Seq(Payloads)]
  BY <1>1, <1>4, <1>5, ServeQueue DEF p
<1>7. PICK s \in {"ending", "closed", loop[k]} :
            loop' = [loop EXCEPT ![k] = s] /\ (p.what = "close" => s \in Closing)
  BY <1>4
<1>8. loop'[k] = s /\ \A j \in Conns : j # k => loop'[j] = loop[j]
  BY <1>1, <1>7
<1>9. LoopsGoOn
  BY <1>1, <1>7, <1>8 DEF LoopsGoOn, LoopStates, Closing
<1>10. ASSUME NEW h \in Handles PROVE Move(h)
  <2>1. CASE ~Mine(p, h)
    BY <1>4, <1>5, <1>9, <2>1, StaysPut
  <2>2. CASE Mine(p, h)
    <3>1. op[h] \in WaitOps /\ handle[h].sender = k
      BY <1>2, <2>2 DEF IInv, QueueInv, Agree, Waiting
    <3>2. p.what = "data" <=> op[h] = "send"
      BY <1>2, <2>2 DEF IInv, QueueInv, PayloadOK
    <3>3. op[h] \in {"send_close", "close"} => loop'[handle[h].sender] \in Closing
      BY <1>3, <1>7, <1>8, <3>1, <3>2
    <3> QED BY <1>4, <1>5, <1>9, <2>2, <3>1, <3>3, ReturnMove
  <2> QED BY <2>1, <2>2
<1>11. op' \in [Handles -> Ops]
  <2>1. p.live => op[p.by] \in WaitOps
    BY <1>2, <1>3 DEF IInv, QueueInv, Agree, Waiting, Mine
  <2>2. p.live => After(op[p.by]) \in Ops
    BY <2>1, AfterLeaves
  <2> QED BY <1>1, <1>3, <1>4, <2>2
<1> QED BY <1>1, <1>4, <1>6, <1>9, <1>10, <1>11, SteadyIInv

LEMMA EndStep ==
  ASSUME IInv, NEW k \in Conns, ConnectionLost(k) \/ SendersGone(k)
  PROVE  IInv'
<1>1. /\ loop' = [loop EXCEPT ![k] = "ending"] /\ loop[k] \in {"running", "closed"}
      /\ UNCHANGED <<handle, op, queue, history>>
  BY DEF ConnectionLost, SendersGone, Alive
<1>2. LoopsGoOn
  <2>1. loop \in [Conns -> LoopStates]
    BY DEF IInv, Types
  <2> QED BY <1>1, <2>1 DEF LoopsGoOn, LoopStates, Closing
<1>3. QueueInv'
  BY <1>1, QuietQueue
<1>4. \A i \in Handles : Move(i)
  BY <1>1, <1>2, StaysPut
<1> QED BY <1>1, <1>2, <1>3, <1>4, SteadyIInv DEF IInv, Types

LEMMA ReturnStep ==
  ASSUME IInv, NEW k \in Conns, LoopReturns(k)
  PROVE  IInv'
<1>1. /\ handle \in [Handles -> HandleType] /\ op \in [Handles -> Ops] /\ loop \in [Conns -> LoopStates]
      /\ Gone \in HandleType /\ "panicked" \in Ops
  BY DEF IInv, Types, Gone, HandleType, Ops
<1>2. QueueInv' /\ queue' \in [Conns -> Seq(Payloads)]
  BY ReturnQueue
<1>3. LoopsGoOn /\ UNCHANGED history /\ loop'[k] = "ended"
  BY <1>1 DEF LoopReturns, LoopsGoOn, LoopStates, Closing
<1>4. \A h \in Handles : Waiting(k, h) => op[h] \in WaitOps /\ handle[h].sender = k
  BY DEF IInv, QueueInv, Agree
<1>5. \A h \in Handles : InChannel(k, h) => Waiting(k, h)
  BY DEF InChannel, Waiting
<1>6. /\ op' = [h \in Handles |-> op'[h]] /\ handle' = [h \in Handles |-> handle'[h]]
      /\ \A h \in Handles : op'[h] = IF InChannel(k, h) THEN "panicked"
                                     ELSE IF Waiting(k, h) THEN After(op[h]) ELSE op[h]
      /\ \A h \in Handles : handle'[h] = IF InChannel(k, h) THEN Gone ELSE handle[h]
  BY DEF LoopReturns
<1>7. ASSUME NEW h \in Handles PROVE Move(h) /\ op'[h] \in Ops /\ handle'[h] \in HandleType
  <2>1. CASE InChannel(k, h)
    BY <1>1, <1>6, <2>1, DroppedMove
  <2>2. CASE ~InChannel(k, h) /\ Waiting(k, h)
    <3>1. loop'[handle[h].sender] \in Closing /\ op[h] \in WaitOps
      BY <1>3, <1>4, <2>2 DEF Closing
    <3>2. Move(h)
      BY <1>3, <1>6, <2>2, <3>1, ReturnMove
    <3> QED BY <3>2 DEF Move
  <2>3. CASE ~Waiting(k, h)
    BY <1>1, <1>3, <1>5, <1>6, <2>3, StaysPut
  <2> QED BY <2>1, <2>2, <2>3
<1>8. op' \in [Handles -> Ops] /\ handle' \in [Handles -> HandleType]
  BY <1>6, <1>7
<1> QED BY <1>2, <1>3, <1>7, <1>8, SteadyIInv

--------------------------------------------------------------------------------
(* Steps that give a handle a handler, tell a handler something or make a  *)
(* connection.                                                             *)

LEMMA ConnectStep ==
  ASSUME IInv, NEW h \in Handles, Connect(h)
  PROVE  IInv'
<1> USE DEF IInv, HandleInv
<1>1. /\ handle \in [Handles -> HandleType] /\ op \in [Handles -> Ops]
      /\ handle[h] = Gone /\ op[h] = "idle" /\ UNCHANGED <<loop, queue, history>>
      /\ owner' = owner /\ callbacks' = callbacks
  BY DEF Types, Connect, history
<1>2. PICK g \in Handlers : /\ callbacks[g] = <<>> /\ \A i \in Handles : handle[i].handler # g
                            /\ handle' = [handle EXCEPT ![h].handler = g]
  BY DEF Connect
<1>3. /\ op' = [op EXCEPT ![h] = "connect_async"] /\ op' \in [Handles -> Ops]
      /\ op'[h] = "connect_async" /\ \A i \in Handles : i # h => op'[i] = op[i]
  BY <1>1 DEF Connect, Ops
<1>4. /\ handle'[h] = [Gone EXCEPT !.handler = g]
      /\ \A i \in Handles : i # h => handle'[i] = handle[i]
      /\ handle' = [i \in Handles |-> handle'[i]]
  BY <1>1, <1>2
<1>5. /\ handle'[h].kind = "none" /\ handle'[h].sender = 0 /\ handle'[h].receiver = 0
      /\ handle'[h].slot = 0 /\ handle'[h].handler = g /\ handle'[h] \in HandleType
  BY <1>4 DEF Gone, HandleType
<1>6. handle' \in [Handles -> HandleType]
  <2>1. \A i \in Handles : handle'[i] \in HandleType
    BY <1>1, <1>4, <1>5
  <2> QED BY <1>4, <2>1
<1>7. Types'
  BY <1>1, <1>3, <1>6 DEF Types
<1>8. HandlesOK'
  <2>1. HandleOK(h)'
    BY <1>3, <1>5 DEF HandleOK, Connecting
  <2>2. ASSUME NEW i \in Handles, i # h PROVE HandleOK(i)'
    BY <1>1, <1>3, <1>4, <2>2 DEF HandlesOK, HandleOK
  <2> QED BY <2>1, <2>2 DEF HandlesOK
<1>9. Unshared'
  BY <1>2, <1>4, <1>5 DEF Unshared
<1>10. OwnerOK'
  <2>1. \A k \in Conns : owner[k] # g
    BY <1>2, LifecycleSizes DEF OwnerOK
  <2>2. ASSUME NEW i \in Handles, NEW k \in Conns, handle'[i].handler \in Handlers,
               owner'[k] = handle'[i].handler, loop'[k] = "running"
        PROVE  k = handle'[i].receiver /\ op'[i] \notin Connecting
    <3>1. owner[k] = handle'[i].handler /\ loop[k] = "running"
      BY <1>1, <2>2
    <3>2. i # h
      BY <1>5, <2>1, <3>1
    <3>3. handle'[i] = handle[i] /\ op'[i] = op[i]
      BY <1>3, <1>4, <3>2
    <3> QED BY <2>2, <3>1, <3>3 DEF OwnerOK
  <2> QED BY <1>1, <2>2 DEF OwnerOK, OneLiveConnection
<1>11. ToldOK'
  <2>1. ASSUME NEW i \in Handles, handle'[i].handler \in Handlers
        PROVE  Len(callbacks'[handle'[i].handler]) % 2 = 1 <=> op'[i] \notin Untold
    <3>1. CASE i = h
      <4>1. ~(Len(callbacks[g]) % 2 = 1)
        <5>1. Len(callbacks[g]) = 0
          BY <1>2
        <5> QED BY <5>1
      <4>2. callbacks'[handle'[i].handler] = callbacks[g] /\ op'[i] \in Untold
        BY <1>1, <1>3, <1>5, <3>1 DEF Untold
      <4> QED BY <4>1, <4>2, Zenon
    <3>2. CASE i # h
      BY <1>1, <1>3, <1>4, <2>1, <3>2 DEF ToldOK
    <3> QED BY <3>1, <3>2
  <2> QED BY <1>1, <2>1 DEF ToldOK
<1>12. JoinsAClosingLoop'
  BY <1>1, <1>3, <1>4 DEF JoinsAClosingLoop
<1>13. QueueInv'
  <2>1. op[h] \notin WaitOps /\ op'[h] \notin WaitOps
    BY <1>1, <1>3 DEF WaitOps
  <2> QED BY <1>1, <1>3, <1>4, <2>1, QuietQueue
<1> QED BY <1>7, <1>8, <1>9, <1>10, <1>11, <1>12, <1>13

LEMMA Parity ==
  ASSUME NEW n \in Nat
  PROVE  (n + 1) % 2 = 1 <=> n % 2 # 1
OBVIOUS

\* A callback: the handler of h hears what it has not heard last.
LEMMA TellStep ==
  ASSUME IInv, NEW h \in Handles, handle[h].handler \in Handlers, UNCHANGED <<handle, loop, queue, owner>>,
         Tell(handle[h].handler, IF op[h] \in Untold THEN "connected" ELSE "disconnected"),
         NEW o \in Ops \ WaitOps, op' = [op EXCEPT ![h] = o], op[h] \notin WaitOps,
         o \in Untold <=> op[h] \notin Untold,
         o \in Connecting => op[h] \in Connecting, o # "join", HandleOK(h)'
  PROVE  IInv'
<1> USE DEF IInv, HandleInv
<1> DEFINE g == handle[h].handler
           c == callbacks[g]
           w == IF op[h] \in Untold THEN "connected" ELSE "disconnected"
<1>1. /\ op \in [Handles -> Ops] /\ callbacks \in [Handlers -> Seq({"connected", "disconnected"})]
      /\ g \in Handlers /\ c \in Seq({"connected", "disconnected"}) /\ w \in {"connected", "disconnected"}
  BY DEF Types
<1>2. op' \in [Handles -> Ops] /\ op'[h] = o /\ \A i \in Handles : i # h => op'[i] = op[i]
  BY <1>1
<1>3. Len(c) % 2 = 1 <=> op[h] \notin Untold
  BY DEF ToldOK
<1>4. w = (IF (Len(c) + 1) % 2 = 1 THEN "connected" ELSE "disconnected")
      /\ ((Len(c) + 1) % 2 = 1 <=> o \notin Untold)
  <2>1. Len(c) \in Nat
    BY <1>1
  <2>2. (Len(c) + 1) % 2 = 1 <=> ~(Len(c) % 2 = 1)
    BY <2>1, Parity
  <2> QED BY <1>3, <2>2
<1> HIDE DEF w
<1>5. /\ callbacks' \in [Handlers -> Seq({"connected", "disconnected"})]
      /\ callbacks'[g] = Append(c, w) /\ \A x \in Handlers : x # g => callbacks'[x] = callbacks[x]
  BY <1>1 DEF Tell, w
<1>6. /\ DOMAIN c = 1..Len(c) /\ Len(c) \in Nat /\ DOMAIN callbacks'[g] = 1..(Len(c) + 1)
      /\ Len(callbacks'[g]) = Len(c) + 1 /\ callbacks'[g][Len(c) + 1] = w
      /\ \A i \in 1..Len(c) : callbacks'[g][i] = c[i]
      /\ callbacks'[g] # <<>>
  <2> DEFINE d == callbacks'[g]
  <2>1. d = Append(c, w)
    BY <1>5
  <2> HIDE DEF c, d
  <2>2. /\ DOMAIN c = 1..Len(c) /\ Len(c) \in Nat /\ DOMAIN d = 1..(Len(c) + 1)
        /\ Len(d) = Len(c) + 1 /\ d[Len(c) + 1] = w /\ \A i \in 1..Len(c) : d[i] = c[i]
    BY <1>1, <2>1
  <2>3. d # <<>>
    BY <2>2
  <2> QED BY <2>2, <2>3 DEF d
<1>7. Types'
  BY <1>2, <1>5 DEF Types
<1>8. HandlesOK'
  <2>1. ASSUME NEW i \in Handles, i # h PROVE HandleOK(i)'
    BY <1>2, <2>1 DEF HandlesOK, HandleOK
  <2> QED BY <2>1 DEF HandlesOK
<1>9. Unshared'
  BY DEF Unshared
<1>10. OwnerOK'
  <2>1. \A k \in Conns : owner[k] # NoHandler => callbacks'[owner[k]] # <<>>
    <3> TAKE k \in Conns
    <3>1. owner[k] # NoHandler => owner[k] \in Handlers /\ callbacks[owner[k]] # <<>>
      BY DEF OwnerOK, Types
    <3> HIDE DEF g
    <3> QED BY <1>5, <1>6, <3>1
  <2>2. ASSUME NEW i \in Handles, NEW k \in Conns, handle[i].handler \in Handlers,
               owner[k] = handle[i].handler, loop[k] = "running"
        PROVE  k = handle[i].receiver /\ op'[i] \notin Connecting
    BY <1>2, <2>2 DEF OwnerOK
  <2> QED BY <2>1, <2>2 DEF OwnerOK, OneLiveConnection
<1>11. ToldOK'
  <2>1. ASSUME NEW x \in Handlers, NEW i \in DOMAIN callbacks'[x]
        PROVE  callbacks'[x][i] = IF i % 2 = 1 THEN "connected" ELSE "disconnected"
    <3>1. CASE x # g
      BY <1>5, <3>1 DEF ToldOK
    <3>2. CASE x = g /\ i \in 1..Len(c)
      BY <1>1, <1>6, <3>2 DEF ToldOK
    <3>3. CASE x = g /\ i = Len(c) + 1
      BY <1>4, <1>6, <3>3
    <3>4. x = g => i \in 1..Len(c) \/ i = Len(c) + 1
      <4>1. x = g => i \in 1..(Len(c) + 1)
        BY <1>6
      <4> HIDE DEF c
      <4> QED BY <1>6, <4>1
    <3> QED BY <3>1, <3>2, <3>3, <3>4
  <2>2. ASSUME NEW i \in Handles, handle[i].handler \in Handlers
        PROVE  Len(callbacks'[handle[i].handler]) % 2 = 1 <=> op'[i] \notin Untold
    <3>1. CASE i = h
      BY <1>2, <1>4, <1>6, <3>1
    <3>2. CASE i # h
      <4>1. handle[i].handler # g
        BY <2>2, <3>2 DEF Unshared
      <4> QED BY <1>2, <1>5, <2>2, <3>2, <4>1 DEF ToldOK
    <3> QED BY <3>1, <3>2
  <2> QED BY <2>1, <2>2 DEF ToldOK
<1>12. JoinsAClosingLoop'
  BY <1>2 DEF JoinsAClosingLoop
<1>13. QueueInv'
  BY <1>2, QuietQueue
<1> QED BY <1>7, <1>8, <1>9, <1>10, <1>11, <1>12, <1>13

LEMMA UpgradedStep ==
  ASSUME IInv, NEW h \in Handles, Upgraded(h)
  PROVE  IInv'
<1>1. /\ HandleOK(h) /\ handle[h] \in HandleType /\ op \in [Handles -> Ops] /\ op[h] = "connect_async"
      /\ UNCHANGED <<handle, loop, queue, owner>> /\ op'[h] = "on_connected"
  BY DEF IInv, Types, HandleInv, HandlesOK, Upgraded
<1>2. handle[h].handler \in Handlers /\ handle[h].kind \in {"none", "whole"}
  BY <1>1 DEF HandleOK, HandleType, Connecting
<1>3. HandleOK(h)'
  BY <1>1, <1>2 DEF HandleOK, Connecting
<1>4. Tell(handle[h].handler, IF op[h] \in Untold THEN "connected" ELSE "disconnected")
  BY <1>1 DEF Upgraded, Untold
<1>5. /\ "on_connected" \in Ops \ WaitOps /\ op[h] \notin WaitOps
      /\ "on_connected" \notin Untold /\ op[h] \in Untold /\ op[h] \in Connecting
  BY <1>1 DEF Ops, WaitOps, Untold, Connecting
<1> QED BY <1>1, <1>2, <1>3, <1>4, <1>5, TellStep DEF Upgraded

LEMMA ReconnectStep ==
  ASSUME IInv, NEW h \in Handles, Reconnect(h)
  PROVE  IInv'
<1>1. /\ HandleOK(h) /\ handle[h] \in HandleType /\ op \in [Handles -> Ops] /\ op[h] = "idle"
      /\ handle[h].kind = "whole"
      /\ UNCHANGED <<handle, loop, queue, owner>> /\ op'[h] = "on_disconnected"
  BY DEF IInv, Types, HandleInv, HandlesOK, Reconnect, Ready
<1>2. handle[h].handler \in Handlers
  BY <1>1 DEF HandleOK
<1>3. HandleOK(h)'
  BY <1>1, <1>2 DEF HandleOK, Connecting
<1>4. Tell(handle[h].handler, IF op[h] \in Untold THEN "connected" ELSE "disconnected")
  BY <1>1 DEF Reconnect, Untold
<1>5. /\ "on_disconnected" \in Ops \ WaitOps /\ op[h] \notin WaitOps
      /\ "on_disconnected" \in Untold /\ op[h] \notin Untold /\ "on_disconnected" \notin Connecting
  BY <1>1 DEF Ops, WaitOps, Untold, Connecting
<1> QED BY <1>1, <1>2, <1>3, <1>4, <1>5, TellStep DEF Reconnect

LEMMA SpawnStep ==
  ASSUME IInv, NEW h \in Handles, Spawn(h)
  PROVE  IInv'
<1> USE DEF IInv, HandleInv
<1> DEFINE g == handle[h].handler
<1>1. /\ handle \in [Handles -> HandleType] /\ op \in [Handles -> Ops] /\ loop \in [Conns -> LoopStates]
      /\ owner \in [Conns -> Handlers \cup {NoHandler}] /\ handle[h] \in HandleType /\ HandleOK(h)
      /\ op[h] = "on_connected" /\ UNCHANGED <<queue, callbacks>>
  BY DEF Types, HandlesOK, Spawn
<1>2. g \in Handlers /\ g # NoHandler
  BY <1>1, LifecycleSizes DEF HandleOK, HandleType, Connecting
<1>3. PICK k \in Conns, s \in {"running", "closed"} :
          /\ loop[k] = "unborn" /\ loop' = [loop EXCEPT ![k] = s]
          /\ owner' = [owner EXCEPT ![k] = g] /\ handle' = [handle EXCEPT ![h] = Whole(k, g)]
  BY DEF Spawn
<1>4. /\ op' \in [Handles -> Ops] /\ op'[h] = "idle" /\ \A i \in Handles : i # h => op'[i] = op[i]
  BY <1>1 DEF Spawn, Ops
<1>5. /\ Whole(k, g) \in HandleType /\ Whole(k, g).kind = "whole" /\ Whole(k, g).sender = k
      /\ Whole(k, g).receiver = k /\ Whole(k, g).slot = k /\ Whole(k, g).handler = g /\ k # 0
  BY <1>2, LifecycleSizes DEF Whole, HandleType, Conns
<1> HIDE DEF g
<1>6. /\ handle' \in [Handles -> HandleType] /\ handle'[h] = Whole(k, g)
      /\ \A i \in Handles : i # h => handle'[i] = handle[i]
      /\ loop' \in [Conns -> LoopStates] /\ loop'[k] = s /\ \A j \in Conns : j # k => loop'[j] = loop[j]
      /\ owner' \in [Conns -> Handlers \cup {NoHandler}] /\ owner'[k] = g
      /\ \A j \in Conns : j # k => owner'[j] = owner[j]
  BY <1>1, <1>2, <1>3, <1>5 DEF LoopStates
<1>7. ASSUME NEW i \in Handles, i # h
      PROVE  /\ handle[i].slot # k /\ handle[i].receiver # k
             /\ handle[i].kind # "none" => handle[i].slot \in Conns \ {k}
             /\ handle[i].receiver # 0 => handle[i].receiver \in Conns \ {k}
             /\ handle[i].handler # g
  <2>1. handle[i] \in HandleType /\ HandleOK(i)
    BY <1>1 DEF HandlesOK
  <2>2. handle[i].kind = "none" => handle[i].slot = 0 /\ handle[i].receiver = 0
    BY <2>1 DEF HandleOK
  <2>3. handle[i].kind # "none" => handle[i].slot \in Conns \ {k} /\ handle[i].receiver \in {0, handle[i].slot}
    BY <1>3, <2>1 DEF HandleOK, HandleType
  <2>4. handle[i].handler # g
    BY <1>2, <1>7 DEF Unshared, g
  <2> QED BY <1>5, <2>2, <2>3, <2>4
<1>8. Types'
  BY <1>1, <1>4, <1>6 DEF Types
<1>9. HandlesOK'
  <2>1. HandleOK(h)'
    BY <1>2, <1>3, <1>4, <1>5, <1>6 DEF HandleOK
  <2>2. ASSUME NEW i \in Handles, i # h PROVE HandleOK(i)'
    <3>1. HandleOK(i) /\ handle'[i] = handle[i] /\ op'[i] = op[i]
      BY <1>4, <1>6, <2>2 DEF HandlesOK
    <3>2. /\ handle[i].kind # "none" => loop'[handle[i].slot] = loop[handle[i].slot]
          /\ handle[i].receiver # 0 => owner'[handle[i].receiver] = owner[handle[i].receiver]
      BY <1>6, <1>7, <2>2
    <3> QED BY <3>1, <3>2 DEF HandleOK
  <2> QED BY <2>1, <2>2 DEF HandlesOK
<1>10. Unshared'
  <2>1. ASSUME NEW i \in Handles, NEW j \in Handles, i # j
        PROVE  /\ handle'[i].receiver # 0 => handle'[i].receiver # handle'[j].receiver
               /\ handle'[i].handler \in Handlers => handle'[i].handler # handle'[j].handler
    <3>1. CASE i = h
      BY <1>5, <1>6, <1>7, <2>1, <3>1
    <3>2. CASE j = h
      BY <1>5, <1>6, <1>7, <2>1, <3>2
    <3>3. CASE i # h /\ j # h
      BY <1>6, <2>1, <3>3 DEF Unshared
    <3> QED BY <3>1, <3>2, <3>3
  <2> QED BY <2>1 DEF Unshared
<1>11. \A j \in Conns : owner'[j] = g /\ loop'[j] = "running" => j = k
  <2> SUFFICES ASSUME NEW j \in Conns, owner'[j] = g, loop'[j] = "running", j # k PROVE FALSE
    OBVIOUS
  <2>1. owner[j] = g /\ loop[j] = "running"
    BY <1>6
  <2> QED BY <1>1, <1>2, <2>1 DEF OwnerOK, Connecting, g
<1>12. OwnerOK'
  <2>1. \A j \in Conns : loop'[j] = "unborn" <=> owner'[j] = NoHandler
    BY <1>2, <1>6 DEF OwnerOK
  <2>2. callbacks[g] # <<>>
    <3>1. Len(callbacks[g]) % 2 = 1
      BY <1>1, <1>2 DEF ToldOK, Untold, g
    <3>2. ASSUME callbacks[g] = <<>> PROVE FALSE
      <4>1. Len(callbacks[g]) = 0
        BY <3>2
      <4> QED BY <3>1, <4>1
    <3> QED BY <3>2
  <2>3. \A j \in Conns : owner'[j] # NoHandler => callbacks'[owner'[j]] # <<>>
    BY <1>1, <1>6, <2>2 DEF OwnerOK
  <2>4. ASSUME NEW i \in Handles, NEW j \in Conns, handle'[i].handler \in Handlers,
               owner'[j] = handle'[i].handler, loop'[j] = "running"
        PROVE  j = handle'[i].receiver /\ op'[i] \notin Connecting
    <3>1. CASE i = h
      BY <1>4, <1>5, <1>6, <1>11, <2>4, <3>1 DEF Connecting
    <3>2. CASE i # h
      <4>1. handle'[i] = handle[i] /\ op'[i] = op[i] /\ handle[i].handler # g
        BY <1>4, <1>6, <1>7, <3>2
      <4>2. j # k
        BY <1>6, <2>4, <4>1
      <4>3. owner'[j] = owner[j] /\ loop'[j] = loop[j]
        BY <1>6, <4>2
      <4> QED BY <2>4, <4>1, <4>3 DEF OwnerOK
    <3> QED BY <3>1, <3>2
  <2>5. OneLiveConnection'
    <3> SUFFICES ASSUME NEW i \in Conns, NEW j \in Conns, owner'[i] = owner'[j],
                        loop'[i] = "running", loop'[j] = "running"
                 PROVE  i = j
      BY DEF OneLiveConnection
    <3>1. CASE i = k \/ j = k
      BY <1>6, <1>11, <3>1
    <3>2. CASE i # k /\ j # k
      BY <1>6, <3>2 DEF OwnerOK, OneLiveConnection
    <3> QED BY <3>1, <3>2
  <2> QED BY <2>1, <2>3, <2>4, <2>5 DEF OwnerOK
<1>13. ToldOK'
  <2>1. ASSUME NEW i \in Handles, handle'[i].handler \in Handlers
        PROVE  Len(callbacks'[handle'[i].handler]) % 2 = 1 <=> op'[i] \notin Untold
    <3>1. handle'[i].handler = handle[i].handler /\ (op'[i] \in Untold <=> op[i] \in Untold)
      BY <1>1, <1>4, <1>5, <1>6 DEF g, Untold
    <3> QED BY <1>1, <2>1, <3>1 DEF ToldOK
  <2> QED BY <1>1, <2>1 DEF ToldOK
<1>14. JoinsAClosingLoop'
  <2>1. ASSUME NEW i \in Handles, op'[i] = "join"
        PROVE  loop'[handle'[i].receiver] \in {"closed", "ending", "ended"}
    <3>1. i # h /\ handle'[i] = handle[i] /\ op[i] = "join"
      BY <1>4, <1>6, <2>1
    <3>2. handle[i].receiver # 0
      BY <1>1, <3>1 DEF HandlesOK, HandleOK, HandleType, Connecting, Conns
    <3> QED BY <1>6, <1>7, <3>1, <3>2 DEF JoinsAClosingLoop
  <2> QED BY <2>1 DEF JoinsAClosingLoop
<1>15. QueueInv'
  <2>1. op[h] \notin WaitOps /\ op'[h] \notin WaitOps
    BY <1>1, <1>4 DEF WaitOps
  <2> QED BY <1>1, <1>4, <1>6, <2>1, QuietQueue
<1> QED BY <1>8, <1>9, <1>10, <1>12, <1>13, <1>14, <1>15

--------------------------------------------------------------------------------
LEMMA IInvStep == IInv /\ [Next]_vars => IInv'
<1> SUFFICES ASSUME IInv, [Next]_vars PROVE IInv'
  OBVIOUS
<1>1. ASSUME NEW h \in Handles, Method(h) PROVE IInv'
  <2>1. CASE Send(h)
    BY <2>1, EnqueueStep DEF Send, Ready, WaitOps
  <2>2. CASE TxClose(h)
    BY <2>2, EnqueueStep DEF TxClose, Ready, WaitOps
  <2>3. CASE CloseConnection(h)
    BY <2>3, EnqueueStep DEF CloseConnection, Ready, WaitOps
  <2>4. CASE ReconnectClose(h)
    BY <2>4, EnqueueStep DEF ReconnectClose, WaitOps
  <2>5. CASE JoinReturn(h)
    BY <2>5, DropStep DEF JoinReturn, WaitOps
  <2>6. CASE ConnectFails(h)
    BY <2>6, DropStep DEF ConnectFails, WaitOps
  <2>7. CASE Drop(h)
    <3>1. op' = [op EXCEPT ![h] = "idle"]
      BY <2>7 DEF Drop, Ready, IInv, Types
    <3> QED BY <2>7, <3>1, DropStep DEF Drop, Ready, WaitOps
  <2>8. CASE Cancel(h)
    BY <2>8, CancelStep
  <2>9. CASE Connect(h)
    BY <2>9, ConnectStep
  <2>10. CASE Upgraded(h)
    BY <2>10, UpgradedStep
  <2>11. CASE Spawn(h)
    BY <2>11, SpawnStep
  <2>12. CASE Reconnect(h)
    BY <2>12, ReconnectStep
  <2> QED BY <1>1, <2>1, <2>2, <2>3, <2>4, <2>5, <2>6, <2>7, <2>8, <2>9, <2>10, <2>11, <2>12 DEF Method
<1>2. ASSUME NEW h \in Handles, NEW i \in Handles, TwoHandles(h, i) PROVE IInv'
  BY <1>2, SplitStep, CloneStep, ReuniteStep DEF TwoHandles
<1>3. ASSUME NEW k \in Conns, LoopStep(k) \/ ConnectionLost(k) PROVE IInv'
  BY <1>3, ServeStep, EndStep, ReturnStep DEF LoopStep
<1>4. ASSUME UNCHANGED vars PROVE IInv'
  <2> USE <1>4 DEF vars, history, IInv
  <2>1. Types' /\ QueueInv'
    BY DEF Types, QueueInv, Agree, PayloadOK, Waiting
  <2>2. \A i \in Handles : Move(i)
    BY LoopsStay, StaysPut
  <2>3. HandleInv'
    BY <2>2, LoopsStay, SteadyStep
  <2> QED BY <2>1, <2>3
<1> QED BY <1>1, <1>2, <1>3, <1>4 DEF Next

LEMMA Invariance == Spec => []IInv
BY InitIInv, IInvStep, PTL DEF Spec

\* Every variable has its type, and a call is suspended exactly while it has one live
\* payload, on the connection its handle sends to: no method of lib.rs or split.rs,
\* cancelled at any point, and no end of a loop leaves a caller waiting for an answer
\* nobody holds (send_confirmed and send_close, socket_loop.rs:72-125).
THEOREM TypeCorrect == Spec => []TypeOK
<1>1. IInv => TypeOK
  BY DEF IInv, Types, QueueInv, Agree, TypeOK
<1> QED BY <1>1, Invariance, PTL

\* Through any sequence of split, clone, reunite, reconnect, cancellation and drop, a
\* handle's sender, receiver and slot are of one connection, made with its own handler,
\* and no two handles share a receiver or a handler (split.rs:155-172).
THEOREM PartsTogether == Spec => []PartsBelongTogether
<1>1. ASSUME IInv PROVE PartsBelongTogether
  <2> USE <1>1 DEF IInv, HandleInv
  <2>1. ASSUME NEW h \in Handles
        PROVE  /\ handle[h] \in HandleType /\ HandleOK(h)
               /\ handle[h].kind # "none" => handle[h].slot # 0
    <3>1. handle[h] \in HandleType /\ HandleOK(h)
      BY DEF Types, HandlesOK
    <3> QED BY <3>1, LifecycleSizes DEF HandleOK, Conns
  <2>2. ASSUME NEW h \in Handles
        PROVE  /\ handle[h].kind \in {"whole", "tx"} => handle[h].sender = handle[h].slot
               /\ handle[h].kind \in {"whole", "rx"} =>
                    handle[h].receiver = handle[h].slot /\ owner[handle[h].slot] = handle[h].handler
    BY <2>1 DEF HandleOK
  <2>3. ASSUME NEW h \in Handles, handle[h].kind # "tx", handle[h] # Gone
        PROVE  handle[h].handler \in Handlers
    <3>1. CASE handle[h].kind = "none"
      BY <2>1, <2>3, <3>1 DEF HandleOK, HandleType, Gone
    <3>2. CASE handle[h].kind # "none"
      BY <2>1, <2>3, <3>2 DEF HandleOK, HandleType
    <3> QED BY <3>1, <3>2
  <2>4. ASSUME NEW h \in Handles, NEW i \in Handles, h # i, handle[h].kind # "tx", handle[h] # Gone
        PROVE  /\ handle[h].receiver # handle[i].receiver \/ handle[h].receiver = 0
               /\ handle[h].handler # handle[i].handler
    BY <2>3, <2>4 DEF Unshared
  <2> QED BY <2>2, <2>4 DEF PartsBelongTogether
<1> QED BY <1>1, Invariance, PTL

\* A handler never has two connections that accept writes: reconnect has the answer to
\* its Close, or a dead loop, before it connects again (lib.rs:283-300).
THEOREM OneConnection == Spec => []OneLiveConnection
<1>1. IInv => OneLiveConnection
  BY DEF IInv, HandleInv, OwnerOK
<1> QED BY <1>1, Invariance, PTL

\* A handler hears connected and disconnected in turn, and the handler of a usable
\* handle heard connected last (handler.rs:153-168, lib.rs:283-300).
THEOREM AlternatingCallbacks == Spec => []CallbacksAlternate
<1>1. ASSUME IInv PROVE CallbacksAlternate
  <2> USE <1>1 DEF IInv, HandleInv
  <2>1. ASSUME NEW h \in Handles, handle[h].kind \in {"whole", "rx"}, op[h] \in {"idle", "send"}
        PROVE  Len(callbacks[handle[h].handler]) % 2 = 1
    <3>1. handle[h].handler \in Handlers /\ op[h] \notin Untold
      BY <2>1 DEF HandlesOK, HandleOK, Untold
    <3> QED BY <3>1 DEF ToldOK
  <2> QED BY <2>1 DEF ToldOK, CallbacksAlternate
<1> QED BY <1>1, Invariance, PTL

\* close_connection joins only a loop that has exchanged a Close frame or is on its way
\* out: the join can never wait for a loop that goes on serving (lib.rs:312-316).
THEOREM JoinSafe == Spec => []JoinsAClosingLoop
<1>1. IInv => JoinsAClosingLoop
  BY DEF IInv, HandleInv
<1> QED BY <1>1, Invariance, PTL

\* The guards of LoopStep, one of which NoOrphanLoop wants to hold.
CanGoOn(k) ==
    \/ loop[k] = "ending"
    \/ Alive(k) /\ (queue[k] # <<>> \/ \A h \in Handles : handle[h].sender # k)

\* The loop of a connection nobody can send on any more can take a step of its own until
\* it has ended: no sender is left behind in a handle of another kind or of another
\* connection, so recv on the empty channel returns None (socket_loop.rs:180, 196).
THEOREM OrphansGoOn == Spec => [](\A k \in Conns : Abandoned(k) /\ loop[k] # "ended" => CanGoOn(k))
<1>1. ASSUME IInv, NEW k \in Conns, Abandoned(k), loop[k] # "ended" PROVE CanGoOn(k)
  <2>1. loop[k] \in {"running", "closed", "ending"}
    BY <1>1 DEF IInv, Types, LoopStates, Abandoned
  <2>2. ASSUME NEW h \in Handles PROVE handle[h].sender # k
    <3>1. handle[h] \in HandleType /\ HandleOK(h) /\ k # 0
      BY <1>1, LifecycleSizes DEF IInv, Types, HandleInv, HandlesOK, Conns
    <3> QED BY <1>1, <3>1 DEF HandleOK, HandleType, Abandoned
  <2> QED BY <2>1, <2>2 DEF CanGoOn, Alive
<1>2. IInv => \A k \in Conns : Abandoned(k) /\ loop[k] # "ended" => CanGoOn(k)
  BY <1>1
<1> QED BY <1>2, Invariance, PTL

\* Nothing is queued to a loop that has ended.
Drained == \A k \in Conns : loop[k] = "ended" => queue[k] = <<>>

LEMMA DrainedEnqueue ==
  ASSUME Types, Drained, NEW h \in Handles, NEW o, Enqueue(h, o), UNCHANGED loop
  PROVE  Drained'
<1>1. queue \in [Conns -> Seq(Payloads)]
  BY DEF Types
<1> QED BY <1>1 DEF Enqueue, Drained

LEMMA DrainedStep == Types /\ Drained /\ [Next]_vars => Drained'
<1> SUFFICES ASSUME Types, Drained, [Next]_vars PROVE Drained'
  OBVIOUS
<1>0. queue \in [Conns -> Seq(Payloads)] /\ loop \in [Conns -> LoopStates]
  BY DEF Types
<1>1. CASE UNCHANGED <<loop, queue>>
  BY <1>1 DEF Drained
<1>2. ASSUME NEW h \in Handles, Send(h) \/ TxClose(h) \/ CloseConnection(h) \/ ReconnectClose(h)
      PROVE  Drained'
  BY <1>2, DrainedEnqueue DEF Send, TxClose, CloseConnection, ReconnectClose
<1>3. ASSUME NEW h \in Handles, JoinReturn(h) \/ Connect(h) \/ Upgraded(h) \/ ConnectFails(h)
                                \/ Reconnect(h) \/ Drop(h)
      PROVE  UNCHANGED <<loop, queue>>
  BY <1>3 DEF JoinReturn, Connect, Upgraded, ConnectFails, Reconnect, Drop
<1>4. ASSUME NEW h \in Handles, Cancel(h) PROVE Drained'
  <2>1. ASSUME NEW k \in Conns, loop'[k] = "ended" PROVE queue'[k] = <<>>
    <3>1. queue[k] = <<>> /\ DOMAIN queue[k] = {}
      BY <1>4, <2>1 DEF Cancel, Drained
    <3>2. Abandon(queue[k], h) = <<>>
      BY <3>1 DEF Abandon
    <3> QED BY <1>4, <3>1, <3>2 DEF Cancel
  <2> QED BY <2>1 DEF Drained
<1>5. ASSUME NEW h \in Handles, Spawn(h) PROVE Drained'
  BY <1>0, <1>5 DEF Spawn, Drained
<1>6. ASSUME NEW h \in Handles, NEW i \in Handles, TwoHandles(h, i) PROVE UNCHANGED <<loop, queue>>
  BY <1>6 DEF TwoHandles, Split, Clone, Reunite
<1>7. ASSUME NEW k \in Conns, Serve(k) PROVE Drained'
  <2>1. /\ loop[k] # "ended" /\ queue' = [queue EXCEPT ![k] = Tail(@)]
        /\ \E s \in {"ending", "closed", loop[k]} : loop' = [loop EXCEPT ![k] = s]
    BY <1>0, <1>7 DEF Serve, Alive
  <2> QED BY <1>0, <2>1 DEF Drained
<1>8. ASSUME NEW k \in Conns, SendersGone(k) \/ ConnectionLost(k) PROVE Drained'
  BY <1>0, <1>8 DEF SendersGone, ConnectionLost, Drained
<1>9. ASSUME NEW k \in Conns, LoopReturns(k) PROVE Drained'
  BY <1>0, <1>9 DEF LoopReturns, Drained
<1> QED
  BY <1>1, <1>2, <1>3, <1>4, <1>5, <1>6, <1>7, <1>8, <1>9 DEF Next, Method, LoopStep, vars

\* A method suspended on its channel waits for a loop that can take a step of its own,
\* however the connection was reached, shared and given up by others: no call is left on
\* the channel of a loop that has returned (send_confirmed and send_close in
\* socket_loop.rs:72-128, reconnect and close_connection in lib.rs:283-325).
THEOREM CallersServed ==
  Spec => [](\A h \in Handles : op[h] \in WaitOps => handle[h].sender \in Conns /\ CanGoOn(handle[h].sender))
<1>1. Init => Drained
  BY DEF Init, Drained
<1>2. IInv => Types
  BY DEF IInv
<1>3. ASSUME IInv, Drained, NEW h \in Handles, op[h] \in WaitOps
      PROVE  handle[h].sender \in Conns /\ CanGoOn(handle[h].sender)
  <2> DEFINE k == handle[h].sender
  <2>1. handle[h] \in HandleType /\ HandleOK(h)
    BY <1>3 DEF IInv, Types, HandleInv, HandlesOK
  <2>2. handle[h].kind \in {"whole", "tx"}
    BY <1>3, <2>1 DEF HandleOK, HandleType, WaitOps, Connecting
  <2>3. k \in Conns /\ loop[k] # "unborn"
    BY <2>1, <2>2 DEF HandleOK
  <2> HIDE DEF k
  <2>4. Waiting(k, h)
    BY <1>3, <2>3 DEF IInv, QueueInv, Agree, k
  <2>5. queue[k] # <<>>
    BY <2>4 DEF Waiting
  <2>6. loop[k] \in LoopStates /\ loop[k] # "ended"
    BY <1>3, <2>3, <2>5 DEF IInv, Types, Drained
  <2>7. CanGoOn(k)
    BY <2>3, <2>5, <2>6 DEF CanGoOn, Alive, LoopStates
  <2> QED BY <2>3, <2>7 DEF k
<1>4. IInv /\ Drained => \A h \in Handles : op[h] \in WaitOps => handle[h].sender \in Conns /\ CanGoOn(handle[h].sender)
  BY <1>3
<1> QED BY <1>1, <1>2, <1>4, Invariance, DrainedStep, PTL DEF Spec

================================================================================
