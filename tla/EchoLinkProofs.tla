---------------------------- MODULE EchoLinkProofs -----------------------------
(***************************************************************************)
(* Proofs about EchoLink, for buffers of any size and any number of calls: *)
(* it is a connection of SocketLoop, its other end is a MockServer, and    *)
(* the two ends wait for each other only when all room between them is     *)
(* used.                                                                   *)
(***************************************************************************)
EXTENDS EchoLink, SendPathProofs, FiniteSetTheorems

\* What is between the two ends: the server answers the frames one by one, nothing
\* follows a Close, and as long as the server serves, every message is on its way to
\* it, at it, or on its way back.
LinkInv ==
    /\ taken \in Nat /\ taken <= Len(wire) /\ held \in Calls \cup {NoCall} /\ serving \in BOOLEAN
    /\ held # NoCall => serving /\ taken >= 1 /\ held = wire[taken]
    /\ ws # "Terminated" /\ peer # "gone" /\ (~serving => ws # "Active")
    /\ \A i \in 1..Len(wire) : wire[i] \in CloseCalls => i = Len(wire) /\ ws # "Active"
    /\ \A i \in 1..Len(inbound) : inbound[i].kind = "data" \/ (inbound[i].kind = "close" /\ ~serving)
    /\ serving => produced = Unanswered /\ produced = read + Len(inbound)

\* What the invariants of SocketLoop contribute.
LoopInv == TypeInv /\ Numbered /\ OutcomeTruthful

LEMMA LinkStepIsStep == [LinkNext]_linkVars => [Next]_vars
BY DEF LinkNext, Client, Server, ServerReads, ServerEchoes, ServerCloses, Next, Environment, linkVars

\* The connection of the composed system is one that SocketLoop describes, so all its
\* theorems hold of it: the peer is replaced by echo_server and nothing is added
\* (the loop of socket_loop.rs and the server share nothing but the frames).
THEOREM LinkIsConnection == LinkSpec => Spec
<1>1. LinkInit => Init
  BY DEF LinkInit
<1> QED BY <1>1, LinkStepIsStep, PTL DEF LinkSpec, Spec

LEMMA LoopInvariant == LinkSpec => []LoopInv
<1>1. TypeInv /\ DeliveryInv => TypeInv /\ Numbered
  BY DEF DeliveryInv
<1>2. TypeInv /\ Numbered /\ OutcomeTruthful => LoopInv
  BY DEF LoopInv
<1> QED BY <1>1, <1>2, LinkIsConnection, DeliveryInvariant, TruthfulOutcomes, PTL

--------------------------------------------------------------------------------
(* What the client's end does to the link.                                 *)

Apart == UNCHANGED <<wire, ws, inbound, peer, produced, read>>

Writes ==
    /\ pc = "sending" /\ ws = "Active" /\ cur \in Calls
    /\ wire' = Append(wire, cur) /\ ws' = IF cur \in CloseCalls THEN "ClosedByUs" ELSE "Active"
    /\ UNCHANGED <<inbound, peer, produced, read>>

TakesData ==
    /\ inbound # <<>> /\ Head(inbound).kind = "data"
    /\ inbound' = Tail(inbound) /\ read' = Head(inbound).n
    /\ UNCHANGED <<wire, ws, peer, produced>>

TakesClose ==
    /\ inbound # <<>> /\ Head(inbound).kind = "close"
    /\ inbound' = Tail(inbound) /\ ws' = AfterRecvClose(ws)
    /\ UNCHANGED <<wire, peer, produced, read>>

LEMMA ClientMoves ==
  ASSUME LoopInv, LinkInv, (\E c \in Calls : CallStep(c)) \/ Consumer \/ Loop
  PROVE  Apart \/ Writes \/ TakesData \/ TakesClose
<1> USE DEF loop, chans, network, handles, history
<1>0. TypeInv /\ ws \in WsStates \ {"Terminated"} /\ peer # "gone" /\ inbound \in Seq(Frames)
  BY DEF LoopInv, TypeInv, TypeOK, LinkInv
<1>1. ASSUME NEW c \in Calls, CallStep(c) PROVE Apart
  BY <1>1 DEF CallStep, StartCall, Enqueue, EnqueueFail, Cancel, JoinReturn, Apart
<1>2. CASE Consumer
  BY <1>2 DEF Consumer, RecvRaw, RecvEnd, Apart
<1>3. CASE OutgoingArm \/ Reserve \/ KeepaliveFire
  BY <1>3 DEF OutgoingArm, RecvOutgoing, SendersGone, Reserve, KeepaliveFire, Apart
<1>4. CASE PongDone \/ CloseDone \/ send_keepalive \/ RecordTerminal \/ DropSender \/ DropReceiver
  BY <1>4 DEF PongDone, CloseDone, send_keepalive, RecordTerminal, DropSender, DropReceiver, Apart
<1>5. CASE send_socket_message
  <2>1. cur \in Calls /\ pc = "sending"
    BY <1>0, <1>5 DEF send_socket_message, TypeInv, TypeOK, PcOK
  <2>2. PICK ok \in SendOutcomes(ws, peer = "gone") :
          /\ wire' = IF ok THEN Append(wire, cur) ELSE wire
          /\ ws' = IF cur \in CloseCalls THEN AfterSendClose(ws) ELSE ws
    BY <1>5 DEF send_socket_message
  <2>3. UNCHANGED <<inbound, peer, produced, read>>
    BY <1>5 DEF send_socket_message
  <2>4. CASE ws = "Active"
    <3>1. ok = TRUE
      BY <1>0, <2>2, <2>4 DEF SendOutcomes
    <3> QED BY <2>1, <2>2, <2>3, <2>4, <3>1 DEF Writes, AfterSendClose
  <2>5. CASE ws # "Active"
    <3>1. ok = FALSE
      BY <1>0, <2>2, <2>5 DEF SendOutcomes, WsStates
    <3> QED BY <2>2, <2>3, <2>5, <3>1 DEF Apart, AfterSendClose
  <2> QED BY <2>4, <2>5
<1>6. CASE IncomingArm
  <2>1. inbound # <<>> => Head(inbound).kind \in {"data", "close"}
    <3>1. inbound # <<>> => Head(inbound) = inbound[1] /\ 1 \in 1..Len(inbound)
      BY <1>0
    <3> QED BY <3>1 DEF LinkInv
  <2>2. CASE ReadData
    BY <2>2 DEF ReadData, Reading, TakesData
  <2>3. CASE ReadClose
    BY <2>3 DEF ReadClose, Reading, TakesClose
  <2>4. CASE ReadPing \/ ReadPong \/ ReadError
    BY <2>1, <2>4 DEF ReadPing, ReadPong, ReadError, Reading
  <2>5. CASE ReadNone
    BY <2>5 DEF ReadNone, Apart
  <2> QED BY <1>6, <2>2, <2>3, <2>4, <2>5 DEF IncomingArm
<1> QED BY <1>1, <1>2, <1>3, <1>4, <1>5, <1>6 DEF Loop, Completion

--------------------------------------------------------------------------------
(* The invariant of the link.                                              *)

LEMMA LinkFacts ==
  ASSUME LoopInv
  PROVE  /\ wire \in Seq(Calls) /\ Len(wire) \in Nat /\ inbound \in Seq(Frames) /\ Len(inbound) \in Nat
         /\ produced \in Nat /\ read \in Nat /\ ws \in WsStates /\ NoCall \notin Calls
         /\ \A i \in 1..Len(wire) : wire[i] \in Calls
BY CallKinds DEF LoopInv, TypeInv, TypeOK

LEMMA LinkInvStep == LoopInv /\ LinkInv /\ [LinkNext]_linkVars => LinkInv'
<1> SUFFICES ASSUME LoopInv, LinkInv, [LinkNext]_linkVars PROVE LinkInv'
  OBVIOUS
<1>0. /\ wire \in Seq(Calls) /\ Len(wire) \in Nat /\ inbound \in Seq(Frames) /\ Len(inbound) \in Nat
      /\ produced \in Nat /\ read \in Nat /\ ws \in WsStates /\ NoCall \notin Calls
      /\ \A i \in 1..Len(wire) : wire[i] \in Calls
  BY LinkFacts
<1>1. CASE Apart /\ UNCHANGED server
  BY <1>1 DEF Apart, server, LinkInv, Unanswered
<1>2. CASE Writes /\ UNCHANGED server
  <2>1. /\ Len(wire') = Len(wire) + 1 /\ wire'[Len(wire) + 1] = cur
        /\ \A i \in 1..Len(wire) : wire'[i] = wire[i]
    BY <1>0, <1>2 DEF Writes
  <2>2. \A i \in 1..Len(wire') : wire'[i] \in CloseCalls => i = Len(wire') /\ ws' # "Active"
    BY <1>0, <1>2, <2>1 DEF Writes, LinkInv
  <2>3. held # NoCall => held = wire'[taken]
    BY <1>0, <2>1 DEF LinkInv
  <2>4. Unanswered' = Unanswered /\ ws' # "Terminated" /\ serving
    BY <1>2 DEF Writes, server, Unanswered, LinkInv
  <2> QED BY <1>0, <1>2, <2>1, <2>2, <2>3, <2>4 DEF Writes, server, LinkInv
<1>3. CASE (TakesData \/ TakesClose) /\ UNCHANGED server
  <2>1. inbound # <<>> /\ inbound' = Tail(inbound) /\ UNCHANGED <<wire, peer, produced>>
    BY <1>3 DEF TakesData, TakesClose
  <2>2. /\ Len(inbound') = Len(inbound) - 1 /\ Head(inbound) = inbound[1] /\ 1 \in 1..Len(inbound)
        /\ \A i \in 1..Len(inbound') : i + 1 \in 1..Len(inbound) /\ inbound'[i] = inbound[i + 1]
    BY <1>0, <2>1
  <2>3. \A i \in 1..Len(inbound') : inbound'[i].kind = "data" \/ (inbound'[i].kind = "close" /\ ~serving)
    BY <2>2 DEF LinkInv
  <2>4. ws' # "Terminated" /\ (ws # "Active" => ws' # "Active")
    BY <1>3 DEF TakesData, TakesClose, AfterRecvClose, LinkInv
  <2>5. serving => read' = read + 1
    <3>1. ASSUME serving PROVE Head(inbound).kind = "data"
      BY <2>2, <3>1 DEF LinkInv
    <3>2. Head(inbound).kind = "data" => inbound[1].n = read + 1
      BY <2>2 DEF LoopInv, Numbered, DataBit
    <3> QED BY <1>3, <2>2, <3>1, <3>2 DEF TakesData, TakesClose
  <2>6. serving => produced' = Unanswered' /\ produced' = read' + Len(inbound')
    BY <1>0, <1>3, <2>1, <2>2, <2>5 DEF LinkInv, server, Unanswered
  <2>7. UNCHANGED <<taken, held, serving>>
    BY <1>3 DEF server
  <2> QED BY <2>1, <2>3, <2>4, <2>6, <2>7 DEF LinkInv
<1>4. CASE ServerReads
  <2>1. /\ serving /\ held = NoCall /\ taken < Len(wire) /\ held' = wire[taken + 1]
        /\ taken' = taken + 1 /\ UNCHANGED <<wire, ws, inbound, peer, produced, read, serving>>
    BY <1>4 DEF ServerReads, vars, loop, network, history
  <2>2. held' \in Calls /\ held' # NoCall /\ taken' \in Nat /\ taken' <= Len(wire) /\ taken' >= 1
    BY <1>0, <2>1 DEF LinkInv
  <2>3. Unanswered' = Unanswered
    BY <1>0, <2>1, <2>2 DEF Unanswered, LinkInv
  <2> QED BY <2>1, <2>2, <2>3 DEF LinkInv
<1>5. CASE ServerEchoes
  <2>1. /\ held # NoCall /\ held' = NoCall /\ UNCHANGED <<wire, ws, peer, read, taken, serving>>
        /\ produced' = produced + 1 /\ inbound' = Append(inbound, [kind |-> "data", n |-> produced + 1])
    BY <1>0, <1>5 DEF ServerEchoes, PeerData, Arrives, history, Calls
  <2>2. /\ Len(inbound') = Len(inbound) + 1 /\ inbound'[Len(inbound) + 1].kind = "data"
        /\ \A i \in 1..Len(inbound) : inbound'[i] = inbound[i]
    BY <1>0, <2>1
  <2>3. \A i \in 1..Len(inbound') : inbound'[i].kind = "data" \/ (inbound'[i].kind = "close" /\ ~serving)
    BY <1>0, <2>2 DEF LinkInv
  <2>4. serving => produced' = Unanswered' /\ produced' = read + Len(inbound')
    BY <1>0, <2>1, <2>2 DEF LinkInv, Unanswered
  <2> QED BY <2>1, <2>3, <2>4 DEF LinkInv
<1>6. CASE ServerCloses
  <2>1. /\ held \in CloseCalls /\ held # NoCall /\ held' = NoCall /\ ~serving' /\ serving' \in BOOLEAN
        /\ UNCHANGED <<wire, ws, produced, read, taken>> /\ peer' = "closed"
        /\ inbound' = Append(inbound, [kind |-> "close", n |-> produced])
    BY <1>0, <1>6 DEF ServerCloses, PeerClose, Arrives, history, Calls, CloseCalls
  <2>2. /\ Len(inbound') = Len(inbound) + 1 /\ inbound'[Len(inbound) + 1].kind = "close"
        /\ \A i \in 1..Len(inbound) : inbound'[i] = inbound[i]
    BY <1>0, <2>1
  <2>3. \A i \in 1..Len(inbound') : inbound'[i].kind = "data" \/ (inbound'[i].kind = "close" /\ ~serving')
    BY <1>0, <2>1, <2>2 DEF LinkInv
  <2>4. ws # "Active"
    BY <1>0, <2>1 DEF LinkInv
  <2> QED BY <2>1, <2>3, <2>4 DEF LinkInv
<1>7. CASE UNCHANGED linkVars
  BY <1>1, <1>7 DEF linkVars, vars, loop, network, history, Apart
<1> QED BY <1>1, <1>2, <1>3, <1>4, <1>5, <1>6, <1>7, ClientMoves DEF LinkNext, Client, Server

LEMMA LinkInvariant == LinkSpec => [](LoopInv /\ LinkInv)
<1>1. LinkInit => LinkInv
  <2> SUFFICES ASSUME LinkInit PROVE LinkInv
    OBVIOUS
  <2>1. ws = "Active" /\ peer = "open" /\ inbound = <<>> /\ wire = <<>> /\ produced = 0 /\ read = 0
    BY LinkAssumption DEF LinkInit, Init
  <2>2. serving \in BOOLEAN
    BY Zenon DEF LinkInit
  <2> QED BY <2>1, <2>2 DEF LinkInit, LinkInv, Unanswered
<1> QED BY <1>1, LoopInvariant, LinkInvStep, PTL DEF LinkSpec

\* For buffers of any size: the loop and echo_server can only come to wait for each
\* other, each in its own sink.send, when the buffers in both directions are full and
\* each end holds a frame (the loop does not read while send_socket_message waits).
THEOREM WaitNeedsWindow == LinkSpec => []MutualWaitNeedsWindow
<1>1. LoopInv /\ LinkInv => MutualWaitNeedsWindow
  <2> SUFFICES ASSUME LoopInv, LinkInv, MutualWait PROVE Outstanding >= ToServer + ToClient + 2
    BY DEF MutualWaitNeedsWindow
  <2>0. Len(wire) \in Nat /\ Len(inbound) \in Nat /\ produced \in Nat /\ read \in Nat /\ NoCall \notin Calls
    BY LinkFacts
  <2>1. /\ pc = "sending" /\ ~(Len(wire) - taken < ToServer) /\ held \in Sends \cup Fires
        /\ Len(inbound) >= ToClient /\ ToServer \in Nat /\ ToClient \in Nat
    BY LinkAssumption DEF MutualWait, WriteReady, OnTheWay
  <2>2. held # NoCall
    BY <2>0, <2>1 DEF Calls
  <2>3. taken \in Nat /\ taken - 1 = read + Len(inbound)
    BY <2>2 DEF LinkInv, Unanswered
  <2> QED BY <2>0, <2>1, <2>3 DEF Outstanding
<1> QED BY <1>1, LinkInvariant, PTL

--------------------------------------------------------------------------------
(* The server's end is a MockServer.                                       *)

LEMMA DistinctLength ==
  ASSUME NEW S, IsFiniteSet(S), NEW s \in Seq(S), \A i, j \in 1..Len(s) : s[i] = s[j] => i = j
  PROVE  Len(s) <= Cardinality(S)
<1>1. s \in Injection(1..Len(s), S)
  BY DEF Injection, IsInjective
<1>2. Cardinality(1..Len(s)) <= Cardinality(S)
  BY <1>1, FS_Injection
<1>3. Len(s) \in Nat /\ Cardinality(1..Len(s)) = Len(s)
  <2>1. Len(s) \in Nat /\ 1 \in Int
    OBVIOUS
  <2>2. Cardinality(1..Len(s)) = IF 1 > Len(s) THEN 0 ELSE Len(s) - 1 + 1
    BY <2>1, FS_Interval
  <2> QED BY <2>1, <2>2
<1> QED BY <1>2, <1>3

LEMMA FramesAfterAppend ==
  ASSUME NEW w \in Seq(Calls), NEW c \in Calls, NEW u \in Nat, u <= Len(w)
  PROVE  FramesAfter(Append(w, c), u)
           = Append(FramesAfter(w, u), ClientFrame(Append(w, c), Len(w) + 1))
<1> DEFINE v == Append(w, c)
           g == ClientFrame(v, Len(w) + 1)
           l == Len(w) - u
<1>1. Len(w) \in Nat /\ Len(v) = Len(w) + 1 /\ l \in Nat /\ \A i \in 1..Len(w) : v[i] = w[i]
  OBVIOUS
<1>2. \A i \in 1..l : ClientFrame(v, u + i) = ClientFrame(w, u + i)
  <2> TAKE i \in 1..l
  <2>1. v[u + i] = w[u + i]
    BY <1>1
  <2> QED BY <2>1 DEF ClientFrame, MessagesIn
<1>3. u + (l + 1) = Len(w) + 1 /\ Len(v) - u = l + 1
  BY <1>1
<1> DEFINE q == FramesAfter(w, u)
<1>4. Len(q) = l /\ q = [i \in 1..l |-> ClientFrame(w, u + i)]
  BY <1>1 DEF FramesAfter
<1> HIDE DEF l
<1>5. FramesAfter(v, u) = [i \in 1..(l + 1) |-> ClientFrame(v, u + i)]
  BY <1>3 DEF FramesAfter
<1> HIDE DEF q, v
<1>6. Append(q, g) = [i \in 1..(l + 1) |-> IF i = l + 1 THEN g ELSE q[i]]
  BY <1>1, <1>4
<1>7. \A i \in 1..(l + 1) : ClientFrame(v, u + i) = IF i = l + 1 THEN g ELSE q[i]
  <2> TAKE i \in 1..(l + 1)
  <2>1. CASE i = l + 1
    BY <1>3, <2>1
  <2>2. CASE i \in 1..l
    <3>1. i # l + 1 /\ q[i] = ClientFrame(w, u + i)
      BY <1>1, <1>4, <2>2
    <3> QED BY <1>2, <2>2, <3>1
  <2> QED BY <1>1, <2>1, <2>2
<1> HIDE DEF g
<1>8. FramesAfter(v, u) = Append(q, g)
  BY <1>5, <1>6, <1>7
<1> QED BY <1>8 DEF v, q, g

LEMMA FramesAfterTail ==
  ASSUME NEW w \in Seq(Calls), NEW u \in Nat, u < Len(w)
  PROVE  /\ FramesAfter(w, u) # <<>> /\ Head(FramesAfter(w, u)) = ClientFrame(w, u + 1)
         /\ FramesAfter(w, u + 1) = Tail(FramesAfter(w, u))
<1> DEFINE q == FramesAfter(w, u)
           l == Len(w) - u
<1>1. l \in Nat /\ l >= 1 /\ Len(w) - (u + 1) = l - 1
  OBVIOUS
<1>2. Len(q) = l /\ q = [i \in 1..l |-> ClientFrame(w, u + i)]
  BY <1>1 DEF FramesAfter
<1> HIDE DEF l
<1>3. FramesAfter(w, u + 1) = [i \in 1..(l - 1) |-> ClientFrame(w, (u + 1) + i)]
  BY <1>1 DEF FramesAfter
<1> HIDE DEF q
<1>4. q[1] = ClientFrame(w, u + 1) /\ q # <<>>
  BY <1>1, <1>2
<1>5. \A i \in 1..(l - 1) : ClientFrame(w, (u + 1) + i) = q[i + 1]
  <2> TAKE i \in 1..(l - 1)
  <2>1. (u + 1) + i = u + (i + 1) /\ i + 1 \in 1..l
    BY <1>1
  <2> QED BY <1>2, <2>1
<1>6. Tail(q) = [i \in 1..(l - 1) |-> q[i + 1]] /\ Head(q) = q[1]
  BY <1>1, <1>2
<1>7. FramesAfter(w, u + 1) = Tail(q)
  BY <1>3, <1>5, <1>6
<1> QED BY <1>4, <1>6, <1>7 DEF q

LEMMA StepIsMock ==
  LoopInv /\ LoopInv' /\ LinkInv /\ LinkInv' /\ [LinkNext]_linkVars => [Mock!Next]_(Mock!vars)
<1> SUFFICES ASSUME LoopInv, LoopInv', LinkInv, LinkInv', [LinkNext]_linkVars
             PROVE  Mock!Next \/ UNCHANGED Mock!vars
  OBVIOUS
<1>0. /\ wire \in Seq(Calls) /\ Len(wire) \in Nat /\ inbound \in Seq(Frames) /\ Len(inbound) \in Nat
      /\ produced \in Nat /\ read \in Nat /\ ws \in WsStates /\ NoCall \notin Calls
      /\ \A i \in 1..Len(wire) : wire[i] \in Calls
  BY LinkFacts
<1>1. /\ Unanswered \in Nat /\ Unanswered <= taken /\ taken <= Len(wire) /\ taken \in Nat
      /\ held # NoCall => taken = Unanswered + 1
  BY <1>0 DEF LinkInv, Unanswered
<1>2. ASSUME UNCHANGED <<wire, serving, produced>>, Unanswered' = Unanswered,
             serving => (ws' = "Active" <=> ws = "Active")
      PROVE  UNCHANGED Mock!vars
  BY <1>2 DEF Mock!vars, Mock!connection, Mock!clients
<1>3. CASE Apart /\ UNCHANGED server
  BY <1>2, <1>3 DEF Apart, server, Unanswered
<1>4. CASE (TakesData \/ TakesClose) /\ UNCHANGED server
  <2>1. serving => ~TakesClose
    <3>1. inbound # <<>> => Head(inbound) = inbound[1] /\ 1 \in 1..Len(inbound)
      BY <1>0
    <3> QED BY <3>1 DEF TakesClose, LinkInv
  <2> QED BY <1>2, <1>4, <2>1 DEF TakesData, TakesClose, server, Unanswered
<1>5. CASE ServerReads
  <2>1. /\ held = NoCall /\ held' = wire[taken + 1] /\ taken' = taken + 1 /\ taken < Len(wire)
        /\ UNCHANGED <<wire, ws, produced, serving>>
    BY <1>5 DEF ServerReads, vars, loop, network, history
  <2>2. Unanswered' = Unanswered
    BY <1>0, <1>1, <2>1 DEF Unanswered, LinkInv
  <2> QED BY <1>2, <2>1, <2>2
<1>6. CASE UNCHANGED linkVars
  BY <1>3, <1>6 DEF linkVars, vars, loop, network, history, Apart
<1>7. CASE Writes /\ UNCHANGED server
  <2> DEFINE kind == IF cur \in CloseCalls THEN "close" ELSE "Message"
             after == MessagesIn(wire', Len(wire'))
  <2>1. /\ Len(wire') = Len(wire) + 1 /\ wire'[Len(wire) + 1] = cur
        /\ \A i \in 1..Len(wire) : wire'[i] = wire[i]
    BY <1>0, <1>7 DEF Writes
  <2>2. /\ MessagesIn(wire, Len(wire)) = Len(wire)
        /\ after = IF kind = "Message" THEN Len(wire) + 1 ELSE Len(wire)
    BY <1>0, <1>7, <2>1 DEF MessagesIn, Writes, LinkInv
  <2>3. Len(wire) < Cardinality(Calls)
    <3>1. Len(wire') <= Cardinality(Calls)
      <4>1. wire' \in Seq(Calls) /\ \A i, j \in 1..Len(wire') : wire'[i] = wire'[j] => i = j
        BY DEF LoopInv, TypeInv, TypeOK, OutcomeTruthful
      <4> QED BY <4>1, LinkAssumption, DistinctLength
    <3>2. Cardinality(Calls) \in Nat
      BY LinkAssumption, FS_CardinalityType
    <3> QED BY <1>0, <2>1, <3>1, <3>2
  <2>4. /\ Unanswered' = Unanswered /\ serving = TRUE /\ serving' = TRUE /\ produced' = produced
        /\ ws = "Active" /\ (ws' # "Active" <=> kind = "close")
    BY <1>7 DEF Writes, server, Unanswered, LinkInv
  <2>5. FramesAfter(wire', Unanswered') = Append(FramesAfter(wire, Unanswered), [kind |-> kind, n |-> after])
    <3>1. ClientFrame(wire', Len(wire) + 1) = [kind |-> kind, n |-> after]
      BY <2>1 DEF ClientFrame
    <3> QED BY <1>0, <1>1, <1>7, <2>4, <3>1, FramesAfterAppend DEF Writes
  <2> HIDE DEF kind, after
  <2>6. kind \in {"Message", "close"}
    BY DEF kind
  <2>7. Mock!SendFrame("link", kind)
    BY <2>1, <2>2, <2>3, <2>4, <2>5, <2>6 DEF Mock!SendFrame, Mock!connection, after
  <2> QED BY <2>6, <2>7 DEF Mock!Next
<1>8. CASE ServerEchoes
  <2>1. /\ held \in Sends \cup Fires /\ held # NoCall /\ held' = NoCall /\ UNCHANGED <<wire, ws, taken, serving>>
        /\ serving = TRUE /\ produced' = produced + 1 /\ peer = "open"
    BY <1>0, <1>8 DEF ServerEchoes, PeerData, history, Calls, LinkInv
  <2>2. /\ held = wire[Unanswered + 1] /\ held \notin CloseCalls /\ Unanswered < Len(wire)
        /\ Unanswered' = Unanswered + 1 /\ produced = Unanswered
    BY <1>0, <1>1, <2>1, CallKinds DEF LinkInv, Unanswered
  <2>3. ClientFrame(wire, Unanswered + 1) = [kind |-> "Message", n |-> produced + 1]
    BY <1>1, <2>2 DEF ClientFrame, MessagesIn
  <2>4. /\ FramesAfter(wire, Unanswered) # <<>>
        /\ Head(FramesAfter(wire, Unanswered)).kind = "Message"
        /\ Head(FramesAfter(wire, Unanswered)).n = produced + 1
        /\ FramesAfter(wire', Unanswered') = Tail(FramesAfter(wire, Unanswered))
    BY <1>0, <1>1, <2>1, <2>2, <2>3, FramesAfterTail
  <2>5. [i \in 1..produced' |-> i] = Append([i \in 1..produced |-> i], produced + 1)
    BY <1>0, <2>1
  <2>6. Mock!Reads({"Message"})
    BY <2>1, <2>4 DEF Mock!Reads
  <2>7. TRUE \in Mock!Sent
    BY <2>1 DEF Mock!Sent, Mock!SendOutcomes
  <2>8. Mock!ContinueIf(TRUE)
    BY <2>1 DEF Mock!ContinueIf, Mock!Continue
  <2> DEFINE echoed == [i \in 1..produced |-> i]
  <2>9. [c \in {"link"} |-> echoed'] = [[c \in {"link"} |-> echoed] EXCEPT
          !["link"] = Append(@, Head(FramesAfter(wire, Unanswered)).n)]
    <3>1. echoed' = Append(echoed, Head(FramesAfter(wire, Unanswered)).n)
      BY <2>4, <2>5
    <3> HIDE DEF echoed
    <3> QED BY <3>1
  <2>10. Mock!EchoMessage
    BY <2>1, <2>6, <2>7, <2>8, <2>9 DEF Mock!EchoMessage
  <2> QED BY <2>10 DEF Mock!Next, Mock!Server, Mock!EchoServer
<1>9. CASE ServerCloses
  <2>1. /\ held \in CloseCalls /\ held # NoCall /\ held' = NoCall /\ UNCHANGED <<wire, ws, taken, produced>>
        /\ serving = TRUE /\ serving' = FALSE
    BY <1>0, <1>9 DEF ServerCloses, PeerClose, history, Calls, CloseCalls, LinkInv
  <2>2. /\ held = wire[Unanswered + 1] /\ Unanswered < Len(wire) /\ Unanswered' = Unanswered + 1
        /\ ws # "Active"
    BY <1>0, <1>1, <2>1 DEF LinkInv, Unanswered
  <2>3. ClientFrame(wire, Unanswered + 1).kind = "close"
    BY <2>1, <2>2 DEF ClientFrame
  <2>4. /\ FramesAfter(wire, Unanswered) # <<>>
        /\ Head(FramesAfter(wire, Unanswered)).kind = "close"
        /\ FramesAfter(wire', Unanswered') = Tail(FramesAfter(wire, Unanswered))
    BY <1>0, <1>1, <2>1, <2>2, <2>3, FramesAfterTail
  <2>5. Mock!Reads({"close"})
    BY <2>1, <2>4 DEF Mock!Reads
  <2>6. Mock!Return(FALSE)
    BY <2>1 DEF Mock!Return, Mock!Finish
  <2>7. Mock!CloseReceived
    BY <2>1, <2>5, <2>6
       DEF Mock!CloseReceived, Mock!Result, Mock!AfterRecvClose, Mock!CloseOutcomes
  <2> QED BY <2>7 DEF Mock!Next, Mock!Server, Mock!EchoServer
<1> QED
  BY <1>3, <1>4, <1>5, <1>6, <1>7, <1>8, <1>9, ClientMoves DEF LinkNext, Client, Server

\* What stands at the other end of the connection is, step by step, echo_server of
\* mock_server.rs serving one client, for any number of calls and buffers of any size.
THEOREM PeerIsMock == LinkSpec => ServerIsMock
BY LinkInvariant, StepIsMock, PTL DEF LinkSpec, ServerIsMock

--------------------------------------------------------------------------------
(* Who can take a step.                                                    *)

\* The handles stay, no call is cancelled, and the server closes only when asked.
Kept ==
    /\ tx_alive = TRUE /\ \A c \in Calls : call[c] # "cancelled"
    /\ ws = "Active" => peer = "open"

LEMMA CallsKept ==
  ASSUME TypeInv, Kept, (\E c \in Calls : CallStep(c)) \/ Consumer \/ Loop \/ PeerData \/ PeerClose
  PROVE  tx_alive' = TRUE /\ \A c \in Calls : call'[c] # "cancelled"
<1> USE DEF loop, chans, network, handles, history
<1>0. call \in [Calls -> CallValues] /\ tx_alive = TRUE /\ \A c \in Calls : call[c] # "cancelled"
  BY DEF TypeInv, TypeOK, Kept
<1>1. ASSUME NEW c \in Calls, CallStep(c) PROVE tx_alive' = TRUE /\ \A d \in Calls : call'[d] # "cancelled"
  <2>1. ~Cancel(c)
    BY LinkAssumption DEF Cancel
  <2> QED BY <1>0, <1>1, <2>1 DEF CallStep, StartCall, Enqueue, EnqueueFail, JoinReturn
<1>2. CASE Consumer \/ PeerData \/ PeerClose
  BY <1>0, <1>2 DEF Consumer, RecvRaw, RecvEnd, PeerData, PeerClose
<1>3. CASE OutgoingArm \/ Reserve \/ KeepaliveFire
  BY <1>0, <1>3 DEF OutgoingArm, RecvOutgoing, SendersGone, Reserve, KeepaliveFire
<1>4. CASE PongDone \/ CloseDone \/ send_keepalive \/ RecordTerminal \/ DropSender
  BY <1>0, <1>4 DEF PongDone, CloseDone, send_keepalive, RecordTerminal, DropSender
<1>5. CASE DropReceiver
  BY <1>0, <1>5 DEF DropReceiver
<1>6. CASE send_socket_message
  <2>1. PICK ok \in SendOutcomes(ws, peer = "gone") :
          call' = IF call[cur] = "queued" THEN [call EXCEPT ![cur] = Answer(ok)] ELSE call
    BY <1>6 DEF send_socket_message
  <2>2. Answer(ok) # "cancelled" /\ tx_alive' = tx_alive
    BY <1>6 DEF Answer, send_socket_message
  <2> QED BY <1>0, <2>1, <2>2
<1>7. CASE IncomingArm
  BY <1>0, <1>7 DEF IncomingArm, ReadData, ReadPing, ReadPong, ReadClose, ReadError, ReadNone
<1> QED BY <1>1, <1>2, <1>3, <1>4, <1>5, <1>6, <1>7 DEF Loop, Completion

LEMMA KeptStep == LoopInv /\ LinkInv /\ Kept /\ [LinkNext]_linkVars => Kept'
<1> SUFFICES ASSUME LoopInv, LinkInv, Kept, [LinkNext]_linkVars PROVE Kept'
  OBVIOUS
<1>0. TypeInv
  BY DEF LoopInv
<1>1. CASE (\E c \in Calls : CallStep(c)) \/ Consumer \/ Loop
  <2>1. ws' = "Active" => ws = "Active" /\ peer' = peer
    BY <1>1, ClientMoves DEF Apart, Writes, TakesData, TakesClose, AfterRecvClose
  <2> QED BY <1>0, <1>1, <2>1, CallsKept DEF Kept
<1>2. CASE ServerReads \/ UNCHANGED linkVars
  BY <1>2 DEF ServerReads, linkVars, vars, network, handles, Kept
<1>3. CASE ServerEchoes
  <2>1. PeerData /\ UNCHANGED <<ws, peer>>
    BY <1>3 DEF ServerEchoes, PeerData
  <2> QED BY <1>0, <2>1, CallsKept DEF Kept
<1>4. CASE ServerCloses
  <2>1. PeerClose /\ ws' = ws /\ held \in CloseCalls
    BY <1>4 DEF ServerCloses, PeerClose
  <2>2. ws # "Active"
    <3>1. held # NoCall
      BY <2>1, CallKinds DEF Calls, CloseCalls
    <3>2. taken \in 1..Len(wire) /\ held = wire[taken]
      BY <3>1, LinkFacts DEF LinkInv
    <3> QED BY <2>1, <3>2 DEF LinkInv
  <2> QED BY <1>0, <2>1, <2>2, CallsKept DEF Kept
<1> QED BY <1>1, <1>2, <1>3, <1>4 DEF LinkNext, Client, Server

\* The guards of the loop's steps, with the write that finds no room left out, and of
\* the server's steps before a Close.
LoopReady ==
    \/ pc \in {"select", "backpressure"} /\ tx_chan # <<>>
    \/ Reading("data")
    \/ pc = "backpressure" /\ HasRoom(rx_chan)
    \/ pc = "sending" /\ WriteReady
    \/ pc \in {"ponging", "closing", "keepalive", "exit", "recorded", "rxClosed"}

ServerReady ==
    /\ serving /\ pc # "done"
    /\ \/ held = NoCall /\ taken < Len(wire)
       \/ held \in Sends \cup Fires /\ Len(inbound) < ToClient /\ peer = "open" /\ produced < MaxData

\* OnlyMutualWait, with the guards in the place of ENABLED.
SomebodyReady ==
    ws = "Active" /\ rx = "open" /\ Len(delivered) < Len(accepted) /\ ~MutualWait
        => rx_chan # <<>> \/ LoopReady \/ ServerReady

\* A server that has something to read or to echo is ready, unless the way back is full.
LEMMA ServerGoesOn ==
  ASSUME LoopInv, LinkInv, Kept, ws = "Active", pc # "done", Unanswered < Len(wire)
  PROVE  ServerReady \/ (held \in Sends \cup Fires /\ Len(inbound) >= ToClient)
<1>0. /\ wire \in Seq(Calls) /\ Len(wire) \in Nat /\ Len(inbound) \in Nat /\ NoCall \notin Calls
      /\ ToClient \in Nat /\ taken \in Nat /\ taken <= Len(wire) /\ serving = TRUE
      /\ produced = Unanswered /\ held \in Calls \cup {NoCall} /\ peer = "open"
  BY LinkFacts, LinkAssumption DEF LinkInv, Kept
<1>1. CASE held = NoCall
  BY <1>0, <1>1 DEF Unanswered, ServerReady
<1>2. CASE held # NoCall
  <2>1. \A i \in 1..Len(wire) : wire[i] \in Sends \cup Fires
    BY <1>0 DEF LinkInv, Calls, CloseCalls
  <2>2. held \in Sends \cup Fires
    <3>1. taken \in 1..Len(wire) /\ held = wire[taken]
      BY <1>0, <1>2 DEF LinkInv
    <3> QED BY <2>1, <3>1
  <2>3. produced < MaxData
    <3>1. IsFiniteSet(Sends \cup Fires)
      BY LinkAssumption, FS_Subset DEF Calls
    <3>2. wire \in Seq(Sends \cup Fires) /\ \A i, j \in 1..Len(wire) : wire[i] = wire[j] => i = j
      BY <1>0, <2>1 DEF LoopInv, OutcomeTruthful
    <3>3. Len(wire) <= MaxData /\ MaxData \in Nat
      BY <3>1, <3>2, DistinctLength, LinkAssumption, Sizes
    <3>4. Unanswered \in Nat
      BY <1>0, <1>2 DEF LinkInv, Unanswered
    <3> QED BY <1>0, <3>3, <3>4
  <2> QED BY <1>0, <2>2, <2>3 DEF ServerReady
<1> QED BY <1>1, <1>2

LEMMA Readiness ==
  LoopInv /\ DeliveryInv /\ WireInv /\ NoSpuriousDisconnect /\ LinkInv /\ Kept => SomebodyReady
<1> SUFFICES ASSUME LoopInv, DeliveryInv, WireInv, NoSpuriousDisconnect, LinkInv, Kept,
                    ws = "Active", rx = "open", Len(delivered) < Len(accepted), ~MutualWait,
                    rx_chan = <<>>, ~LoopReady
             PROVE  ServerReady
  BY DEF SomebodyReady
<1>0. /\ TypeOK /\ PcOK /\ wire \in Seq(Calls) /\ Len(wire) \in Nat /\ Len(inbound) \in Nat
      /\ inbound \in Seq(Frames) /\ taken \in Nat /\ taken <= Len(wire) /\ serving = TRUE
      /\ Len(delivered) \in Nat /\ Len(accepted) \in Nat /\ Len(rx_chan) = 0
      /\ ToServer \in Nat \ {0} /\ ToClient \in Nat \ {0}
      /\ produced = Unanswered /\ produced = read + Len(inbound)
  BY LinkFacts, LinkAssumption DEF LinkInv, LoopInv, TypeInv, TypeOK
<1>1. state = "Running"
  BY DEF NoSpuriousDisconnect, Kept, LinkInv, Confirmed
<1>2. pc \in {"select", "sending"} /\ (pc = "select" => tx_chan = <<>> /\ ~Reading("data"))
  <2>1. pc # "backpressure"
    BY <1>0, Sizes DEF LoopReady, HasRoom
  <2>2. pc \notin {"exit", "recorded", "rxClosed", "done"}
    BY <1>0, <1>1 DEF PcOK, Ended
  <2>3. pc \in PcValues
    BY <1>0 DEF TypeOK
  <2> QED BY <2>1, <2>2, <2>3 DEF LoopReady, PcValues
<1>3. CASE pc = "sending"
  <2>1. ~WriteReady /\ Len(wire) - taken >= ToServer
    BY <1>0, <1>3 DEF LoopReady, WriteReady, OnTheWay
  <2>2. Unanswered <= taken
    BY <1>0 DEF Unanswered
  <2>3. Unanswered < Len(wire)
    BY <1>0, <2>1, <2>2 DEF Unanswered
  <2> QED BY <1>3, <2>1, <2>3, ServerGoesOn DEF MutualWait
<1>4. CASE pc = "select"
  <2>1. inbound = <<>> /\ Len(inbound) = 0
    <3>1. SUFFICES ASSUME inbound # <<>> PROVE FALSE
      OBVIOUS
    <3>2. Head(inbound) = inbound[1] /\ 1 \in 1..Len(inbound)
      BY <1>0, <3>1
    <3>3. Head(inbound).kind = "data"
      BY <1>0, <3>2 DEF LinkInv
    <3> QED BY <1>2, <1>4, <3>1, <3>3 DEF Reading
  <2>2. Len(accepted) = Len(wire)
    <3>1. cur = NoCall /\ Len(tx_chan) = 0
      BY <1>0, <1>2, <1>4 DEF PcOK
    <3> QED BY <1>0, <1>1, <3>1 DEF WireInv, InFlight
  <2>3. read = Len(delivered)
    <3>1. frame = 0
      BY <1>0, <1>4 DEF PcOK
    <3> QED BY <1>0, <1>1, <3>1 DEF DeliveryInv, InOrderNoLoss, Held
  <2>4. Unanswered < Len(wire)
    BY <1>0, <2>1, <2>2, <2>3
  <2> QED BY <1>0, <1>4, <2>1, <2>4, ServerGoesOn
<1> QED BY <1>2, <1>3, <1>4

\* The mutual wait is the only wait, for buffers and channels of any size and any number
\* of calls: while a message has not come back to a consumer that reads, and nobody has
\* closed, the consumer has a frame to take, or the guard of a step of the loop (its two
\* selects and send_socket_message) or of echo_server holds.
THEOREM OnlyWaitIsMutual == LinkSpec => []SomebodyReady
<1>1. LinkInit => Kept
  BY LinkAssumption DEF LinkInit, Init, Kept
<1>2. LinkSpec => []Kept
  BY <1>1, KeptStep, LinkInvariant, PTL DEF LinkSpec
<1> QED BY <1>2, Readiness, LinkInvariant, LinkIsConnection, DeliveryInvariant, WireInvariant,
           OnlyCausedDisconnects, PTL

================================================================================
