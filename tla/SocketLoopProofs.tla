---------------------------- MODULE SocketLoopProofs ---------------------------
(***************************************************************************)
(* Proofs about SocketLoop, for every number of calls, every CHANNEL_SIZE  *)
(* and any amount of traffic.                                              *)
(***************************************************************************)
EXTENDS SocketLoop, TLAPS

Ended == {"exit", "recorded", "rxClosed", "done"}

\* The program counter agrees with the loop's local variables.
PcOK ==
    /\ pc = "sending" <=> cur # NoCall
    /\ pc \in Ended <=> state # "Running"
    /\ pc \in {"select", "ponging", "closing"} \cup Ended => frame = 0

TypeInv == TypeOK /\ PcOK

LEMMA InitTypeInv == Init => TypeInv
<1> SUFFICES ASSUME Init PROVE TypeInv
  OBVIOUS
<1> USE CallKinds, Sizes DEF Init
<1>1. TypeOK
  BY DEF TypeOK, PcValues, LoopStates, CallValues, WsStates
<1>2. PcOK
  BY DEF PcOK, Ended
<1> QED BY <1>1, <1>2 DEF TypeInv

LEMMA TypeInvStep == TypeInv /\ [Next]_vars => TypeInv'
<1> SUFFICES ASSUME TypeInv, [Next]_vars PROVE TypeInv'
  OBVIOUS
<1> USE CallKinds, Sizes
<1> USE DEF TypeInv, TypeOK, PcOK, Ended, PcValues, LoopStates, Errors, CallValues, WsStates,
            loop, chans, network, handles, history
<1>1. ASSUME NEW c \in Calls, StartCall(c) PROVE TypeInv'
  BY <1>1 DEF StartCall
<1>2. ASSUME NEW c \in Calls, Enqueue(c) PROVE TypeInv'
  BY <1>2 DEF Enqueue, HasRoom
<1>3. ASSUME NEW c \in Calls, EnqueueFail(c) PROVE TypeInv'
  <2>1. terminal_error' \in Errors \cup {"None"} /\ taker' \in {"nobody", "rx", "call", "final"}
    BY <1>3 DEF EnqueueFail, Take
  <2>2. call' \in [Calls -> CallValues]
    BY <1>3 DEF EnqueueFail
  <2>3. UNCHANGED <<loop, chans, network, tx_alive, rx, close_result,
                    read, delivered, accepted, wire, rx_saw>>
    BY <1>3 DEF EnqueueFail
  <2> QED BY <2>1, <2>2, <2>3
<1>4. ASSUME NEW c \in Calls, Cancel(c) PROVE TypeInv'
  BY <1>4 DEF Cancel, Pending, Joining
<1>5. ASSUME NEW c \in Calls, JoinReturn(c) PROVE TypeInv'
  BY <1>5 DEF JoinReturn, Joining, Take
<1>6. CASE DropTx
  <2>1. tx_alive' \in BOOLEAN
    BY <1>6, Zenon DEF DropTx
  <2>2. UNCHANGED <<loop, chans, terminal_error, network, rx, call, close_result, history>>
    BY <1>6 DEF DropTx
  <2> QED BY <2>1, <2>2
<1>7. CASE DropRx
  BY <1>7 DEF DropRx
<1>8. CASE RecvRaw
  BY <1>8 DEF RecvRaw
<1>9. CASE RecvEnd
  BY <1>9 DEF RecvEnd, Take
<1>10. CASE RecvOutgoing
  BY <1>10 DEF RecvOutgoing
<1>11. CASE SendersGone
  BY <1>11 DEF SendersGone, Stop
<1>12. CASE send_socket_message
  BY <1>12, SMTT(30) DEF send_socket_message, Proceed, Resume, Stop, StateAfterSend, CallerGone, Answer, AfterSendClose, SendOutcomes
<1>13. CASE ReadData
  <2>1. inbound' \in Seq(Frames) /\ Head(inbound).n \in Nat
    <3>1. inbound' \in Seq(Frames) /\ Head(inbound) \in Frames
      BY <1>13 DEF ReadData, Reading
    <3> QED BY <3>1 DEF Frames
  <2>2. pc = "select" /\ read' = Head(inbound).n
        /\ UNCHANGED <<cur, tx_chan, terminal_error, ws, peer, produced, controls, handles,
                       delivered, accepted, wire, rx_saw, taker>>
    BY <1>13 DEF ReadData, Reading
  <2>3. CASE Stop("SocketeerDroppedWithoutClosing") /\ UNCHANGED rx_chan
    BY <2>1, <2>2, <2>3 DEF Stop
  <2>4. CASE HasRoom(rx_chan) /\ rx_chan' = Append(rx_chan, Head(inbound).n)
             /\ UNCHANGED <<pc, state, frame>>
    BY <2>1, <2>2, <2>4 DEF HasRoom
  <2>5. CASE HoldFrame(Head(inbound).n)
    BY <2>1, <2>2, <2>5 DEF HoldFrame
  <2> QED BY <1>13, <2>3, <2>4, <2>5 DEF ReadData
<1>14. CASE Reserve
  <2>1. pc = "backpressure" /\ UNCHANGED <<cur, tx_chan, terminal_error, network, handles, history>>
    BY <1>14 DEF Reserve
  <2>2. CASE Stop("SocketeerDroppedWithoutClosing") /\ UNCHANGED rx_chan
    BY <2>1, <2>2 DEF Stop
  <2>3. CASE HasRoom(rx_chan) /\ rx_chan' = Append(rx_chan, frame)
             /\ frame' = 0 /\ pc' = "select" /\ UNCHANGED state
    BY <2>1, <2>3 DEF HasRoom
  <2> QED BY <1>14, <2>2, <2>3 DEF Reserve
<1>15. CASE ReadPing
  BY <1>15 DEF ReadPing, Reading
<1>16. CASE ReadPong
  BY <1>16 DEF ReadPong, Reading
<1>17. CASE PongDone
  BY <1>17 DEF PongDone, Proceed, Resume, Stop
<1>18. CASE ReadClose
  BY <1>18 DEF ReadClose, Reading, AfterRecvClose
<1>19. CASE CloseDone
  BY <1>19 DEF CloseDone, Stop
<1>20. CASE ReadError
  BY <1>20 DEF ReadError, Reading, Stop
<1>21. CASE ReadNone
  BY <1>21 DEF ReadNone, Reading, Stop
<1>22. CASE KeepaliveFire
  BY <1>22 DEF KeepaliveFire
<1>23. CASE send_keepalive
  BY <1>23 DEF send_keepalive, Proceed, Resume, Stop
<1>24. CASE RecordTerminal
  BY <1>24 DEF RecordTerminal
<1>25. CASE DropSender
  BY <1>25 DEF DropSender
<1>26. CASE DropReceiver
  <2>1. call' \in [Calls -> CallValues]
    BY <1>26 DEF DropReceiver
  <2>2. rx' \in {"open", "parked", "dropped"} /\ rx_chan' \in Seq(Nat) /\ Len(rx_chan') <= ChannelSize
    <3>1. (rx' = "dropped" /\ rx_chan' = <<>>) \/ (rx' = rx /\ rx_chan' = rx_chan)
      BY <1>26, Zenon DEF DropReceiver
    <3>2. CASE rx' = "dropped" /\ rx_chan' = <<>>
      BY <3>2
    <3>3. CASE rx' = rx /\ rx_chan' = rx_chan
      BY <3>3
    <3> QED BY <3>1, <3>2, <3>3
  <2>3. tx_chan' \in Seq(Calls) /\ Len(tx_chan') <= ChannelSize
    BY <1>26 DEF DropReceiver
  <2> QED BY <1>26, <2>1, <2>2, <2>3 DEF DropReceiver
<1>27. CASE PeerData
  BY <1>27 DEF PeerData, Arrives, Frames, Kinds
<1>28. CASE PeerClose
  BY <1>28 DEF PeerClose, Arrives, Frames, Kinds
<1>29. CASE PeerFin
  BY <1>29 DEF PeerFin, Arrives, Frames, Kinds
<1>30. CASE LinkReset
  BY <1>30 DEF LinkReset, Arrives, Frames, Kinds
<1>31. ASSUME NEW kind \in {"ping", "pong", "bad"}, PeerControl(kind) PROVE TypeInv'
  BY <1>31 DEF PeerControl, Arrives, Frames, Kinds
<1>32. CASE UNCHANGED vars
  BY <1>32 DEF vars
<1> QED
  BY <1>1, <1>2, <1>3, <1>4, <1>5, <1>6, <1>7, <1>8, <1>9, <1>10, <1>11, <1>12, <1>13, <1>14, <1>15, <1>16, <1>17, <1>18, <1>19, <1>20, <1>21, <1>22, <1>23, <1>24, <1>25, <1>26, <1>27, <1>28, <1>29, <1>30, <1>31, <1>32
     DEF Next, CallStep, Consumer, Loop, IncomingArm, OutgoingArm, Completion, Environment

\* Every variable keeps its type and both channels stay within CHANNEL_SIZE
\* (mpsc::channel(CHANNEL_SIZE) in connect_with_codec), whatever the calls.
THEOREM TypeCorrect == Spec => []TypeOK
<1>1. Init => TypeInv
  BY InitTypeInv
<1>2. TypeInv /\ [Next]_vars => TypeInv'
  BY TypeInvStep
<1>3. TypeInv => TypeOK
  BY DEF TypeInv
<1> QED BY <1>1, <1>2, <1>3, PTL DEF Spec

--------------------------------------------------------------------------------
(* The receive path.                                                       *)

DataBit(f) == IF f.kind = "data" THEN 1 ELSE 0

\* The unread frames carry consecutive numbers from the last one read to the last
\* one produced, and nothing follows the peer's Close.
Numbered ==
    /\ \A i \in 1..Len(inbound) :
        inbound[i].n = (IF i = 1 THEN read ELSE inbound[i - 1].n) + DataBit(inbound[i])
    /\ produced = IF inbound = <<>> THEN read ELSE inbound[Len(inbound)].n
    /\ \A i \in 1..Len(inbound) :
        inbound[i].kind = "close" => peer # "open" /\ inbound[i].n = produced
    /\ pc = "closing" \/ state = "Closed" => peer # "open" /\ read = produced

\* An arriving frame that continues the numbering keeps it.
LEMMA ArrivalNumbered ==
  ASSUME TypeInv, Numbered, NEW kind \in Kinds, NEW n \in Nat, Arrives(kind, n),
         n = produced + DataBit([kind |-> kind, n |-> n]), produced' = n,
         kind = "close" => peer' # "open",
         peer # "open" => peer' # "open" /\ kind # "data",
         UNCHANGED <<read, pc, state>>
  PROVE  Numbered'
<1> DEFINE f == [kind |-> kind, n |-> n]
<1>1. inbound \in Seq(Frames) /\ f \in Frames /\ read \in Nat /\ produced \in Nat
  BY DEF TypeInv, TypeOK, Frames
<1>2. inbound' = Append(inbound, f)
  BY DEF Arrives
<1>3. /\ Len(inbound') = Len(inbound) + 1 /\ inbound'[Len(inbound) + 1] = f
      /\ \A i \in 1..Len(inbound) : inbound'[i] = inbound[i]
  BY <1>1, <1>2
<1>4. ASSUME NEW i \in 1..Len(inbound')
      PROVE  inbound'[i].n = (IF i = 1 THEN read' ELSE inbound'[i - 1].n) + DataBit(inbound'[i])
  <2>1. CASE i \in 1..Len(inbound)
    <3>1. inbound[i].n = (IF i = 1 THEN read ELSE inbound[i - 1].n) + DataBit(inbound[i])
      BY <2>1 DEF Numbered
    <3>2. i = 1 \/ i - 1 \in 1..Len(inbound)
      BY <1>1, <2>1
    <3>3. inbound'[i] = inbound[i] /\ (i = 1 \/ inbound'[i - 1] = inbound[i - 1])
      BY <1>3, <2>1, <3>2
    <3> QED BY <3>1, <3>3
  <2>2. CASE i = Len(inbound) + 1
    <3>1. produced = IF i = 1 THEN read ELSE inbound[i - 1].n
      BY <1>1, <2>2 DEF Numbered
    <3>2. i = 1 \/ inbound'[i - 1] = inbound[i - 1]
      BY <1>1, <1>3, <2>2
    <3> QED BY <1>3, <2>2, <3>1, <3>2
  <2> QED BY <1>1, <1>3, <2>1, <2>2
<1>5. produced' = IF inbound' = <<>> THEN read' ELSE inbound'[Len(inbound')].n
  BY <1>1, <1>2, <1>3
<1>6. ASSUME NEW i \in 1..Len(inbound'), inbound'[i].kind = "close"
      PROVE  peer' # "open" /\ inbound'[i].n = produced'
  <2>1. CASE i \in 1..Len(inbound)
    BY <1>1, <1>3, <1>6, <2>1 DEF Numbered, DataBit
  <2>2. CASE i = Len(inbound) + 1
    BY <1>3, <1>6, <2>2
  <2> QED BY <1>1, <1>3, <2>1, <2>2
<1>7. pc' = "closing" \/ state' = "Closed" => peer' # "open" /\ read' = produced'
  BY <1>1 DEF Numbered, DataBit
<1> QED BY <1>4, <1>5, <1>6, <1>7 DEF Numbered

\* Reading the first frame keeps the numbering.
LEMMA ReadNumbered ==
  ASSUME TypeInv, Numbered, inbound # <<>>, inbound' = Tail(inbound),
         read' = read + DataBit(Head(inbound)),
         UNCHANGED <<produced, peer>>,
         state = "Running", state' # "Closed", pc # "closing",
         pc' = "closing" => Head(inbound).kind = "close"
  PROVE  Numbered' /\ read' = Head(inbound).n
<1>1. inbound \in Seq(Frames) /\ read \in Nat /\ produced \in Nat /\ Len(inbound) >= 1
  BY DEF TypeInv, TypeOK
<1>2. /\ Len(inbound') = Len(inbound) - 1 /\ Head(inbound) = inbound[1]
      /\ \A i \in 1..Len(inbound') : inbound'[i] = inbound[i + 1]
  BY <1>1
<1>3. read' = Head(inbound).n
  BY <1>1, <1>2 DEF Numbered
<1>4. ASSUME NEW i \in 1..Len(inbound')
      PROVE  inbound'[i].n = (IF i = 1 THEN read' ELSE inbound'[i - 1].n) + DataBit(inbound'[i])
  <2>1. i + 1 \in 1..Len(inbound) /\ i + 1 # 1 /\ (i + 1) - 1 = i
    BY <1>1, <1>2
  <2>2. inbound[i + 1].n = inbound[i].n + DataBit(inbound[i + 1])
    BY <2>1 DEF Numbered
  <2>3. i = 1 \/ inbound'[i - 1] = inbound[i]
    BY <1>1, <1>2
  <2> QED BY <1>2, <1>3, <2>2, <2>3
<1>5. produced' = IF inbound' = <<>> THEN read' ELSE inbound'[Len(inbound')].n
  <2>1. CASE Len(inbound) = 1
    BY <1>1, <1>2, <1>3, <2>1 DEF Numbered
  <2>2. CASE Len(inbound) # 1
    <3>1. inbound' # <<>> /\ inbound'[Len(inbound')] = inbound[Len(inbound)]
      <4>1. Len(inbound') \in 1..Len(inbound') /\ Len(inbound') + 1 = Len(inbound)
        BY <1>1, <1>2, <2>2
      <4>2. inbound' # <<>>
        <5>1. Len(<<>>) = 0
          OBVIOUS
        <5>2. Len(inbound') # 0
          BY <1>1, <4>1
        <5> QED BY <5>1, <5>2
      <4> QED BY <1>2, <4>1, <4>2
    <3> QED BY <1>1, <3>1 DEF Numbered
  <2> QED BY <2>1, <2>2
<1>6. ASSUME NEW i \in 1..Len(inbound'), inbound'[i].kind = "close"
      PROVE  peer' # "open" /\ inbound'[i].n = produced'
  <2>1. i + 1 \in 1..Len(inbound)
    BY <1>1, <1>2
  <2> QED BY <1>2, <1>6, <2>1 DEF Numbered
<1>7. pc' = "closing" \/ state' = "Closed" => peer' # "open" /\ read' = produced'
  <2>1. 1 \in 1..Len(inbound)
    BY <1>1
  <2> QED BY <1>2, <1>3, <2>1 DEF Numbered
<1> QED BY <1>3, <1>4, <1>5, <1>6, <1>7 DEF Numbered

LEMMA NumberedStep == TypeInv /\ Numbered /\ [Next]_vars => Numbered'
<1> SUFFICES ASSUME TypeInv, Numbered, [Next]_vars PROVE Numbered'
  OBVIOUS
<1> USE DEF loop, chans, network, handles, history
<1> DEFINE Quiet == /\ UNCHANGED <<inbound, read, produced, peer>>
                    /\ pc' = "closing" => pc = "closing"
                    /\ state' = "Closed" => pc = "closing" \/ state = "Closed"
<1>1. Quiet => Numbered'
  BY DEF Numbered
<1>2. ASSUME NEW c \in Calls, CallStep(c) PROVE Quiet
  BY <1>2 DEF CallStep, StartCall, Enqueue, EnqueueFail, Cancel, JoinReturn
<1>3. CASE DropTx \/ DropRx \/ Consumer
  BY <1>1, <1>3 DEF DropTx, DropRx, Consumer, RecvRaw, RecvEnd
<1>4. CASE OutgoingArm \/ Reserve \/ KeepaliveFire
  <2>1. Quiet
    BY <1>4 DEF OutgoingArm, RecvOutgoing, SendersGone, Stop, Reserve, KeepaliveFire
  <2> QED BY <1>1, <2>1
<1>5. CASE Completion
  <2>1. Quiet
    BY <1>5 DEF Completion, send_socket_message, PongDone, CloseDone, send_keepalive,
                RecordTerminal, DropSender, DropReceiver, Proceed, Resume, Stop, StateAfterSend
  <2> QED BY <1>1, <2>1
<1>6. CASE ReadData
  <2>1. Head(inbound).kind = "data" /\ inbound # <<>> /\ inbound' = Tail(inbound)
        /\ read' = Head(inbound).n /\ UNCHANGED <<produced, peer>>
        /\ pc = "select" /\ pc' # "closing" /\ state' # "Closed" /\ state = "Running"
    BY <1>6 DEF ReadData, Reading, Stop, HoldFrame, TypeInv, PcOK, Ended
  <2>2. Head(inbound) = inbound[1] /\ 1 \in 1..Len(inbound)
    BY <2>1 DEF TypeInv, TypeOK
  <2>3. read' = read + DataBit(Head(inbound))
    BY <2>1, <2>2 DEF Numbered
  <2> QED BY <2>1, <2>3, ReadNumbered
<1>7. CASE ReadPing \/ ReadPong \/ ReadClose \/ ReadError
  <2>1. Head(inbound).kind # "data" /\ inbound # <<>> /\ inbound' = Tail(inbound)
        /\ UNCHANGED <<read, produced, peer>>
        /\ pc = "select" /\ state' # "Closed" /\ state = "Running"
        /\ (pc' = "closing" => Head(inbound).kind = "close")
    BY <1>7 DEF ReadPing, ReadPong, ReadClose, ReadError, Reading, Stop, TypeInv, PcOK, Ended
  <2>2. read' = read + DataBit(Head(inbound))
    BY <2>1 DEF DataBit, TypeInv, TypeOK
  <2> QED BY <2>1, <2>2, ReadNumbered
<1>8. CASE ReadNone
  BY <1>1, <1>8 DEF ReadNone, Reading, Stop
<1>9. CASE PeerData
  BY <1>9, ArrivalNumbered DEF PeerData, DataBit, Kinds, TypeInv, TypeOK
<1>10. ASSUME NEW kind \in {"ping", "pong", "bad"}, PeerControl(kind) PROVE Numbered'
  BY <1>10, ArrivalNumbered DEF PeerControl, DataBit, Kinds, TypeInv, TypeOK
<1>11. CASE PeerClose
  BY <1>11, ArrivalNumbered DEF PeerClose, DataBit, Kinds, TypeInv, TypeOK
<1>12. CASE PeerFin \/ LinkReset
  BY <1>12, ArrivalNumbered DEF PeerFin, LinkReset, DataBit, Kinds, TypeInv, TypeOK
<1>13. CASE UNCHANGED vars
  BY <1>1, <1>13 DEF vars
<1> QED
  BY <1>1, <1>2, <1>3, <1>4, <1>5, <1>6, <1>7, <1>8, <1>9, <1>10, <1>11, <1>12, <1>13
     DEF Next, Loop, IncomingArm, Environment

\* A frame waiting in deliver_with_backpressure exists, and the consumer's view is
\* in order and complete: the invariant of the receive path.
DeliveryInv == Numbered /\ InOrderNoLoss /\ (pc = "backpressure" => frame # 0)

LEMMA DeliveryInvStep == TypeInv /\ DeliveryInv /\ [Next]_vars => DeliveryInv'
<1> SUFFICES ASSUME TypeInv, DeliveryInv, [Next]_vars PROVE DeliveryInv'
  OBVIOUS
<1>1. Numbered'
  BY NumberedStep DEF DeliveryInv
<1> USE DEF loop, chans, network, handles, history
<1> DEFINE Goal == InOrderNoLoss' /\ (pc' = "backpressure" => frame' # 0)
<1> SUFFICES Goal
  BY <1>1 DEF DeliveryInv
\* Nothing on the receive path moves, ...
<1> DEFINE Quiet == /\ UNCHANGED <<delivered, rx_chan, read, frame>>
                    /\ rx = "dropped" => rx' = "dropped"
                    /\ state' = state \/ (frame = 0 /\ state = "Running")
                    /\ pc' = "backpressure" => frame # 0
<1>2. Quiet => Goal
  BY DEF DeliveryInv, InOrderNoLoss, Held, TypeInv, TypeOK
\* ... or the consumer is gone, ...
<1> DEFINE Gone == /\ rx' = "dropped" /\ UNCHANGED <<delivered, frame>>
                   /\ pc' = "backpressure" => pc = "backpressure"
<1>3. Gone => Goal
  BY DEF DeliveryInv, InOrderNoLoss
\* ... or the loop ends with an error and drops what it holds.
<1> DEFINE Fails == /\ UNCHANGED <<delivered, rx_chan, rx, read>>
                    /\ pc' = "exit" /\ frame' = 0 /\ state = "Running" /\ state' \in Errors
<1>4. Fails => Goal
  BY DEF DeliveryInv, InOrderNoLoss, Held, TypeInv, TypeOK, Errors
<1>5. ASSUME NEW c \in Calls, CallStep(c) PROVE Quiet \/ Gone
  BY <1>5 DEF CallStep, StartCall, Enqueue, EnqueueFail, Cancel, JoinReturn, DeliveryInv
<1>6. CASE DropTx \/ DropRx
  <2>1. Quiet \/ Gone
    BY <1>6 DEF DropTx, DropRx, DeliveryInv
  <2> QED BY <1>2, <1>3, <2>1
<1>7. CASE RecvRaw
  <2>1. rx_chan \in Seq(Nat) /\ rx_chan # <<>> /\ delivered \in Seq(Nat) /\ frame \in Nat /\ read \in Nat
    BY <1>7 DEF RecvRaw, TypeInv, TypeOK
  <2>2. /\ rx = "open" /\ delivered' = Append(delivered, Head(rx_chan)) /\ rx_chan' = Tail(rx_chan)
        /\ UNCHANGED <<pc, state, frame, read, rx>>
    BY <1>7 DEF RecvRaw
  <2>3. /\ Len(delivered') = Len(delivered) + 1 /\ delivered'[Len(delivered) + 1] = rx_chan[1]
        /\ \A i \in 1..Len(delivered) : delivered'[i] = delivered[i]
    BY <2>1, <2>2
  <2>4. /\ Len(rx_chan) >= 1 /\ Len(rx_chan') = Len(rx_chan) - 1
        /\ \A i \in 1..Len(rx_chan') : rx_chan'[i] = rx_chan[i + 1]
    BY <2>1, <2>2
  <2>5. rx_chan[1] = Len(delivered) + 1
    BY <2>1, <2>2, <2>4 DEF DeliveryInv, InOrderNoLoss
  <2>6. \A i \in 1..Len(delivered') : delivered'[i] = i
    BY <2>1, <2>3, <2>5 DEF DeliveryInv, InOrderNoLoss
  <2>7. \A i \in 1..Len(rx_chan') : rx_chan'[i] = Len(delivered') + i
    BY <2>1, <2>2, <2>3, <2>4 DEF DeliveryInv, InOrderNoLoss
  <2>8. Len(delivered') + Len(rx_chan') = Len(delivered) + Len(rx_chan)
    BY <2>1, <2>3, <2>4
  <2> QED BY <2>1, <2>2, <2>3, <2>4, <2>6, <2>7, <2>8 DEF DeliveryInv, InOrderNoLoss, Held
<1>8. CASE RecvEnd
  <2>1. Quiet
    BY <1>8 DEF RecvEnd, DeliveryInv
  <2> QED BY <1>2, <2>1
<1>9. CASE OutgoingArm \/ KeepaliveFire
  <2>1. Quiet \/ Fails
    BY <1>9 DEF OutgoingArm, RecvOutgoing, SendersGone, Stop, KeepaliveFire, Errors, TypeInv, PcOK, Ended
  <2> QED BY <1>2, <1>4, <2>1
<1>10. CASE Completion
  <2>1. CASE send_socket_message
    <3>1. Quiet \/ Fails
      BY <2>1 DEF send_socket_message, Proceed, Resume, Stop, StateAfterSend, Errors,
                  TypeInv, PcOK, Ended
    <3> QED BY <1>2, <1>4, <3>1
  <2>2. CASE PongDone \/ send_keepalive
    <3>1. Quiet \/ Fails
      BY <2>2 DEF PongDone, send_keepalive, Proceed, Resume, Stop, Errors, TypeInv, PcOK, Ended
    <3> QED BY <1>2, <1>4, <3>1
  <2>3. CASE CloseDone
    <3>1. Quiet
      BY <2>3 DEF CloseDone, Stop, TypeInv, PcOK, Ended
    <3> QED BY <1>2, <3>1
  <2>4. CASE RecordTerminal \/ DropSender
    <3>1. Quiet
      BY <2>4 DEF RecordTerminal, DropSender
    <3> QED BY <1>2, <3>1
  <2>5. CASE DropReceiver
    <3>1. pc' # "backpressure" /\ UNCHANGED <<state, frame, read, delivered>>
      BY <2>5 DEF DropReceiver
    <3>2. (rx' = "dropped" /\ rx_chan' = <<>>) \/ (rx' = rx /\ rx_chan' = rx_chan)
      BY <2>5, Zenon DEF DropReceiver
    <3>3. Quiet \/ Gone
      BY <3>1, <3>2
    <3> QED BY <1>2, <1>3, <3>3
  <2> QED BY <1>10, <2>1, <2>2, <2>3, <2>4, <2>5 DEF Completion
<1>11. ASSUME NEW n \in Nat, rx # "dropped", rx' = rx, HasRoom(rx_chan),
              rx_chan' = Append(rx_chan, n), n = Len(delivered) + Len(rx_chan) + 1,
              pc' = "select", frame' = 0, state = "Running", UNCHANGED <<state, delivered>>,
              read' = n
       PROVE  Goal
  <2>1. rx_chan \in Seq(Nat) /\ delivered \in Seq(Nat)
    BY DEF TypeInv, TypeOK
  <2>2. /\ Len(rx_chan') = Len(rx_chan) + 1 /\ rx_chan'[Len(rx_chan) + 1] = n
        /\ \A i \in 1..Len(rx_chan) : rx_chan'[i] = rx_chan[i]
    BY <1>11, <2>1
  <2>3. \A i \in 1..Len(rx_chan') : rx_chan'[i] = Len(delivered') + i
    <3> SUFFICES ASSUME NEW i \in 1..Len(rx_chan') PROVE rx_chan'[i] = Len(delivered) + i
      BY <1>11
    <3>1. CASE i \in 1..Len(rx_chan)
      BY <1>11, <2>2, <3>1 DEF DeliveryInv, InOrderNoLoss
    <3>2. CASE i = Len(rx_chan) + 1
      BY <1>11, <2>1, <2>2, <3>2
    <3> QED BY <2>1, <2>2, <3>1, <3>2
  <2> QED BY <1>11, <2>1, <2>2, <2>3 DEF DeliveryInv, InOrderNoLoss, Held
<1>12. CASE Reserve
  <2>1. CASE rx = "dropped"
    BY <1>3, <1>12, <2>1 DEF Reserve, Stop, DeliveryInv, InOrderNoLoss
  <2>2. CASE rx # "dropped"
    <3>1. HasRoom(rx_chan) /\ rx_chan' = Append(rx_chan, frame)
          /\ frame' = 0 /\ pc' = "select" /\ UNCHANGED <<state, delivered, rx, read>>
      BY <1>12, <2>2 DEF Reserve
    <3>2. state = "Running" /\ frame \in Nat /\ frame # 0 /\ pc = "backpressure"
      BY <1>12 DEF Reserve, DeliveryInv, TypeInv, TypeOK, PcOK, Ended
    <3>3. frame = Len(delivered) + Len(rx_chan) + 1 /\ read = frame
      BY <2>2, <3>2 DEF DeliveryInv, InOrderNoLoss, Held
    <3> QED BY <1>11, <2>2, <3>1, <3>2, <3>3
  <2> QED BY <2>1, <2>2
<1>13. CASE ReadData
  <2>1. /\ pc = "select" /\ frame = 0 /\ state = "Running" /\ read' = Head(inbound).n
        /\ inbound # <<>> /\ Head(inbound).kind = "data" /\ UNCHANGED <<rx, delivered>>
    BY <1>13 DEF ReadData, Reading, TypeInv, PcOK, Ended
  <2>2. Head(inbound) = inbound[1] /\ 1 \in 1..Len(inbound) /\ read \in Nat
    BY <2>1 DEF TypeInv, TypeOK
  <2>3. read' = read + 1
    BY <2>1, <2>2 DEF DeliveryInv, Numbered, DataBit
  <2>4. CASE rx = "dropped"
    BY <1>13, <2>1, <2>4 DEF ReadData, Stop, HoldFrame, DeliveryInv, InOrderNoLoss
  <2>5. CASE rx # "dropped" /\ HasRoom(rx_chan)
    <3>1. rx_chan' = Append(rx_chan, read') /\ UNCHANGED <<pc, state, frame>>
      BY <1>13, <2>1, <2>5 DEF ReadData
    <3>2. read' = Len(delivered) + Len(rx_chan) + 1 /\ read' \in Nat
      BY <2>1, <2>2, <2>3, <2>5 DEF DeliveryInv, InOrderNoLoss, Held
    <3> QED BY <1>11, <2>1, <2>5, <3>1, <3>2
  <2>6. CASE rx # "dropped" /\ ~HasRoom(rx_chan)
    <3>1. frame' = read' /\ pc' = "backpressure" /\ UNCHANGED <<state, rx_chan>>
      BY <1>13, <2>1, <2>6 DEF ReadData, HoldFrame
    <3>2. read' = Len(delivered) + Len(rx_chan) + 1 /\ read' # 0
      BY <2>1, <2>2, <2>3, <2>6 DEF DeliveryInv, InOrderNoLoss, Held
    <3> QED BY <2>1, <2>6, <3>1, <3>2 DEF DeliveryInv, InOrderNoLoss, Held
  <2> QED BY <2>4, <2>5, <2>6
<1>14. CASE ReadPing \/ ReadPong \/ ReadClose
  <2>1. Quiet
    BY <1>14 DEF ReadPing, ReadPong, ReadClose, Reading
  <2> QED BY <1>2, <2>1
<1>15. CASE ReadError \/ ReadNone
  <2>1. Fails
    BY <1>15 DEF ReadError, ReadNone, Reading, Stop, Errors, TypeInv, PcOK, Ended
  <2> QED BY <1>4, <2>1
<1>16. CASE Environment
  <2>1. Quiet
    BY <1>16 DEF Environment, PeerData, PeerControl, PeerClose, PeerFin, LinkReset, DeliveryInv
  <2> QED BY <1>2, <2>1
<1>17. CASE UNCHANGED vars
  <2>1. Quiet
    BY <1>17 DEF vars, DeliveryInv
  <2> QED BY <1>2, <2>1
<1> QED
  BY <1>2, <1>3, <1>5, <1>6, <1>7, <1>8, <1>9, <1>10, <1>12, <1>13, <1>14, <1>15, <1>16, <1>17
     DEF Next, Consumer, Loop, IncomingArm

LEMMA DeliveryInvariant == Spec => [](TypeInv /\ DeliveryInv)
<1>1. Init => TypeInv /\ DeliveryInv
  <2> SUFFICES ASSUME Init PROVE DeliveryInv
    BY InitTypeInv
  <2> QED BY DEF Init, DeliveryInv, Numbered, InOrderNoLoss, Held
<1>2. TypeInv /\ DeliveryInv /\ [Next]_vars => (TypeInv /\ DeliveryInv)'
  BY TypeInvStep, DeliveryInvStep
<1> QED BY <1>1, <1>2, PTL DEF Spec

\* The receive path never loses, repeats or reorders a frame, however long the
\* consumer stalls and whatever is sent meanwhile; at an abnormal end only the frame
\* held in deliver_with_backpressure is lost.
THEOREM InOrderDelivery == Spec => []InOrderNoLoss
<1>1. DeliveryInv => InOrderNoLoss
  BY DEF DeliveryInv
<1> QED BY <1>1, DeliveryInvariant, PTL

\* After a graceful close every frame the peer sent has been or can be received.
THEOREM GracefulCloseComplete == Spec => []GracefulCloseLosesNothing
<1>1. TypeInv /\ DeliveryInv => GracefulCloseLosesNothing
  <2> SUFFICES ASSUME TypeInv, DeliveryInv, state = "Closed", rx # "dropped"
               PROVE  Len(delivered) + Len(rx_chan) = produced
    BY DEF GracefulCloseLosesNothing
  <2>1. read = produced
    BY DEF DeliveryInv, Numbered
  <2>2. frame = 0
    BY DEF TypeInv, PcOK
  <2> QED BY <2>1, <2>2 DEF DeliveryInv, InOrderNoLoss, Held, TypeInv, TypeOK
<1> QED BY <1>1, DeliveryInvariant, PTL

\* The guards of the loop's steps on the receive path: something to read, room for the
\* frame it holds, or an operation that completes.
LoopReceives ==
    \/ pc = "select" /\ (inbound # <<>> \/ ws = "Terminated")
    \/ pc = "backpressure" /\ HasRoom(rx_chan)
    \/ pc \notin {"select", "backpressure", "done"}

\* A frame that has not been received is the consumer's or the loop's to move: no frame
\* is stuck behind a full channel, a held frame or a finished loop, for any CHANNEL_SIZE,
\* as long as the connection has not ended abnormally (deliver_with_backpressure,
\* handle_incoming and recv_raw).
THEOREM NoFrameStuck ==
  Spec => [](rx = "open" /\ state \notin Errors /\ Len(delivered) < produced
                => rx_chan # <<>> \/ LoopReceives)
<1>1. ASSUME TypeInv, DeliveryInv, rx = "open", state \notin Errors, Len(delivered) < produced,
             rx_chan = <<>>
      PROVE  LoopReceives
  <2>1. /\ state \in {"Running", "Closed"} /\ Len(delivered) \in Nat /\ produced \in Nat
        /\ Len(rx_chan) = 0 /\ (pc \in Ended <=> state # "Running")
        /\ (pc \in {"select"} \cup Ended => frame = 0)
    BY <1>1 DEF TypeInv, TypeOK, PcOK, LoopStates, Ended
  <2>2. read = Len(delivered) + Held
    BY <1>1, <2>1 DEF DeliveryInv, InOrderNoLoss
  <2>3. pc # "done"
    <3>1. SUFFICES ASSUME pc = "done" PROVE FALSE
      OBVIOUS
    <3>2. state = "Closed" /\ frame = 0
      BY <2>1, <3>1 DEF Ended
    <3>3. read = produced
      BY <1>1, <3>2 DEF DeliveryInv, Numbered
    <3> QED BY <1>1, <2>1, <2>2, <3>2, <3>3 DEF Held
  <2>4. pc = "select" => inbound # <<>>
    BY <1>1, <2>1, <2>2 DEF DeliveryInv, Numbered, Held
  <2>5. HasRoom(rx_chan)
    BY <2>1, Sizes DEF HasRoom
  <2> QED BY <2>3, <2>4, <2>5 DEF LoopReceives
<1>2. TypeInv /\ DeliveryInv =>
        (rx = "open" /\ state \notin Errors /\ Len(delivered) < produced => rx_chan # <<>> \/ LoopReceives)
  BY <1>1
<1> QED BY <1>2, DeliveryInvariant, PTL

--------------------------------------------------------------------------------
(* The terminal cause.                                                     *)

Recorded == {"recorded", "rxClosed", "done"}

\* Until the loop has recorded its cause nobody can have looked at the slot: the
\* channels close only afterwards.  From then on the slot holds the cause or
\* somebody has it.
CauseInv ==
    /\ pc \notin Recorded => /\ terminal_error = "None" /\ taker = "nobody" /\ rx_saw = "none"
                             /\ \A c \in Sends \cup Fires : call[c] # "closed"
    /\ pc \in Recorded => terminal_error =
                            IF taker = "nobody" /\ state # "Closed" THEN state ELSE "None"
    /\ rx_saw = "closed" \/ (\E c \in Sends \cup Fires : call[c] = "closed") =>
        state = "Closed" \/ taker # "nobody"

LEMMA CauseInvStep == TypeInv /\ CauseInv /\ [Next]_vars => CauseInv'
<1> SUFFICES ASSUME TypeInv, CauseInv, [Next]_vars PROVE CauseInv'
  OBVIOUS
<1> USE CallKinds
<1> USE DEF loop, chans, network, handles, history
\* A step that leaves the slot and its readers alone, and makes no call report a
\* closed channel.
<1> DEFINE Quiet == /\ UNCHANGED <<terminal_error, taker, rx_saw>>
                    /\ \A c \in Sends \cup Fires : call'[c] = "closed" => call[c] = "closed"
                    /\ pc' \in Recorded <=> pc \in Recorded
                    /\ state' = state \/ pc \notin Recorded
<1>1. Quiet => CauseInv'
  BY DEF CauseInv, Recorded
<1>2. ASSUME NEW d \in Calls, StartCall(d) \/ Enqueue(d) \/ Cancel(d) PROVE Quiet
  BY <1>2 DEF StartCall, Enqueue, Cancel, TypeInv, TypeOK, Calls
<1>3. ASSUME NEW d \in Calls, EnqueueFail(d) PROVE CauseInv'
  <2>0. pc = "done" /\ UNCHANGED <<pc, state, rx_saw>> /\ call \in [Calls -> CallValues]
    BY <1>3 DEF EnqueueFail, TypeInv, TypeOK
  <2>1. CASE d \in CloseCalls
    <3>1. Quiet
      BY <1>3, <2>0, <2>1 DEF EnqueueFail, Calls, Recorded
    <3> QED BY <1>1, <3>1
  <2>2. CASE d \notin CloseCalls
    <3>1. /\ call' = [call EXCEPT ![d] = IF terminal_error = "None" THEN "closed" ELSE "cause"]
          /\ terminal_error' = "None"
          /\ taker' = IF terminal_error = "None" THEN taker ELSE "call"
      BY <1>3, <2>2 DEF EnqueueFail, Take
    <3>2. terminal_error = "None" => state = "Closed" \/ taker # "nobody"
      BY <2>0 DEF CauseInv, Recorded, TypeInv, PcOK, Ended, TypeOK, LoopStates, Errors
    <3>3. \A c \in Sends \cup Fires : call'[c] = "closed" => call[c] = "closed" \/ terminal_error = "None"
      BY <2>0, <3>1 DEF Calls
    <3> QED BY <2>0, <3>1, <3>2, <3>3 DEF CauseInv, Recorded
  <2> QED BY <2>1, <2>2
<1>4. ASSUME NEW d \in Calls, JoinReturn(d) PROVE CauseInv'
  BY <1>4 DEF JoinReturn, Take, CauseInv, Recorded
<1>5. CASE DropTx \/ DropRx \/ RecvRaw
  BY <1>1, <1>5 DEF DropTx, DropRx, RecvRaw
<1>6. CASE RecvEnd
  <2>1. terminal_error = "None" => state = "Closed" \/ taker # "nobody"
    BY <1>6 DEF RecvEnd, CauseInv, Recorded, TypeInv, PcOK, Ended, TypeOK, LoopStates, Errors
  <2> QED BY <1>6, <2>1 DEF RecvEnd, Take, CauseInv, Recorded
<1>7. CASE OutgoingArm \/ Reserve \/ KeepaliveFire
  <2>1. Quiet
    BY <1>7 DEF OutgoingArm, RecvOutgoing, SendersGone, Stop, Reserve, KeepaliveFire, Recorded
  <2> QED BY <1>1, <2>1
<1>8. CASE IncomingArm
  <2>1. Quiet
    BY <1>8 DEF IncomingArm, ReadData, ReadPing, ReadPong, ReadClose, ReadError, ReadNone,
                Reading, Stop, HoldFrame, Recorded
  <2> QED BY <1>1, <2>1
<1>9. CASE send_socket_message
  <2>1. /\ pc = "sending" /\ pc' \notin Recorded /\ UNCHANGED <<terminal_error, taker, rx_saw>>
        /\ cur \in Calls /\ call \in [Calls -> CallValues]
        /\ \E ok \in BOOLEAN : call' = IF call[cur] = "queued" THEN [call EXCEPT ![cur] = Answer(ok)] ELSE call
    BY <1>9 DEF send_socket_message, Proceed, Resume, Stop, SendOutcomes, Recorded, TypeInv, TypeOK, PcOK
  <2>2. Quiet
    BY <2>1 DEF Answer, Calls, Recorded
  <2> QED BY <1>1, <2>2
<1>10. CASE PongDone \/ CloseDone \/ send_keepalive
  <2>1. Quiet
    BY <1>10 DEF PongDone, CloseDone, send_keepalive, Proceed, Resume, Stop, Recorded
  <2> QED BY <1>1, <2>1
<1>11. CASE RecordTerminal
  BY <1>11 DEF RecordTerminal, CauseInv, Recorded
<1>12. CASE DropSender
  <2>1. Quiet
    BY <1>12 DEF DropSender, Recorded
  <2> QED BY <1>1, <2>1
<1>13. CASE DropReceiver
  <2>1. Quiet
    BY <1>13 DEF DropReceiver, Recorded, Calls
  <2> QED BY <1>1, <2>1
<1>14. CASE Environment
  <2>1. Quiet
    BY <1>14 DEF Environment, PeerData, PeerControl, PeerClose, PeerFin, LinkReset
  <2> QED BY <1>1, <2>1
<1>15. CASE UNCHANGED vars
  BY <1>1, <1>15 DEF vars
<1> QED
  BY <1>1, <1>2, <1>3, <1>4, <1>5, <1>6, <1>7, <1>8, <1>9, <1>10, <1>11, <1>12, <1>13, <1>14, <1>15
     DEF Next, CallStep, Consumer, Loop, Completion

\* The cause of an abnormal end is surfaced exactly once: it stays in the slot until
\* one caller takes it, and nobody is told of a generic closure while it is there
\* (socket_loop_split records before its channels drop).
THEOREM CauseSurfaced == Spec => []CauseSurfacedOnce
<1>1. Init => TypeInv /\ CauseInv
  <2> SUFFICES ASSUME Init PROVE CauseInv
    BY InitTypeInv
  <2> QED BY DEF Init, CauseInv, Recorded, Calls
<1>2. TypeInv /\ CauseInv /\ [Next]_vars => (TypeInv /\ CauseInv)'
  BY TypeInvStep, CauseInvStep
<1>3. CauseInv => CauseSurfacedOnce
  BY DEF CauseInv, CauseSurfacedOnce, Recorded
<1> QED BY <1>1, <1>2, <1>3, PTL DEF Spec

================================================================================
