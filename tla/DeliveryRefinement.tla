--------------------------- MODULE DeliveryRefinement --------------------------
(***************************************************************************)
(* The receive path of SocketLoop implements DeliveryContract, with        *)
(* CHANNEL_SIZE + 1 as the capacity: the channel and the held frame.       *)
(***************************************************************************)
EXTENDS SocketLoopProofs

\* The contract's view of a step: nothing happens, or the loop stops and may take the
\* held frame with it.
Unseen == UNCHANGED <<delivered, rx_chan, frame, rx, rx_saw, state>>
Stopping == /\ state = "Running" /\ state' # "Running" /\ frame' = 0
            /\ UNCHANGED <<delivered, rx_chan, rx, rx_saw>>

LEMMA StepRefines ==
  TypeInv /\ DeliveryInv /\ DeliveryInv' /\ [Next]_vars
      => [Contract!Next]_(Contract!cvars)
<1> SUFFICES ASSUME TypeInv, DeliveryInv, DeliveryInv', [Next]_vars
             PROVE  Contract!Next \/ UNCHANGED Contract!cvars
  OBVIOUS
<1> USE Sizes
<1> USE DEF loop, chans, network, handles, history
<1>0. /\ Len(delivered) \in Nat /\ Len(rx_chan) \in Nat /\ Held \in {0, 1}
      /\ rx_chan \in Seq(Nat) /\ delivered \in Seq(Nat)
      /\ frame \in Nat /\ Len(rx_chan) <= ChannelSize
  BY DEF TypeInv, TypeOK, Held
<1>1. ASSUME Unseen PROVE UNCHANGED Contract!cvars
  BY <1>1 DEF Unseen, Contract!cvars, Deliverable, Phase, Held
<1>2. ASSUME Stopping PROVE Contract!Next \/ UNCHANGED Contract!cvars
  <2>1. CASE rx = "dropped"
    BY <1>2, <2>1 DEF Stopping, Contract!cvars, Deliverable, Phase
  <2>2. CASE rx # "dropped"
    <3>1. /\ Phase = "open" /\ Phase' = "stopped"
          /\ Deliverable = Len(delivered) + (Len(rx_chan) + Held)
          /\ Deliverable' = Len(delivered) + (Len(rx_chan) + 0)
          /\ UNCHANGED <<delivered, rx_saw>>
      BY <1>2, <2>2 DEF Stopping, Phase, Deliverable, Held
    <3>2. Deliverable' \in {Deliverable, Deliverable - 1} /\ Deliverable' >= Len(delivered)
      BY <1>0, <3>1
    <3> QED BY <3>1, <3>2 DEF Contract!Next, Contract!Stop
  <2> QED BY <2>1, <2>2
\* The receiver is dropped (or was already).
<1>3. ASSUME rx' = "dropped", UNCHANGED <<delivered, rx_saw>>
      PROVE  Contract!Next \/ UNCHANGED Contract!cvars
  <2>1. Phase' = "abandoned" /\ Deliverable' = Len(delivered)
    BY <1>0, <1>3 DEF Phase, Deliverable
  <2>2. CASE rx = "dropped"
    BY <1>0, <1>3, <2>1, <2>2 DEF Contract!cvars, Phase, Deliverable
  <2>3. CASE rx # "dropped"
    BY <1>3, <2>1, <2>3 DEF Contract!Next, Contract!Abandon, Phase
  <2> QED BY <2>2, <2>3
\* A frame is added to the channel or held.
<1>4. ASSUME rx # "dropped", state = "Running", Len(rx_chan) + Held <= ChannelSize,
             Len(rx_chan') + Held' = Len(rx_chan) + Held + 1, Len(rx_chan') \in Nat,
             Held' \in {0, 1}, UNCHANGED <<delivered, rx, rx_saw, state>>
      PROVE  Contract!Next
  <2>1. /\ Phase = "open" /\ Phase' = Phase
        /\ Deliverable = Len(delivered) + (Len(rx_chan) + Held)
        /\ Deliverable' = Len(delivered) + (Len(rx_chan') + Held')
    BY <1>4 DEF Phase, Deliverable
  <2>2. Deliverable' = Deliverable + 1 /\ Deliverable - Len(delivered) < ChannelSize + 1
    BY <1>0, <1>4, <2>1
  <2> QED BY <1>4, <2>1, <2>2 DEF Contract!Next, Contract!Accept
<1>5. ASSUME NEW c \in Calls, CallStep(c) PROVE Contract!Next \/ UNCHANGED Contract!cvars
  <2>1. CASE StartCall(c)
    BY <2>1 DEF StartCall, Contract!cvars, Deliverable, Phase, Held
  <2>2. CASE Enqueue(c) \/ EnqueueFail(c)
    BY <1>1, <2>2 DEF Enqueue, EnqueueFail, Unseen
  <2>3. CASE Cancel(c)
    BY <1>1, <1>3, <2>3 DEF Cancel, Unseen
  <2>4. CASE JoinReturn(c)
    BY <1>3, <2>4 DEF JoinReturn
  <2> QED BY <1>5, <2>1, <2>2, <2>3, <2>4 DEF CallStep
<1>6. CASE DropTx \/ DropRx
  BY <1>1, <1>3, <1>6 DEF DropTx, DropRx, Unseen
<1>7. CASE RecvRaw
  <2>1. /\ rx = "open" /\ rx_chan # <<>> /\ rx_chan' = Tail(rx_chan)
        /\ delivered' = Append(delivered, Head(rx_chan))
        /\ UNCHANGED <<frame, rx, rx_saw, state>>
    BY <1>7 DEF RecvRaw
  <2>2. /\ Len(rx_chan) >= 1 /\ Head(rx_chan) = rx_chan[1]
        /\ Len(rx_chan') = Len(rx_chan) - 1 /\ Len(delivered') = Len(delivered) + 1
    BY <1>0, <2>1
  <2>3. Head(rx_chan) = Len(delivered) + 1
    BY <1>0, <2>1, <2>2 DEF DeliveryInv, InOrderNoLoss
  <2>4. /\ Deliverable = Len(delivered) + (Len(rx_chan) + Held)
        /\ Deliverable' = Len(delivered') + (Len(rx_chan') + Held)
        /\ Phase' = Phase /\ Phase # "abandoned"
    BY <2>1 DEF Deliverable, Phase, Held
  <2>5. Deliverable' = Deliverable /\ Len(delivered) < Deliverable
    BY <1>0, <2>2, <2>4
  <2> QED BY <2>1, <2>3, <2>4, <2>5 DEF Contract!Next, Contract!Deliver
<1>8. CASE RecvEnd
  <2>1. /\ rx = "open" /\ rx_chan = <<>> /\ pc \in Ended /\ rx_saw' # "none"
        /\ UNCHANGED <<delivered, rx_chan, frame, rx, state>>
    BY <1>8 DEF RecvEnd, Ended
  <2>2. state # "Running" /\ frame = 0
    BY <2>1 DEF TypeInv, PcOK
  <2>3. Phase = "stopped" /\ Phase' = Phase /\ Deliverable = Len(delivered)
        /\ Deliverable' = Deliverable
    BY <1>0, <2>1, <2>2 DEF Phase, Deliverable, Held
  <2> QED BY <2>1, <2>3 DEF Contract!Next, Contract!Tell
<1>9. CASE ReadData
  <2>1. /\ pc = "select" /\ state = "Running" /\ frame = 0
        /\ UNCHANGED <<delivered, rx, rx_saw>>
    BY <1>9 DEF ReadData, Reading, TypeInv, PcOK, Ended
  <2>2. CASE rx = "dropped"
    BY <1>3, <2>1, <2>2
  <2>3. CASE rx # "dropped" /\ HasRoom(rx_chan)
    <3>1. PICK n : rx_chan' = Append(rx_chan, n) /\ UNCHANGED <<state, frame>>
      BY <1>9, <2>3 DEF ReadData
    <3>2. Len(rx_chan') = Len(rx_chan) + 1
      BY <1>0, <3>1
    <3>3. Held = 0 /\ Held' = 0
      BY <2>1, <3>1 DEF Held
    <3> QED BY <1>0, <1>4, <2>1, <2>3, <3>1, <3>2, <3>3 DEF HasRoom
  <2>4. CASE rx # "dropped" /\ ~HasRoom(rx_chan)
    <3>1. pc' = "backpressure" /\ UNCHANGED <<state, rx_chan>>
      BY <1>9, <2>4 DEF ReadData, HoldFrame
    <3>2. Held = 0 /\ Held' = 1
      BY <2>1, <3>1 DEF Held, DeliveryInv
    <3> QED BY <1>0, <1>4, <2>1, <2>4, <3>1, <3>2
  <2> QED BY <2>2, <2>3, <2>4
<1>10. CASE Reserve
  <2>1. state = "Running" /\ frame # 0
    BY <1>10 DEF Reserve, DeliveryInv, TypeInv, PcOK, Ended
  <2>2. CASE rx = "dropped"
    BY <1>3, <1>10, <2>2 DEF Reserve
  <2>3. CASE rx # "dropped"
    <3>1. rx_chan' = Append(rx_chan, frame) /\ frame' = 0
          /\ UNCHANGED <<delivered, rx, rx_saw, state>>
      BY <1>10, <2>3 DEF Reserve
    <3>2. Len(rx_chan') = Len(rx_chan) + 1 /\ Held = 1 /\ Held' = 0
      BY <1>0, <2>1, <3>1 DEF Held
    <3>3. Deliverable' = Deliverable /\ Phase' = Phase
      BY <1>0, <2>3, <3>1, <3>2 DEF Deliverable, Phase
    <3> QED BY <3>1, <3>3 DEF Contract!cvars
  <2> QED BY <2>2, <2>3
<1>11. CASE ReadPing \/ ReadPong \/ ReadClose \/ RecvOutgoing \/ KeepaliveFire
  BY <1>1, <1>11 DEF ReadPing, ReadPong, ReadClose, RecvOutgoing, KeepaliveFire, Unseen
<1>12. CASE ReadError \/ ReadNone \/ SendersGone \/ CloseDone
  <2>1. state = "Running"
    BY <1>12 DEF ReadError, ReadNone, Reading, SendersGone, CloseDone, TypeInv, PcOK, Ended
  <2> QED BY <1>2, <1>12, <2>1 DEF ReadError, ReadNone, SendersGone, CloseDone, Stop, Stopping
<1>13. CASE send_socket_message \/ PongDone \/ send_keepalive
  <2>1. state = "Running" /\ UNCHANGED <<delivered, rx_chan, rx, rx_saw>>
    BY <1>13 DEF send_socket_message, PongDone, send_keepalive, TypeInv, PcOK, Ended
  <2>2. \E s : Proceed(s)
    BY <1>13 DEF send_socket_message, PongDone, send_keepalive
  <2>3. Unseen \/ Stopping
    BY <2>1, <2>2 DEF Proceed, Resume, Stop, Unseen, Stopping
  <2> QED BY <1>1, <1>2, <2>3
<1>14. CASE RecordTerminal \/ DropSender
  BY <1>1, <1>14 DEF RecordTerminal, DropSender, Unseen
<1>15. CASE DropReceiver
  BY <1>1, <1>3, <1>15 DEF DropReceiver, Unseen
<1>16. CASE Environment
  BY <1>1, <1>16 DEF Environment, PeerData, PeerControl, PeerClose, PeerFin, LinkReset, Unseen
<1>17. CASE UNCHANGED vars
  BY <1>1, <1>17 DEF vars, Unseen
<1> QED
  BY <1>5, <1>6, <1>7, <1>8, <1>9, <1>10, <1>11, <1>12, <1>13, <1>14, <1>15, <1>16, <1>17
     DEF Next, Consumer, Loop, IncomingArm, OutgoingArm, Completion

\* Whatever the channel size, the consumer of a connection sees an in-order buffer of
\* CHANNEL_SIZE + 1 frames that reports the end only when it is drained and loses at
\* most the held frame (deliver_with_backpressure, recv_raw, the end of the loop).
THEOREM ReceiveContract == Spec => KeepsContract
<1>1. Init => Contract!Init
  BY DEF Init, Contract!Init, Deliverable, Phase, Held
<1> QED
  BY <1>1, StepRefines, DeliveryInvariant, PTL DEF Spec, KeepsContract, Contract!Spec
================================================================================
