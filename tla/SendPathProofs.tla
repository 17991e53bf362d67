---------------------------- MODULE SendPathProofs -----------------------------
(***************************************************************************)
(* Proofs about the send path of SocketLoop: the order of frames on the    *)
(* wire, the truth of confirmations, and what may end a connection.        *)
(***************************************************************************)
EXTENDS SocketLoopProofs

InFlight == IF cur = NoCall THEN 0 ELSE 1

\* The accepted calls are those written, then the one in flight, then those queued;
\* once the loop has ended, some accepted calls may be in neither place.
WireInv ==
    /\ Len(tx_chan) <= Len(accepted)
    /\ \A i \in 1..Len(tx_chan) : tx_chan[i] = accepted[Len(accepted) - Len(tx_chan) + i]
    /\ Len(wire) + InFlight <= Len(accepted) - Len(tx_chan)
    /\ state = "Running" => Len(wire) + InFlight = Len(accepted) - Len(tx_chan)
    /\ cur # NoCall => accepted[Len(wire) + 1] = cur
    /\ \A i \in 1..Len(wire) : wire[i] = accepted[i]

LEMMA WireInvStep == TypeInv /\ WireInv /\ [Next]_vars => WireInv'
<1> SUFFICES ASSUME TypeInv, WireInv, [Next]_vars PROVE WireInv'
  OBVIOUS
<1> USE CallKinds
<1> USE DEF loop, chans, network, handles, history
<1>0. /\ tx_chan \in Seq(Calls) /\ accepted \in Seq(Calls) /\ wire \in Seq(Calls)
      /\ Len(tx_chan) \in Nat /\ Len(accepted) \in Nat /\ Len(wire) \in Nat
  BY DEF TypeInv, TypeOK
<1> DEFINE Quiet == /\ UNCHANGED <<tx_chan, accepted, wire, cur>>
                    /\ state' = "Running" => state = "Running"
<1>1. Quiet => WireInv'
  BY DEF WireInv, InFlight
<1>2. ASSUME NEW c \in Calls, StartCall(c) \/ EnqueueFail(c) \/ Cancel(c) \/ JoinReturn(c)
      PROVE  Quiet
  BY <1>2 DEF StartCall, EnqueueFail, Cancel, JoinReturn
<1>3. ASSUME NEW c \in Calls, Enqueue(c) PROVE WireInv'
  <2>1. tx_chan' = Append(tx_chan, c) /\ accepted' = Append(accepted, c)
        /\ UNCHANGED <<wire, cur, state>>
    BY <1>3 DEF Enqueue
  <2>2. /\ Len(tx_chan') = Len(tx_chan) + 1 /\ Len(accepted') = Len(accepted) + 1
        /\ tx_chan'[Len(tx_chan) + 1] = c /\ accepted'[Len(accepted) + 1] = c
        /\ \A i \in 1..Len(tx_chan) : tx_chan'[i] = tx_chan[i]
        /\ \A i \in 1..Len(accepted) : accepted'[i] = accepted[i]
    BY <1>0, <2>1
  <2>3. ASSUME NEW i \in 1..Len(tx_chan')
        PROVE  tx_chan'[i] = accepted'[Len(accepted') - Len(tx_chan') + i]
    <3>1. CASE i \in 1..Len(tx_chan)
      <4>1. Len(accepted) - Len(tx_chan) + i \in 1..Len(accepted)
        BY <1>0, <3>1 DEF WireInv
      <4>2. tx_chan[i] = accepted[Len(accepted) - Len(tx_chan) + i]
        BY <3>1 DEF WireInv
      <4>3. Len(accepted') - Len(tx_chan') + i = Len(accepted) - Len(tx_chan) + i
        BY <1>0, <2>2, <3>1
      <4> QED BY <2>2, <3>1, <4>1, <4>2, <4>3
    <3>2. CASE i = Len(tx_chan) + 1
      BY <1>0, <2>2, <3>2
    <3> QED BY <1>0, <2>2, <3>1, <3>2
  <2>4. \A i \in 1..Len(wire') : wire'[i] = accepted'[i]
    BY <1>0, <2>1, <2>2 DEF WireInv, InFlight
  <2>5. cur' # NoCall => accepted'[Len(wire') + 1] = cur'
    BY <1>0, <2>1, <2>2 DEF WireInv, InFlight
  <2> QED BY <1>0, <2>1, <2>2, <2>3, <2>4, <2>5 DEF WireInv, InFlight
<1>4. CASE RecvOutgoing
  <2>1. tx_chan # <<>> /\ cur' = Head(tx_chan) /\ tx_chan' = Tail(tx_chan)
        /\ UNCHANGED <<wire, accepted, state>> /\ cur = NoCall /\ state = "Running"
    BY <1>4 DEF RecvOutgoing, TypeInv, PcOK, Ended
  <2>2. /\ Len(tx_chan) >= 1 /\ Len(tx_chan') = Len(tx_chan) - 1 /\ cur' = tx_chan[1]
        /\ \A i \in 1..Len(tx_chan') : tx_chan'[i] = tx_chan[i + 1]
    BY <1>0, <2>1
  <2>3. Len(wire) = Len(accepted) - Len(tx_chan)
    BY <1>0, <2>1 DEF WireInv, InFlight
  <2>4. cur' = accepted[Len(wire) + 1]
    BY <1>0, <2>2, <2>3 DEF WireInv
  <2>5. ASSUME NEW i \in 1..Len(tx_chan')
        PROVE  tx_chan'[i] = accepted[Len(accepted) - Len(tx_chan') + i]
    <3>1. i + 1 \in 1..Len(tx_chan)
      BY <1>0, <2>2
    <3>2. Len(accepted) - Len(tx_chan') + i = Len(accepted) - Len(tx_chan) + (i + 1)
      BY <1>0, <2>2
    <3> QED BY <2>2, <3>1, <3>2 DEF WireInv
  <2>6. cur' # NoCall
    BY <1>0, <2>2
  <2> QED BY <1>0, <2>1, <2>2, <2>3, <2>4, <2>5, <2>6 DEF WireInv, InFlight
<1>5. CASE send_socket_message
  <2>1. cur \in Calls /\ cur # NoCall /\ cur' = NoCall /\ UNCHANGED <<tx_chan, accepted>>
        /\ state = "Running" /\ accepted[Len(wire) + 1] = cur
        /\ Len(wire) + 1 = Len(accepted) - Len(tx_chan)
    BY <1>5 DEF send_socket_message, TypeInv, TypeOK, PcOK, Ended, WireInv, InFlight
  <2>2. CASE wire' = Append(wire, cur)
    <3>1. /\ Len(wire') = Len(wire) + 1 /\ wire'[Len(wire) + 1] = cur
          /\ \A i \in 1..Len(wire) : wire'[i] = wire[i]
      BY <1>0, <2>1, <2>2
    <3>2. ASSUME NEW i \in 1..Len(wire') PROVE wire'[i] = accepted[i]
      <4>1. CASE i \in 1..Len(wire)
        BY <3>1, <4>1 DEF WireInv
      <4>2. CASE i = Len(wire) + 1
        BY <2>1, <3>1, <4>2
      <4> QED BY <1>0, <3>1, <4>1, <4>2
    <3> QED BY <1>0, <2>1, <3>1, <3>2 DEF WireInv, InFlight
  <2>3. CASE wire' = wire /\ state' # "Running"
    BY <1>0, <2>1, <2>3 DEF WireInv, InFlight
  <2>4. wire' = Append(wire, cur) \/ (wire' = wire /\ state' # "Running")
    BY <1>5 DEF send_socket_message, Proceed, Resume, Stop, StateAfterSend
  <2> QED BY <2>2, <2>3, <2>4
<1>6. CASE DropReceiver
  <2>1. tx_chan' = <<>> /\ UNCHANGED <<accepted, wire, cur, state>> /\ state # "Running"
    BY <1>6 DEF DropReceiver, TypeInv, PcOK, Ended
  <2>2. Len(tx_chan') = 0
    BY <2>1
  <2> QED BY <1>0, <2>1, <2>2 DEF WireInv, InFlight
<1>7. CASE DropTx \/ DropRx \/ Consumer
  BY <1>1, <1>7 DEF DropTx, DropRx, Consumer, RecvRaw, RecvEnd
<1>8. CASE IncomingArm \/ SendersGone \/ Reserve \/ KeepaliveFire
  <2>1. Quiet
    BY <1>8 DEF IncomingArm, ReadData, ReadPing, ReadPong, ReadClose, ReadError, ReadNone,
                Stop, HoldFrame, SendersGone, Reserve, KeepaliveFire
  <2> QED BY <1>1, <2>1
<1>9. CASE PongDone \/ CloseDone \/ send_keepalive \/ RecordTerminal \/ DropSender
  <2>1. Quiet
    BY <1>9 DEF PongDone, CloseDone, send_keepalive, RecordTerminal, DropSender,
                Proceed, Resume, Stop
  <2> QED BY <1>1, <2>1
<1>10. CASE Environment
  BY <1>1, <1>10 DEF Environment, PeerData, PeerControl, PeerClose, PeerFin, LinkReset
<1>11. CASE UNCHANGED vars
  BY <1>1, <1>11 DEF vars
<1> QED
  BY <1>1, <1>2, <1>3, <1>4, <1>5, <1>6, <1>7, <1>8, <1>9, <1>10, <1>11
     DEF Next, CallStep, Loop, OutgoingArm, Completion

LEMMA WireInvariant == Spec => [](TypeInv /\ WireInv)
<1>1. Init => TypeInv /\ WireInv
  <2> SUFFICES ASSUME Init PROVE WireInv
    BY InitTypeInv
  <2> QED BY DEF Init, WireInv, InFlight
<1>2. TypeInv /\ WireInv /\ [Next]_vars => (TypeInv /\ WireInv)'
  BY TypeInvStep, WireInvStep
<1> QED BY <1>1, <1>2, PTL DEF Spec

\* Frames are written in the order their calls were accepted, none skipped, for any
\* number of concurrent callers (one mpsc queue, and send_socket_message ends the loop
\* on the first failed write).
THEOREM WireOrder == Spec => []WireFifo
<1>1. TypeInv /\ WireInv => WireFifo
  BY DEF TypeInv, TypeOK, WireInv, InFlight, WireFifo
<1> QED BY <1>1, WireInvariant, PTL

--------------------------------------------------------------------------------
(* The truth of confirmations.                                             *)

\* No call is enqueued twice, a call that never got a slot was not enqueued, an error
\* from the loop means that the loop has ended, and only "ok" and "cancelled" calls
\* can have been written.
CallInv ==
    /\ \A i, j \in 1..Len(accepted) : accepted[i] = accepted[j] => i = j
    /\ \A i \in 1..Len(accepted) :
        call[accepted[i]] \notin {"idle", "enqueuing", "cause", "closed"}
    /\ \A c \in Confirmed :
        /\ call[c] = "ok" => Written(c)
        /\ Written(c) => call[c] \in {"ok", "cancelled"}
        /\ call[c] \in {"err", "panic"} => state # "Running"

LEMMA CallInvStep == TypeInv /\ WireInv /\ CallInv /\ [Next]_vars => CallInv'
<1> SUFFICES ASSUME TypeInv, WireInv, CallInv, [Next]_vars PROVE CallInv'
  OBVIOUS
<1> USE CallKinds
<1> USE DEF loop, chans, network, handles, history
<1>0. /\ accepted \in Seq(Calls) /\ wire \in Seq(Calls)
      /\ Len(accepted) \in Nat /\ Len(wire) \in Nat
      /\ call \in [Calls -> CallValues]
      /\ \A i \in 1..Len(accepted) : accepted[i] \in Calls
  BY DEF TypeInv, TypeOK
<1>a. \A c \in Confirmed : c \in Calls
  BY DEF Confirmed
<1>b. \A c \in Calls : Written(c) => \E i \in 1..Len(accepted) : accepted[i] = c
  BY <1>0 DEF Written, WireInv, InFlight
<1> DEFINE Quiet == /\ UNCHANGED <<call, accepted, wire>>
                    /\ state' = "Running" => state = "Running"
<1>1. Quiet => CallInv'
  BY DEF CallInv, Written
<1>2. ASSUME NEW c \in Calls, StartCall(c) \/ EnqueueFail(c)
      PROVE  CallInv'
  <2>1. /\ call[c] \in {"idle", "enqueuing"} /\ UNCHANGED <<accepted, wire, state>>
        /\ \E v \in {"enqueuing", "cause", "closed"} : call' = [call EXCEPT ![c] = v]
    BY <1>2 DEF StartCall, EnqueueFail
  <2>2. \A i \in 1..Len(accepted) : accepted[i] # c
    BY <2>1 DEF CallInv
  <2>3. ~Written(c)
    BY <1>b, <2>2
  <2>4. /\ \A d \in Calls : d # c => call'[d] = call[d]
        /\ call'[c] \in {"enqueuing", "cause", "closed"}
    BY <1>0, <2>1
  <2>5. \A d \in Calls : Written(d)' <=> Written(d)
    BY <2>1 DEF Written
  <2>6. ASSUME NEW d \in Confirmed
        PROVE  /\ call'[d] = "ok" => Written(d)'
               /\ Written(d)' => call'[d] \in {"ok", "cancelled"}
               /\ call'[d] \in {"err", "panic"} => state' # "Running"
    BY <1>a, <2>1, <2>3, <2>4, <2>5 DEF CallInv
  <2> QED BY <1>0, <2>1, <2>2, <2>4, <2>6 DEF CallInv
<1>3. ASSUME NEW c \in Calls, Enqueue(c) PROVE CallInv'
  <2>1. /\ call[c] = "enqueuing" /\ UNCHANGED <<wire, state>>
        /\ accepted' = Append(accepted, c)
        /\ call' = [call EXCEPT ![c] = IF c \in Fires THEN "ok" ELSE "queued"]
    BY <1>3 DEF Enqueue
  <2>2. \A i \in 1..Len(accepted) : accepted[i] # c
    BY <2>1 DEF CallInv
  <2>3. ~Written(c)
    BY <1>b, <2>2
  <2>4. /\ Len(accepted') = Len(accepted) + 1 /\ accepted'[Len(accepted) + 1] = c
        /\ \A i \in 1..Len(accepted) : accepted'[i] = accepted[i]
    BY <1>0, <2>1
  <2>5. /\ \A d \in Calls : d # c => call'[d] = call[d]
        /\ call'[c] \in {"ok", "queued"} /\ (c \in Confirmed => call'[c] = "queued")
    BY <1>0, <2>1 DEF Confirmed
  <2>6. \A d \in Calls : Written(d)' <=> Written(d)
    BY <2>1 DEF Written
  <2>7. ASSUME NEW i \in 1..Len(accepted'), NEW j \in 1..Len(accepted'),
               accepted'[i] = accepted'[j]
        PROVE  i = j
    <3>1. \A k \in 1..Len(accepted') : k \in 1..Len(accepted) \/ k = Len(accepted) + 1
      BY <1>0, <2>4
    <3> QED BY <2>2, <2>4, <2>7, <3>1 DEF CallInv
  <2>8. ASSUME NEW i \in 1..Len(accepted')
        PROVE  call'[accepted'[i]] \notin {"idle", "enqueuing", "cause", "closed"}
    <3>1. CASE i = Len(accepted) + 1
      BY <2>4, <2>5, <3>1
    <3>2. CASE i \in 1..Len(accepted)
      BY <1>0, <2>2, <2>4, <2>5, <3>2 DEF CallInv
    <3> QED BY <1>0, <2>4, <3>1, <3>2
  <2>9. ASSUME NEW d \in Confirmed
        PROVE  /\ call'[d] = "ok" => Written(d)'
               /\ Written(d)' => call'[d] \in {"ok", "cancelled"}
               /\ call'[d] \in {"err", "panic"} => state' # "Running"
    BY <1>a, <2>1, <2>3, <2>5, <2>6 DEF CallInv
  <2> QED BY <2>7, <2>8, <2>9 DEF CallInv
<1>4. ASSUME NEW c \in Calls, Cancel(c) PROVE CallInv'
  <2>1. call' = [call EXCEPT ![c] = "cancelled"] /\ UNCHANGED <<accepted, wire, state>>
    BY <1>4 DEF Cancel
  <2>2. (\A d \in Calls : d # c => call'[d] = call[d]) /\ call'[c] = "cancelled"
    BY <1>0, <2>1
  <2>3. \A d \in Calls : Written(d)' <=> Written(d)
    BY <2>1 DEF Written
  <2>4. ASSUME NEW d \in Confirmed
        PROVE  /\ call'[d] = "ok" => Written(d)'
               /\ Written(d)' => call'[d] \in {"ok", "cancelled"}
               /\ call'[d] \in {"err", "panic"} => state' # "Running"
    BY <1>a, <2>1, <2>2, <2>3 DEF CallInv
  <2>5. \A i \in 1..Len(accepted) :
            call'[accepted[i]] \notin {"idle", "enqueuing", "cause", "closed"}
    BY <1>0, <2>2 DEF CallInv
  <2> QED BY <2>1, <2>4, <2>5 DEF CallInv
<1>5. ASSUME NEW c \in Calls, JoinReturn(c) PROVE Quiet
  BY <1>5 DEF JoinReturn
<1>6. CASE send_socket_message
  <2>1. /\ cur \in Calls /\ state = "Running" /\ accepted' = accepted
        /\ Len(wire) + 1 \in 1..Len(accepted) /\ accepted[Len(wire) + 1] = cur
        /\ Len(tx_chan) \in Nat
    BY <1>0, <1>6 DEF send_socket_message, TypeInv, TypeOK, PcOK, Ended, WireInv, InFlight
  <2>2. PICK ok \in BOOLEAN :
          /\ wire' = IF ok THEN Append(wire, cur) ELSE wire
          /\ call' = IF call[cur] = "queued" THEN [call EXCEPT ![cur] = Answer(ok)] ELSE call
          /\ Proceed(StateAfterSend(cur, ok))
    BY <1>6 DEF send_socket_message, SendOutcomes
  <2>3. /\ \A d \in Calls : d # cur => call'[d] = call[d]
        /\ call[cur] # "queued" => call'[cur] = call[cur]
        /\ call[cur] = "queued" => call'[cur] = IF ok THEN "ok" ELSE "err"
    BY <1>0, <2>1, <2>2 DEF Answer
  <2>4. call[cur] \notin {"idle", "enqueuing", "cause", "closed"}
    BY <2>1 DEF CallInv
  <2>5. cur \in Confirmed => call[cur] \in {"queued", "ok", "cancelled"}
    BY <1>0, <2>1, <2>4 DEF CallInv, CallValues
  <2>6. ~ok => state' # "Running"
    BY <2>2 DEF Proceed, StateAfterSend, Stop
  <2>7. \A d \in Calls : Written(d)' <=> Written(d) \/ (ok /\ d = cur)
    <3>1. CASE ok
      <4>1. /\ Len(wire') = Len(wire) + 1 /\ wire'[Len(wire) + 1] = cur
            /\ \A i \in 1..Len(wire) : wire'[i] = wire[i]
        BY <1>0, <2>1, <2>2, <3>1
      <4>2. \A i \in 1..Len(wire') : i \in 1..Len(wire) \/ i = Len(wire) + 1
        BY <1>0, <4>1
      <4>3. 1..Len(wire) \subseteq 1..Len(wire') /\ Len(wire) + 1 \in 1..Len(wire')
        BY <1>0, <4>1
      <4> QED BY <3>1, <4>1, <4>2, <4>3 DEF Written
    <3>2. CASE ~ok
      BY <2>2, <3>2 DEF Written
    <3> QED BY <3>1, <3>2
  <2>8. ASSUME NEW d \in Confirmed
        PROVE  /\ call'[d] = "ok" => Written(d)'
               /\ Written(d)' => call'[d] \in {"ok", "cancelled"}
               /\ call'[d] \in {"err", "panic"} => state' # "Running"
    <3>1. CASE d # cur
      BY <1>a, <2>1, <2>3, <2>7, <3>1 DEF CallInv
    <3>2. CASE d = cur
      BY <1>a, <2>1, <2>3, <2>5, <2>6, <2>7, <3>2 DEF CallInv
    <3> QED BY <3>1, <3>2
  <2>9. \A i \in 1..Len(accepted) :
            call'[accepted[i]] \notin {"idle", "enqueuing", "cause", "closed"}
    BY <1>0, <2>1, <2>3, <2>4 DEF CallInv
  <2> QED BY <2>1, <2>8, <2>9 DEF CallInv
<1>7. CASE DropReceiver
  <2>1. /\ call' = [c \in Calls |-> IF call[c] = "queued" THEN "panic" ELSE call[c]]
        /\ UNCHANGED <<accepted, wire, state>> /\ state # "Running"
    BY <1>7 DEF DropReceiver, TypeInv, PcOK, Ended
  <2>2. \A d \in Calls : call'[d] = IF call[d] = "queued" THEN "panic" ELSE call[d]
    BY <2>1
  <2>3. \A d \in Calls : Written(d)' <=> Written(d)
    BY <2>1 DEF Written
  <2>4. ASSUME NEW d \in Confirmed
        PROVE  /\ call'[d] = "ok" => Written(d)'
               /\ Written(d)' => call'[d] \in {"ok", "cancelled"}
               /\ call'[d] \in {"err", "panic"} => state' # "Running"
    BY <1>a, <2>1, <2>2, <2>3 DEF CallInv
  <2>5. \A i \in 1..Len(accepted) :
            call'[accepted[i]] \notin {"idle", "enqueuing", "cause", "closed"}
    BY <1>0, <2>2 DEF CallInv
  <2> QED BY <2>1, <2>4, <2>5 DEF CallInv
<1>8. CASE DropTx \/ DropRx \/ Consumer
  BY <1>1, <1>8 DEF DropTx, DropRx, Consumer, RecvRaw, RecvEnd
<1>9. CASE IncomingArm \/ OutgoingArm \/ Reserve \/ KeepaliveFire
  <2>1. Quiet
    BY <1>9 DEF IncomingArm, ReadData, ReadPing, ReadPong, ReadClose, ReadError, ReadNone,
                Stop, HoldFrame, OutgoingArm, RecvOutgoing, SendersGone, Reserve,
                KeepaliveFire
  <2> QED BY <1>1, <2>1
<1>10. CASE PongDone \/ CloseDone \/ send_keepalive \/ RecordTerminal \/ DropSender
  <2>1. Quiet
    BY <1>10 DEF PongDone, CloseDone, send_keepalive, RecordTerminal, DropSender,
                 Proceed, Resume, Stop
  <2> QED BY <1>1, <2>1
<1>11. CASE Environment
  BY <1>1, <1>11 DEF Environment, PeerData, PeerControl, PeerClose, PeerFin, LinkReset
<1>12. CASE UNCHANGED vars
  BY <1>1, <1>12 DEF vars
<1> QED
  BY <1>1, <1>2, <1>3, <1>4, <1>5, <1>6, <1>7, <1>8, <1>9, <1>10, <1>11, <1>12
     DEF Next, CallStep, Loop, Completion

\* A confirmed send or close that returned Ok had its frame written, one that failed, or
\* was never queued, did not, and no frame is written twice, for any number of callers
\* and whichever of them are cancelled (send_socket_message, send_confirmed, send_close).
THEOREM TruthfulOutcomes == Spec => []OutcomeTruthful
<1>1. Init => CallInv
  <2> SUFFICES ASSUME Init PROVE CallInv
    OBVIOUS
  <2>1. \A c \in Calls : call[c] = "idle"
    BY DEF Init
  <2>2. wire = <<>> /\ accepted = <<>>
    BY DEF Init
  <2>3. \A c \in Confirmed : call[c] = "idle" /\ ~Written(c)
    BY <2>1, <2>2 DEF Written, Confirmed
  <2> QED BY <2>2, <2>3 DEF CallInv
<1>2. TypeInv /\ WireInv /\ CallInv => OutcomeTruthful
  <2> SUFFICES ASSUME TypeInv, WireInv, CallInv PROVE OutcomeTruthful
    OBVIOUS
  <2>1. \A i \in 1..Len(wire) : i \in 1..Len(accepted) /\ wire[i] = accepted[i]
    BY DEF TypeInv, TypeOK, WireInv, InFlight
  <2>2. \A i, j \in 1..Len(wire) : wire[i] = wire[j] => i = j
    BY <2>1 DEF CallInv
  <2> QED BY <2>2 DEF CallInv, OutcomeTruthful
<1> QED BY <1>1, <1>2, CallInvStep, WireInvariant, PTL DEF Spec

--------------------------------------------------------------------------------
(* What may end a connection.                                              *)

\* Everything that may have made the loop stop; none of it can be undone.
Excused ==
    \/ ~tx_alive \/ rx = "dropped"
    \/ \E c \in Confirmed : call[c] = "cancelled"
    \/ ws # "Active" \/ peer = "gone"

\* NoSpuriousDisconnect, and what sink.close rests on: a Close frame has been read.
EndInv ==
    /\ state # "Running" => Excused
    /\ pc = "closing" => ws # "Active"

LEMMA ExcuseStays == TypeInv /\ Excused /\ [Next]_vars => Excused'
<1> SUFFICES ASSUME TypeInv, Excused, [Next]_vars PROVE Excused'
  OBVIOUS
<1> USE CallKinds
<1> USE DEF loop, chans, network, handles, history
<1>0. call \in [Calls -> CallValues] /\ \A c \in Confirmed : c \in Calls
  BY DEF TypeInv, TypeOK, Confirmed
<1> DEFINE Kept ==
      /\ tx_alive' => tx_alive
      /\ rx = "dropped" => rx' = "dropped"
      /\ \A c \in Confirmed : call[c] = "cancelled" => call'[c] = "cancelled"
      /\ ws # "Active" => ws' # "Active"
      /\ peer = "gone" => peer' = "gone"
<1>1. Kept => Excused'
  BY DEF Excused
<1>2. ASSUME NEW c \in Calls, CallStep(c) PROVE Kept
  BY <1>0, <1>2 DEF CallStep, StartCall, Enqueue, EnqueueFail, Cancel, JoinReturn
<1>3. CASE DropTx \/ DropRx \/ Consumer
  BY <1>1, <1>3 DEF DropTx, DropRx, Consumer, RecvRaw, RecvEnd
<1>4. CASE IncomingArm \/ OutgoingArm \/ Reserve \/ KeepaliveFire
  BY <1>1, <1>4 DEF IncomingArm, ReadData, ReadPing, ReadPong, ReadClose, ReadError, ReadNone,
              OutgoingArm, RecvOutgoing, SendersGone, Reserve, KeepaliveFire,
              AfterRecvClose
<1>5. CASE send_socket_message
  BY <1>0, <1>1, <1>5 DEF send_socket_message, AfterSendClose
<1>6. CASE PongDone \/ CloseDone \/ send_keepalive \/ RecordTerminal \/ DropSender
  BY <1>1, <1>6 DEF PongDone, CloseDone, send_keepalive, RecordTerminal, DropSender
<1>7. CASE DropReceiver
  BY <1>0, <1>1, <1>7 DEF DropReceiver
<1>8. CASE Environment
  BY <1>1, <1>8 DEF Environment, PeerData, PeerControl, PeerClose, PeerFin, LinkReset
<1>9. CASE UNCHANGED vars
  BY <1>1, <1>9 DEF vars
<1> QED
  BY <1>1, <1>2, <1>3, <1>4, <1>5, <1>6, <1>7, <1>8, <1>9 DEF Next, Loop, Completion

LEMMA EndInvStep == TypeInv /\ EndInv /\ [Next]_vars => EndInv'
<1> SUFFICES ASSUME TypeInv, EndInv, [Next]_vars PROVE EndInv'
  OBVIOUS
<1> USE CallKinds
<1> USE DEF loop, chans, network, handles, history
<1>1. state # "Running" => Excused'
  BY ExcuseStays DEF EndInv
<1> DEFINE Quiet == state' = state /\ (pc' = "closing" => pc = "closing" /\ ws' = ws)
<1>2. Quiet => EndInv'
  BY <1>1 DEF EndInv
<1>3. ASSUME NEW c \in Calls, CallStep(c) PROVE Quiet
  BY <1>3 DEF CallStep, StartCall, Enqueue, EnqueueFail, Cancel, JoinReturn
<1>4. CASE DropTx \/ DropRx \/ Consumer
  BY <1>2, <1>4 DEF DropTx, DropRx, Consumer, RecvRaw, RecvEnd
<1>5. CASE ReadPing \/ ReadPong \/ RecvOutgoing \/ KeepaliveFire
  BY <1>2, <1>5 DEF ReadPing, ReadPong, RecvOutgoing, KeepaliveFire
<1>6. CASE ReadClose
  BY <1>1, <1>6 DEF ReadClose, AfterRecvClose, EndInv
<1>7. CASE ReadData \/ Reserve
  BY <1>1, <1>7 DEF ReadData, Reserve, Reading, Stop, HoldFrame, EndInv, Excused
<1>8. CASE ReadError \/ ReadNone
  BY <1>8 DEF ReadError, ReadNone, Reading, Stop, ResetWithoutClosingHandshake, EndInv,
              Excused
<1>9. CASE SendersGone
  BY <1>9 DEF SendersGone, Stop, EndInv, Excused
<1>10. CASE send_socket_message
  <2>1. cur \in Calls /\ pc' # "closing"
    BY <1>10 DEF send_socket_message, TypeInv, TypeOK, PcOK, Proceed, Resume, Stop
  <2>2. PICK ok \in SendOutcomes(ws, peer = "gone") :
          /\ call' = IF call[cur] = "queued" THEN [call EXCEPT ![cur] = Answer(ok)] ELSE call
          /\ Proceed(StateAfterSend(cur, ok))
    BY <1>10 DEF send_socket_message
  <2>3. CASE CallerGone(cur)
    BY <2>1, <2>2, <2>3 DEF CallerGone, EndInv, Excused
  <2>4. CASE ~CallerGone(cur) /\ ~ok
    <3>1. ws # "Active" \/ peer = "gone"
      BY <2>2, <2>4 DEF SendOutcomes
    <3> QED BY <2>1, <3>1, ExcuseStays DEF EndInv, Excused
  <2>5. CASE ~CallerGone(cur) /\ ok
    BY <1>1, <2>1, <2>2, <2>5 DEF StateAfterSend, Proceed, Resume, EndInv
  <2> QED BY <2>3, <2>4, <2>5
<1>11. CASE PongDone \/ send_keepalive
  <2>1. PICK ok \in SendOutcomes(ws, peer = "gone") :
          Proceed(IF ok THEN "Running" ELSE "WebsocketError")
    BY <1>11 DEF PongDone, send_keepalive
  <2>2. pc' # "closing"
    BY <2>1 DEF Proceed, Resume, Stop
  <2>3. CASE ok
    BY <1>1, <2>1, <2>2, <2>3 DEF Proceed, Resume, EndInv
  <2>4. CASE ~ok
    <3>1. ws # "Active" \/ peer = "gone"
      BY <2>1, <2>4 DEF SendOutcomes
    <3> QED BY <2>2, <3>1, ExcuseStays DEF EndInv, Excused
  <2> QED BY <2>3, <2>4
<1>12. CASE CloseDone
  BY <1>12 DEF CloseDone, Stop, EndInv, Excused
<1>13. CASE RecordTerminal \/ DropSender \/ DropReceiver
  BY <1>2, <1>13 DEF RecordTerminal, DropSender, DropReceiver
<1>14. CASE Environment
  BY <1>2, <1>14 DEF Environment, PeerData, PeerControl, PeerClose, PeerFin, LinkReset
<1>15. CASE UNCHANGED vars
  BY <1>2, <1>15 DEF vars
<1> QED
  BY <1>2, <1>3, <1>4, <1>5, <1>6, <1>7, <1>8, <1>9, <1>10, <1>11, <1>12, <1>13, <1>14, <1>15
     DEF Next, Loop, IncomingArm, OutgoingArm, Completion

\* The loop leaves Running only if the user dropped a half or a pending confirmed call, a
\* Close frame or a read error was met, or the peer is gone: no amount of backpressure,
\* no keepalive and no unconfirmed send does it.
THEOREM OnlyCausedDisconnects == Spec => []NoSpuriousDisconnect
<1>1. Init => EndInv
  BY DEF Init, EndInv
<1>2. EndInv => NoSpuriousDisconnect
  BY DEF EndInv, Excused, NoSpuriousDisconnect
<1>3. Spec => []TypeInv
  <2>1. TypeInv /\ WireInv => TypeInv
    OBVIOUS
  <2> QED BY <2>1, WireInvariant, PTL
<1> QED BY <1>1, <1>2, <1>3, EndInvStep, PTL DEF Spec

--------------------------------------------------------------------------------
(* What close_connection returns.                                          *)

\* close_connection owns the Receiver from its call on, so a consumer that took the cause
\* did so before the call, whose Close frame was then never written; and it returns
\* after the loop has ended, when nobody can take anything any more.
CloseInv ==
    /\ CloseTruthful
    /\ \A c \in Finals : call[c] # "idle" => rx # "open"
    /\ taker = "rx" => \A c \in Finals : call[c] # "ok"
    /\ taker = "final" => close_result # "none"
    /\ close_result # "none" => pc = "done"

LEMMA CloseInvStep == TypeInv /\ CauseInv /\ CloseInv /\ [Next]_vars => CloseInv'
<1> SUFFICES ASSUME TypeInv, CauseInv, CloseInv, [Next]_vars PROVE CloseInv'
  OBVIOUS
<1> USE CallKinds
<1> USE DEF loop, chans, network, handles, history
<1>0. /\ call \in [Calls -> CallValues] /\ \A c \in Finals : c \in Calls
      /\ taker \in {"nobody", "rx", "call", "final"} /\ state \in LoopStates
      /\ terminal_error \in Errors \cup {"None"}
  BY DEF TypeInv, TypeOK, Calls
<1> DEFINE Quiet ==
      /\ UNCHANGED <<taker, close_result>>
      /\ (state' = state /\ pc' = pc) \/ pc # "done"
      /\ rx' = "open" => rx = "open" /\ \A c \in Finals : call'[c] = call[c]
      /\ \A c \in Finals : call'[c] = "ok" => call[c] = "ok" \/ pc \notin Recorded
<1>1. Quiet => CloseInv'
  BY <1>0 DEF CloseInv, CloseTruthful, CauseInv, Recorded
<1>2. ASSUME NEW d \in Calls, StartCall(d) \/ Cancel(d) PROVE CloseInv'
  <2>1. CASE d \in Finals
    BY <1>0, <1>2, <2>1 DEF StartCall, Cancel, CloseInv, CloseTruthful
  <2>2. CASE d \notin Finals
    BY <1>0, <1>1, <1>2, <2>2 DEF StartCall, Cancel
  <2> QED BY <2>1, <2>2
<1>3. ASSUME NEW d \in Calls, Enqueue(d) PROVE CloseInv'
  <2>1. /\ call[d] = "enqueuing" /\ UNCHANGED <<pc, state, rx, taker, close_result>>
        /\ call' = [call EXCEPT ![d] = IF d \in Fires THEN "ok" ELSE "queued"]
    BY <1>3 DEF Enqueue
  <2>2. \A c \in Finals : c \notin Fires
    BY DEF CloseCalls
  <2>3. \A c \in Finals : call'[c] = call[c] \/ (call[c] # "idle" /\ call'[c] = "queued")
    BY <1>0, <2>1, <2>2
  <2> QED BY <2>1, <2>3 DEF CloseInv, CloseTruthful
<1>4. ASSUME NEW d \in Calls, EnqueueFail(d) PROVE CloseInv'
  <2>1. /\ call[d] = "enqueuing" /\ pc = "done" /\ UNCHANGED <<pc, state, rx, close_result>>
        /\ \E v \in {"closed", "cause"} : call' = [call EXCEPT ![d] = v]
        /\ taker' = taker \/ (taker' = "call" /\ terminal_error # "None")
    BY <1>4 DEF EnqueueFail, Take
  <2>2. \A c \in Finals : call'[c] = call[c] \/ (call[c] # "idle" /\ call'[c] # "ok")
    BY <1>0, <2>1
  <2>3. terminal_error # "None" => taker = "nobody"
    BY <2>1 DEF CauseInv, Recorded
  <2> QED BY <1>0, <2>1, <2>2, <2>3 DEF CloseInv, CloseTruthful
<1>5. ASSUME NEW d \in Calls, JoinReturn(d) PROVE CloseInv'
  <2>1. /\ d \in Finals /\ call[d] \in {"ok", "err", "closed"} /\ close_result = "none"
        /\ pc = "done" /\ UNCHANGED <<pc, state, call>> /\ rx' = "dropped"
        /\ close_result' = IF terminal_error = "None" THEN call[d] ELSE terminal_error
        /\ taker' = IF terminal_error = "None" THEN taker ELSE "final"
    BY <1>5 DEF JoinReturn, Joining, Take
  <2>2. terminal_error = IF taker = "nobody" /\ state # "Closed" THEN state ELSE "None"
    BY <2>1 DEF CauseInv, Recorded
  <2>3. CASE terminal_error = "None"
    <3>1. close_result' = call[d] /\ taker' = taker /\ taker # "final"
      BY <2>1, <2>3 DEF CloseInv
    <3>2. state = "Closed" \/ taker # "nobody"
      BY <2>1, <2>2, <2>3 DEF TypeInv, PcOK, Ended, TypeOK, LoopStates, Errors
    <3>3. CloseTruthful'
      BY <1>0, <2>1, <3>1, <3>2 DEF CloseInv, CloseTruthful, Errors
    <3> QED BY <2>1, <3>1, <3>3 DEF CloseInv
  <2>4. CASE terminal_error # "None"
    <3>1. close_result' = state /\ taker' = "final" /\ state \in Errors
      BY <1>0, <2>1, <2>2, <2>4
    <3>2. state # "ok" /\ state # "none"
      BY <3>1 DEF Errors
    <3> QED BY <2>1, <3>1, <3>2 DEF CloseInv, CloseTruthful
  <2> QED BY <2>3, <2>4
<1>6. CASE RecvEnd
  <2>1. /\ rx = "open" /\ pc \in Recorded /\ UNCHANGED <<pc, state, rx, call, close_result>>
        /\ taker' = taker \/ (taker' = "rx" /\ terminal_error # "None")
    BY <1>6 DEF RecvEnd, Take, Recorded
  <2>2. terminal_error # "None" => taker = "nobody"
    BY <2>1 DEF CauseInv
  <2>3. \A c \in Finals : call[c] = "idle"
    BY <2>1 DEF CloseInv
  <2>4. close_result = "ok" => state = "Closed" \/ taker' = "call"
    BY <2>1, <2>2 DEF CloseInv, CloseTruthful
  <2>5. close_result \in Errors => close_result = state /\ taker' = "final"
    BY <2>1, <2>2 DEF CloseInv, CloseTruthful
  <2> QED BY <2>1, <2>2, <2>3, <2>4, <2>5 DEF CloseInv, CloseTruthful
<1>7. CASE DropTx \/ DropRx \/ RecvRaw
  BY <1>1, <1>7 DEF DropTx, DropRx, RecvRaw
<1>8. CASE IncomingArm \/ OutgoingArm \/ Reserve \/ KeepaliveFire
  <2>1. Quiet
    BY <1>8 DEF IncomingArm, ReadData, ReadPing, ReadPong, ReadClose, ReadError, ReadNone,
                Reading, OutgoingArm, RecvOutgoing, SendersGone, Reserve, KeepaliveFire
  <2> QED BY <1>1, <2>1
<1>9. CASE send_socket_message
  <2>1. /\ pc = "sending" /\ UNCHANGED <<taker, close_result, rx>>
        /\ call' = call \/ \E v \in {"ok", "err"} :
                               call[cur] = "queued" /\ call' = [call EXCEPT ![cur] = v]
    BY <1>9 DEF send_socket_message, Answer
  <2>2. \A c \in Finals : call'[c] = call[c] \/ call[c] = "queued"
    BY <1>0, <2>1
  <2> QED BY <2>1, <2>2 DEF CloseInv, CloseTruthful, CauseInv, Recorded
<1>10. CASE PongDone \/ CloseDone \/ send_keepalive \/ RecordTerminal \/ DropSender
  BY <1>1, <1>10 DEF PongDone, CloseDone, send_keepalive, RecordTerminal, DropSender
<1>11. CASE DropReceiver
  <2>1. /\ pc = "rxClosed" /\ pc' = "done" /\ UNCHANGED <<taker, close_result>>
        /\ rx' \in {rx, "dropped"}
        /\ call' = [c \in Calls |-> IF call[c] = "queued" THEN "panic" ELSE call[c]]
    BY <1>11 DEF DropReceiver
  <2>2. \A c \in Finals : call'[c] = call[c] \/ (call[c] = "queued" /\ call'[c] = "panic")
    BY <1>0, <2>1
  <2> QED BY <2>1, <2>2 DEF CloseInv, CloseTruthful
<1>12. CASE Environment
  BY <1>1, <1>12 DEF Environment, PeerData, PeerControl, PeerClose, PeerFin, LinkReset
<1>13. CASE UNCHANGED vars
  BY <1>1, <1>13 DEF vars
<1> QED
  BY <1>2, <1>3, <1>4, <1>5, <1>6, <1>7, <1>8, <1>9, <1>10, <1>11, <1>12, <1>13
     DEF Next, CallStep, Consumer, Loop, Completion

\* close_connection says Ok only of a graceful end, unless a clone's send has taken the
\* cause, and an error of the loop it returns is the one the loop recorded, taken by
\* nobody else (the join, then take_terminal_error_opt).
THEOREM TruthfulClose == Spec => []CloseTruthful
<1>1. Init => CauseInv /\ CloseInv
  BY DEF Init, CauseInv, CloseInv, CloseTruthful, Recorded, Calls, Errors
<1>2. CloseInv => CloseTruthful
  BY DEF CloseInv
<1> QED BY <1>1, <1>2, InitTypeInv, TypeInvStep, CauseInvStep, CloseInvStep, PTL DEF Spec

--------------------------------------------------------------------------------
(* Which ends of a connection go unexplained.                              *)

\* What RealCauseReachesSomebody says of one step.
CauseTold ==
    state = "Running" /\ state' = "WebsocketClosed" =>
        \/ ws \in {"ClosedByPeer", "CloseAcknowledged", "Terminated"}
        \/ cur \in Fires \/ (cur \in Confirmed /\ call[cur] = "queued" /\ call'[cur] = "err")

\* The payload in flight is that of a caller that still waits, unless it is
\* unconfirmed or cancelled: an Ok answer would mean that it is on the wire already.
LEMMA InFlightWaits ==
  ASSUME TypeInv, WireInv, CallInv, state = "Running", cur \in Confirmed
  PROVE  call[cur] \in {"queued", "cancelled"}
<1>1. /\ cur \in Calls /\ cur # NoCall /\ call[cur] \in CallValues
      /\ wire \in Seq(Calls) /\ accepted \in Seq(Calls) /\ tx_chan \in Seq(Calls)
      /\ Len(wire) \in Nat /\ Len(accepted) \in Nat /\ Len(tx_chan) \in Nat
  BY CallKinds DEF TypeInv, TypeOK, Confirmed
<1>2. Len(wire) + 1 \in 1..Len(accepted) /\ accepted[Len(wire) + 1] = cur
  BY <1>1 DEF WireInv, InFlight
<1>3. call[cur] \notin {"idle", "enqueuing", "cause", "closed", "err", "panic"}
  BY <1>2 DEF CallInv
<1>4. call[cur] # "ok"
  <2>1. ASSUME NEW i \in 1..Len(wire), wire[i] = cur PROVE FALSE
    <3>1. i \in 1..Len(accepted) /\ accepted[i] = cur /\ i # Len(wire) + 1
      BY <1>1, <1>2, <2>1 DEF WireInv
    <3> QED BY <1>2, <3>1 DEF CallInv
  <2> QED BY <2>1 DEF CallInv, Written
<1> QED BY <1>1, <1>3, <1>4 DEF CallValues

LEMMA CauseToldStep == TypeInv /\ WireInv /\ CallInv /\ [Next]_vars => CauseTold \/ UNCHANGED vars
<1> SUFFICES ASSUME TypeInv, WireInv, CallInv, Next,
                    state = "Running", state' = "WebsocketClosed",
                    ws \notin {"ClosedByPeer", "CloseAcknowledged", "Terminated"},
                    cur \notin Fires
             PROVE  cur \in Confirmed /\ call[cur] = "queued" /\ call'[cur] = "err"
  BY DEF CauseTold
<1> USE DEF loop, chans, network, handles, history
<1>1. CASE send_socket_message
  <2>1. cur \in Calls /\ cur \in Confirmed /\ call \in [Calls -> CallValues]
    BY <1>1 DEF send_socket_message, TypeInv, TypeOK, PcOK, Confirmed
  <2>2. PICK ok \in BOOLEAN :
          /\ call' = IF call[cur] = "queued" THEN [call EXCEPT ![cur] = Answer(ok)] ELSE call
          /\ Proceed(StateAfterSend(cur, ok))
    BY <1>1 DEF send_socket_message, SendOutcomes
  <2>3. ~CallerGone(cur) /\ ~ok
    BY <2>2 DEF Proceed, StateAfterSend, Resume, Stop
  <2>4. call[cur] = "queued"
    BY <2>1, <2>3, InFlightWaits DEF CallerGone
  <2> QED BY <2>1, <2>2, <2>3, <2>4 DEF Answer
<1>2. CASE ReadNone
  BY <1>2 DEF ReadNone, Reading, ResetWithoutClosingHandshake, TypeInv, TypeOK, WsStates
<1>3. ASSUME NEW c \in Calls, CallStep(c) PROVE FALSE
  BY <1>3 DEF CallStep, StartCall, Enqueue, EnqueueFail, Cancel, JoinReturn
<1>4. CASE DropTx \/ DropRx \/ Consumer \/ Environment
  BY <1>4 DEF DropTx, DropRx, Consumer, RecvRaw, RecvEnd, Environment, PeerData, PeerControl,
              PeerClose, PeerFin, LinkReset
<1>5. CASE ReadData \/ ReadPing \/ ReadPong \/ ReadClose \/ ReadError
  BY <1>5 DEF ReadData, ReadPing, ReadPong, ReadClose, ReadError, Stop, HoldFrame
<1>6. CASE OutgoingArm \/ Reserve \/ KeepaliveFire
  BY <1>6 DEF OutgoingArm, RecvOutgoing, SendersGone, Stop, Reserve, KeepaliveFire
<1>7. CASE PongDone \/ CloseDone \/ send_keepalive \/ RecordTerminal \/ DropSender \/ DropReceiver
  BY <1>7 DEF PongDone, CloseDone, send_keepalive, RecordTerminal, DropSender, DropReceiver,
              Proceed, Resume, Stop
<1> QED
  BY <1>1, <1>2, <1>3, <1>4, <1>5, <1>6, <1>7 DEF Next, Loop, IncomingArm, Completion

\* A step that ends the loop with the generic WebsocketClosed leaves no caller in the
\* dark but one: a waiting confirmed caller has been answered with the error of its
\* write, and only an unconfirmed send's error is lost (socket_loop.rs:234-242).
THEOREM CauseReachesSomebody == Spec => RealCauseReachesSomebody
<1>1. Init => WireInv /\ CallInv
  BY DEF Init, WireInv, InFlight, CallInv, Written, Confirmed
<1>2. TypeInv /\ WireInv /\ CallInv /\ [Next]_vars => [CauseTold]_vars
  BY CauseToldStep
<1>3. Spec => [][CauseTold]_vars
  BY <1>1, <1>2, InitTypeInv, TypeInvStep, WireInvStep, CallInvStep, PTL DEF Spec
<1> QED BY <1>3 DEF RealCauseReachesSomebody, CauseTold

--------------------------------------------------------------------------------
(* Nobody waits for an answer that nobody is going to give.                *)

\* The payload of a caller that waits for its answer is in the channel of a loop that
\* has not dropped it, or being written.
InHand ==
    \A c \in Calls : call[c] = "queued" =>
        pc # "done" /\ (cur = c \/ \E i \in 1..Len(tx_chan) : tx_chan[i] = c)

\* The guards of the loop's steps that need neither the consumer nor the peer: a payload
\* to take, or an operation that completes.
LoopServes ==
    \/ pc \in {"select", "backpressure"} /\ tx_chan # <<>>
    \/ pc \notin {"select", "backpressure", "done"}

CallGoesOn(c) ==
    /\ call[c] = "enqueuing" => HasRoom(tx_chan) \/ pc = "done" \/ LoopServes
    /\ call[c] = "queued" => LoopServes

LEMMA InHandStep == TypeInv /\ InHand /\ [Next]_vars => InHand'
<1> SUFFICES ASSUME TypeInv, InHand, [Next]_vars, NEW c \in Calls, call'[c] = "queued"
             PROVE  pc' # "done" /\ (cur' = c \/ \E i \in 1..Len(tx_chan') : tx_chan'[i] = c)
  BY DEF InHand
<1> USE DEF loop, chans, network, handles, history
<1>0. call \in [Calls -> CallValues] /\ tx_chan \in Seq(Calls) /\ Len(tx_chan) \in Nat
  BY DEF TypeInv, TypeOK
<1>1. ASSUME call[c] = "queued", UNCHANGED <<cur, tx_chan>>, pc' # "done"
      PROVE  pc' # "done" /\ (cur' = c \/ \E i \in 1..Len(tx_chan') : tx_chan'[i] = c)
  BY <1>1 DEF InHand
<1>2. call[c] = "queued" => pc # "done"
  BY DEF InHand
<1>3. ASSUME NEW d \in Calls, StartCall(d) \/ EnqueueFail(d) \/ Cancel(d) \/ JoinReturn(d)
      PROVE  call[c] = "queued" /\ UNCHANGED <<pc, cur, tx_chan>>
  BY <1>0, <1>3 DEF StartCall, EnqueueFail, Cancel, JoinReturn
<1>4. ASSUME NEW d \in Calls, Enqueue(d)
      PROVE  pc' # "done" /\ (cur' = c \/ \E i \in 1..Len(tx_chan') : tx_chan'[i] = c)
  <2>1. pc' # "done" /\ cur' = cur /\ tx_chan' = Append(tx_chan, d)
    BY <1>4 DEF Enqueue
  <2>2. /\ Len(tx_chan') = Len(tx_chan) + 1 /\ tx_chan'[Len(tx_chan) + 1] = d
        /\ \A i \in 1..Len(tx_chan) : tx_chan'[i] = tx_chan[i]
    BY <1>0, <2>1
  <2>3. CASE d = c
    BY <1>0, <2>1, <2>2, <2>3
  <2>4. CASE d # c
    <3>1. call[c] = "queued"
      BY <1>0, <1>4, <2>4 DEF Enqueue
    <3>2. CASE cur = c
      BY <2>1, <3>2
    <3>3. CASE cur # c
      <4>1. PICK i \in 1..Len(tx_chan) : tx_chan[i] = c
        BY <3>1, <3>3 DEF InHand
      <4>2. i \in 1..Len(tx_chan') /\ tx_chan'[i] = c
        BY <1>0, <2>2, <4>1
      <4> QED BY <2>1, <4>2
    <3> QED BY <3>2, <3>3
  <2> QED BY <2>3, <2>4
<1>5. CASE RecvOutgoing
  <2>1. /\ pc \in {"select", "backpressure"} /\ tx_chan # <<>> /\ cur' = Head(tx_chan)
        /\ tx_chan' = Tail(tx_chan) /\ pc' = "sending" /\ call' = call
    BY <1>5 DEF RecvOutgoing
  <2>2. cur = NoCall /\ NoCall \notin Calls
    BY <2>1, CallKinds DEF TypeInv, PcOK
  <2>3. PICK i \in 1..Len(tx_chan) : tx_chan[i] = c
    BY <2>1, <2>2 DEF InHand
  <2>4. CASE i = 1
    BY <1>0, <2>1, <2>3, <2>4
  <2>5. CASE i # 1
    <3>1. i - 1 \in 1..Len(tx_chan') /\ tx_chan'[i - 1] = c
      BY <1>0, <2>1, <2>3, <2>5
    <3> QED BY <2>1, <3>1
  <2> QED BY <2>4, <2>5
<1>6. CASE send_socket_message
  <2>1. PICK ok \in SendOutcomes(ws, peer = "gone") :
          /\ call' = IF call[cur] = "queued" THEN [call EXCEPT ![cur] = Answer(ok)] ELSE call
          /\ Proceed(StateAfterSend(cur, ok))
    BY <1>6 DEF send_socket_message
  <2>2. pc' # "done" /\ UNCHANGED tx_chan /\ cur \in Calls
    BY <1>6, <2>1 DEF send_socket_message, Proceed, Resume, Stop, TypeInv, TypeOK, PcOK
  <2>3. call[c] = "queued" /\ cur # c
    BY <1>0, <2>1, <2>2 DEF Answer
  <2> QED BY <2>2, <2>3 DEF InHand
<1>7. CASE DropReceiver
  BY <1>0, <1>7 DEF DropReceiver
<1>8. CASE DropTx \/ DropRx \/ Consumer \/ Environment \/ UNCHANGED vars
  BY <1>1, <1>2, <1>8 DEF DropTx, DropRx, Consumer, RecvRaw, RecvEnd, Environment, PeerData,
              PeerControl, PeerClose, PeerFin, LinkReset, vars
<1>9. CASE IncomingArm
  BY <1>1, <1>2, <1>9 DEF IncomingArm, ReadData, ReadPing, ReadPong, ReadClose, ReadError, ReadNone,
              Stop, HoldFrame
<1>10. CASE SendersGone \/ Reserve \/ KeepaliveFire
  BY <1>1, <1>10 DEF SendersGone, Stop, Reserve, KeepaliveFire
<1>11. CASE PongDone \/ CloseDone \/ send_keepalive \/ RecordTerminal \/ DropSender
  BY <1>1, <1>11 DEF PongDone, CloseDone, send_keepalive, RecordTerminal, DropSender, Proceed, Resume, Stop
<1> QED
  BY <1>1, <1>2, <1>3, <1>4, <1>5, <1>6, <1>7, <1>8, <1>9, <1>10, <1>11
     DEF Next, CallStep, Loop, OutgoingArm, Completion

\* No caller is stranded, for any number of callers, any CHANNEL_SIZE and whatever is
\* cancelled: one that waits for a slot finds room, a closed channel or a loop with a
\* step to take, one that waits for its answer a loop that still has its payload and a
\* step to take, though the consumer has stopped reading and the peer is silent
\* (the two selects of socket_loop.rs:177-208 and 332-365).
THEOREM NobodyStranded == Spec => [](InHand /\ \A c \in Calls : CallGoesOn(c))
<1>1. Init => InHand
  BY DEF Init, InHand
<1>2. TypeInv /\ InHand => \A c \in Calls : CallGoesOn(c)
  <2> SUFFICES ASSUME TypeInv, InHand, NEW c \in Calls PROVE CallGoesOn(c)
    OBVIOUS
  <2>1. tx_chan \in Seq(Calls) /\ Len(tx_chan) \in Nat /\ (pc = "sending" <=> cur # NoCall) /\ c # NoCall
    BY CallKinds DEF TypeInv, TypeOK, PcOK
  <2>2. ~HasRoom(tx_chan) => tx_chan # <<>>
    BY <2>1, Sizes DEF HasRoom
  <2>3. call[c] = "queued" => pc # "done" /\ (pc = "sending" \/ tx_chan # <<>>)
    BY <2>1 DEF InHand
  <2> QED BY <2>2, <2>3 DEF CallGoesOn, LoopServes
<1> QED BY <1>1, <1>2, InHandStep, InitTypeInv, TypeInvStep, PTL DEF Spec

================================================================================
