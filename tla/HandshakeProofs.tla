---------------------------- MODULE HandshakeProofs ----------------------------
(***************************************************************************)
(* Proofs about Handshake and the codecs it uses, for any number of        *)
(* frames, any handler and any peer.                                       *)
(***************************************************************************)
EXTENDS Handshake, TLAPS

--------------------------------------------------------------------------------
(* The codecs.                                                             *)

\* A value survives the wire between two ends with the same typed codec.
LEMMA RoundTrip ==
  ASSUME NEW c \in CodecNames, c # "Raw", NEW n
  PROVE  decode(c, encode(c, Value(n))) = Value(n)
BY DEF CodecNames, decode, encode, Value, Item, EncodesAs, DecodesFrom, Format

\* A typed codec yields a value only from a body in its own format, and the value the
\* body says.
LEMMA DecodesOwnFormat ==
  ASSUME NEW c \in CodecNames, c # "Raw", NEW m, decode(c, m).type = "value"
  PROVE  m.format = Format(c) /\ decode(c, m) = Value(m.n)
BY DEF decode, Value, Error, Item

\* A Close frame is never what encoding a value gives.
LEMMA EncodedType ==
  ASSUME NEW c \in CodecNames, c # "Raw", NEW n
  PROVE  encode(c, Value(n)).type \in {"Text", "Binary"}
BY DEF encode, Value, Item, EncodesAs

\* What the codecs make are items.
LEMMA ItemTypes ==
  /\ \A e \in ErrorVariants : Error(e) \in Items
  /\ Value(0) \in Items /\ NoFrame \in Items
  /\ \A m \in Items, c \in CodecNames : decode(c, m) \in Items
  /\ \A op \in SendOps : codec \in CodecNames => Outgoing(op) \subseteq Items
<1> USE DEF Items, Item, Error, Value, Unserializable, NoFrame, ErrorVariants, FrameTypes
<1>1. (\A e \in ErrorVariants : Error(e) \in Items) /\ Value(0) \in Items /\ NoFrame \in Items
  OBVIOUS
<1>2. ASSUME NEW m \in Items, NEW c \in CodecNames PROVE decode(c, m) \in Items
  BY DEF decode
<1>3. ASSUME NEW op \in SendOps, codec \in CodecNames PROVE Outgoing(op) \subseteq Items
  BY <1>3 DEF Outgoing, encode, EncodesAs, Format, CodecNames
<1> QED BY <1>1, <1>2, <1>3

--------------------------------------------------------------------------------
(* The invariant.                                                          *)

\* What is in the stream agrees with what the peer has done: nothing that ends the
\* stream is there while the peer is open, and a reset does not follow a Close.
StreamInv ==
    /\ \A i \in DOMAIN inbound : inbound[i].type \in {"Close", "fin", "bad"} => peer # "open"
    /\ \A i \in DOMAIN inbound : inbound[i].type = "bad" =>
        seen # "closed" /\ \A j \in DOMAIN inbound : inbound[j].type # "Close"

\* The library's state agrees with what the handler has seen of the peer.
SeenInv ==
    \/ ws \in {"Active", "ClosedByUs"} /\ seen = "open"
    \/ ws \in {"ClosedByPeer", "CloseAcknowledged"} /\ seen = "closed"
    \/ ws = "Terminated" /\ seen \in {"open", "gone"}

IInv ==
    /\ TypeOK /\ NothingLostAtHandOff /\ StreamInv /\ SeenInv
    /\ ProtocolFramesHidden /\ CodecsAgree

LEMMA InitIInv == Init => IInv
<1> SUFFICES ASSUME Init PROVE IInv
  OBVIOUS
<1> USE HandshakeBounds DEF Init
<1>1. TypeOK
  BY DEF TypeOK, WsStates, Items, FrameTypes, NoFrame, Item
<1>2. NothingLostAtHandOff
  BY DEF NothingLostAtHandOff, Unread
<1>3. StreamInv /\ SeenInv
  BY DEF StreamInv, SeenInv
<1>4. ProtocolFramesHidden /\ CodecsAgree
  BY DEF ProtocolFramesHidden, CodecsAgree, NoFrame, Item
<1> QED BY <1>1, <1>2, <1>3, <1>4 DEF IInv

--------------------------------------------------------------------------------
(* The stream changes in two ways: something arrives, or the first is read. *)

Surfaces(f) == f.type \in {"Text", "Binary", "Close"}

\* The part of NothingLostAtHandOff that is about the stream.
Numbered ==
    /\ \A i, j \in Unread : i < j => inbound[i].n < inbound[j].n
    /\ {inbound[i].n : i \in Unread} = (consumed + 1)..sent

LEMMA ArrivalNumbered ==
  ASSUME TypeOK, Numbered, NEW f \in Items, f.type \in FrameTypes,
         inbound' = Append(inbound, f), consumed' = consumed,
         IF Surfaces(f) THEN f.n = sent + 1 /\ sent' = sent + 1 ELSE sent' = sent
  PROVE  Numbered' /\ inbound' \in Seq(Items)
         /\ \A i \in DOMAIN inbound' : inbound'[i] = f \/ \E j \in DOMAIN inbound : inbound'[i] = inbound[j]
<1>1. /\ inbound \in Seq(Items) /\ consumed \in Nat /\ sent \in Nat /\ consumed <= sent
      /\ f.n \in Nat /\ Len(inbound) \in Nat /\ DOMAIN inbound = 1..Len(inbound)
  BY HandshakeBounds DEF TypeOK, Items
<1>2. /\ inbound' \in Seq(Items) /\ DOMAIN inbound' = 1..(Len(inbound) + 1)
      /\ inbound'[Len(inbound) + 1] = f
      /\ \A i \in 1..Len(inbound) : inbound'[i] = inbound[i]
  BY <1>1
<1>3. /\ \A i \in 1..Len(inbound) : i \in Unread' <=> i \in Unread
      /\ Len(inbound) + 1 \in Unread' <=> Surfaces(f)
      /\ Unread' \subseteq 1..(Len(inbound) + 1) /\ Unread \subseteq 1..Len(inbound)
  BY <1>1, <1>2 DEF Unread, Surfaces
<1>4. \A i \in Unread : inbound[i].n \in (consumed + 1)..sent
  BY DEF Numbered
<1>5. ASSUME NEW i \in Unread', NEW j \in Unread', i < j PROVE inbound'[i].n < inbound'[j].n
  <2>1. i \in 1..Len(inbound) /\ i \in Unread /\ inbound'[i] = inbound[i]
    BY <1>1, <1>2, <1>3, <1>5
  <2>2. CASE j \in 1..Len(inbound)
    BY <1>2, <1>3, <1>5, <2>1, <2>2 DEF Numbered
  <2>3. CASE j = Len(inbound) + 1
    BY <1>1, <1>2, <1>3, <1>4, <2>1, <2>3
  <2> QED BY <1>1, <1>3, <2>2, <2>3
<1>6. {inbound'[i].n : i \in Unread'} = (consumed' + 1)..sent'
  <2>1. ASSUME NEW i \in Unread' PROVE inbound'[i].n \in (consumed' + 1)..sent'
    <3>1. CASE i \in 1..Len(inbound)
      BY <1>1, <1>2, <1>3, <1>4, <3>1
    <3>2. CASE i = Len(inbound) + 1
      BY <1>1, <1>2, <1>3, <3>2
    <3> QED BY <1>1, <1>3, <3>1, <3>2
  <2>2. ASSUME NEW m \in (consumed' + 1)..sent' PROVE \E i \in Unread' : inbound'[i].n = m
    <3>1. CASE m \in (consumed + 1)..sent
      <4>1. PICK i \in Unread : inbound[i].n = m
        BY <3>1 DEF Numbered
      <4> QED BY <1>2, <1>3, <4>1
    <3>2. CASE m \notin (consumed + 1)..sent
      <4>1. Surfaces(f) /\ m = f.n
        BY <1>1, <3>2
      <4> QED BY <1>2, <1>3, <4>1
    <3> QED BY <3>1, <3>2
  <2> QED BY <2>1, <2>2
<1>7. Numbered'
  BY <1>5, <1>6 DEF Numbered
<1>8. \A i \in DOMAIN inbound' : inbound'[i] = f \/ \E j \in DOMAIN inbound : inbound'[i] = inbound[j]
  <2> TAKE i \in DOMAIN inbound'
  <2>1. i \in 1..Len(inbound) \/ i = Len(inbound) + 1
    BY <1>1, <1>2
  <2> QED BY <1>1, <1>2, <2>1
<1> QED BY <1>2, <1>7, <1>8

LEMMA ReadNumbered ==
  ASSUME TypeOK, Numbered, inbound # <<>>, inbound' = Tail(inbound), sent' = sent,
         consumed' = IF Surfaces(Head(inbound)) THEN consumed + 1 ELSE consumed
  PROVE  /\ Numbered' /\ inbound' \in Seq(Items)
         /\ \A i \in DOMAIN inbound' : \E j \in DOMAIN inbound : inbound'[i] = inbound[j]
         /\ Head(inbound) \in Items /\ 1 \in DOMAIN inbound /\ Head(inbound) = inbound[1]
         /\ Surfaces(Head(inbound)) => Head(inbound).n = consumed + 1 /\ consumed + 1 <= sent
<1>1. /\ inbound \in Seq(Items) /\ consumed \in Nat /\ sent \in Nat /\ consumed <= sent
      /\ Len(inbound) \in Nat /\ Len(inbound) >= 1 /\ DOMAIN inbound = 1..Len(inbound)
  BY HandshakeBounds DEF TypeOK
<1>2. /\ inbound' \in Seq(Items) /\ Len(inbound') = Len(inbound) - 1
      /\ DOMAIN inbound' = 1..(Len(inbound) - 1)
      /\ Head(inbound) \in Items /\ Head(inbound) = inbound[1]
      /\ \A i \in DOMAIN inbound' : i + 1 \in DOMAIN inbound /\ inbound'[i] = inbound[i + 1]
  BY <1>1
<1>3. /\ \A i \in Unread' : i \in Nat /\ i + 1 \in Unread /\ inbound'[i] = inbound[i + 1]
      /\ \A i \in Unread : i = 1 \/ (i - 1 \in Unread' /\ inbound'[i - 1] = inbound[i])
      /\ Unread \subseteq 1..Len(inbound)
      /\ 1 \in Unread <=> Surfaces(Head(inbound))
  <2>1. \A i \in Unread' : i \in Nat /\ i + 1 \in Unread /\ inbound'[i] = inbound[i + 1]
    BY <1>1, <1>2 DEF Unread
  <2>2. ASSUME NEW i \in Unread, i # 1 PROVE i - 1 \in Unread' /\ inbound'[i - 1] = inbound[i]
    <3>1. i - 1 \in DOMAIN inbound' /\ (i - 1) + 1 = i
      BY <1>1, <1>2, <2>2 DEF Unread
    <3> QED BY <1>2, <3>1 DEF Unread
  <2> QED BY <1>1, <1>2, <2>1, <2>2 DEF Unread, Surfaces
<1>4. \A i \in Unread : inbound[i].n \in (consumed + 1)..sent
  BY DEF Numbered
<1>5. ASSUME Surfaces(Head(inbound)) PROVE inbound[1].n = consumed + 1 /\ consumed + 1 <= sent
  <2>1. 1 \in Unread /\ inbound[1].n \in (consumed + 1)..sent
    BY <1>3, <1>4, <1>5
  <2>2. consumed + 1 \in (consumed + 1)..sent
    BY <1>1, <2>1
  <2>3. PICK i \in Unread : inbound[i].n = consumed + 1
    BY <2>2 DEF Numbered
  <2>4. i = 1 \/ inbound[1].n < inbound[i].n
    BY <1>1, <1>3, <2>1 DEF Numbered
  <2> QED BY <1>1, <2>1, <2>3, <2>4
<1>6. ASSUME NEW i \in Unread', NEW j \in Unread', i < j PROVE inbound'[i].n < inbound'[j].n
  <2>1. i + 1 < j + 1
    BY <1>3, <1>6
  <2> QED BY <1>3, <2>1 DEF Numbered
<1>7. {inbound'[i].n : i \in Unread'} = (consumed' + 1)..sent'
  <2>1. ASSUME NEW i \in Unread' PROVE inbound'[i].n \in (consumed' + 1)..sent'
    <3>1. inbound'[i].n \in (consumed + 1)..sent /\ i + 1 \in Unread
      BY <1>3, <1>4
    <3>2. CASE Surfaces(Head(inbound))
      <4>1. inbound[1].n < inbound[i + 1].n
        <5>1. 1 \in Unread /\ 1 < i + 1
          BY <1>1, <1>2, <1>3, <3>2 DEF Unread
        <5> QED BY <3>1, <5>1 DEF Numbered
      <4> QED BY <1>1, <1>3, <1>5, <3>1, <3>2, <4>1
    <3>3. CASE ~Surfaces(Head(inbound))
      BY <3>1, <3>3
    <3> QED BY <3>2, <3>3
  <2>2. ASSUME NEW m \in (consumed' + 1)..sent' PROVE \E i \in Unread' : inbound'[i].n = m
    <3>1. m \in (consumed + 1)..sent /\ (Surfaces(Head(inbound)) => m # consumed + 1)
      BY <1>1
    <3>2. PICK i \in Unread : inbound[i].n = m
      BY <3>1 DEF Numbered
    <3>3. i # 1
      BY <1>3, <1>5, <3>1, <3>2
    <3> QED BY <1>3, <3>2, <3>3
  <2> QED BY <2>1, <2>2
<1>8. Numbered'
  BY <1>6, <1>7 DEF Numbered
<1> QED BY <1>1, <1>2, <1>5, <1>8

--------------------------------------------------------------------------------
(* Every step preserves the invariant.                                     *)

\* The invariant does not depend on pc beyond its type.
LEMMA PcStep ==
  ASSUME IInv, pc' \in RecvOps \cup {"idle", "handed", "failed"},
         UNCHANGED <<codec, ws, inbound, peer, seen, last, consumed, sent, controls>>
  PROVE  IInv'
BY DEF IInv, TypeOK, NothingLostAtHandOff, Unread, StreamInv, SeenInv, ProtocolFramesHidden,
       CodecsAgree

LEMMA SendStep == ASSUME IInv, NEW op \in SendOps, SendFrame(op) PROVE IInv'
<1>1. /\ codec \in CodecNames /\ ws \in WsStates /\ TypeOK
      /\ UNCHANGED <<codec, inbound, peer, seen, sent, controls>>
  BY HandshakeBounds DEF IInv, TypeOK, SendFrame
<1>2. PICK out \in Items : Return(op, NoFrame, out) /\ out.type \in ErrorVariants \cup {"value"}
  <2>1. PICK m \in Outgoing(op) :
          \/ m.type \in ErrorVariants /\ Return(op, NoFrame, m)
          \/ \E ok \in SendOutcomes(ws, peer = "gone") :
                Return(op, NoFrame, IF ok THEN Value(0) ELSE Error("WebsocketError"))
    BY DEF SendFrame
  <2>2. Outgoing(op) \subseteq Items
    BY <1>1, ItemTypes
  <2>3. /\ Value(0) \in Items /\ Error("WebsocketError") \in Items
        /\ Value(0).type = "value" /\ Error("WebsocketError").type \in ErrorVariants
    BY ItemTypes DEF ErrorVariants, Value, Error, Item
  <2> QED BY <2>1, <2>2, <2>3
<1>3. ws' \in {ws, AfterSendClose(ws)}
  BY DEF SendFrame, AfterWrite
<1>4. /\ consumed' = consumed /\ pc' = "idle"
      /\ last' = [op |-> op, frame |-> NoFrame, out |-> out]
  BY <1>2 DEF Return
<1>5. op # "recv" /\ NoFrame \in Items
  BY ItemTypes DEF SendOps
<1>6. TypeOK'
  BY <1>1, <1>3, <1>4, <1>5 DEF TypeOK, WsStates, AfterSendClose
<1>7. NothingLostAtHandOff'
  BY <1>1, <1>4 DEF IInv, NothingLostAtHandOff, Unread
<1>8. StreamInv' /\ SeenInv'
  BY <1>1, <1>3 DEF IInv, StreamInv, SeenInv, AfterSendClose
<1>9. ProtocolFramesHidden' /\ CodecsAgree'
  BY <1>2, <1>4, <1>5 DEF ProtocolFramesHidden, CodecsAgree, ErrorVariants
<1> QED BY <1>6, <1>7, <1>8, <1>9 DEF IInv

LEMMA RecvFrameStep == ASSUME IInv, RecvFrame PROVE IInv'
<1> DEFINE m == Head(inbound)
           out == Surface(pc, m)
<1>1. /\ codec \in CodecNames /\ pc \in RecvOps /\ TypeOK /\ Numbered
      /\ inbound # <<>> /\ inbound' = Tail(inbound) /\ Return(pc, m, out)
      /\ UNCHANGED <<codec, peer, sent, controls>> /\ ws # "Terminated"
      /\ m.type \notin {"Ping", "Pong", "bad", "fin"}
  BY HandshakeBounds DEF IInv, TypeOK, RecvFrame, Reading, Skipped, NothingLostAtHandOff, Numbered
<1>2. m = inbound[1] /\ 1 \in DOMAIN inbound /\ m \in Items
  BY <1>1 DEF TypeOK
<1>3. Surfaces(m) /\ m # NoFrame
  BY <1>1, <1>2 DEF TypeOK, FrameTypes, Surfaces, NoFrame, Item
<1>4. /\ consumed' = consumed + 1 /\ pc' = "idle"
      /\ last' = [op |-> pc, frame |-> m, out |-> out]
  BY <1>1, <1>3 DEF Return
<1>5. /\ Numbered' /\ inbound' \in Seq(Items)
      /\ \A i \in DOMAIN inbound' : \E j \in DOMAIN inbound : inbound'[i] = inbound[j]
      /\ m.n = consumed + 1 /\ consumed + 1 <= sent
  BY <1>1, <1>3, <1>4, ReadNumbered
<1>6. \/ m.type = "Close" /\ ws' = AfterRecvClose(ws) /\ seen' = "closed"
      \/ m.type # "Close" /\ ws' = ws /\ seen' = seen
  BY DEF RecvFrame
<1>7. out \in Items /\ out.type \notin {"Ping", "Pong"}
  <2>1. CASE pc = "recv_raw"
    BY <1>1, <1>2, <2>1 DEF Surface
  <2>2. CASE pc = "recv_text"
    BY <1>2, <2>2, ItemTypes DEF Surface, Error, Item, ErrorVariants
  <2>3. CASE pc = "recv"
    <3>1. decode(codec, m) \in Items /\ Error("WebsocketClosed") \in Items
      BY <1>1, <1>2, ItemTypes DEF ErrorVariants
    <3>2. decode(codec, m).type \notin {"Ping", "Pong"}
      BY <1>1 DEF decode, Error, Value, Item
    <3> QED BY <2>3, <3>1, <3>2 DEF Surface, Error, Item
  <2> QED BY <1>1, <2>1, <2>2, <2>3 DEF RecvOps
<1>8. TypeOK'
  <2>1. consumed' \in 0..sent' /\ sent' \in 0..MaxFrames
    BY <1>1, <1>4, <1>5 DEF TypeOK
  <2>2. seen' # "open" => peer' # "open"
    BY <1>1, <1>2, <1>6 DEF TypeOK, IInv, StreamInv
  <2>3. ws' \in WsStates /\ {peer', seen'} \subseteq {"open", "closed", "gone"}
    BY <1>1, <1>6 DEF TypeOK, WsStates, AfterRecvClose
  <2>4. \A i \in DOMAIN inbound' : inbound'[i].type \in FrameTypes
    BY <1>1, <1>5 DEF TypeOK
  <2>5. last' \in [op : SendOps \cup RecvOps \cup {"none"}, frame : Items, out : Items]
    BY <1>1, <1>2, <1>4, <1>7
  <2> QED BY <1>1, <1>4, <1>5, <2>1, <2>2, <2>3, <2>4, <2>5 DEF TypeOK
<1>9. NothingLostAtHandOff'
  BY <1>4, <1>5 DEF NothingLostAtHandOff, Numbered
<1>10. StreamInv'
  <2>1. StreamInv /\ (seen' = "closed" => seen = "closed" \/ m.type = "Close")
    BY <1>6 DEF IInv
  <2> QED BY <1>1, <1>2, <1>5, <2>1 DEF StreamInv
<1>11. SeenInv'
  BY <1>1, <1>6 DEF IInv, SeenInv, AfterRecvClose
<1>12. ProtocolFramesHidden'
  <2>1. ASSUME pc = "recv"
        PROVE  out.type # "Close" /\ (m.type = "Close" => out = Error("WebsocketClosed"))
    BY <2>1, <1>1 DEF Surface, Error, decode, Value, Item
  <2> QED BY <1>4, <1>7, <2>1 DEF ProtocolFramesHidden
<1>13. CodecsAgree'
  <2> SUFFICES ASSUME pc = "recv", codec # "Raw"
               PROVE  /\ m = encode(codec, Value(m.n)) => out = Value(m.n)
                      /\ out.type = "value" => m.format = Format(codec) /\ out.n = m.n
    BY <1>1, <1>4 DEF CodecsAgree
  <2>1. CASE m.type = "Close"
    BY <1>1, <2>1, EncodedType DEF Surface, Error, Item
  <2>2. CASE m.type # "Close"
    <3>1. out = decode(codec, m)
      BY <2>2 DEF Surface
    <3>2. m = encode(codec, Value(m.n)) => out = Value(m.n)
      BY <1>1, <3>1, RoundTrip
    <3>3. out.type = "value" => m.format = Format(codec) /\ out = Value(m.n)
      BY <1>1, <3>1, DecodesOwnFormat
    <3> QED BY <3>2, <3>3 DEF Value, Item
  <2> QED BY <2>1, <2>2
<1> QED BY <1>8, <1>9, <1>10, <1>11, <1>12, <1>13 DEF IInv

\* A read that surfaces nothing: a ping or pong is passed over, or the stream ends.
LEMMA OtherReadStep == ASSUME IInv, RecvSkips \/ RecvError \/ RecvNone PROVE IInv'
<1>1. TypeOK /\ Numbered /\ StreamInv /\ SeenInv /\ ProtocolFramesHidden /\ CodecsAgree
      /\ pc \in RecvOps /\ (last.frame # NoFrame => last.frame.n = consumed)
  BY DEF IInv, NothingLostAtHandOff, Numbered, RecvSkips, RecvError, RecvNone, Reading
<1>2. NoFrame \in Items /\ \A e \in {"WebsocketError", "WebsocketClosed"} : Error(e) \in Items
  BY ItemTypes DEF ErrorVariants
<1>3. CASE RecvSkips
  <2>1. /\ inbound # <<>> /\ inbound' = Tail(inbound) /\ ~Surfaces(Head(inbound))
        /\ UNCHANGED <<codec, pc, ws, peer, seen, last, consumed, sent, controls>>
    BY <1>3 DEF RecvSkips, Reading, Skipped, Surfaces
  <2>2. /\ Numbered' /\ inbound' \in Seq(Items)
        /\ \A i \in DOMAIN inbound' : \E j \in DOMAIN inbound : inbound'[i] = inbound[j]
    BY <1>1, <2>1, ReadNumbered
  <2>3. TypeOK'
    BY <1>1, <2>1, <2>2 DEF TypeOK
  <2>4. NothingLostAtHandOff'
    BY <1>1, <2>1, <2>2 DEF NothingLostAtHandOff, Numbered
  <2>5. StreamInv' /\ SeenInv'
    BY <1>1, <2>1, <2>2 DEF StreamInv, SeenInv
  <2>6. ProtocolFramesHidden' /\ CodecsAgree'
    BY <1>1, <2>1 DEF ProtocolFramesHidden, CodecsAgree
  <2> QED BY <2>3, <2>4, <2>5, <2>6 DEF IInv
<1>4. CASE RecvError
  <2>1. /\ inbound # <<>> /\ inbound' = Tail(inbound) /\ Head(inbound).type \in {"bad", "fin"}
        /\ ws # "Terminated" /\ ws' = "Terminated"
        /\ seen' = IF Head(inbound).type = "fin" THEN "gone" ELSE seen
        /\ UNCHANGED <<codec, peer, sent, controls>>
    BY <1>4 DEF RecvError, Reading
  <2>2. PICK e \in {"WebsocketError", "WebsocketClosed"} : Return(pc, NoFrame, Error(e))
    BY <1>4 DEF RecvError
  <2>3. consumed' = consumed /\ pc' = "idle"
        /\ last' = [op |-> pc, frame |-> NoFrame, out |-> Error(e)]
    BY <2>2 DEF Return
  <2>4. ~Surfaces(Head(inbound))
    BY <2>1 DEF Surfaces
  <2>5. /\ Numbered' /\ inbound' \in Seq(Items)
        /\ \A i \in DOMAIN inbound' : \E j \in DOMAIN inbound : inbound'[i] = inbound[j]
        /\ 1 \in DOMAIN inbound /\ Head(inbound) = inbound[1]
    BY <1>1, <2>1, <2>3, <2>4, ReadNumbered
  <2>6. peer # "open" /\ (seen = "closed" => Head(inbound).type = "fin")
    BY <1>1, <2>1, <2>5 DEF StreamInv
  <2>7. TypeOK'
    BY <1>1, <1>2, <2>1, <2>3, <2>5, <2>6 DEF TypeOK, WsStates
  <2>8. NothingLostAtHandOff'
    BY <2>3, <2>5 DEF NothingLostAtHandOff, Numbered
  <2>9. StreamInv' /\ SeenInv'
    BY <1>1, <2>1, <2>5, <2>6 DEF StreamInv, SeenInv
  <2>10. ProtocolFramesHidden' /\ CodecsAgree'
    BY <2>3 DEF ProtocolFramesHidden, CodecsAgree, Error, NoFrame, Item
  <2> QED BY <2>7, <2>8, <2>9, <2>10 DEF IInv
<1>5. CASE RecvNone
  <2>1. consumed' = consumed /\ pc' = "idle"
        /\ last' = [op |-> pc, frame |-> NoFrame, out |-> Error("WebsocketClosed")]
        /\ UNCHANGED <<codec, ws, inbound, peer, seen, sent, controls>>
    BY <1>5 DEF RecvNone, Return
  <2>2. TypeOK'
    BY <1>1, <1>2, <2>1 DEF TypeOK
  <2>3. NothingLostAtHandOff' /\ StreamInv' /\ SeenInv'
    BY <1>1, <2>1 DEF NothingLostAtHandOff, Numbered, Unread, StreamInv, SeenInv
  <2>4. ProtocolFramesHidden' /\ CodecsAgree'
    BY <2>1 DEF ProtocolFramesHidden, CodecsAgree, Error, NoFrame, Item
  <2> QED BY <2>2, <2>3, <2>4 DEF IInv
<1> QED BY <1>3, <1>4, <1>5

LEMMA PeerStep == ASSUME IInv, PeerFrame \/ PeerControl \/ PeerEnds PROVE IInv'
<1>1. /\ TypeOK /\ Numbered /\ StreamInv /\ SeenInv /\ peer # "gone"
      /\ UNCHANGED <<codec, pc, ws, seen, last, consumed>>
      /\ sent \in Nat /\ controls \in Nat
  BY HandshakeBounds DEF IInv, NothingLostAtHandOff, Numbered, PeerFrame, PeerControl, PeerEnds, TypeOK
<1>2. PICK f \in Items :
        /\ inbound' = Append(inbound, f) /\ f.type \in FrameTypes
        /\ IF Surfaces(f) THEN f.n = sent + 1 /\ sent' = sent + 1 ELSE sent' = sent
        /\ f.type \in {"Close", "fin", "bad"} => peer' # "open"
        /\ f.type \in {"Close", "bad"} => peer = "open"
        /\ peer' \in {"open", "closed", "gone"} /\ (peer # "open" => peer' # "open")
        /\ sent' \in 0..MaxFrames /\ controls' \in 0..MaxControl
  <2>1. CASE PeerFrame
    <3>1. PICK b \in Bodies \cup {Item("Close", "none", 0)} :
            /\ inbound' = Append(inbound, [b EXCEPT !.n = sent + 1])
            /\ peer' = IF b.type = "Close" THEN "closed" ELSE peer
      BY <2>1 DEF PeerFrame
    <3>2. /\ b \in Items /\ b.type \in {"Text", "Binary", "Close"}
          /\ peer = "open" /\ sent' = sent + 1 /\ sent' \in 0..MaxFrames
          /\ controls' \in 0..MaxControl
      BY <1>1, <2>1, HandshakeBounds
         DEF PeerFrame, TypeOK, Bodies, Items, Item, Value, encode, EncodesAs, Format, FrameTypes
    <3> DEFINE f == [b EXCEPT !.n = sent + 1]
    <3>3. f \in Items /\ f.type = b.type /\ f.n = sent + 1
      BY <1>1, <3>2 DEF Items
    <3>4. f.type \in FrameTypes /\ Surfaces(f)
      BY <3>2, <3>3 DEF FrameTypes, Surfaces
    <3> HIDE DEF f
    <3> QED BY <3>1, <3>2, <3>3, <3>4 DEF f
  <2>2. CASE PeerControl
    <3>1. PICK t \in {"Ping", "Pong"} : inbound' = Append(inbound, Item(t, "none", 0))
      BY <2>2 DEF PeerControl
    <3>2. Item(t, "none", 0) \in Items /\ Item(t, "none", 0).type = t
      BY DEF Item, Items, FrameTypes
    <3>3. sent' = sent /\ peer' = peer /\ sent' \in 0..MaxFrames /\ controls' \in 0..MaxControl
          /\ peer = "open"
      BY <1>1, <2>2, HandshakeBounds DEF PeerControl, TypeOK
    <3> QED BY <3>1, <3>2, <3>3 DEF Surfaces, FrameTypes
  <2>3. CASE PeerEnds
    <3>1. PICK t \in {"fin", "bad"} :
            inbound' = Append(inbound, Item(t, "none", 0)) /\ (t = "bad" => peer = "open")
      BY <2>3 DEF PeerEnds
    <3>2. Item(t, "none", 0) \in Items /\ Item(t, "none", 0).type = t
      BY DEF Item, Items, FrameTypes
    <3>3. sent' = sent /\ peer' = "gone" /\ sent' \in 0..MaxFrames /\ controls' \in 0..MaxControl
      BY <1>1, <2>3 DEF PeerEnds, TypeOK
    <3> QED BY <3>1, <3>2, <3>3 DEF Surfaces, FrameTypes
  <2> QED BY <2>1, <2>2, <2>3
<1>3. /\ Numbered' /\ inbound' \in Seq(Items)
      /\ \A i \in DOMAIN inbound' : inbound'[i] = f \/ \E j \in DOMAIN inbound : inbound'[i] = inbound[j]
  BY <1>1, <1>2, ArrivalNumbered
<1>4. TypeOK'
  <2>1. \A i \in DOMAIN inbound' : inbound'[i].type \in FrameTypes
    BY <1>1, <1>2, <1>3 DEF TypeOK
  <2>2. consumed' \in 0..sent'
    BY <1>1, <1>2 DEF TypeOK
  <2> QED BY <1>1, <1>2, <1>3, <2>1, <2>2 DEF TypeOK
<1>5. NothingLostAtHandOff'
  BY <1>1, <1>3 DEF IInv, NothingLostAtHandOff, Numbered
<1>6. StreamInv'
  BY <1>1, <1>2, <1>3 DEF StreamInv, TypeOK
<1>7. SeenInv' /\ ProtocolFramesHidden' /\ CodecsAgree'
  BY <1>1 DEF IInv, SeenInv, ProtocolFramesHidden, CodecsAgree
<1> QED BY <1>4, <1>5, <1>6, <1>7 DEF IInv

LEMMA IInvStep == IInv /\ [Next]_vars => IInv'
<1> SUFFICES ASSUME IInv, [Next]_vars PROVE IInv'
  OBVIOUS
<1>1. ASSUME NEW op \in SendOps, SendFrame(op) PROVE IInv'
  BY <1>1, SendStep
<1>2. ASSUME NEW op \in RecvOps, StartRecv(op) PROVE IInv'
  BY <1>2, PcStep DEF StartRecv
<1>3. CASE Receive
  BY <1>3, RecvFrameStep, OtherReadStep DEF Receive
<1>4. CASE CancelRecv \/ HandOff \/ Fail
  BY <1>4, PcStep DEF CancelRecv, HandOff, Fail
<1>5. CASE PeerFrame \/ PeerControl \/ PeerEnds
  BY <1>5, PeerStep
<1>6. CASE UNCHANGED vars
  BY <1>6, PcStep DEF vars, IInv, TypeOK
<1> QED BY <1>1, <1>2, <1>3, <1>4, <1>5, <1>6 DEF Next

LEMMA Invariance == Spec => []IInv
BY InitIInv, IInvStep, PTL DEF Spec

--------------------------------------------------------------------------------
\* Types, and a handler never reads more of the peer than the peer has done, whatever
\* calls on_connected makes (HandshakeContext).
THEOREM TypeCorrect == Spec => []TypeOK
<1>1. IInv => TypeOK
  BY DEF IInv
<1> QED BY <1>1, Invariance, PTL

\* Handler and loop share one stream without losing, repeating or reordering a frame,
\* for any number of frames and any calls, cancelled ones included (recv_raw, and the
\* hand-over of the stream in connect_with_codec).
THEOREM NoFrameLost == Spec => []NothingLostAtHandOff
<1>1. IInv => NothingLostAtHandOff
  BY DEF IInv
<1> QED BY <1>1, Invariance, PTL

\* No call of the HandshakeContext returns a ping or pong, and recv never a Close
\* (the loop in recv_raw, the match in recv).
THEOREM ProtocolHidden == Spec => []ProtocolFramesHidden
<1>1. IInv => ProtocolFramesHidden
  BY DEF IInv
<1> QED BY <1>1, Invariance, PTL

\* recv inverts the peer's encode with the same codec, and never makes a value out of a
\* body in another format (JsonCodec and MsgPackCodec).
THEOREM CodecsUnderstand == Spec => []CodecsAgree
<1>1. IInv => CodecsAgree
  BY DEF IInv
<1> QED BY <1>1, Invariance, PTL

\* What any handler leaves behind is an initial state of SocketLoop, so what is proved
\* of the loop holds after every handshake (on_connected, then socket_loop).
THEOREM HandsOver == Spec => []HandsOverInitialState
<1>1. IInv => HandsOverInitialState
  <2> SUFFICES ASSUME IInv PROVE Loop!Init
    BY DEF HandsOverInitialState
  <2>1. SeenInv
    BY DEF IInv
  <2>2. <<>> = [c \in Loop!Calls |-> "idle"]
    BY DEF Loop!Calls
  <2> QED BY <2>1, <2>2 DEF SeenInv, Loop!Init
<1> QED BY <1>1, Invariance, PTL

================================================================================
