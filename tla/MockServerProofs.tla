--------------------------- MODULE MockServerProofs ----------------------------
(***************************************************************************)
(* Proofs about MockServer, for any number of clients and of frames.       *)
(***************************************************************************)
EXTENDS MockServer, TLAPS

--------------------------------------------------------------------------------
(* A sequence whose Messages are numbered without a gap.                   *)

LEMMA AppendContinues ==
  ASSUME NEW q \in Seq(Frame), NEW lo \in Nat, NEW hi \in Nat, lo <= hi, Continues(q, lo, hi),
         NEW f \in Frame, f.kind = "Message" => f.n = hi + 1
  PROVE  Continues(Append(q, f), lo, IF f.kind = "Message" THEN hi + 1 ELSE hi)
<1> DEFINE r == Append(q, f)
           top == IF f.kind = "Message" THEN hi + 1 ELSE hi
           old == {i \in DOMAIN q : q[i].kind = "Message"}
           new == {i \in DOMAIN r : r[i].kind = "Message"}
<1>1. /\ r \in Seq(Frame) /\ DOMAIN r = 1..(Len(q) + 1) /\ DOMAIN q = 1..Len(q) /\ Len(q) \in Nat
      /\ r[Len(q) + 1] = f /\ \A i \in 1..Len(q) : r[i] = q[i]
  OBVIOUS
<1>2. /\ \A i \in old : i \in 1..Len(q) /\ i \in new /\ r[i] = q[i] /\ q[i].n \in (lo + 1)..hi
      /\ \A i, j \in old : i < j => q[i].n < q[j].n
      /\ \A m \in (lo + 1)..hi : \E i \in old : q[i].n = m
  <2>1. (\A i, j \in old : i < j => q[i].n < q[j].n) /\ {q[i].n : i \in old} = (lo + 1)..hi
    BY DEF Continues
  <2>2. \A i \in old : i \in 1..Len(q) /\ i \in new /\ r[i] = q[i]
    BY <1>1
  <2> HIDE DEF old, new, r
  <2>3. \A i \in old : q[i].n \in (lo + 1)..hi
    BY <2>1
  <2>4. \A m \in (lo + 1)..hi : \E i \in old : q[i].n = m
    BY <2>1
  <2> QED BY <2>1, <2>2, <2>3, <2>4
<1>3. \A i \in new : i \in old \/ (i = Len(q) + 1 /\ f.kind = "Message")
  BY <1>1
<1>4. f.kind = "Message" => Len(q) + 1 \in new
  BY <1>1
<1> HIDE DEF r, old, new
<1>5. ASSUME NEW i \in new, NEW j \in new, i < j PROVE r[i].n < r[j].n
  <2>1. i \in old
    BY <1>1, <1>2, <1>3, <1>5
  <2>2. CASE j \in old
    BY <1>2, <1>5, <2>1, <2>2
  <2>3. CASE j = Len(q) + 1 /\ f.kind = "Message"
    BY <1>1, <1>2, <2>1, <2>3
  <2> QED BY <1>3, <2>2, <2>3
<1>6. {r[i].n : i \in new} = (lo + 1)..top
  <2>1. ASSUME NEW i \in new PROVE r[i].n \in (lo + 1)..top
    <3>1. CASE i \in old
      BY <1>2, <3>1
    <3>2. CASE i = Len(q) + 1 /\ f.kind = "Message"
      BY <1>1, <3>2
    <3> QED BY <1>3, <3>1, <3>2
  <2>2. ASSUME NEW m \in (lo + 1)..top PROVE \E i \in new : r[i].n = m
    <3>1. m \in (lo + 1)..hi \/ (m = hi + 1 /\ f.kind = "Message")
      OBVIOUS
    <3>2. CASE m \in (lo + 1)..hi
      BY <1>2, <3>2
    <3>3. CASE m = hi + 1 /\ f.kind = "Message"
      BY <1>1, <1>4, <3>3
    <3> QED BY <3>1, <3>2, <3>3
  <2> QED BY <2>1, <2>2
<1> QED BY <1>5, <1>6 DEF Continues, r, new

LEMMA TailContinues ==
  ASSUME NEW q \in Seq(Frame), q # <<>>, NEW lo \in Nat, NEW hi \in Nat, lo <= hi,
         Continues(q, lo, hi)
  PROVE  /\ Continues(Tail(q), IF Head(q).kind = "Message" THEN lo + 1 ELSE lo, hi)
         /\ Head(q).kind = "Message" => Head(q).n = lo + 1 /\ lo + 1 <= hi
<1> DEFINE r == Tail(q)
           base == IF Head(q).kind = "Message" THEN lo + 1 ELSE lo
           old == {i \in DOMAIN q : q[i].kind = "Message"}
           new == {i \in DOMAIN r : r[i].kind = "Message"}
<1>1. /\ DOMAIN q = 1..Len(q) /\ Len(q) \in Nat /\ Len(q) >= 1
      /\ Head(q) = q[1] /\ r \in Seq(Frame) /\ DOMAIN r = 1..(Len(q) - 1)
      /\ \A i \in 1..(Len(q) - 1) : r[i] = q[i + 1]
  OBVIOUS
<1>2. /\ \A i \in old : i \in 1..Len(q) /\ q[i].n \in (lo + 1)..hi
      /\ \A i, j \in old : i < j => q[i].n < q[j].n
      /\ \A m \in (lo + 1)..hi : \E i \in old : q[i].n = m
      /\ 1 \in old <=> Head(q).kind = "Message"
  <2>1. (\A i, j \in old : i < j => q[i].n < q[j].n) /\ {q[i].n : i \in old} = (lo + 1)..hi
    BY DEF Continues
  <2>2. (\A i \in old : i \in 1..Len(q)) /\ (1 \in old <=> Head(q).kind = "Message")
    BY <1>1
  <2> HIDE DEF old
  <2>3. \A i \in old : q[i].n \in (lo + 1)..hi
    BY <2>1
  <2>4. \A m \in (lo + 1)..hi : \E i \in old : q[i].n = m
    BY <2>1
  <2> QED BY <2>1, <2>2, <2>3, <2>4
<1>3. \A i \in new : i \in 1..(Len(q) - 1) /\ i + 1 \in old /\ r[i] = q[i + 1]
  BY <1>1
<1>4. ASSUME NEW i \in old, i # 1 PROVE i - 1 \in new /\ r[i - 1] = q[i]
  <2>1. i - 1 \in 1..(Len(q) - 1) /\ (i - 1) + 1 = i
    BY <1>1, <1>4
  <2> QED BY <1>1, <2>1
<1> HIDE DEF r, old, new
<1>5. ASSUME Head(q).kind = "Message" PROVE q[1].n = lo + 1 /\ lo + 1 <= hi
  <2>1. 1 \in old /\ q[1].n \in (lo + 1)..hi /\ lo + 1 \in (lo + 1)..hi
    BY <1>2, <1>5
  <2>2. PICK i \in old : q[i].n = lo + 1
    BY <1>2, <2>1
  <2>3. i = 1 \/ q[1].n < q[i].n
    BY <1>2, <2>1
  <2> QED BY <2>1, <2>2, <2>3
<1>6. ASSUME NEW i \in new, NEW j \in new, i < j PROVE r[i].n < r[j].n
  <2>1. i + 1 < j + 1
    BY <1>3, <1>6
  <2> QED BY <1>2, <1>3, <2>1
<1>7. {r[i].n : i \in new} = (base + 1)..hi
  <2>1. ASSUME NEW i \in new PROVE r[i].n \in (base + 1)..hi
    <3>1. r[i].n \in (lo + 1)..hi /\ i + 1 \in old /\ 1 < i + 1
      BY <1>1, <1>2, <1>3
    <3>2. CASE Head(q).kind = "Message"
      <4>1. q[1].n < q[i + 1].n
        BY <1>2, <3>1, <3>2
      <4> QED BY <1>3, <1>5, <3>1, <3>2, <4>1
    <3>3. CASE Head(q).kind # "Message"
      BY <3>1, <3>3
    <3> QED BY <3>2, <3>3
  <2>2. ASSUME NEW m \in (base + 1)..hi PROVE \E i \in new : r[i].n = m
    <3>1. m \in (lo + 1)..hi /\ (Head(q).kind = "Message" => m # lo + 1)
      OBVIOUS
    <3>2. PICK i \in old : q[i].n = m
      BY <1>2, <3>1
    <3>3. i # 1
      BY <1>2, <1>5, <3>1, <3>2
    <3> QED BY <1>4, <3>2, <3>3
  <2> QED BY <2>1, <2>2
<1>8. Continues(r, base, hi)
  BY <1>6, <1>7 DEF Continues, new
<1> QED BY <1>1, <1>5, <1>8 DEF r

--------------------------------------------------------------------------------
(* The invariant.                                                          *)

\* The server ends on request only, and a client's Messages are among its frames.
AskedInv ==
    /\ shutting_down \/ srv = "exited" => asked
    /\ \A c \in Clients : messages[c] <= frames[c]

\* Nothing has happened between the server and c.
Fresh(c) ==
    /\ echoes[c] = <<>> /\ messages[c] = 0
    /\ \A i \in DOMAIN inbox[c] : inbox[c][i].kind # "Message"

\* Every client gets in line once, and nothing happens before its turn.
QueueInv ==
    /\ \A c \in Clients : client[c] = "new" => Fresh(c) /\ \A i \in DOMAIN backlog : backlog[i] # c
    /\ \A i \in DOMAIN backlog : /\ client[backlog[i]] \in {"connecting", "gone"}
                                 /\ backlog[i] # who /\ Fresh(backlog[i])
    /\ \A i, j \in DOMAIN backlog : backlog[i] = backlog[j] => i = j

\* The echoes of c start after its first k Messages, and while it is served they and
\* the unread ones are all there are.
EchoOK(c, k) ==
    /\ \A i \in DOMAIN echoes[c] : echoes[c][i] = i + k
    /\ flavour # "auth" => k = 0
    /\ c = who => /\ Len(echoes[c]) + k <= messages[c]
                  /\ Continues(inbox[c], Len(echoes[c]) + k, messages[c])
    /\ c = who /\ srv = "auth" => flavour = "auth" /\ k = 0 /\ echoes[c] = <<>>

EchoInv == \A c \in Clients : \E k \in {0, 1} : EchoOK(c, k)

IInv == TypeOK /\ AskedInv /\ QueueInv /\ EchoInv

LEMMA InitIInv == Init => IInv
<1> SUFFICES ASSUME Init PROVE IInv
  OBVIOUS
<1> USE MockServerConstants DEF Init
<1>1. TypeOK
  <2>1. /\ client \in [Clients -> {"new", "connecting", "connected", "closing", "gone"}]
        /\ inbox \in [Clients -> Seq(Frame)] /\ echoes \in [Clients -> Seq(Nat)]
        /\ frames \in [Clients -> 0..MaxFrames] /\ messages \in [Clients -> 0..MaxFrames]
    OBVIOUS
  <2>2. \A c \in Clients : client[c] \in {"connected", "closing"} <=> c = who /\ client[c] # "gone"
    OBVIOUS
  <2>3. shutting_down \in BOOLEAN /\ asked \in BOOLEAN
    BY Zenon
  <2>4. backlog \in Seq(Clients) /\ ws \in WsStates
    BY DEF WsStates
  <2>5. who \in Clients \cup {NoClient} /\ (who # NoClient <=> srv \in {"auth", "serving"})
    OBVIOUS
  <2> QED BY <2>1, <2>2, <2>3, <2>4, <2>5 DEF TypeOK
<1>2. AskedInv
  BY DEF AskedInv
<1>3. QueueInv
  BY DEF QueueInv, Fresh
<1>4. EchoInv
  BY DEF EchoInv, EchoOK
<1> QED BY <1>1, <1>2, <1>3, <1>4 DEF IInv

\* Every step of a handler: it reads at most one frame of its client, and it goes on
\* (with the Message it has read echoed, or skipped in place of the auth message) or
\* returns.
Echoed(reads) ==
    echoes' = IF reads /\ srv = "serving" /\ Head(inbox[who]).kind = "Message"
              THEN [echoes EXCEPT ![who] = Append(@, Head(inbox[who]).n)] ELSE echoes

Returned == \E result : Finish(result) /\ (result = "true" => asked')

HandlerMove(reads) ==
    /\ srv \in {"auth", "serving"}
    /\ UNCHANGED <<flavour, backlog, frames, messages>>
    /\ IF reads THEN inbox[who] # <<>> /\ inbox' = [inbox EXCEPT ![who] = Tail(@)]
                ELSE srv = "serving" /\ inbox' = inbox
    /\ ws' \in WsStates /\ shutting_down' \in BOOLEAN /\ asked' \in BOOLEAN
    /\ (asked => asked') /\ (shutting_down' => asked')
    /\ \/ Continue /\ Echoed(reads)
       \/ echoes' = echoes /\ Returned

LEMMA HandlerStep == ASSUME IInv, NEW reads \in BOOLEAN, HandlerMove(reads) PROVE IInv'
<1> USE DEF HandlerMove, Echoed, Returned
<1>0. /\ TypeOK /\ who \in Clients /\ who # NoClient /\ NoClient \notin Clients
      /\ inbox[who] \in Seq(Frame) /\ echoes[who] \in Seq(Nat)
      /\ \A c \in Clients : messages[c] \in Nat /\ echoes[c] \in Seq(Nat) /\ inbox[c] \in Seq(Frame)
  BY MockServerConstants DEF IInv, TypeOK
<1>1. /\ \A c \in Clients : c # who => inbox'[c] = inbox[c] /\ echoes'[c] = echoes[c]
      /\ inbox'[who] = IF reads THEN Tail(inbox[who]) ELSE inbox[who]
      /\ inbox' \in [Clients -> Seq(Frame)]
  <2>1. reads => Tail(inbox[who]) \in Seq(Frame)
    BY <1>0
  <2>2. inbox \in [Clients -> Seq(Frame)] /\ echoes \in [Clients -> Seq(Nat)]
    BY <1>0 DEF TypeOK
  <2> QED BY <1>0, <2>1, <2>2
<1>2. reads => Head(inbox[who]) \in Frame /\ Head(inbox[who]).n \in Nat
  <2>1. reads => Head(inbox[who]) \in Frame
    BY <1>0
  <2> QED BY <2>1 DEF Frame
<1>3. echoes' \in [Clients -> Seq(Nat)]
  <2>1. reads => Append(echoes[who], Head(inbox[who]).n) \in Seq(Nat)
    BY <1>0, <1>2
  <2> QED BY <1>0, <2>1 DEF TypeOK
<1>4. CASE Continue /\ Echoed(reads)
  <2>1. srv' = "serving" /\ UNCHANGED <<who, client>>
    BY <1>4 DEF Continue
  <2>2. TypeOK'
    BY <1>0, <1>1, <1>3, <2>1 DEF TypeOK
  <2>3. AskedInv'
    BY <2>1 DEF IInv, AskedInv
  <2>4. QueueInv'
    <3>1. \A c \in Clients : c # who => (Fresh(c)' <=> Fresh(c))
      BY <1>1 DEF Fresh
    <3>2. \A i \in DOMAIN backlog : backlog[i] \in Clients
      BY <1>0 DEF TypeOK
    <3>3. client[who] # "new"
      BY <1>0 DEF TypeOK
    <3> QED BY <2>1, <3>1, <3>2, <3>3 DEF IInv, QueueInv
  <2>5. ASSUME NEW c \in Clients PROVE \E k \in {0, 1} : EchoOK(c, k)'
    <3>1. PICK k \in {0, 1} : EchoOK(c, k)
      BY DEF IInv, EchoInv
    <3>2. CASE c # who
      BY <1>1, <2>1, <3>1, <3>2 DEF EchoOK
    <3>3. CASE c = who
      <4>1. /\ Len(echoes[who]) + k \in Nat /\ messages[who] \in Nat
            /\ Len(echoes[who]) + k <= messages[who]
            /\ Continues(inbox[who], Len(echoes[who]) + k, messages[who])
            /\ flavour # "auth" => k = 0
            /\ \A i \in DOMAIN echoes[who] : echoes[who][i] = i + k
        BY <1>0, <3>1, <3>3 DEF EchoOK
      <4>2. srv = "auth" => flavour = "auth" /\ k = 0 /\ echoes[who] = <<>>
        BY <3>1, <3>3 DEF EchoOK
      <4>3. CASE ~reads
        BY <1>1, <1>4, <2>1, <3>1, <3>3, <4>3 DEF EchoOK
      <4>4. CASE reads
        <5> DEFINE lo == Len(echoes[who]) + k
                   message == Head(inbox[who]).kind = "Message"
        <5>1. /\ Continues(inbox'[who], IF message THEN lo + 1 ELSE lo, messages[who])
              /\ message => Head(inbox[who]).n = lo + 1 /\ lo + 1 <= messages[who]
          BY <1>0, <1>1, <4>1, <4>4, TailContinues
        <5>2. CASE ~message
          <6>1. echoes' = echoes
            BY <1>4, <5>2
          <6> QED BY <1>1, <2>1, <3>3, <4>1, <4>2, <5>1, <5>2, <6>1 DEF EchoOK
        <5>3. CASE message /\ srv = "auth"
          <6>1. echoes'[who] = <<>> /\ flavour' = "auth" /\ Len(<<>>) = 0 /\ srv' # "auth"
            BY <1>4, <2>1, <4>2, <5>3
          <6>2. k = 0 /\ lo = 0 /\ who' = who /\ messages' = messages
            BY <2>1, <4>2, <5>3
          <6>3. EchoOK(who, 1)'
            BY <5>1, <5>3, <6>1, <6>2 DEF EchoOK
          <6> QED BY <2>1, <3>3, <6>3
        <5>4. CASE message /\ srv = "serving"
          <6>1. echoes'[who] = Append(echoes[who], lo + 1)
            BY <1>0, <1>4, <4>4, <5>1, <5>4 DEF TypeOK
          <6>2. /\ Len(echoes'[who]) = Len(echoes[who]) + 1
                /\ \A i \in DOMAIN echoes'[who] : echoes'[who][i] = i + k
            BY <1>0, <4>1, <6>1
          <6>3. Len(echoes'[who]) + k = lo + 1
            BY <1>0, <6>2
          <6>4. EchoOK(who, k)'
            BY <2>1, <4>1, <5>1, <5>4, <6>2, <6>3 DEF EchoOK
          <6> QED BY <2>1, <3>3, <6>4
        <5> QED BY <5>2, <5>3, <5>4
      <4> QED BY <4>3, <4>4
    <3> QED BY <3>2, <3>3
  <2> QED BY <2>2, <2>3, <2>4, <2>5 DEF IInv, EchoInv
<1>5. CASE echoes' = echoes /\ \E result : Finish(result) /\ (result = "true" => asked')
  <2>1. PICK result : Finish(result) /\ (result = "true" => asked')
    BY <1>5
  <2>2. /\ srv' \in {"exited", "accepting", "panicked"} /\ (srv' = "exited" => result = "true")
        /\ who' = NoClient /\ client' = [client EXCEPT ![who] = "gone"]
    BY <2>1 DEF Finish
  <2>3. \A c \in Clients : client'[c] = IF c = who THEN "gone" ELSE client[c]
    BY <1>0, <2>2 DEF TypeOK
  <2>4. TypeOK'
    BY <1>0, <1>1, <1>3, <2>2, <2>3 DEF TypeOK
  <2>5. AskedInv'
    BY <2>1, <2>2 DEF IInv, AskedInv
  <2>6. QueueInv'
    <3>1. \A c \in Clients : c # who => (Fresh(c)' <=> Fresh(c))
      BY <1>1 DEF Fresh
    <3>2. \A i \in DOMAIN backlog : backlog[i] \in Clients
      BY <1>0 DEF TypeOK
    <3> QED BY <1>0, <2>2, <2>3, <3>1, <3>2 DEF IInv, QueueInv
  <2>7. EchoInv'
    BY <1>0, <1>5, <2>2 DEF IInv, EchoInv, EchoOK
  <2> QED BY <2>4, <2>5, <2>6, <2>7 DEF IInv
<1> QED BY <1>4, <1>5

LEMMA ServeMoves == ASSUME IInv, EchoServer \/ AuthServer PROVE HandlerMove(TRUE) \/ HandlerMove(FALSE)
<1>0. /\ ws \in WsStates /\ shutting_down \in BOOLEAN /\ asked \in BOOLEAN
      /\ shutting_down => asked
  BY DEF IInv, TypeOK, AskedInv
<1>1. AfterSendClose(ws) \in WsStates /\ AfterRecvClose(ws) \in WsStates /\ "Terminated" \in WsStates
  BY <1>0 DEF AfterSendClose, AfterRecvClose, WsStates
<1> USE DEF Reads
<1>a. Finish("err") => Returned
  BY DEF Returned
<1>b. Return(Result) /\ UNCHANGED asked => Returned
  <2>1. (IF shutting_down THEN "true" ELSE "false") = "true" => shutting_down
    OBVIOUS
  <2> QED BY <1>0, <2>1 DEF Return, Result, Returned
<1>2. CASE EchoMessage
  <2>1. PICK ok \in Sent :
          /\ ContinueIf(ok)
          /\ echoes' = IF ok THEN [echoes EXCEPT ![who] = Append(@, Head(inbox[who]).n)] ELSE echoes
    BY <1>2 DEF EchoMessage
  <2>2. (Continue /\ Echoed(TRUE)) \/ (echoes' = echoes /\ Returned)
    BY <1>2, <1>a, <2>1 DEF EchoMessage, ContinueIf, Echoed
  <2> QED BY <1>0, <1>2, <2>2 DEF EchoMessage, HandlerMove
<1>3. CASE AnswerControl
  <2>1. Continue \/ Returned
    BY <1>3, <1>a DEF AnswerControl, ContinueIf
  <2>2. Echoed(TRUE)
    BY <1>3 DEF AnswerControl, Echoed
  <2> QED BY <1>0, <1>3, <2>1, <2>2 DEF AnswerControl, HandlerMove
<1>4. CASE CloseRequested
  <2>1. (Continue \/ Returned) /\ shutting_down' \in BOOLEAN
    <3>1. PICK ok \in Sent : ContinueIf(ok) /\ shutting_down' = (shutting_down \/ ok)
      BY <1>4 DEF CloseRequested
    <3>2. shutting_down' \in BOOLEAN
      BY <3>1, Zenon
    <3> QED BY <1>a, <3>1, <3>2 DEF ContinueIf
  <2>2. /\ srv = "serving" /\ Head(inbox[who]).kind = "Close" /\ inbox[who] # <<>>
        /\ inbox' = [inbox EXCEPT ![who] = Tail(@)] /\ asked' = TRUE /\ ws' = AfterSendClose(ws)
        /\ UNCHANGED <<flavour, backlog, frames, messages, echoes>>
    BY <1>4 DEF CloseRequested
  <2>3. Echoed(TRUE)
    BY <2>2 DEF Echoed
  <2> QED BY <1>1, <2>1, <2>2, <2>3 DEF HandlerMove
<1>5. CASE AbortRequested
  <2>1. Returned
    BY <1>5 DEF AbortRequested, Return, Returned
  <2> QED BY <1>0, <1>5, <2>1 DEF AbortRequested, HandlerMove
<1>6. CASE Unparsable
  BY <1>0, <1>6, <1>a DEF Unparsable, HandlerMove
<1>7. CASE Ignored
  BY <1>0, <1>7 DEF Ignored, HandlerMove, Echoed
<1>8. CASE CloseReceived
  <2>1. Returned
    BY <1>8, <1>a, <1>b DEF CloseReceived
  <2> QED BY <1>0, <1>1, <1>8, <2>1 DEF CloseReceived, HandlerMove
<1>9. CASE StreamEnds
  BY <1>0, <1>1, <1>9, <1>b DEF StreamEnds, HandlerMove
<1>10. CASE AuthAccepted
  <2>1. Continue \/ Returned
    BY <1>10, <1>a DEF AuthAccepted, ContinueIf
  <2>2. Echoed(TRUE)
    BY <1>10 DEF AuthAccepted, Echoed
  <2> QED BY <1>0, <1>10, <2>1, <2>2 DEF AuthAccepted, HandlerMove
<1>11. CASE AuthRejected
  <2>1. Returned
    BY <1>11, <1>a DEF AuthRejected, Return, Returned
  <2> QED BY <1>0, <1>11, <2>1 DEF AuthRejected, HandlerMove
<1>12. CASE AuthSkipped
  <2>1. Echoed(TRUE)
    BY <1>12 DEF AuthSkipped, Echoed
  <2> QED BY <1>0, <1>1, <1>12, <2>1 DEF AuthSkipped, HandlerMove
<1>13. CASE EndsUnauthenticated
  BY <1>0, <1>13, <1>b DEF EndsUnauthenticated, HandlerMove
<1> QED
  BY <1>2, <1>3, <1>4, <1>5, <1>6, <1>7, <1>8, <1>9, <1>10, <1>11, <1>12, <1>13
     DEF EchoServer, AuthServer

LEMMA AcceptStep == ASSUME IInv, Accept PROVE IInv'
<1> DEFINE c0 == Head(backlog)
<1>0. /\ TypeOK /\ srv = "accepting" /\ who = NoClient /\ NoClient \notin Clients
      /\ backlog # <<>> /\ backlog \in Seq(Clients) /\ backlog' = Tail(backlog)
      /\ ws' = "Active" /\ shutting_down' = FALSE
      /\ UNCHANGED <<flavour, inbox, frames, messages, echoes, asked>>
  BY MockServerConstants DEF IInv, TypeOK, Accept, Accepts
<1>1. /\ c0 \in Clients /\ c0 = backlog[1] /\ 1 \in DOMAIN backlog /\ backlog' \in Seq(Clients)
      /\ \A i \in DOMAIN backlog' : /\ i + 1 \in DOMAIN backlog /\ i \in Nat /\ i # 0
                                    /\ backlog'[i] = backlog[i + 1]
  BY <1>0
<1>2. Fresh(c0) /\ client[c0] \in {"connecting", "gone"} /\ c0 # NoClient
      /\ \A i \in DOMAIN backlog' : backlog'[i] # c0 /\ backlog'[i] \in Clients
  <2>1. \A i \in DOMAIN backlog' : backlog'[i] # c0
    BY <1>1 DEF IInv, QueueInv
  <2> QED BY <1>0, <1>1, <2>1 DEF IInv, QueueInv
<1>3. \A c \in Clients : client[c] \notin {"connected", "closing"}
  BY <1>0 DEF TypeOK
<1>4. AskedInv'
  BY <1>0 DEF IInv, AskedInv, Accept
<1>5. \A c \in Clients : Fresh(c)' <=> Fresh(c)
  BY <1>0 DEF Fresh
<1>6. \A i, j \in DOMAIN backlog' : backlog'[i] = backlog'[j] => i = j
  <2> TAKE i, j \in DOMAIN backlog'
  <2> HAVE backlog'[i] = backlog'[j]
  <2>1. i + 1 = j + 1
    BY <1>1 DEF IInv, QueueInv
  <2> QED BY <1>1, <2>1
<1>7. shutting_down' \in BOOLEAN
  BY <1>0, Zenon
<1>8. CASE /\ who' = c0 /\ srv' = (IF flavour = "auth" THEN "auth" ELSE "serving")
           /\ client' = [client EXCEPT ![c0] = IF @ = "gone" THEN @ ELSE "connected"]
  <2>1. \A c \in Clients : client'[c] = IF c = c0 /\ client[c] # "gone" THEN "connected" ELSE client[c]
    BY <1>0, <1>1, <1>8 DEF TypeOK
  <2>2. TypeOK'
    <3>1. \A c \in Clients : client'[c] \in {"connected", "closing"} <=> c = who' /\ client'[c] # "gone"
      BY <1>2, <1>3, <1>8, <2>1
    <3>2. client' \in [Clients -> {"new", "connecting", "connected", "closing", "gone"}]
      BY <1>0, <1>1, <1>8 DEF TypeOK
    <3> QED BY <1>0, <1>1, <1>2, <1>7, <1>8, <3>1, <3>2 DEF TypeOK, WsStates
  <2>3. QueueInv'
    BY <1>1, <1>2, <1>5, <1>6, <1>8, <2>1 DEF IInv, QueueInv
  <2>4. ASSUME NEW c \in Clients PROVE \E k \in {0, 1} : EchoOK(c, k)'
    <3>1. PICK k \in {0, 1} : EchoOK(c, k)
      BY DEF IInv, EchoInv
    <3>2. CASE c # c0
      BY <1>0, <1>8, <3>1, <3>2 DEF EchoOK
    <3>3. CASE c = c0
      <4>1. Continues(inbox[c], 0, 0)
        BY <1>2, <3>3 DEF Fresh, Continues
      <4>2. Len(echoes[c]) = 0 /\ messages[c] = 0 /\ echoes[c] = <<>>
        BY <1>2, <3>3 DEF Fresh
      <4>3. EchoOK(c, 0)'
        BY <1>0, <1>8, <4>1, <4>2 DEF EchoOK
      <4> QED BY <4>3
    <3> QED BY <3>2, <3>3
  <2> QED BY <1>4, <2>2, <2>3, <2>4 DEF IInv, EchoInv
<1>9. CASE srv' = "panicked" /\ UNCHANGED <<who, client>>
  <2>1. TypeOK'
    BY <1>0, <1>1, <1>7, <1>9 DEF TypeOK, WsStates
  <2>2. QueueInv'
    BY <1>1, <1>2, <1>5, <1>6, <1>9 DEF IInv, QueueInv
  <2>3. EchoInv'
    BY <1>0, <1>9 DEF IInv, EchoInv, EchoOK
  <2> QED BY <1>4, <2>1, <2>2, <2>3 DEF IInv
<1> QED BY <1>8, <1>9 DEF Accept

LEMMA ConnectStep == ASSUME IInv, NEW c \in Clients, Connect(c) PROVE IInv'
<1>0. /\ TypeOK /\ client[c] = "new" /\ client' = [client EXCEPT ![c] = "connecting"]
      /\ backlog' = Append(backlog, c) /\ backlog \in Seq(Clients)
      /\ UNCHANGED <<flavour, connection, inbox, frames, messages, echoes, asked>>
  BY DEF IInv, TypeOK, Connect
<1>1. /\ \A d \in Clients : client'[d] = IF d = c THEN "connecting" ELSE client[d]
      /\ client' \in [Clients -> {"new", "connecting", "connected", "closing", "gone"}]
  BY <1>0 DEF TypeOK
<1>2. /\ backlog' \in Seq(Clients) /\ DOMAIN backlog' = 1..(Len(backlog) + 1)
      /\ DOMAIN backlog = 1..Len(backlog) /\ Len(backlog) \in Nat
      /\ backlog'[Len(backlog) + 1] = c /\ \A i \in 1..Len(backlog) : backlog'[i] = backlog[i]
  BY <1>0
<1>3. /\ Fresh(c) /\ c # who /\ \A i \in DOMAIN backlog : backlog[i] # c
      /\ \A d \in Clients : Fresh(d)' <=> Fresh(d)
  BY <1>0 DEF IInv, QueueInv, TypeOK, Fresh
<1>4. \A i \in DOMAIN backlog' : i \in DOMAIN backlog \/ i = Len(backlog) + 1
  BY <1>2
<1>5. TypeOK'
  BY <1>0, <1>1, <1>2, <1>3 DEF TypeOK, connection
<1>6. AskedInv'
  BY <1>0 DEF IInv, AskedInv, connection
<1>7. QueueInv'
  <2>1. QueueInv /\ who' = who /\ \A i \in DOMAIN backlog : backlog[i] \in Clients
    BY <1>0, <1>2 DEF IInv, connection
  <2>2. ASSUME NEW d \in Clients, client'[d] = "new"
        PROVE  Fresh(d)' /\ \A i \in DOMAIN backlog' : backlog'[i] # d
    <3>1. d # c /\ client[d] = "new"
      BY <1>1, <2>2
    <3>2. Fresh(d) /\ \A i \in DOMAIN backlog : backlog[i] # d
      BY <2>1, <3>1 DEF QueueInv
    <3> QED BY <1>2, <1>3, <1>4, <3>1, <3>2
  <2>3. ASSUME NEW i \in DOMAIN backlog'
        PROVE  (client[backlog[i]] \in {"connecting", "gone"} /\ backlog[i] # who /\ Fresh(backlog[i]))'
    <3>1. PICK d \in Clients : d = backlog'[i]
      BY <1>2
    <3>2. CASE i \in DOMAIN backlog
      <4>1. d = backlog[i] /\ d # c
        BY <1>2, <1>3, <3>1, <3>2
      <4>2. client[d] \in {"connecting", "gone"} /\ d # who /\ Fresh(d)
        BY <2>1, <3>2, <4>1 DEF QueueInv
      <4> QED BY <1>1, <1>3, <2>1, <3>1, <4>1, <4>2
    <3>3. CASE i = Len(backlog) + 1
      BY <1>1, <1>2, <1>3, <2>1, <3>1, <3>3
    <3> QED BY <1>4, <3>2, <3>3
  <2>4. ASSUME NEW i \in DOMAIN backlog', NEW j \in DOMAIN backlog', backlog'[i] = backlog'[j]
        PROVE  i = j
    BY <1>2, <1>3, <1>4, <2>1, <2>4 DEF QueueInv
  <2> QED BY <2>2, <2>3, <2>4 DEF QueueInv
<1>8. EchoInv'
  BY <1>0 DEF IInv, EchoInv, EchoOK, connection
<1> QED BY <1>5, <1>6, <1>7, <1>8 DEF IInv

\* A client sends f: it goes to the end of its stream.
ClientMove(c, f) ==
    /\ client[c] \in {"connecting", "connected", "closing"}
    /\ f.kind = "Message" => client[c] = "connected" /\ f.n = messages[c] + 1
    /\ inbox' = [inbox EXCEPT ![c] = Append(@, f)]
    /\ messages' = [messages EXCEPT ![c] = IF f.kind = "Message" THEN @ + 1 ELSE @]
    /\ frames' \in [Clients -> 0..MaxFrames]
    /\ \A d \in Clients : /\ frames'[d] >= frames[d]
                          /\ d = c /\ f.kind = "Message" => frames'[d] >= frames[d] + 1
    /\ \E s \in {"connected", "closing", "gone"} :
        /\ client' = [client EXCEPT ![c] = s]
        /\ s # "gone" => client[c] \in {"connected", "closing"}
    /\ UNCHANGED <<flavour, connection, backlog, echoes, asked>>

LEMMA ClientStep == ASSUME IInv, NEW c \in Clients, NEW f \in Frame, ClientMove(c, f) PROVE IInv'
<1> USE DEF ClientMove
<1>0. /\ TypeOK /\ UNCHANGED <<srv, who, ws, shutting_down>> /\ MaxFrames \in Nat
      /\ \A d \in Clients : /\ frames[d] \in Nat /\ messages[d] \in Nat /\ inbox[d] \in Seq(Frame)
                            /\ echoes[d] \in Seq(Nat) /\ frames'[d] \in 0..MaxFrames
                            /\ messages[d] <= frames[d]
  <2>1. /\ TypeOK /\ UNCHANGED <<srv, who, ws, shutting_down>> /\ MaxFrames \in Nat
        /\ \A d \in Clients : messages[d] <= frames[d]
    BY MockServerConstants DEF IInv, AskedInv, connection
  <2>2. frames' \in [Clients -> 0..MaxFrames]
    OBVIOUS
  <2> HIDE DEF ClientMove
  <2> QED BY <2>1, <2>2 DEF TypeOK
<1>1. PICK s \in {"connected", "closing", "gone"} :
        client' = [client EXCEPT ![c] = s] /\ (s # "gone" => client[c] \in {"connected", "closing"})
  OBVIOUS
<1>2. /\ \A d \in Clients : client'[d] = IF d = c THEN s ELSE client[d]
      /\ client' \in [Clients -> {"new", "connecting", "connected", "closing", "gone"}]
  BY <1>0, <1>1 DEF TypeOK
<1>3. /\ \A d \in Clients : inbox'[d] = IF d = c THEN Append(inbox[d], f) ELSE inbox[d]
      /\ inbox' \in [Clients -> Seq(Frame)]
  <2>1. Append(inbox[c], f) \in Seq(Frame)
    BY <1>0
  <2> QED BY <1>0, <2>1 DEF TypeOK
<1>4. \A d \in Clients :
        messages'[d] = IF d = c /\ f.kind = "Message" THEN messages[d] + 1 ELSE messages[d]
  BY <1>0 DEF TypeOK
<1>5. /\ \A d \in Clients : messages'[d] \in Nat /\ messages'[d] <= frames'[d] /\ messages'[d] \in 0..MaxFrames
      /\ messages' \in [Clients -> 0..MaxFrames]
  <2>1. \A d \in Clients : messages'[d] \in Nat /\ messages'[d] <= frames'[d] /\ messages'[d] \in 0..MaxFrames
    BY <1>0, <1>4
  <2>2. messages' = [d \in Clients |-> messages'[d]]
    BY <1>0 DEF TypeOK
  <2> QED BY <2>1, <2>2
<1>6. TypeOK'
  <2>1. \A d \in Clients : client'[d] \in {"connected", "closing"} <=> d = who' /\ client'[d] # "gone"
    BY <1>0, <1>1, <1>2 DEF TypeOK
  <2> QED BY <1>0, <1>2, <1>3, <1>5, <2>1 DEF TypeOK
<1>7. AskedInv'
  BY <1>0, <1>5 DEF IInv, AskedInv
<1>8. ASSUME NEW d \in Clients, Fresh(d), d = c => f.kind # "Message" PROVE Fresh(d)'
  <2>1. CASE d # c
    BY <1>3, <1>4, <1>8, <2>1 DEF Fresh
  <2>2. CASE d = c
    <3>1. \A i \in DOMAIN inbox'[c] : (i \in DOMAIN inbox[c] /\ inbox'[c][i] = inbox[c][i]) \/ inbox'[c][i] = f
      BY <1>0, <1>3
    <3> QED BY <1>4, <1>8, <2>2, <3>1 DEF Fresh
  <2> QED BY <2>1, <2>2
<1>9. QueueInv'
  <2>1. QueueInv /\ backlog' = backlog /\ who' = who /\ \A i \in DOMAIN backlog : backlog[i] \in Clients
    BY <1>0 DEF IInv, TypeOK
  <2>2. \A i \in DOMAIN backlog : backlog[i] = c => client[c] = "connecting" /\ s = "gone" /\ f.kind # "Message"
    BY <1>1, <2>1 DEF QueueInv
  <2> QED BY <1>2, <1>8, <2>1, <2>2 DEF QueueInv
<1>10. ASSUME NEW d \in Clients PROVE \E k \in {0, 1} : EchoOK(d, k)'
  <2>1. PICK k \in {0, 1} : EchoOK(d, k)
    BY DEF IInv, EchoInv
  <2>2. CASE d # c
    BY <1>0, <1>3, <1>4, <2>1, <2>2 DEF EchoOK
  <2>3. CASE d = c
    <3>1. ASSUME d = who
          PROVE  /\ Len(echoes[d]) + k <= messages'[d]
                 /\ Continues(inbox'[d], Len(echoes[d]) + k, messages'[d])
      <4>1. /\ Len(echoes[d]) + k \in Nat /\ Len(echoes[d]) + k <= messages[d]
            /\ Continues(inbox[d], Len(echoes[d]) + k, messages[d])
        BY <1>0, <2>1, <3>1 DEF EchoOK
      <4>2. Continues(Append(inbox[d], f), Len(echoes[d]) + k,
                      IF f.kind = "Message" THEN messages[d] + 1 ELSE messages[d])
        BY <1>0, <2>3, <4>1, AppendContinues
      <4> QED BY <1>0, <1>3, <1>4, <2>3, <4>1, <4>2
    <3> QED BY <1>0, <2>1, <3>1 DEF EchoOK
  <2> QED BY <2>2, <2>3
<1> QED BY <1>6, <1>7, <1>9, <1>10 DEF IInv, EchoInv

LEMMA ClientMoves ==
  ASSUME IInv, NEW c \in Clients,
         Leave(c) \/ \E kind \in Kinds : SendFrame(c, kind)
  PROVE  \E f \in Frame : ClientMove(c, f)
<1>0. /\ frames \in [Clients -> 0..MaxFrames] /\ messages \in [Clients -> 0..MaxFrames]
      /\ MaxFrames \in Nat /\ Kinds \subseteq ClientKinds /\ "fin" \notin ClientKinds
      /\ client \in [Clients -> {"new", "connecting", "connected", "closing", "gone"}]
  BY MockServerConstants DEF IInv, TypeOK, ClientKinds
<1>1. CASE Leave(c)
  <2> DEFINE f == [kind |-> "fin", n |-> messages[c]]
  <2>1. f \in Frame /\ f.kind # "Message"
    BY <1>0 DEF Frame
  <2>2. messages' = [messages EXCEPT ![c] = IF f.kind = "Message" THEN @ + 1 ELSE @] /\ frames' = frames
    BY <1>0, <1>1, <2>1 DEF Leave
  <2>3. /\ frames' \in [Clients -> 0..MaxFrames] /\ \A d \in Clients : frames'[d] >= frames[d]
    BY <1>0, <2>2
  <2>4. \E s \in {"connected", "closing", "gone"} :
          client' = [client EXCEPT ![c] = s] /\ (s # "gone" => client[c] \in {"connected", "closing"})
    BY <1>1 DEF Leave
  <2>5. ClientMove(c, f)
    BY <1>1, <2>1, <2>2, <2>3, <2>4 DEF Leave, ClientMove
  <2> QED BY <2>1, <2>5
<1>2. CASE \E kind \in Kinds : SendFrame(c, kind)
  <2>1. PICK kind \in Kinds : SendFrame(c, kind)
    BY <1>2
  <2> DEFINE f == [kind |-> kind, n |-> messages'[c]]
  <2>2. messages'[c] = (IF kind = "Message" THEN messages[c] + 1 ELSE messages[c]) /\ messages'[c] \in Nat
    BY <1>0, <2>1 DEF SendFrame
  <2>3. f \in Frame /\ f.kind = kind /\ f.n = messages'[c]
    BY <1>0, <2>2 DEF Frame
  <2>4. /\ frames' \in [Clients -> 0..MaxFrames]
        /\ \A d \in Clients : frames'[d] = IF d = c THEN frames[d] + 1 ELSE frames[d]
    BY <1>0, <2>1 DEF SendFrame
  <2>5. \A d \in Clients : frames'[d] >= frames[d] /\ (d = c => frames'[d] >= frames[d] + 1)
    BY <1>0, <2>4
  <2>6. \E s \in {"connected", "closing", "gone"} :
          client' = [client EXCEPT ![c] = s] /\ (s # "gone" => client[c] \in {"connected", "closing"})
    <3>1. client' = [client EXCEPT ![c] = IF kind = "close" THEN "closing" ELSE "connected"]
          /\ client[c] = "connected"
      BY <1>0, <2>1 DEF SendFrame
    <3> QED BY <3>1
  <2>7. ClientMove(c, f)
    BY <2>1, <2>2, <2>3, <2>4, <2>5, <2>6 DEF SendFrame, ClientMove
  <2> QED BY <2>3, <2>7
<1> QED BY <1>1, <1>2

LEMMA IInvStep == IInv /\ [Next]_vars => IInv'
<1> SUFFICES ASSUME IInv, [Next]_vars PROVE IInv'
  OBVIOUS
<1>1. CASE Accept
  BY <1>1, AcceptStep
<1>2. CASE EchoServer \/ AuthServer
  BY <1>2, ServeMoves, HandlerStep
<1>3. ASSUME NEW c \in Clients, Connect(c) PROVE IInv'
  BY <1>3, ConnectStep
<1>4. ASSUME NEW c \in Clients, Leave(c) \/ \E kind \in Kinds : SendFrame(c, kind) PROVE IInv'
  BY <1>4, ClientMoves, ClientStep
<1>5. CASE UNCHANGED vars
  <2>1. TypeOK' /\ AskedInv'
    BY <1>5 DEF IInv, TypeOK, AskedInv, vars, connection, clients
  <2>2. QueueInv'
    BY <1>5 DEF IInv, QueueInv, Fresh, vars, connection, clients
  <2>3. EchoInv'
    BY <1>5 DEF IInv, EchoInv, EchoOK, vars, connection, clients
  <2> QED BY <2>1, <2>2, <2>3 DEF IInv
<1> QED BY <1>1, <1>2, <1>3, <1>4, <1>5 DEF Next, Server

LEMMA Invariance == Spec => []IInv
BY InitIInv, IInvStep, PTL DEF Spec

--------------------------------------------------------------------------------
(* What the mock servers promise.                                          *)

\* Every variable has its type, and only the client being served is connected.
THEOREM TypeCorrect == Spec => []TypeOK
<1>1. IInv => TypeOK
  BY DEF IInv
<1> QED BY <1>1, Invariance, PTL

\* However many clients come and however they interleave, echo_server echoes what a
\* client sends in order, each Message once and, while it serves, all of those it has
\* read; auth_echo_server loses at most the one it took for the auth message.
THEOREM EchoesAll == Spec => []EchoesEveryMessage
<1>1. IInv => EchoesEveryMessage
  <2> SUFFICES ASSUME IInv, NEW c \in Clients
               PROVE  LET e == echoes[c]
                          skipped == IF flavour = "auth" /\ e # <<>> THEN e[1] - 1 ELSE 0
                      IN  /\ skipped \in {0, 1} /\ \A i \in DOMAIN e : e[i] = i + skipped
                          /\ c = who /\ (flavour = "auth" => e # <<>>)
                               => Continues(inbox[c], Len(e) + skipped, messages[c])
    BY DEF EchoesEveryMessage
  <2> DEFINE e == echoes[c]
             skipped == IF flavour = "auth" /\ e # <<>> THEN e[1] - 1 ELSE 0
  <2>1. PICK k \in {0, 1} : EchoOK(c, k)
    BY DEF IInv, EchoInv
  <2>2. e \in Seq(Nat) /\ DOMAIN e = 1..Len(e) /\ (e # <<>> => 1 \in DOMAIN e)
    BY DEF IInv, TypeOK
  <2>3. e # <<>> => skipped = k
    BY <2>1, <2>2 DEF EchoOK
  <2>4. e = <<>> => skipped = 0 /\ DOMAIN e = {}
    BY <2>2
  <2>5. c = who /\ (flavour = "auth" => e # <<>>) => skipped = k
    BY <2>1, <2>3, <2>4 DEF EchoOK
  <2> HIDE DEF skipped
  <2>6. skipped \in {0, 1} /\ \A i \in DOMAIN e : e[i] = i + skipped
    BY <2>1, <2>3, <2>4 DEF EchoOK
  <2>7. c = who /\ (flavour = "auth" => e # <<>>) => Continues(inbox[c], Len(e) + skipped, messages[c])
    BY <2>1, <2>5 DEF EchoOK
  <2> QED BY <2>6, <2>7 DEF skipped
<1> QED BY <1>1, Invariance, PTL

\* get_mock_address goes on accepting until a client asks for the end: the handlers
\* return true only after a Close or an Abort request, or a rejected token.
THEOREM EndsOnRequest == Spec => []ExitsOnlyWhenAsked
<1>1. IInv => ExitsOnlyWhenAsked
  BY DEF IInv, AskedInv, ExitsOnlyWhenAsked
<1> QED BY <1>1, Invariance, PTL

--------------------------------------------------------------------------------
(* A client that waits for its turn.                                       *)

\* The end of the stream is the last thing c sends.
EndsFin(c) == Len(inbox[c]) > 0 /\ inbox[c][Len(inbox[c])].kind = "fin"

\* The handler of a client that is gone will learn of it, or has.
Served ==
    /\ client[who] = "gone" => EndsFin(who) \/ (srv = "serving" /\ ws = "Terminated")
    /\ srv = "auth" => ws = "Active"

\* A client that connects stays in line until it is accepted or leaves, and the server
\* learns of the end of each client, in line or served.
TurnInv ==
    /\ \A c \in Clients : client[c] = "connecting" => \E i \in DOMAIN backlog : backlog[i] = c
    /\ \A i \in DOMAIN backlog : client[backlog[i]] = "gone" => EndsFin(backlog[i])
    /\ srv \in {"auth", "serving"} => Served

\* The server task can take a step of its own: accept, read, or return from a handler
\* whose stream has ended.
CanGoOn ==
    \/ srv = "accepting" /\ backlog # <<>>
    \/ srv \in {"auth", "serving"} /\ inbox[who] # <<>> /\ ws # "Terminated"
    \/ srv = "serving" /\ ws = "Terminated"

\* What a step of a handler does to its client: it reads a frame and goes on, marking
\* the stream as ended if that was its end, or it returns.
GoesOn ==
    /\ srv' = "serving" /\ UNCHANGED <<who, client>>
    /\ inbox[who] # <<>> /\ inbox' = [inbox EXCEPT ![who] = Tail(@)]
    /\ Head(inbox[who]).kind = "fin" => ws' = "Terminated"

GivesUp ==
    /\ srv' \notin {"auth", "serving"} /\ client' = [client EXCEPT ![who] = "gone"]
    /\ inbox' \in {inbox, [inbox EXCEPT ![who] = Tail(@)]}

LEMMA TailKeepsLast ==
  ASSUME NEW S, NEW q \in Seq(S), Len(q) > 1
  PROVE  Len(Tail(q)) > 0 /\ Tail(q)[Len(Tail(q))] = q[Len(q)]
<1> DEFINE n == Len(q)
<1>1. n \in Nat /\ n > 1 /\ Len(Tail(q)) = n - 1 /\ \A i \in 1..(n - 1) : Tail(q)[i] = q[i + 1]
  OBVIOUS
<1> HIDE DEF n
<1>2. n - 1 > 0 /\ n - 1 \in 1..(n - 1) /\ (n - 1) + 1 = n
  BY <1>1
<1> QED BY <1>1, <1>2 DEF n

LEMMA HandlerTurn == ASSUME EchoServer \/ AuthServer PROVE GoesOn \/ GivesUp
<1>1. \A r : Finish(r) => srv' \notin {"auth", "serving"} /\ client' = [client EXCEPT ![who] = "gone"]
  BY DEF Finish
<1>2. CASE \E ok : ContinueIf(ok) /\ Reads({"Message", "SendPing", "ping", "Close", "auth"})
  BY <1>1, <1>2 DEF ContinueIf, Continue, Reads, GoesOn, GivesUp
<1>3. CASE /\ Reads(ClientKinds \cup {"fin"})
           /\ Continue /\ (Head(inbox[who]).kind = "fin" => ws' = "Terminated")
  BY <1>3 DEF Continue, Reads, GoesOn
<1>4. CASE /\ inbox' \in {inbox, [inbox EXCEPT ![who] = Tail(@)]}
           /\ \E r : Finish(r)
  BY <1>1, <1>4 DEF GivesUp
<1>5. CASE EchoMessage \/ AnswerControl \/ CloseRequested \/ AuthAccepted
  BY <1>2, <1>5 DEF EchoMessage, AnswerControl, CloseRequested, AuthAccepted, Reads
<1>6. CASE Ignored
  BY <1>3, <1>6 DEF Ignored, Reads, ClientKinds
<1>7. CASE AuthSkipped
  BY <1>3, <1>7 DEF AuthSkipped, Reads, ClientKinds
<1>8. CASE AbortRequested \/ Unparsable \/ StreamEnds
  BY <1>4, <1>8 DEF AbortRequested, Unparsable, StreamEnds, Return, Reads
<1>9. CASE CloseReceived
  BY <1>4, <1>9 DEF CloseReceived, Return, Reads
<1>10. CASE AuthRejected \/ EndsUnauthenticated
  BY <1>4, <1>10 DEF AuthRejected, EndsUnauthenticated, Return, Reads
<1> QED
  BY <1>5, <1>6, <1>7, <1>8, <1>9, <1>10 DEF EchoServer, AuthServer

LEMMA ReadsBeforeTheEnd == ASSUME EchoServer \/ AuthServer, srv' = "serving" PROVE ws # "Terminated"
<1>1. ~EndsUnauthenticated
  BY DEF EndsUnauthenticated, Return, Finish
<1> QED
  BY <1>1 DEF EchoServer, AuthServer, Reads, EchoMessage, AnswerControl, CloseRequested, AbortRequested,
              Unparsable, Ignored, CloseReceived, StreamEnds, AuthAccepted, AuthRejected, AuthSkipped

LEMMA HandlerKeepsTurn == ASSUME IInv, TurnInv, EchoServer \/ AuthServer PROVE TurnInv'
<1>1. /\ TypeOK /\ QueueInv /\ who \in Clients /\ srv \in {"auth", "serving"} /\ backlog' = backlog
      /\ inbox[who] \in Seq(Frame) /\ Served
  <2>1. srv \in {"auth", "serving"} /\ backlog' = backlog
    BY ServeMoves DEF HandlerMove
  <2> QED BY <2>1 DEF IInv, TypeOK, TurnInv
<1>2. /\ \A c \in Clients : c # who => inbox'[c] = inbox[c] /\ client'[c] = client[c]
      /\ client'[who] \in {client[who], "gone"}
  BY <1>1, HandlerTurn DEF GoesOn, GivesUp, TypeOK
<1>3. /\ \A i \in DOMAIN backlog : backlog[i] \in Clients /\ backlog[i] # who
      /\ client[who] \notin {"new", "connecting"}
  <2>1. \A i \in DOMAIN backlog : backlog[i] \in Clients
    BY <1>1 DEF TypeOK
  <2>2. client[who] # "gone" => client[who] \in {"connected", "closing"}
    BY <1>1 DEF TypeOK
  <2> QED BY <1>1, <2>1, <2>2 DEF QueueInv
<1>4. \A c \in Clients : client'[c] = "connecting" => \E i \in DOMAIN backlog' : backlog'[i] = c
  BY <1>1, <1>2, <1>3 DEF TurnInv
<1>5. \A i \in DOMAIN backlog' : client'[backlog'[i]] = "gone" => EndsFin(backlog[i])'
  BY <1>1, <1>2, <1>3 DEF TurnInv, EndsFin
<1>6. CASE GoesOn
  <2>1. inbox'[who] = Tail(inbox[who]) /\ inbox[who] # <<>>
    BY <1>1, <1>6 DEF GoesOn, TypeOK
  <2>2. CASE Len(inbox[who]) = 1 /\ EndsFin(who)
    <3>1. Head(inbox[who]).kind = "fin"
      BY <1>1, <2>1, <2>2 DEF EndsFin
    <3> QED BY <1>4, <1>5, <1>6, <3>1 DEF GoesOn, TurnInv, Served
  <2>3. CASE Len(inbox[who]) > 1 /\ EndsFin(who)
    <3>1. Len(Tail(inbox[who])) > 0 /\ Tail(inbox[who])[Len(Tail(inbox[who]))] = inbox[who][Len(inbox[who])]
      BY <1>1, <2>3, TailKeepsLast
    <3> QED BY <1>4, <1>5, <1>6, <2>1, <2>3, <3>1 DEF GoesOn, TurnInv, Served, EndsFin
  <2>4. CASE ~EndsFin(who)
    <3>1. client[who] # "gone"
      BY <1>1, <1>6, <2>4, ReadsBeforeTheEnd DEF GoesOn, Served
    <3> QED BY <1>4, <1>5, <1>6, <3>1 DEF GoesOn, TurnInv, Served
  <2>5. EndsFin(who) => Len(inbox[who]) = 1 \/ Len(inbox[who]) > 1
    <3> DEFINE n == Len(inbox[who])
    <3>1. n \in Nat /\ (EndsFin(who) => n > 0)
      BY <1>1 DEF EndsFin
    <3> HIDE DEF n
    <3>2. EndsFin(who) => n = 1 \/ n > 1
      BY <3>1
    <3> QED BY <3>2 DEF n
  <2> QED BY <2>2, <2>3, <2>4, <2>5
<1>7. CASE GivesUp
  BY <1>4, <1>5, <1>7 DEF GivesUp, TurnInv
<1> QED BY <1>6, <1>7, HandlerTurn

LEMMA TurnStep == IInv /\ TurnInv /\ [Next]_vars => TurnInv'
<1> SUFFICES ASSUME IInv, TurnInv, [Next]_vars PROVE TurnInv'
  OBVIOUS
<1>0. /\ TypeOK /\ QueueInv /\ backlog \in Seq(Clients) /\ NoClient \notin Clients
      /\ client \in [Clients -> {"new", "connecting", "connected", "closing", "gone"}]
      /\ inbox \in [Clients -> Seq(Frame)]
      /\ \A i \in DOMAIN backlog : backlog[i] \in Clients
      /\ srv \in {"auth", "serving"} => who \in Clients
  BY MockServerConstants DEF IInv, TypeOK
<1>1. CASE Accept
  <2> DEFINE c0 == Head(backlog)
  <2>1. /\ backlog # <<>> /\ c0 = backlog[1] /\ c0 \in Clients /\ 1 \in DOMAIN backlog
        /\ backlog' = Tail(backlog) /\ inbox' = inbox /\ ws' = "Active"
        /\ \A i \in DOMAIN backlog' : i + 1 \in DOMAIN backlog /\ backlog'[i] = backlog[i + 1]
        /\ \A i \in DOMAIN backlog : i = 1 \/ (i - 1 \in DOMAIN backlog' /\ backlog'[i - 1] = backlog[i])
    BY <1>0, <1>1 DEF Accept
  <2>2. \A c \in Clients : c # c0 => client'[c] = client[c]
    BY <1>0, <1>1, <2>1 DEF Accept
  <2>3. \A i \in DOMAIN backlog' : backlog'[i] \in Clients /\ backlog'[i] # c0
    BY <1>0, <2>1 DEF QueueInv
  <2>4. client'[c0] # "connecting"
    BY <1>0, <1>1, <2>1 DEF Accept
  <2>5. \A c \in Clients : client'[c] = "connecting" => \E i \in DOMAIN backlog' : backlog'[i] = c
    BY <2>1, <2>2, <2>4 DEF TurnInv
  <2>6. \A i \in DOMAIN backlog' : client'[backlog'[i]] = "gone" => EndsFin(backlog[i])'
    BY <2>1, <2>2, <2>3 DEF TurnInv, EndsFin
  <2>7. srv' \in {"auth", "serving"} => Served'
    <3>1. srv' \in {"auth", "serving"} => who' = c0 /\ (client'[c0] = "gone" => client[c0] = "gone")
      BY <1>0, <1>1, <2>1 DEF Accept
    <3>2. client[c0] = "gone" => EndsFin(c0)
      BY <2>1 DEF TurnInv
    <3> QED BY <2>1, <3>1, <3>2 DEF Served, EndsFin
  <2> QED BY <2>5, <2>6, <2>7 DEF TurnInv
<1>2. CASE EchoServer \/ AuthServer
  BY <1>2, HandlerKeepsTurn
<1>3. ASSUME NEW c \in Clients, Connect(c) PROVE TurnInv'
  <2>1. /\ client[c] = "new" /\ UNCHANGED <<srv, who, ws, inbox>>
        /\ \A d \in Clients : client'[d] = IF d = c THEN "connecting" ELSE client[d]
    BY <1>0, <1>3 DEF Connect, connection
  <2>2. /\ DOMAIN backlog' = 1..(Len(backlog) + 1) /\ DOMAIN backlog = 1..Len(backlog) /\ Len(backlog) \in Nat
        /\ backlog'[Len(backlog) + 1] = c /\ \A i \in 1..Len(backlog) : backlog'[i] = backlog[i]
    BY <1>0, <1>3 DEF Connect
  <2>3. \A d \in Clients : client'[d] = "connecting" => \E i \in DOMAIN backlog' : backlog'[i] = d
    BY <2>1, <2>2 DEF TurnInv
  <2>4. \A i \in DOMAIN backlog' : client'[backlog'[i]] = "gone" => EndsFin(backlog[i])'
    <3> TAKE i \in DOMAIN backlog'
    <3>1. i = Len(backlog) + 1 \/ (i \in DOMAIN backlog /\ backlog'[i] = backlog[i])
      BY <2>2
    <3> QED BY <1>0, <2>1, <2>2, <3>1 DEF TurnInv, EndsFin
  <2>5. srv' \in {"auth", "serving"} => Served'
    BY <1>0, <2>1 DEF TurnInv, Served, EndsFin
  <2> QED BY <2>3, <2>4, <2>5 DEF TurnInv
<1>4. ASSUME NEW c \in Clients, Leave(c) PROVE TurnInv'
  <2>1. /\ UNCHANGED <<srv, who, ws, backlog>>
        /\ \A d \in Clients : /\ client'[d] = IF d = c THEN "gone" ELSE client[d]
                              /\ d # c => inbox'[d] = inbox[d]
    BY <1>0, <1>4 DEF Leave, connection
  <2>2. EndsFin(c)'
    <3> DEFINE f == [kind |-> "fin", n |-> messages[c]]
    <3>1. inbox'[c] = Append(inbox[c], f) /\ inbox[c] \in Seq(Frame)
      BY <1>0, <1>4 DEF Leave
    <3>2. f \in Frame
      BY MockServerConstants DEF Frame, IInv, TypeOK
    <3>3. f.kind = "fin"
      OBVIOUS
    <3> HIDE DEF f
    <3> QED BY <3>1, <3>2, <3>3 DEF EndsFin
  <2>3. \A d \in Clients : EndsFin(d) => EndsFin(d)'
    BY <2>1, <2>2 DEF EndsFin
  <2> QED BY <1>0, <2>1, <2>2, <2>3 DEF TurnInv, Served
<1>5. ASSUME NEW c \in Clients, NEW kind \in Kinds, SendFrame(c, kind) PROVE TurnInv'
  <2>1. /\ client[c] = "connected" /\ UNCHANGED <<srv, who, ws, backlog>>
        /\ client'[c] \in {"connected", "closing"}
        /\ \A d \in Clients : d # c => client'[d] = client[d] /\ inbox'[d] = inbox[d]
    BY <1>0, <1>5 DEF SendFrame, connection
  <2> QED BY <1>0, <2>1 DEF TurnInv, Served, EndsFin
<1>6. CASE UNCHANGED vars
  BY <1>6 DEF TurnInv, Served, EndsFin, vars, connection, clients
<1> QED BY <1>1, <1>2, <1>3, <1>4, <1>5, <1>6 DEF Next, Server

\* A client that waits to be accepted waits for a server that has ended, for a step the
\* server task can take by itself, or for the client before it, which is still there: a
\* client that vanished, in line or while it was served, holds nobody up, since its
\* handler still has the end of its stream to read (get_mock_address and the handlers'
\* read loops in mock_server.rs).
THEOREM VanishedHoldNobodyUp ==
  Spec => [](\A c \in Clients : client[c] = "connecting" =>
               srv \in {"exited", "panicked"} \/ CanGoOn \/ client[who] \in {"connected", "closing"})
<1>1. Init => TurnInv
  BY DEF Init, TurnInv
<1>2. IInv /\ TurnInv => \A c \in Clients : client[c] = "connecting" =>
        srv \in {"exited", "panicked"} \/ CanGoOn \/ client[who] \in {"connected", "closing"}
  <2> SUFFICES ASSUME IInv, TurnInv, NEW c \in Clients, client[c] = "connecting"
               PROVE  srv \in {"exited", "panicked"} \/ CanGoOn \/ client[who] \in {"connected", "closing"}
    OBVIOUS
  <2>1. /\ srv \in {"accepting", "auth", "serving", "exited", "panicked"}
        /\ srv \in {"auth", "serving"} =>
             who \in Clients /\ (client[who] # "gone" => client[who] \in {"connected", "closing"})
    BY DEF IInv, TypeOK
  <2>2. CASE srv = "accepting"
    <3>1. PICK i \in DOMAIN backlog : backlog[i] = c
      BY DEF TurnInv
    <3>2. backlog # <<>>
      BY <3>1
    <3> QED BY <2>2, <3>2 DEF CanGoOn
  <2>3. CASE srv \in {"auth", "serving"}
    <3>1. EndsFin(who) => inbox[who] # <<>>
      BY DEF EndsFin
    <3> QED BY <2>1, <2>3, <3>1 DEF TurnInv, Served, CanGoOn
  <2> QED BY <2>1, <2>2, <2>3
<1> QED BY <1>1, <1>2, Invariance, TurnStep, PTL DEF Spec

================================================================================
