------------------------------- MODULE WebSocket -------------------------------
(***************************************************************************)
(* The tokio-tungstenite connection the crate drives, reduced to what the  *)
(* socket loop can tell apart: whether a write is accepted, and what the   *)
(* read side yields.  The library is not part of the repository; these     *)
(* operators say how src/socket_loop.rs and src/handler.rs use it.         *)
(***************************************************************************)

\* WebSocketState of the library, and "Terminated": the read side has ended.
WsStates == {"Active", "ClosedByUs", "ClosedByPeer", "CloseAcknowledged", "Terminated"}

\* The results sink.send can have.  Once a Close frame has been sent or read every
\* write is refused (SendAfterClosing).  A write to a peer that is gone may still be
\* buffered or may fail; after the read side has ended it depends on how it ended
\* (AlreadyClosed after the end of the stream, accepted after a malformed frame).
SendOutcomes(ws, gone) ==
    CASE ws = "Active" -> IF gone THEN {TRUE, FALSE} ELSE {TRUE}
      [] ws = "Terminated" -> {TRUE, FALSE}
      [] OTHER -> {FALSE}

\* sink.close after the peer's Close frame only flushes the queued reply.
CloseOutcomes(gone) == IF gone THEN {TRUE, FALSE} ELSE {TRUE}

\* Writing a Close frame, successfully or not.
AfterSendClose(ws) == IF ws = "Active" THEN "ClosedByUs" ELSE ws

\* Reading the peer's Close frame.
AfterRecvClose(ws) == IF ws = "ClosedByUs" THEN "CloseAcknowledged" ELSE "ClosedByPeer"

\* Does the end of the TCP stream come before the closing handshake?  If so the
\* read side yields an error, otherwise it just ends.
ResetWithoutClosingHandshake(ws) == ws \in {"Active", "ClosedByUs"}
================================================================================
