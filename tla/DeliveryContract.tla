---------------------------- MODULE DeliveryContract ---------------------------
(***************************************************************************)
(* What the receive path of a connection promises its consumer, with no    *)
(* loop, no select and no keepalive: frames arrive in order, a bounded     *)
(* number of them waits, the end of the connection is reported only after  *)
(* everything that can still be received has been, and an abnormal end     *)
(* takes at most the newest frame with it.                                 *)
(***************************************************************************)
EXTENDS Integers, Sequences

CONSTANT Capacity    \* frames the client side may hold for the consumer

VARIABLES
    deliverable,   \* frames taken off the connection that can reach the consumer
    delivered,     \* frames the consumer has got, in order
    phase,         \* "open", "stopped" or "abandoned" (the consumer is gone)
    told           \* has the consumer been told of the end?

cvars == <<deliverable, delivered, phase, told>>

Init == deliverable = 0 /\ delivered = <<>> /\ phase = "open" /\ told = FALSE

Accept ==
    /\ phase = "open" /\ deliverable - Len(delivered) < Capacity
    /\ deliverable' = deliverable + 1
    /\ UNCHANGED <<delivered, phase, told>>

Deliver ==
    /\ phase # "abandoned" /\ Len(delivered) < deliverable
    /\ delivered' = Append(delivered, Len(delivered) + 1)
    /\ UNCHANGED <<deliverable, phase, told>>

\* A graceful close loses nothing; any other end may lose the newest frame.
Stop ==
    /\ phase = "open"
    /\ phase' = "stopped"
    /\ deliverable' \in {deliverable, deliverable - 1} /\ deliverable' >= Len(delivered)
    /\ UNCHANGED <<delivered, told>>

Tell ==
    /\ phase = "stopped" /\ Len(delivered) = deliverable
    /\ told' = TRUE
    /\ UNCHANGED <<deliverable, delivered, phase>>

Abandon ==
    /\ phase # "abandoned"
    /\ phase' = "abandoned" /\ deliverable' = Len(delivered)
    /\ UNCHANGED <<delivered, told>>

Next == Accept \/ Deliver \/ Stop \/ Tell \/ Abandon

Spec == Init /\ [][Next]_cvars
================================================================================
