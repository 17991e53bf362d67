----------------------------- MODULE MCSocketLoop ------------------------------
(***************************************************************************)
(* SocketLoop for TLC.  Calls are model values.                            *)
(***************************************************************************)
EXTENDS SocketLoop, TLC

\* Confirmed sends are interchangeable where all of them, or none, are Cancellable.
Symmetry == Permutations(Sends)

================================================================================
