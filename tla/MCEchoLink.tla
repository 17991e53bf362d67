------------------------------- MODULE MCEchoLink ------------------------------
(* EchoLink for TLC: sends are interchangeable.                            *)
EXTENDS EchoLink, TLC

Symmetry == Permutations(Sends)
================================================================================
