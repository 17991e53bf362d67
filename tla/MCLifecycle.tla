------------------------------ MODULE MCLifecycle ------------------------------
(* Lifecycle for TLC: tasks and handlers are interchangeable.            *)
EXTENDS Lifecycle, TLC

Symmetry == Permutations(Handles) \cup Permutations(Handlers)
================================================================================
