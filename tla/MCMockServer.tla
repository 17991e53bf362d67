----------------------------- MODULE MCMockServer ------------------------------
(* MockServer for TLC.                                                     *)
EXTENDS MockServer
================================================================================
