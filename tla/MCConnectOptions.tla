--------------------------- MODULE MCConnectOptions ----------------------------
(* ConnectOptions for TLC; the constants are strings and model values.     *)
EXTENDS ConnectOptions
================================================================================
