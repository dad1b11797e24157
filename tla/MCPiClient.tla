------------------------------ MODULE MCPiClient ------------------------------
(* Small instances of PiClient for TLC. *)
EXTENDS PiClient, TLC

CONSTANTS t1, t2
=============================================================================
