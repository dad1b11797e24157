------------------------------- MODULE MCPiHost -------------------------------
(* Small instances of PiHost for TLC. *)
EXTENDS PiHost, TLC
=============================================================================
