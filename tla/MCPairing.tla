------------------------------ MODULE MCPairing ------------------------------
(* Small instances of Pairing for TLC. *)
EXTENDS Pairing

CONSTANTS v1, v2, d1, d2, a, b
=============================================================================
