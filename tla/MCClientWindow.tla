---------------------------- MODULE MCClientWindow ----------------------------
(* Small instances of ClientWindow for TLC. *)
EXTENDS ClientWindow, TLC

CONSTANTS f1, f2, f3
=============================================================================
