-------------------------- MODULE MCServerLifecycle --------------------------
(* An instance of ServerLifecycle for TLC: one client, three clicks, which  *)
(* are a start, a stop and the start after it, or a start and a stop that   *)
(* overlap and a third click on what they leave.                            *)
EXTENDS ServerLifecycle

CONSTANT c1
=============================================================================
