------------------------- MODULE MCOperatorConsole -------------------------
(* Small instances of OperatorConsole for TLC. *)
EXTENDS OperatorConsole, TLC

CONSTANTS o1, o2, o3

AllFlows == DOMAIN Flow
=============================================================================
