--------------------------- MODULE MCSessionTurns ---------------------------
(* The instances of SessionTurns: all constants are plain bounds. *)
EXTENDS SessionTurns
=============================================================================
