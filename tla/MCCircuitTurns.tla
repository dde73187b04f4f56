--------------------------- MODULE MCCircuitTurns ---------------------------
(* CircuitTurns for TLC: three turns answer in one piece, two as streams.    *)
EXTENDS CircuitTurns
=============================================================================
