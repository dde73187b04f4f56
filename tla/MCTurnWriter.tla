--------------------------- MODULE MCTurnWriter ---------------------------
(* The turn writer with a short stream: TLC instance. *)
EXTENDS TurnWriter
=============================================================================
