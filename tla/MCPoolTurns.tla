----------------------------- MODULE MCPoolTurns -----------------------------
(***************************************************************************)
(* PoolTurns for TLC.  The configurations fix the bounds and the pool's     *)
(* settings; messages are numbered, so there is nothing to symmetrise.      *)
(***************************************************************************)
EXTENDS PoolTurns
=============================================================================
