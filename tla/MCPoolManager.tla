---------------------------- MODULE MCPoolManager ----------------------------
(***************************************************************************)
(* PoolManager for TLC.  Scopes are interchangeable.                        *)
(***************************************************************************)
EXTENDS PoolManager, TLC

ScopeSymmetry == Permutations(Scopes)
=============================================================================
