----------------------------- MODULE MCCliPool -----------------------------
(* CliPool with small sets of pools, jobs and prompts. *)
EXTENDS CliPool

CONSTANTS p1, q1, q2

Both   == BOOLEAN
AllOps == {"reset", "resume", "switch"}
=============================================================================
