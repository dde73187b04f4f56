----------------------------- MODULE MCOmpPool -----------------------------
(* OmpPool with model values for prompts and sessions. *)
EXTENDS OmpPool

CONSTANTS q1, q2, s1
=============================================================================
