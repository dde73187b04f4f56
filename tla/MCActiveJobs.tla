--------------------------- MODULE MCActiveJobs ---------------------------
(* ActiveJobs with model values for the jobs. *)
EXTENDS ActiveJobs

CONSTANTS t1, l1
=============================================================================
