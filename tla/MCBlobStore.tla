---------------------------- MODULE MCBlobStore ----------------------------
(* BlobStore with model values for processes and contents. *)
EXTENDS BlobStore

CONSTANTS server, sweeper, c1, c2
=============================================================================
