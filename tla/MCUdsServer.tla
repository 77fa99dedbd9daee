---------------------------- MODULE MCUdsServer ----------------------------
(* UdsServer for TLC.  Liveness rules out symmetry. *)
EXTENDS UdsServer
=============================================================================
