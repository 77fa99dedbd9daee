---------------------------- MODULE MCClaudeSend ----------------------------
(* ClaudeSend for TLC. *)
EXTENDS ClaudeSend
=============================================================================
