---------------------------- MODULE MCCodexSend ----------------------------
(* CodexSend for TLC. *)
EXTENDS CodexSend
=============================================================================
