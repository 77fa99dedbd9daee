-------------------------- MODULE MCClaudeDeliver --------------------------
(* ClaudeDeliver for TLC: the path in our environment. *)
EXTENDS ClaudeDeliver

MCEnvPath == <<1, 1>>
=============================================================================
