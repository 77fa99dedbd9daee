------------------------------ MODULE MCWsConn -----------------------------
(* WsConn for TLC: symmetry of the callers. *)
EXTENDS WsConn

Symmetry == Permutations(Callers)
=============================================================================
