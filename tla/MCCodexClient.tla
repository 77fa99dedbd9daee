--------------------------- MODULE MCCodexClient ---------------------------
(* CodexClient for TLC: model values for the goroutines. *)
EXTENDS CodexClient, TLC

Symmetry == Permutations(Calls)
=============================================================================
