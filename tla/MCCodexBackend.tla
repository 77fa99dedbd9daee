--------------------------- MODULE MCCodexBackend ---------------------------
(* CodexBackend for TLC: model values for the invocations and threads. *)
EXTENDS CodexBackend, TLC

Symmetry == Permutations(Delivers) \cup Permutations(Threads)
=============================================================================
