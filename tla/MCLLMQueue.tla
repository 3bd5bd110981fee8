------------------------------ MODULE MCLLMQueue ------------------------------
(* Small instances of LLMQueue. *)
EXTENDS LLMQueue, TLC

Symmetry == Permutations(Callers)
=============================================================================
