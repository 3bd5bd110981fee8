------------------------------ MODULE MCRetention ------------------------------
(* Small instances of Retention. *)
EXTENDS Retention, TLC

Symmetry == Permutations(Sources)
=============================================================================
