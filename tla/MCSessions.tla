------------------------------ MODULE MCSessions ------------------------------
(* Small instances of Sessions; requests are interchangeable. *)
EXTENDS Sessions, TLC

CONSTANTS u, home, r1, r2

OneHome == [x \in Users |-> home]
Symmetry == Permutations(Requests)
=============================================================================
