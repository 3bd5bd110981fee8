----------------------------- MODULE MCMemberships -----------------------------
(* Small instances of Memberships; requests are interchangeable. *)
EXTENDS Memberships, TLC

CONSTANTS u1, u2, o1, o2, r1, r2

TwoHomes == [u \in Users |-> IF u = u1 THEN o1 ELSE o2]
Symmetry == Permutations(Requests)
=============================================================================
