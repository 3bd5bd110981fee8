----------------------------- MODULE MCRunEffects -----------------------------
(* A small instance of RunEffects: two docs with a remote each.  Which of the  *)
(* docs is which makes no difference as long as its remote goes with it.       *)
EXTENDS RunEffects, TLC

CONSTANTS s1, s2, origin, other

TwoRemotes == [s \in Sources |-> IF s = s1 THEN origin ELSE other]

Symmetry ==
    {p \in Permutations(Sources \cup Remotes) :
        \A s \in Sources : p[s] \in Sources /\ p[TwoRemotes[s]] = TwoRemotes[p[s]]}
=============================================================================
