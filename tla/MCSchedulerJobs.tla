---------------------------- MODULE MCSchedulerJobs ----------------------------
(* A small instance of SchedulerJobs; sources are interchangeable, and so are  *)
(* calls.                                                                      *)
EXTENDS SchedulerJobs, TLC

CONSTANTS s1, s2, c1, c2

Symmetry == Permutations(Sources) \cup Permutations(Callers)
=============================================================================
