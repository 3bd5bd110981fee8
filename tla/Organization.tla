------------------------------ MODULE Organization ------------------------------
(* What the modules about one organization share. *)
EXTENDS Naturals, Sequences

CONSTANT Sources    \* its sources: a source has one doc and one run at a time
=============================================================================
