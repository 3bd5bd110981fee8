------------------------------ MODULE MCOverlaps ------------------------------
(* Small instances of PipelineOverlaps. *)
EXTENDS PipelineOverlaps, TLC

CONSTANTS api, scheduler, m1, j1

\* A run-now request served by an API worker next to a job of the scheduler.
MixedProcOf == (m1 :> api) @@ (j1 :> scheduler)
=============================================================================
