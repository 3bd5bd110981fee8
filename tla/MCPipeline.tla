------------------------------ MODULE MCPipeline ------------------------------
(* Small instances of Pipeline. *)
EXTENDS Pipeline, TLC

CONSTANTS api, scheduler, m1, j1, j2

\* Two interval jobs of the scheduler process.
JobProcOf == [t \in {j1, j2} |-> scheduler]

\* A run-now request served by an API worker next to a job of the scheduler.
MixedProcOf == (m1 :> api) @@ (j1 :> scheduler)
=============================================================================
