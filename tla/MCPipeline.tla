----------------------------- MODULE MCPipeline -----------------------------
(* Small instances of Pipeline. *)
EXTENDS Pipeline

\* Every worker consumes the queue of every job.
SharedRoute == [w \in Workers |-> Jobs]
=============================================================================
