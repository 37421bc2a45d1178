------------------------------ MODULE JobStatus ------------------------------
(***************************************************************************)
(* The vocabulary the worker process and the service share: the jobs, and  *)
(* the statuses a worker publishes for them.                               *)
(***************************************************************************)
CONSTANTS Jobs       \* rows of image_processing, each with its own S3 keys

Outcomes == {"PROCESSED", "FAILED"}
Statuses == {"PROCESSING"} \cup Outcomes
=============================================================================
