----------------------------- MODULE MCWorkerRun -----------------------------
(* One task with two runs, one crash and one cleanup job.                  *)
EXTENDS WorkerRun

CONSTANTS t1, repo
=============================================================================
