-------------------------- MODULE MCMergePipeline --------------------------
(* Instances of MergePipeline for TLC.                                     *)
EXTENDS MergePipeline, TLC

CONSTANTS t1, t2, v1, v2

MCTasks == {t1, t2}
\* Interchangeable: no constant tells two tasks or two runs apart.
MCSymmetry == Permutations({t1, t2}) \cup Permutations({v1, v2})
MCRuns == {v1, v2}
=============================================================================
