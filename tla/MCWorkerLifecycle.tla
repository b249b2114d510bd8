------------------------- MODULE MCWorkerLifecycle -------------------------
(* Instances of WorkerLifecycle for TLC.                                   *)
EXTENDS WorkerLifecycle

CONSTANTS t1, t2, p1, p2

\* t1 has the higher priority and needs a capability only p1 has.
MCTasks == {t1, t2}
MCT1 == {t1}
MCPools == {p1, p2}
MCOnePool == {p1}
MCMaxConcurrency == [p \in Pools |-> 1]
MCRequired == [t \in Tasks |-> IF t = t1 THEN {"gpu"} ELSE {}]
MCCapabilities == [p \in Pools |-> IF p = p1 THEN {"gpu"} ELSE {}]
MCRank == [t \in Tasks |-> IF t = t1 THEN 1 ELSE 2]
\* The tasks independent, and t2 waiting for t1.
MCIndependent == {}
MCChain == {<<t2, t1>>}
=============================================================================
