------------------------- MODULE MCReconciliationSweep -----------------------
(* Instances of ReconciliationSweep for TLC.                                 *)
EXTENDS ReconciliationSweep

CONSTANTS t1, t2, p1, p2

\* t1 has the higher priority and needs a capability only p1 has.
MCTasks == {t1, t2}
MCOnePool == {p1}
MCMaxConcurrency == [p \in Pools |-> 2]
MCRequired == [t \in Tasks |-> IF t = t1 THEN {"gpu"} ELSE {}]
MCCapabilities == [p \in Pools |-> IF p = p1 THEN {"gpu"} ELSE {}]
MCRank == [t \in Tasks |-> IF t = t1 THEN 1 ELSE 2]
\* t2 waits for t1.
MCChain == {<<t2, t1>>}
=============================================================================
