---------------------------- MODULE MCTaskBacklog ----------------------------
(* One project with two repositories; an import of two tasks of which the *)
(* second waits for the first; into the other repository, an import of one *)
(* task that names a reference the repository may lack, and one of two     *)
(* tasks that wait for each other.                                         *)
EXTENDS TaskBacklog

CONSTANT none

Item(ref, deps, status) ==
  [ref |-> ref, dependencies |-> deps, status |-> status]
Request(repository, items) ==
  [project |-> "p", repository |-> repository, tasks |-> items]
MCRequests ==
  {Request("r1", <<Item("A", {}, "BACKLOG"), Item("B", {"A"}, "BACKLOG")>>),
   Request("r2", <<Item("A", {"B"}, "DONE")>>),
   Request("r2", <<Item("A", {"B"}, "BACKLOG"), Item("B", {"A"}, "BACKLOG")>>)}
MCEdgeKinds == {<<"blocks", TRUE>>, <<"relates_to", FALSE>>}
MCBatches == {<<"A", none>>}
=============================================================================
