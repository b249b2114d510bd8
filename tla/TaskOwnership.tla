---------------------------- MODULE TaskOwnership ----------------------------
(***************************************************************************)
(* What the lease mechanism promises, without leases, jobs, workers or     *)
(* callbacks: a task is granted to one pool at a time, a grant is worked   *)
(* on by one worker and only once, and a grant is given back only when its *)
(* worker ends.  A restart of the control plane ends all work and gives    *)
(* nothing back.                                                           *)
(*                                                                         *)
(* grant[t]  the grants of task t: none, or one with its pool and stage    *)
(*           ("granted", "working", "over")                                *)
(***************************************************************************)
EXTENDS Naturals, FiniteSets

CONSTANTS Tasks, Pools, MaxConcurrency

VARIABLE grant

Grant(p, stage) == [pool |-> p, stage |-> stage]

\* The tasks granted to a pool.
Held(p) == {t \in Tasks : \E g \in grant[t] : g.pool = p}

Init == grant = [t \in Tasks |-> {}]

Give(t, p) ==
  /\ grant[t] = {}
  /\ Cardinality(Held(p)) < MaxConcurrency[p]
  /\ grant' = [grant EXCEPT ![t] = {Grant(p, "granted")}]

Begin(t, p) ==
  /\ grant[t] = {Grant(p, "granted")}
  /\ grant' = [grant EXCEPT ![t] = {Grant(p, "working")}]

\* The work ends; its failure may give the task back.
Finish(t, p) ==
  /\ grant[t] = {Grant(p, "working")}
  /\ \/ grant' = [grant EXCEPT ![t] = {Grant(p, "over")}]
     \/ grant' = [grant EXCEPT ![t] = {}]

Restart ==
  grant' = [t \in Tasks |->
              {IF g.stage = "working" THEN Grant(g.pool, "over") ELSE g : g \in grant[t]}]

Next ==
  \/ \E t \in Tasks, p \in Pools : Give(t, p) \/ Begin(t, p) \/ Finish(t, p)
  \/ Restart

Spec == Init /\ [][Next]_grant
=============================================================================
