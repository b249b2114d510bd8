------------------------ MODULE ReconciliationSweep ------------------------
(***************************************************************************)
(* The reconciliation sweep of packages/application composed with the      *)
(* control plane of WorkerLifecycle.  No application of the repository     *)
(* constructs the sweep service; this module runs it in the event loop of  *)
(* the control plane, the way its documentation describes.                 *)
(*                                                                         *)
(* Clocks are abstracted: a lease may be found stale, a claimed job        *)
(* orphaned or an ASSIGNED task stuck at any sweep, also when the worker   *)
(* is merely slow.                                                         *)
(***************************************************************************)
EXTENDS WorkerLifecycle

VARIABLES
  sweep,      \* status of the one non-terminal RECONCILIATION_SWEEP job
  sweepStep   \* how far the sweep in progress is (in memory)

sweepVars == <<sweep, sweepStep>>
allVars == <<vars, sweepVars>>

-----------------------------------------------------------------------------
(* processSweep, one committed step after the other                        *)

\* The sweep job is claimed when it is due.
ClaimSweep ==
  /\ phase = "idle" /\ sweepStep = "idle"
  /\ sweep = "PENDING"
  /\ sweep' = "CLAIMED" /\ sweepStep' = "leases"
  /\ UNCHANGED vars

\* Fault: a lease whose worker never sent a heartbeat is not looked at.
StaleCandidatesFault ==
  {l \in LeaseIds : leaseStatus[l] \in {"LEASED", "RUNNING", "HEARTBEATING"}}

\* findStaleLeases: past the TTL, or (processing states) without heartbeat.
StaleCandidates ==
  {l \in LeaseIds : leaseStatus[l] \in {"LEASED"} \cup ProcessingStates}

\* Fault: the reclaim moves the task whatever its status.
TasksMovedByFault(reclaimed) ==
  {t \in Tasks : \E l \in reclaimed : leaseTask[l] = t}

\* The tasks the reclaims of these leases move.
TasksMovedBy(reclaimed) ==
  {t \in Tasks : /\ status[t] \in ReclaimEligibleTaskStates
                 /\ \E l \in reclaimed : leaseTask[l] = t}

\* sweepStaleLeases: each stale lease is reclaimed on its own; the rejection
\* of a LEASED one is recorded as an error.  A task has one active lease at
\* most, so no two of these reclaims meet at a task.
SweepStaleLeases(stale) ==
  LET reclaimed ==
        {l \in stale : ReclaimCommits(l, "TIMED_OUT", {"heartbeatTimedOut"})}
      hit == TasksMovedBy(reclaimed)
  IN  /\ sweepStep = "leases"
      /\ leaseStatus' = [l \in LeaseIds |->
           IF l \in reclaimed THEN "TIMED_OUT" ELSE leaseStatus[l]]
      /\ status' = [t \in Tasks |-> IF t \in hit
           THEN ReclaimTarget(retryCount[t], HasFailureSummary)
           ELSE status[t]]
      /\ retryCount' = [t \in Tasks |-> IF t \in hit
           THEN ReclaimRetryCount(retryCount[t], HasFailureSummary)
           ELSE retryCount[t]]
      /\ currentLeaseId' = [t \in Tasks |->
           IF t \in hit THEN NoLease ELSE currentLeaseId[t]]
      /\ sweepStep' = "jobs"
      /\ UNCHANGED <<leaseTask, leasePool, workerVars, tick, paused, loopVars,
                     sweep>>

\* sweepOrphanedJobs: claimed dispatch and tick jobs past the deadline fail.
\* A failed tick job has no successor.
SweepOrphanedJobs ==
  /\ sweepStep = "jobs"
  /\ \E orphans \in SUBSET {l \in LeaseIds : job[l] = "CLAIMED"} :
       job' = [l \in LeaseIds |-> IF l \in orphans THEN "FAILED" ELSE job[l]]
  /\ tick' \in {tick} \cup (IF tick = "CLAIMED" THEN {"none"} ELSE {})
  /\ sweepStep' = "tasks"
  /\ UNCHANGED <<taskVars, leaseVars, worker, run, paused, loopVars, sweep>>

\* findStuckAssignedTasks: ASSIGNED for too long, and the current lease is
\* missing or has no running worker.
StuckCandidates ==
  {t \in Tasks :
     /\ status[t] = "ASSIGNED"
     /\ \/ currentLeaseId[t] = NoLease
        \/ leaseStatus[currentLeaseId[t]] \notin ProcessingStates}

\* sweepStuckTasks: back to READY; leases and currentLeaseId stay.
SweepStuckTasks(stuck) ==
  /\ sweepStep = "tasks"
  /\ status' = [t \in Tasks |->
       IF /\ t \in stuck
          /\ ValidateTransition(status[t], "READY",
                                {"leaseReclaimedRetryEligible"})
       THEN "READY" ELSE status[t]]
  /\ sweepStep' = "blocked"
  /\ UNCHANGED <<currentLeaseId, retryCount, leaseVars, workerVars, tick,
                 paused, loopVars, sweep>>

\* sweepBlockedTasks: BLOCKED tasks whose dependencies are met become READY.
Unblockable == {t \in Tasks : status[t] = "BLOCKED" /\ IsReady(t)}

SweepBlockedTask(t) ==
  /\ sweepStep = "blocked" /\ t \in Unblockable
  /\ TransitionTask(t, "READY", {"allDependenciesResolved"})
  /\ UNCHANGED <<leaseVars, workerVars, tick, paused, loopVars, sweepVars>>

CompleteSweep ==
  /\ sweepStep = "blocked" /\ Unblockable = {}
  /\ sweep' = "none" /\ sweepStep' = "reschedule"
  /\ UNCHANGED vars

CreateNextSweep ==
  /\ sweepStep = "reschedule"
  /\ sweep' = "PENDING" /\ sweepStep' = "idle"
  /\ UNCHANGED vars

-----------------------------------------------------------------------------
(* Specification                                                           *)

\* ReconciliationSweepService.initialize, at every start.
InitializeSweep == sweep' = IF sweep = "none" THEN "PENDING" ELSE sweep

SweepInit == Init /\ sweep = "PENDING" /\ sweepStep = "idle"

SweepStepTaken ==
  \/ ClaimSweep
  \/ \E stale \in SUBSET StaleCandidates : SweepStaleLeases(stale)
  \/ SweepOrphanedJobs
  \/ \E stuck \in SUBSET StuckCandidates : SweepStuckTasks(stuck)
  \/ (\E t \in Tasks : SweepBlockedTask(t)) \/ CompleteSweep \/ CreateNextSweep

\* The event loop runs a sweep or another callback, never both.
SweepNext ==
  \/ SweepStepTaken
  \/ sweepStep = "idle" /\ Step /\ UNCHANGED sweepVars
  \/ CrashAndRestart /\ InitializeSweep /\ sweepStep' = "idle"

SweepSpec == SweepInit /\ [][SweepNext]_allVars

\* Leases without a live run become stale sooner or later.
LostLeases == {l \in StaleCandidates : run[l] = "none" /\ job[l] # "PENDING"}

\* The event loop finishes the callback it is in, the sweep job comes due,
\* and the sweep then runs to its end.
SweepFairness ==
  /\ WF_allVars(/\ sweepStep = "idle" /\ (AutomationCycle \/ Settlement)
                /\ UNCHANGED sweepVars)
  /\ SF_allVars(ClaimSweep)
  /\ WF_allVars(SweepStepTaken)
  /\ SF_allVars(\E stale \in SUBSET StaleCandidates :
                  LostLeases \subseteq stale /\ SweepStaleLeases(stale))

FairSweepSpec == SweepSpec /\ SweepFairness

-----------------------------------------------------------------------------
(* Properties                                                              *)

\* A processing lease whose run was lost in a crash is reclaimed in the end,
\* unless the sweep job itself was lost in a crash.
LostRunReclaimed ==
  \A l \in LeaseIds :
    (leaseStatus[l] \in ProcessingStates /\ run[l] = "none") ~>
      \/ ~IsActive(l) \/ leaseStatus[l] = "COMPLETING"
      \/ sweep = "CLAIMED" /\ sweepStep = "idle"

\* A task the operator paused, and a terminal task, are not moved by a sweep.
SweepLeavesFrozenTasks ==
  [][\A t \in Tasks :
       status[t] \in TerminalStates \cup {"ESCALATED"} /\ sweepStep # "idle" =>
         status'[t] = status[t]]_allVars
=============================================================================
