----------------------- MODULE WorkerLifecycle_proofs -----------------------
(***************************************************************************)
(* Theorems about the control plane of WorkerLifecycle, and about its      *)
(* composition with the reconciliation sweep and the operator, for every   *)
(* set of tasks and pools, every policy and any number of leases, crashes  *)
(* and sweeps.                                                             *)
(***************************************************************************)
EXTENDS ReconciliationSweep, FiniteSetTheorems, TLAPS

-----------------------------------------------------------------------------
(* Type correctness                                                        *)

\* Every variable keeps its domain in every step of the control plane.
LEMMA TypeInductive == TypeOK /\ [Next]_vars => TypeOK'
<1> SUFFICES ASSUME TypeOK, [Next]_vars PROVE TypeOK'
  OBVIOUS
<1> USE LifecycleAssumption DEF TypeOK
<1>1. CASE StartCycle
  BY <1>1 DEF StartCycle, Goto, taskVars, leaseVars, workerVars, Phases, NoLease
<1>2. ASSUME NEW t \in Tasks, ReconcileTaskReadiness(t) PROVE TypeOK'
  BY <1>2 DEF ReconcileTaskReadiness, TransitionTask, ReadinessTarget,
              TaskStatuses, leaseVars, workerVars, loopVars
<1>3. CASE ClaimTick
  BY <1>3 DEF ClaimTick, Goto, taskVars, leaseVars, workerVars, Phases, NoLease
<1>4. CASE NoTick
  BY <1>4 DEF NoTick, Goto, taskVars, leaseVars, workerVars, Phases, NoLease
<1>5. CASE ScheduleNext
  <2>1. PICK t \in Tasks, p \in Pools, l \in LeaseIds :
          AcquireLease(t, p, l) /\ Goto("enqueue", l)
    BY <1>5 DEF ScheduleNext, Assignable, Candidates, BestPools, FreshLeases
  <2> QED
    BY <1>5, <2>1 DEF ScheduleNext, AcquireLease, Goto, workerVars, Phases,
                      TaskStatuses, WorkerLeaseStatuses
<1>6. CASE EnqueueDispatch
  BY <1>6 DEF EnqueueDispatch, Goto, taskVars, leaseVars, Phases, NoLease,
              JobStatuses
<1>7. CASE CompleteTick
  BY <1>7 DEF CompleteTick, Goto, taskVars, leaseVars, workerVars, Phases,
              NoLease
<1>8. CASE CreateNextTick
  BY <1>8 DEF CreateNextTick, Goto, taskVars, leaseVars, workerVars, Phases,
              NoLease
<1>9. CASE ClaimDispatch
  BY <1>9 DEF ClaimDispatch, Goto, taskVars, leaseVars, Phases, JobStatuses
<1>10. CASE NoDispatch
  BY <1>10 DEF NoDispatch, Goto, taskVars, leaseVars, workerVars, Phases,
               NoLease
<1>11. CASE RejectSpawn
  BY <1>11 DEF RejectSpawn, Goto, taskVars, leaseVars, Phases, NoLease,
               JobStatuses
<1>12. CASE SpawnWorker
  BY <1>12 DEF SpawnWorker, Goto, taskVars, leaseVars, Phases, NoLease,
               WorkerStatuses, RunStates
<1>13. ASSUME NEW l \in LeaseIds, StartRun(l) PROVE TypeOK'
  BY <1>13 DEF StartRun, taskVars, loopVars, WorkerLeaseStatuses,
               WorkerStatuses, RunStates
<1>14. ASSUME NEW l \in LeaseIds, Heartbeat(l) PROVE TypeOK'
  BY <1>14 DEF Heartbeat, ForwardHeartbeat, HeartbeatTarget, taskVars,
               workerVars, loopVars, WorkerLeaseStatuses
<1>15. ASSUME NEW l \in LeaseIds, SupervisorReclaim(l)
       PROVE  /\ status' \in [Tasks -> TaskStatuses]
              /\ currentLeaseId' \in [Tasks -> LeaseIds \cup {NoLease}]
              /\ retryCount' \in [Tasks -> Nat]
              /\ leaseStatus' \in [LeaseIds -> WorkerLeaseStatuses]
              /\ leaseTask' = leaseTask /\ leasePool' = leasePool
  BY <1>15 DEF SupervisorReclaim, ReclaimLease, ReclaimTarget,
               ReclaimRetryCount, taskVars, leaseVars, TaskStatuses,
               WorkerLeaseStatuses
<1>16. ASSUME NEW l \in LeaseIds, RunThrows(l) PROVE TypeOK'
  BY <1>15, <1>16 DEF RunThrows, Goto, WorkerStatuses, RunStates, Phases
<1>17. ASSUME NEW l \in LeaseIds, RunFails(l) PROVE TypeOK'
  BY <1>15, <1>17 DEF RunFails, Goto, WorkerStatuses, RunStates, Phases
<1>18. ASSUME NEW l \in LeaseIds, RunSucceeds(l) PROVE TypeOK'
  BY <1>18 DEF RunSucceeds, ForwardHeartbeat, HeartbeatTarget, Goto, taskVars,
               WorkerStatuses, RunStates, Phases, WorkerLeaseStatuses
<1>19. CASE FailJob
  BY <1>19 DEF FailJob, SettledAs, Goto, taskVars, leaseVars, Phases, NoLease,
               JobStatuses
<1>20. CASE SettleJob
  BY <1>20 DEF SettleJob, SettledAs, Goto, taskVars, leaseVars, Phases,
               NoLease, JobStatuses
<1>21. CASE CompleteJob
  BY <1>21 DEF CompleteJob, SettledAs, Goto, taskVars, leaseVars, Phases,
               NoLease, JobStatuses
<1>22. CASE DeliverResult
  BY <1>22 DEF DeliverResult, TryTransitionTask, TransitionTask, Goto,
               taskVars, leaseVars, workerVars, Phases, TaskStatuses
<1>23. CASE FinishDevelopment
  BY <1>23 DEF FinishDevelopment, TryTransitionTask, TransitionTask, Goto,
               taskVars, leaseVars, workerVars, Phases, TaskStatuses, NoLease
<1>24. ASSUME NEW t \in Tasks, OperatorStep(t) PROVE TypeOK'
  BY <1>24 DEF OperatorStep, Pause, Resume, Requeue, ForceUnblock, Cancel,
               MarkDone, Reopen, OperatorTransition, TransitionTask, leaseVars,
               workerVars, loopVars, TaskStatuses, NoLease
<1>25. CASE StartAutomation
  BY <1>25 DEF StartAutomation, taskVars, leaseVars, workerVars, loopVars
<1>26. CASE PauseAutomation
  BY <1>26 DEF PauseAutomation, taskVars, leaseVars, workerVars, loopVars
<1>27. CASE CrashAndRestart
  BY <1>27 DEF CrashAndRestart, InitializeTick, taskVars, leaseVars, RunStates,
               Phases, NoLease
<1>28. CASE UNCHANGED vars
  BY <1>28 DEF vars, taskVars, leaseVars, workerVars, loopVars
<1> QED
  BY <1>1, <1>2, <1>3, <1>4, <1>5, <1>6, <1>7, <1>8, <1>9, <1>10, <1>11,
     <1>12, <1>13, <1>14, <1>16, <1>17, <1>18, <1>19, <1>20, <1>21, <1>22,
     <1>23, <1>24, <1>25, <1>26, <1>27, <1>28
  DEF Next, Step, AutomationCycle, WorkerRun, RunEnds, Settlement

\* The imported database is well typed.
LEMMA InitTyped == Init => TypeOK
<1> SUFFICES ASSUME Init PROVE TypeOK
  OBVIOUS
<1>1. (CHOOSE t \in Tasks : TRUE) \in Tasks
  BY LifecycleAssumption
<1>2. (CHOOSE p \in Pools : TRUE) \in Pools
  BY LifecycleAssumption
<1> QED
  BY <1>1, <1>2 DEF Init, TypeOK, TaskStatuses, WorkerLeaseStatuses,
    JobStatuses, WorkerStatuses, RunStates, Phases, NoLease

\* TypeOK holds in every reachable state: no operation writes a status, a
\* lease reference or a counter outside its domain.
THEOREM TypeCorrect == Spec => []TypeOK
BY InitTyped, TypeInductive, PTL DEF Spec

-----------------------------------------------------------------------------
(* Ownership: the inductive invariant behind the safety properties         *)

\* An active lease is the current lease of its task.
ActiveIsCurrent ==
  \A l \in LeaseIds : IsActive(l) => currentLeaseId[leaseTask[l]] = l

\* A supervised run holds its lease until it ends.
RunHoldsLease ==
  \A l \in LeaseIds :
    /\ run[l] = "preparing" => leaseStatus[l] = "LEASED"
    /\ run[l] = "streaming" => leaseStatus[l] \in ProcessingStates

\* A dispatch job that waits belongs to a lease no worker has used.
PendingIsLeased ==
  \A l \in LeaseIds :
    job[l] = "PENDING" => leaseStatus[l] = "LEASED" /\ run[l] = "none"

\* What the callback in progress knows of the lease it works on.
CallbackHoldsLease ==
  /\ phase \in {"enqueue", "resolve"} =>
       /\ focus \in LeaseIds
       /\ leaseStatus[focus] = "LEASED" /\ run[focus] = "none"
       /\ phase = "resolve" => job[focus] = "CLAIMED"
  /\ phase \in {"completeJob", "deliver", "finish"} =>
       focus \in LeaseIds /\ leaseStatus[focus] = "COMPLETING"

\* A task that is not scheduled has no active lease.
UnscheduledHasNoLease ==
  \A l \in LeaseIds :
    status[leaseTask[l]] \in {"BACKLOG", "BLOCKED"} => ~IsActive(l)

OwnershipInv ==
  /\ ActiveIsCurrent
  /\ RunHoldsLease
  /\ PendingIsLeased
  /\ CallbackHoldsLease
  /\ UnscheduledHasNoLease

\* No step of the control plane lets go of ownership: the scheduler leases only
\* a task without an active lease, a run ends together with what it holds, and
\* operators and crashes touch no lease.
LEMMA OwnershipInductive ==
  TypeOK /\ OwnershipInv /\ [Next]_vars => OwnershipInv'
<1> SUFFICES ASSUME TypeOK, OwnershipInv, [Next]_vars PROVE OwnershipInv'
  OBVIOUS
<1> USE DEF TypeOK, OwnershipInv, ActiveIsCurrent, RunHoldsLease,
            PendingIsLeased, CallbackHoldsLease, UnscheduledHasNoLease,
            IsActive, TerminalLeaseStatuses, ProcessingStates
<1>1. CASE StartCycle
  BY <1>1 DEF StartCycle, Goto, taskVars, leaseVars, workerVars
<1>2. ASSUME NEW t \in Tasks, ReconcileTaskReadiness(t) PROVE OwnershipInv'
  BY <1>2 DEF ReconcileTaskReadiness, Unreconciled, TransitionTask, leaseVars,
              workerVars, loopVars
<1>3. CASE ClaimTick
  BY <1>3 DEF ClaimTick, Goto, taskVars, leaseVars, workerVars
<1>4. CASE NoTick
  BY <1>4 DEF NoTick, Goto, taskVars, leaseVars, workerVars
<1>5. CASE ScheduleNext
  <2>1. PICK t \in Tasks, p \in Pools, l \in LeaseIds :
          /\ AcquireLease(t, p, l) /\ Goto("enqueue", l)
          /\ leaseStatus[l] = "IDLE"
    BY <1>5 DEF ScheduleNext, Assignable, Candidates, BestPools, FreshLeases
  <2>2. run[l] = "none"
    BY <2>1 DEF RunStates
  <2>3. \A k \in LeaseIds : leaseTask[k] = t => ~IsActive(k)
    BY <2>1 DEF AcquireLease, ActiveLeases
  <2> QED
    BY <1>5, <2>1, <2>2, <2>3 DEF ScheduleNext, AcquireLease, Goto, workerVars
<1>6. CASE EnqueueDispatch
  BY <1>6 DEF EnqueueDispatch, Goto, taskVars, leaseVars
<1>7. CASE CompleteTick
  BY <1>7 DEF CompleteTick, Goto, taskVars, leaseVars, workerVars
<1>8. CASE CreateNextTick
  BY <1>8 DEF CreateNextTick, Goto, taskVars, leaseVars, workerVars
<1>9. CASE ClaimDispatch
  BY <1>9 DEF ClaimDispatch, Goto, taskVars, leaseVars
<1>10. CASE NoDispatch
  BY <1>10 DEF NoDispatch, Goto, taskVars, leaseVars, workerVars
<1>11. CASE RejectSpawn
  BY <1>11 DEF RejectSpawn, Goto, taskVars, leaseVars
<1>12. CASE SpawnWorker
  BY <1>12 DEF SpawnWorker, Goto, taskVars, leaseVars
<1>13. ASSUME NEW l \in LeaseIds, StartRun(l) PROVE OwnershipInv'
  BY <1>13 DEF StartRun, taskVars, loopVars
<1>14. ASSUME NEW l \in LeaseIds, Heartbeat(l) PROVE OwnershipInv'
  BY <1>14 DEF Heartbeat, ForwardHeartbeat, HeartbeatTarget, taskVars,
               HeartbeatReceivableStates, workerVars, loopVars
<1>15. ASSUME NEW l \in LeaseIds, SupervisorReclaim(l)
       PROVE  /\ ActiveIsCurrent' /\ UnscheduledHasNoLease'
              /\ \A k \in LeaseIds : k # l => leaseStatus'[k] = leaseStatus[k]
              /\ leaseStatus[l] = "LEASED" => leaseStatus'[l] = "LEASED"
  <2>1. CASE UNCHANGED <<taskVars, leaseVars>>
    BY <2>1 DEF taskVars, leaseVars
  <2>2. CASE ReclaimLease(l, "CRASHED", {"workerCrashed"})
    <3>1. /\ leaseStatus[l] \in ProcessingStates
          /\ leaseStatus' = [leaseStatus EXCEPT ![l] = "CRASHED"]
          /\ leaseTask' = leaseTask
      BY <2>2 DEF ReclaimLease, ReclaimCommits, ReclaimableStates
    <3>2. CASE UNCHANGED taskVars
      BY <3>1, <3>2 DEF taskVars
    <3>3. CASE
        /\ status' = [status EXCEPT ![leaseTask[l]] =
                        ReclaimTarget(retryCount[leaseTask[l]], HasFailureSummary)]
        /\ currentLeaseId' = [currentLeaseId EXCEPT ![leaseTask[l]] = NoLease]
      BY <3>1, <3>3 DEF ReclaimTarget
    <3> QED
      BY <2>2, <3>2, <3>3 DEF ReclaimLease
  <2> QED
    BY <1>15, <2>1, <2>2 DEF SupervisorReclaim
<1>16. ASSUME NEW l \in LeaseIds, RunThrows(l) PROVE OwnershipInv'
  BY <1>15, <1>16 DEF RunThrows, Goto
<1>17. ASSUME NEW l \in LeaseIds, RunFails(l) PROVE OwnershipInv'
  BY <1>15, <1>17 DEF RunFails, Goto
<1>18. ASSUME NEW l \in LeaseIds, RunSucceeds(l) PROVE OwnershipInv'
  <2>1. leaseStatus' = [leaseStatus EXCEPT ![l] = "COMPLETING"]
    BY <1>18 DEF RunSucceeds, ForwardHeartbeat, HeartbeatTarget,
      HeartbeatContext, HeartbeatReceivableStates,
      ValidateWorkerLeaseTransition, LeaseGuard
  <2> QED
    BY <1>18, <2>1 DEF RunSucceeds, ForwardHeartbeat, Goto, taskVars
<1>19. CASE FailJob
  BY <1>19 DEF FailJob, SettledAs, Goto, taskVars, leaseVars
<1>20. CASE SettleJob
  BY <1>20 DEF SettleJob, SettledAs, Goto, taskVars, leaseVars
<1>21. CASE CompleteJob
  BY <1>21 DEF CompleteJob, SettledAs, Goto, taskVars, leaseVars
<1>22. CASE DeliverResult
  BY <1>22 DEF DeliverResult, TryTransitionTask, TransitionTask, Goto,
               taskVars, leaseVars, workerVars
<1>23. CASE FinishDevelopment
  BY <1>23 DEF FinishDevelopment, TryTransitionTask, TransitionTask, Goto,
               taskVars, leaseVars, workerVars
<1>24. ASSUME NEW t \in Tasks, OperatorStep(t) PROVE OwnershipInv'
  <2>1. CASE Reopen(t)
    BY <2>1 DEF Reopen, ActiveLeases, leaseVars, workerVars, loopVars
  <2>2. CASE ~Reopen(t)
    BY <1>24, <2>2 DEF OperatorStep, Pause, Resume, Requeue, ForceUnblock,
      Cancel, MarkDone, OperatorTransition, TransitionTask, leaseVars,
      workerVars, loopVars
  <2> QED
    BY <2>1, <2>2
<1>25. CASE StartAutomation
  BY <1>25 DEF StartAutomation, taskVars, leaseVars, workerVars, loopVars
<1>26. CASE PauseAutomation
  BY <1>26 DEF PauseAutomation, taskVars, leaseVars, workerVars, loopVars
<1>27. CASE CrashAndRestart
  BY <1>27 DEF CrashAndRestart, taskVars, leaseVars
<1>28. CASE UNCHANGED vars
  BY <1>28 DEF vars, taskVars, leaseVars, workerVars, loopVars
<1> QED
  BY <1>1, <1>2, <1>3, <1>4, <1>5, <1>6, <1>7, <1>8, <1>9, <1>10, <1>11,
     <1>12, <1>13, <1>14, <1>16, <1>17, <1>18, <1>19, <1>20, <1>21, <1>22,
     <1>23, <1>24, <1>25, <1>26, <1>27, <1>28
  DEF Next, Step, AutomationCycle, WorkerRun, RunEnds, Settlement

\* OwnershipInv holds in every reachable state.
THEOREM OwnershipCorrect == Spec => []OwnershipInv
<1>1. Init => OwnershipInv
  BY DEF Init, OwnershipInv, ActiveIsCurrent, RunHoldsLease, PendingIsLeased,
         CallbackHoldsLease, UnscheduledHasNoLease, IsActive,
         TerminalLeaseStatuses
<1> QED
  BY <1>1, OwnershipInductive, TypeCorrect, PTL DEF Spec

-----------------------------------------------------------------------------
(* The safety invariants                                                   *)

\* A task never has two active leases, however the scheduler, the operators
\* and crashes interleave.
THEOREM LeaseExclusivity == Spec => []SingleActiveLease
<1>1. OwnershipInv => SingleActiveLease
  BY DEF OwnershipInv, ActiveIsCurrent, SingleActiveLease
<1> QED
  BY <1>1, OwnershipCorrect, PTL

\* Two supervised workers never run for the same task at the same time.
THEOREM WorkerExclusivity == Spec => []SoleLiveRun
<1>1. TypeOK /\ OwnershipInv => SoleLiveRun
  BY DEF TypeOK, OwnershipInv, RunHoldsLease, ActiveIsCurrent, SoleLiveRun,
         RunStates, IsActive, TerminalLeaseStatuses, ProcessingStates
<1> QED
  BY <1>1, TypeCorrect, OwnershipCorrect, PTL

\* guardReopen keeps its promise: a BACKLOG or BLOCKED task has neither an
\* active lease nor a live worker.
THEOREM UnscheduledUnleased == Spec => []UnscheduledIsUnleased
<1>1. TypeOK /\ OwnershipInv => UnscheduledIsUnleased
  BY DEF TypeOK, OwnershipInv, RunHoldsLease, UnscheduledHasNoLease,
         UnscheduledIsUnleased, RunStates, IsActive, TerminalLeaseStatuses,
         ProcessingStates
<1> QED
  BY <1>1, TypeCorrect, OwnershipCorrect, PTL

-----------------------------------------------------------------------------
(* The capacity of the pools                                               *)

\* The active leases of a pool can be counted.
LEMMA PoolLeasesFinite ==
  ASSUME NEW p \in Pools
  PROVE  /\ IsFiniteSet(PoolLeases(p))
         /\ Cardinality(PoolLeases(p)) \in Nat
<1>1. IsFiniteSet(LeaseIds)
  BY LifecycleAssumption, FS_Interval DEF LeaseIds
<1>2. PoolLeases(p) \subseteq LeaseIds
  BY DEF PoolLeases
<1> QED
  BY <1>1, <1>2, FS_Subset, FS_CardinalityType

\* Only the scheduler makes a lease active: every other step leaves the pools'
\* sets of active leases as they are or smaller.
LEMMA OnlySchedulerActivates ==
  ASSUME TypeOK, [Next]_vars, ~ScheduleNext, NEW p \in Pools
  PROVE  PoolLeases(p)' \subseteq PoolLeases(p)
<1>1. CASE UNCHANGED leaseVars
  BY <1>1 DEF PoolLeases, IsActive, leaseVars
<1> SUFFICES ASSUME NEW l \in LeaseIds, IsActive(l),
                    \A k \in LeaseIds : k # l => leaseStatus'[k] = leaseStatus[k],
                    leasePool' = leasePool
             PROVE  PoolLeases(p)' \subseteq PoolLeases(p)
  <2>1. ASSUME NEW l \in LeaseIds, SupervisorReclaim(l), ~UNCHANGED leaseVars
        PROVE  /\ IsActive(l) /\ leasePool' = leasePool
               /\ \A k \in LeaseIds : k # l => leaseStatus'[k] = leaseStatus[k]
    BY <2>1 DEF SupervisorReclaim, ReclaimLease, ReclaimCommits, IsActive,
                ReclaimableStates, TerminalLeaseStatuses, TypeOK, leaseVars
  <2>2. ASSUME NEW l \in LeaseIds, WorkerRun(l), ~UNCHANGED leaseVars
        PROVE  /\ IsActive(l) /\ leasePool' = leasePool
               /\ \A k \in LeaseIds : k # l => leaseStatus'[k] = leaseStatus[k]
    <3>1. CASE StartRun(l)
      BY <3>1 DEF StartRun, ValidateWorkerLeaseTransition, LeaseGuard, IsActive,
        ProcessingStates, TerminalLeaseStatuses, TypeOK
    <3>2. CASE Heartbeat(l) \/ RunSucceeds(l)
      BY <2>2, <3>2 DEF Heartbeat, RunSucceeds, ForwardHeartbeat, IsActive,
        HeartbeatReceivableStates, TerminalLeaseStatuses, TypeOK, leaseVars
    <3>3. CASE RunThrows(l) \/ RunFails(l)
      BY <2>1, <2>2, <3>3 DEF RunThrows, RunFails
    <3> QED
      BY <2>2, <3>1, <3>2, <3>3 DEF WorkerRun, RunEnds
  <2>3. ~(\E l \in LeaseIds : WorkerRun(l)) => UNCHANGED leaseVars
    BY DEF Next, Step, AutomationCycle, Settlement, vars, StartCycle,
      ReconcileTaskReadiness, ClaimTick, NoTick, EnqueueDispatch,
      CompleteTick, CreateNextTick, ClaimDispatch, NoDispatch, RejectSpawn,
      SpawnWorker, FailJob, SettleJob, CompleteJob, DeliverResult,
      FinishDevelopment, OperatorStep, Pause, Resume, Requeue, ForceUnblock,
      Cancel, MarkDone, Reopen, OperatorTransition, StartAutomation,
      PauseAutomation, CrashAndRestart
  <2> QED
    BY <1>1, <2>2, <2>3
<1> QED
  BY DEF PoolLeases, IsActive

\* An empty database fills no pool.
LEMMA PoolInit == Init => PoolCapacity
<1> SUFFICES ASSUME Init, NEW p \in Pools
             PROVE  Cardinality(PoolLeases(p)) <= MaxConcurrency[p]
  BY DEF PoolCapacity
<1>1. PoolLeases(p) = {}
  BY DEF Init, PoolLeases, IsActive
<1> QED
  BY <1>1, FS_EmptySet, LifecycleAssumption

\* No step of the control plane fills a pool beyond its limit: the scheduler
\* is the only one that adds a lease, and it has just counted.
LEMMA PoolStep == TypeOK /\ PoolCapacity /\ [Next]_vars => PoolCapacity'
<1> SUFFICES ASSUME TypeOK, PoolCapacity, [Next]_vars,
                    NEW p \in Pools
             PROVE  Cardinality(PoolLeases(p)') <= MaxConcurrency[p]
  BY DEF PoolCapacity
<1>1. CASE ~ScheduleNext
  <2>1. Cardinality(PoolLeases(p)') <= Cardinality(PoolLeases(p))
    BY <1>1, OnlySchedulerActivates, PoolLeasesFinite, FS_Subset
  <2>2. IsFiniteSet(PoolLeases(p)') /\ Cardinality(PoolLeases(p)') \in Nat
    BY <1>1, OnlySchedulerActivates, PoolLeasesFinite, FS_Subset,
       FS_CardinalityType
  <2> QED
    BY <2>1, <2>2, PoolLeasesFinite, LifecycleAssumption DEF PoolCapacity
<1>2. CASE ScheduleNext
  <2>1. PICK t \in Tasks, q \in Pools, l \in LeaseIds :
          AcquireLease(t, q, l) /\ HasPoolCapacity(q)
    BY <1>2 DEF ScheduleNext, Assignable, Candidates, BestPools, FreshLeases
  <2>2. CASE q = p
    <3>1. PoolLeases(p)' \subseteq PoolLeases(p) \cup {l}
      BY <2>1, <2>2 DEF AcquireLease, PoolLeases, IsActive, TypeOK
    <3>2. /\ IsFiniteSet(PoolLeases(p) \cup {l})
          /\ Cardinality(PoolLeases(p) \cup {l}) <= Cardinality(PoolLeases(p)) + 1
          /\ Cardinality(PoolLeases(p) \cup {l}) \in Nat
      <4>1. /\ IsFiniteSet(PoolLeases(p) \cup {l})
            /\ Cardinality(PoolLeases(p) \cup {l}) =
                 IF l \in PoolLeases(p) THEN Cardinality(PoolLeases(p))
                 ELSE Cardinality(PoolLeases(p)) + 1
        BY PoolLeasesFinite, FS_AddElement
      <4> QED
        BY <4>1, PoolLeasesFinite
    <3>3. /\ Cardinality(PoolLeases(p)') <= Cardinality(PoolLeases(p) \cup {l})
          /\ Cardinality(PoolLeases(p)') \in Nat
      BY <3>1, <3>2, FS_Subset, FS_CardinalityType
    <3> QED
      BY <2>1, <2>2, <3>2, <3>3, PoolLeasesFinite, LifecycleAssumption
      DEF HasPoolCapacity
  <2>3. CASE q # p
    <3>1. PoolLeases(p)' \subseteq PoolLeases(p)
      BY <2>1, <2>3 DEF AcquireLease, PoolLeases, IsActive, TypeOK
    <3>2. /\ Cardinality(PoolLeases(p)') <= Cardinality(PoolLeases(p))
          /\ Cardinality(PoolLeases(p)') \in Nat
      BY <3>1, PoolLeasesFinite, FS_Subset, FS_CardinalityType
    <3> QED
      BY <3>2, PoolLeasesFinite, LifecycleAssumption DEF PoolCapacity
  <2> QED
    BY <2>2, <2>3
<1> QED
  BY <1>1, <1>2

\* The scheduler never fills a pool beyond maxConcurrency, although it counts
\* the active leases in a read of its own before the lease is created.
THEOREM PoolsBounded == Spec => []PoolCapacity
BY PoolInit, PoolStep, TypeCorrect, PTL DEF Spec

-----------------------------------------------------------------------------
(* The retry budget                                                        *)

\* The reclaimed leases of a task can be counted.
LEMMA SpentLeasesFinite ==
  ASSUME NEW t \in Tasks
  PROVE  /\ IsFiniteSet(SpentLeases(t)) /\ Cardinality(SpentLeases(t)) \in Nat
         /\ IsFiniteSet(SpentLeases(t)') /\ Cardinality(SpentLeases(t)') \in Nat
<1>1. IsFiniteSet(LeaseIds)
  BY LifecycleAssumption, FS_Interval DEF LeaseIds
<1>2. SpentLeases(t) \subseteq LeaseIds /\ SpentLeases(t)' \subseteq LeaseIds
  BY DEF SpentLeases
<1> QED
  BY <1>1, <1>2, FS_Subset, FS_CardinalityType

\* A retry is counted only together with the lease it is taken from, and only
\* while the budget lasts; no step forgets a reclaimed lease.
LEMMA RetryIsPaid ==
  ASSUME TypeOK, [Next]_vars, NEW t \in Tasks
  PROVE  /\ SpentLeases(t) \subseteq SpentLeases(t)'
         /\ \/ retryCount'[t] = retryCount[t]
            \/ /\ retryCount[t] < MaxAttempts
               /\ retryCount'[t] = retryCount[t] + 1
               /\ \E l \in LeaseIds :
                    l \in SpentLeases(t)' /\ l \notin SpentLeases(t)
<1> DEFINE Goal == /\ SpentLeases(t) \subseteq SpentLeases(t)'
                   /\ \/ retryCount'[t] = retryCount[t]
                      \/ /\ retryCount[t] < MaxAttempts
                         /\ retryCount'[t] = retryCount[t] + 1
                         /\ \E l \in LeaseIds :
                              l \in SpentLeases(t)' /\ l \notin SpentLeases(t)
<1> SUFFICES Goal
  OBVIOUS
<1>1. ASSUME leaseTask' = leaseTask, retryCount' = retryCount,
             \A l \in LeaseIds : leaseStatus[l] \in {"TIMED_OUT", "CRASHED"} =>
                                   leaseStatus'[l] = leaseStatus[l]
      PROVE  Goal
  BY <1>1 DEF SpentLeases
<1>2. CASE UNCHANGED <<leaseVars, retryCount>>
  BY <1>1, <1>2 DEF leaseVars
<1>3. CASE ScheduleNext
  <2>1. PICK u \in Tasks, p \in Pools, l \in LeaseIds :
          AcquireLease(u, p, l) /\ leaseStatus[l] = "IDLE"
    BY <1>3 DEF ScheduleNext, Assignable, Candidates, BestPools, FreshLeases
  <2> QED
    BY <2>1 DEF AcquireLease, SpentLeases, TypeOK
<1>4. ASSUME NEW l \in LeaseIds, SupervisorReclaim(l) PROVE Goal
  <2>1. CASE UNCHANGED <<taskVars, leaseVars>>
    BY <1>2, <2>1 DEF taskVars
  <2>2. CASE ReclaimLease(l, "CRASHED", {"workerCrashed"})
    <3>1. /\ leaseStatus[l] \in ReclaimableStates
          /\ leaseStatus' = [leaseStatus EXCEPT ![l] = "CRASHED"]
          /\ leaseTask' = leaseTask
      BY <2>2 DEF ReclaimLease, ReclaimCommits
    <3>2. SpentLeases(t) \subseteq SpentLeases(t)'
      BY <3>1 DEF SpentLeases, TypeOK, ReclaimableStates
    <3>3. leaseTask[l] = t => l \in SpentLeases(t)' /\ l \notin SpentLeases(t)
      BY <3>1 DEF SpentLeases, TypeOK, ReclaimableStates
    <3>4. \/ retryCount' = retryCount
          \/ retryCount' = [retryCount EXCEPT ![leaseTask[l]] =
               ReclaimRetryCount(retryCount[leaseTask[l]], HasFailureSummary)]
      BY <2>2 DEF ReclaimLease, taskVars
    <3> QED
      BY <3>2, <3>3, <3>4 DEF ReclaimRetryCount, ShouldRetry, TypeOK
  <2> QED
    BY <1>4, <2>1, <2>2 DEF SupervisorReclaim
<1>5. ASSUME NEW l \in LeaseIds, WorkerRun(l) PROVE Goal
  <2>1. CASE StartRun(l)
    BY <1>1, <2>1 DEF StartRun, ValidateWorkerLeaseTransition, LeaseGuard,
      ProcessingStates, TypeOK, taskVars
  <2>2. CASE Heartbeat(l) \/ RunSucceeds(l)
    BY <1>1, <2>2 DEF Heartbeat, RunSucceeds, ForwardHeartbeat,
      HeartbeatReceivableStates, TypeOK, taskVars
  <2>3. CASE RunThrows(l) \/ RunFails(l)
    BY <1>4, <2>3 DEF RunThrows, RunFails
  <2> QED
    BY <1>5, <2>1, <2>2, <2>3 DEF WorkerRun, RunEnds
<1>6. ~ScheduleNext /\ ~(\E l \in LeaseIds : WorkerRun(l)) =>
        UNCHANGED <<leaseVars, retryCount>>
  BY DEF Next, Step, AutomationCycle, Settlement, vars, taskVars, StartCycle,
    ReconcileTaskReadiness, ClaimTick, NoTick, EnqueueDispatch, CompleteTick,
    CreateNextTick, ClaimDispatch, NoDispatch, RejectSpawn, SpawnWorker,
    FailJob, SettleJob, CompleteJob, DeliverResult, FinishDevelopment,
    TryTransitionTask, TransitionTask, OperatorStep, Pause, Resume, Requeue,
    ForceUnblock, Cancel, MarkDone, Reopen, OperatorTransition,
    StartAutomation, PauseAutomation, CrashAndRestart
<1> QED
  BY <1>2, <1>3, <1>5, <1>6

\* No retry has been counted at the start.
LEMMA RetryInit == Init => RetryBudget
<1> SUFFICES ASSUME Init, NEW t \in Tasks
             PROVE  /\ retryCount[t] <= MaxAttempts
                    /\ retryCount[t] <= Cardinality(SpentLeases(t))
  BY DEF RetryBudget
<1> QED
  BY SpentLeasesFinite, PolicyAssumption DEF Init

\* A task's retries and its reclaimed leases grow together.
LEMMA RetryStep == TypeOK /\ RetryBudget /\ [Next]_vars => RetryBudget'
<1> SUFFICES ASSUME TypeOK, RetryBudget, [Next]_vars,
                    NEW t \in Tasks
             PROVE  /\ retryCount'[t] <= MaxAttempts
                    /\ retryCount'[t] <= Cardinality(SpentLeases(t)')
  BY DEF RetryBudget
<1>1. /\ retryCount[t] \in Nat
      /\ retryCount[t] <= MaxAttempts
      /\ retryCount[t] <= Cardinality(SpentLeases(t))
  BY DEF TypeOK, RetryBudget
<1>2. /\ Cardinality(SpentLeases(t)) <= Cardinality(SpentLeases(t)')
      /\ SpentLeases(t)' # SpentLeases(t) =>
           Cardinality(SpentLeases(t)) # Cardinality(SpentLeases(t)')
  BY RetryIsPaid, SpentLeasesFinite, FS_Subset
<1>3. CASE retryCount'[t] = retryCount[t]
  BY <1>1, <1>2, <1>3, SpentLeasesFinite, PolicyAssumption
<1>4. CASE retryCount'[t] # retryCount[t]
  <2>1. /\ retryCount[t] < MaxAttempts
        /\ retryCount'[t] = retryCount[t] + 1
        /\ SpentLeases(t)' # SpentLeases(t)
    BY <1>4, RetryIsPaid
  <2> QED
    BY <1>1, <1>2, <2>1, SpentLeasesFinite, PolicyAssumption
<1> QED
  BY <1>3, <1>4

\* Automatic retries stay within max_attempts, and each was paid for by a
\* reclaimed lease, for every policy and however runs, operators and crashes
\* interleave.
THEOREM RetriesBounded == Spec => []RetryBudget
BY RetryInit, RetryStep, TypeCorrect, PTL DEF Spec

-----------------------------------------------------------------------------
(* Action properties                                                       *)

\* The transition table has no way out of a terminal status.
LEMMA TerminalHasNoExit ==
  ASSUME NEW from, NEW to, NEW ctx, ValidateTransition(from, to, ctx)
  PROVE  from \notin TerminalStates
BY DEF ValidateTransition, ReadinessGuard, DevelopmentGuard, ReviewGuard,
       MergeGuard, InterventionGuard, WildcardEscalationSources,
       WildcardCancellationSources, TerminalStates

\* From ESCALATED the table leads to ASSIGNED, DONE and CANCELLED, and only
\* when the context claims an operator.
LEMMA EscalatedExits ==
  ASSUME NEW to, NEW ctx, ValidateTransition("ESCALATED", to, ctx)
  PROVE  to \in {"ASSIGNED", "DONE", "CANCELLED"} /\ "isOperator" \in ctx
BY DEF ValidateTransition, ReadinessGuard, DevelopmentGuard, ReviewGuard,
       MergeGuard, InterventionGuard, WildcardEscalationSources

\* How a step may change the status of task t.
StatusChange(t) ==
  \/ status'[t] = status[t]
  \/ /\ status[t] \notin TerminalStates \cup {"ESCALATED"}
     /\ status'[t] = "DEV_COMPLETE" => phase = "finish" /\ t = leaseTask[focus]
  \/ /\ status[t] = "ESCALATED"
     /\ status'[t] \in {"ASSIGNED", "CANCELLED", "DONE"}
     /\ UNCHANGED <<leaseVars, workerVars>>
  \/ /\ status[t] \in TerminalStates
     /\ status'[t] = "BACKLOG"
     /\ ActiveLeases(t) = {}

\* A validated transition of one task, not by an operator, changes the status
\* of tasks that are neither terminal nor escalated.
LEMMA ServiceTransition ==
  ASSUME TypeOK, NEW u \in Tasks, NEW to, NEW ctx,
         TransitionTask(u, to, ctx), "isOperator" \notin ctx,
         to = "DEV_COMPLETE" => phase = "finish" /\ u = leaseTask[focus]
  PROVE  \A t \in Tasks : StatusChange(t)
<1>1. status[u] \notin TerminalStates \cup {"ESCALATED"}
  BY TerminalHasNoExit, EscalatedExits DEF TransitionTask
<1> QED
  BY <1>1 DEF TypeOK, TransitionTask, StatusChange

\* A callback that delivers a result works on a lease.
ResultHasLease == phase \in {"completeJob", "deliver", "finish"} => focus \in LeaseIds

\* No step of the control plane changes a status in another way.
LEMMA StatusChanges ==
  TypeOK /\ ResultHasLease /\ [Next]_vars => \A t \in Tasks : StatusChange(t)
<1> SUFFICES ASSUME TypeOK, ResultHasLease, [Next]_vars
             PROVE  \A t \in Tasks : StatusChange(t)
  OBVIOUS
<1>1. CASE UNCHANGED status
  BY <1>1 DEF StatusChange
<1>2. ASSUME NEW u \in Tasks, ReconcileTaskReadiness(u)
      PROVE  \A t \in Tasks : StatusChange(t)
  BY <1>2, ServiceTransition DEF ReconcileTaskReadiness, ReadinessTarget,
                                 ReadinessContext
<1>3. CASE ScheduleNext
  <2>1. PICK u \in Tasks : /\ status[u] = "READY"
                           /\ status' = [status EXCEPT ![u] = "ASSIGNED"]
    BY <1>3 DEF ScheduleNext, Assignable, Candidates, BestPools, FreshLeases,
                AcquireLease
  <2> QED
    BY <2>1 DEF TypeOK, StatusChange, TerminalStates
<1>4. ASSUME NEW l \in LeaseIds, SupervisorReclaim(l)
      PROVE  \A t \in Tasks : StatusChange(t)
  <2>1. CASE UNCHANGED status
    BY <2>1 DEF StatusChange
  <2>2. CASE /\ status[leaseTask[l]] \in ReclaimEligibleTaskStates
             /\ status' = [status EXCEPT ![leaseTask[l]] =
                  ReclaimTarget(retryCount[leaseTask[l]], HasFailureSummary)]
    BY <2>2 DEF TypeOK, StatusChange, TerminalStates, ReclaimTarget,
                ReclaimEligibleTaskStates
  <2> QED
    BY <1>4, <2>1, <2>2 DEF SupervisorReclaim, ReclaimLease, taskVars
<1>5. CASE DeliverResult
  BY <1>1, <1>5, ServiceTransition
  DEF DeliverResult, TryTransitionTask, taskVars, TypeOK, ResultHasLease
<1>6. CASE FinishDevelopment
  BY <1>1, <1>6, ServiceTransition
  DEF FinishDevelopment, TryTransitionTask, taskVars, TypeOK, ResultHasLease
<1>7. ASSUME NEW u \in Tasks, OperatorStep(u)
      PROVE  \A t \in Tasks : StatusChange(t)
  <2>1. CASE Reopen(u)
    BY <2>1 DEF Reopen, TypeOK, StatusChange
  <2>2. ASSUME NEW to \in TaskStatuses \ {"DEV_COMPLETE"}, NEW ctx,
               OperatorTransition(u, to, ctx)
        PROVE  \A t \in Tasks : StatusChange(t)
    BY <2>2, TerminalHasNoExit, EscalatedExits
    DEF OperatorTransition, TransitionTask, TypeOK, StatusChange
  <2> QED
    BY <1>7, <2>1, <2>2 DEF OperatorStep, Pause, Resume, Requeue,
      ForceUnblock, Cancel, MarkDone, TaskStatuses
<1> QED
  BY <1>1, <1>2, <1>3, <1>4, <1>5, <1>6, <1>7
  DEF Next, Step, AutomationCycle, WorkerRun, RunEnds, Settlement, vars,
      taskVars, StartCycle, ClaimTick, NoTick, EnqueueDispatch, CompleteTick,
      CreateNextTick, ClaimDispatch, NoDispatch, RejectSpawn, SpawnWorker,
      StartRun, Heartbeat, RunThrows, RunFails, RunSucceeds, FailJob,
      SettleJob, CompleteJob, StartAutomation, PauseAutomation,
      CrashAndRestart

\* No late result, reclaim, readiness pass or operator transition revives a
\* terminal task; a reopen finds no active lease.
THEOREM TerminalStaysTerminal == Spec => TerminalOnlyReopened
<1>1. TypeOK /\ OwnershipInv /\ [Next]_vars =>
        [\A t \in Tasks :
           status[t] \in TerminalStates /\ status'[t] # status[t] =>
             status'[t] = "BACKLOG" /\ ActiveLeases(t) = {}]_vars
  BY StatusChanges DEF StatusChange, TerminalStates, OwnershipInv,
    CallbackHoldsLease, ResultHasLease
<1> QED
  BY <1>1, TypeCorrect, OwnershipCorrect, PTL DEF Spec, TerminalOnlyReopened

\* Only an operator's decision moves a paused task, and it touches no lease,
\* job or worker.
THEOREM PauseFreezes == Spec => PausedIsFrozen
<1>1. TypeOK /\ OwnershipInv /\ [Next]_vars =>
        [\A t \in Tasks :
           status[t] = "ESCALATED" /\ status'[t] # status[t] =>
             /\ status'[t] \in {"ASSIGNED", "CANCELLED", "DONE"}
             /\ UNCHANGED <<leaseVars, workerVars>>]_vars
  BY StatusChanges DEF StatusChange, TerminalStates, OwnershipInv,
    CallbackHoldsLease, ResultHasLease
<1> QED
  BY <1>1, TypeCorrect, OwnershipCorrect, PTL DEF Spec, PausedIsFrozen

\* The result that completes development is that of the task's current lease,
\* although the result processing is given the task id alone.
THEOREM ResultIsCurrent == Spec => ResultFromCurrentLease
<1>1. TypeOK /\ OwnershipInv /\ [Next]_vars =>
        [\A t \in Tasks :
           status[t] # "DEV_COMPLETE" /\ status'[t] = "DEV_COMPLETE" =>
             /\ currentLeaseId[t] = focus
             /\ focus \in LeaseIds /\ leaseStatus[focus] = "COMPLETING"]_vars
  BY StatusChanges DEF StatusChange, OwnershipInv, CallbackHoldsLease, ResultHasLease,
     ActiveIsCurrent, IsActive, TerminalLeaseStatuses
<1> QED
  BY <1>1, TypeCorrect, OwnershipCorrect, PTL DEF Spec, ResultFromCurrentLease

-----------------------------------------------------------------------------
(* Refinement: the control plane implements TaskOwnership                  *)

\* A worker entity is made once for a lease, by the callback that claimed its
\* dispatch job, and outlives the run.
WorkerInv ==
  /\ \A l \in LeaseIds :
       /\ run[l] # "none" => worker[l] # "none"
       /\ leaseStatus[l] = "IDLE" \/ job[l] = "PENDING" => worker[l] = "none"
  /\ phase \in {"enqueue", "resolve"} => worker[focus] = "none"

\* No step makes a second worker for a lease.
LEMMA WorkerInductive ==
  TypeOK /\ OwnershipInv /\ WorkerInv /\ [Next]_vars => WorkerInv'
<1> SUFFICES ASSUME TypeOK, OwnershipInv, WorkerInv, [Next]_vars PROVE WorkerInv'
  OBVIOUS
<1> USE DEF TypeOK, WorkerInv
<1>1. CASE UNCHANGED <<leaseVars, workerVars>> /\ phase' \notin {"enqueue", "resolve"}
  BY <1>1 DEF leaseVars, workerVars
<1>2. CASE ScheduleNext
  <2>1. PICK t \in Tasks, p \in Pools, l \in LeaseIds :
          /\ AcquireLease(t, p, l) /\ Goto("enqueue", l)
          /\ leaseStatus[l] = "IDLE"
    BY <1>2 DEF ScheduleNext, Assignable, Candidates, BestPools, FreshLeases
  <2> QED
    BY <1>2, <2>1 DEF ScheduleNext, AcquireLease, Goto, workerVars
<1>3. CASE EnqueueDispatch
  BY <1>3 DEF EnqueueDispatch, Goto, leaseVars, OwnershipInv, CallbackHoldsLease
<1>4. CASE ClaimDispatch
  BY <1>4 DEF ClaimDispatch, Goto, leaseVars
<1>5. CASE RejectSpawn
  BY <1>5 DEF RejectSpawn, Goto, leaseVars, OwnershipInv, CallbackHoldsLease
<1>6. CASE SpawnWorker
  BY <1>6 DEF SpawnWorker, Goto, leaseVars, OwnershipInv, CallbackHoldsLease
<1>7. ASSUME NEW l \in LeaseIds, run[l] # "none",
             \A k \in LeaseIds : leaseStatus'[k] = "IDLE" <=> leaseStatus[k] = "IDLE",
             \E s \in WorkerStatuses \ {"none"} : worker' = [worker EXCEPT ![l] = s],
             \E s \in RunStates : run' = [run EXCEPT ![l] = s],
             job' = job, phase' \notin {"enqueue", "resolve"}
      PROVE  WorkerInv'
  <2>1. leaseStatus[l] # "IDLE" /\ job[l] # "PENDING"
    BY <1>7 DEF RunStates, OwnershipInv, RunHoldsLease, PendingIsLeased, ProcessingStates
  <2> QED
    BY <1>7, <2>1
<1>8. ASSUME NEW l \in LeaseIds, WorkerRun(l) PROVE WorkerInv'
  <2>1. ASSUME SupervisorReclaim(l)
        PROVE  \A k \in LeaseIds : leaseStatus'[k] = "IDLE" <=> leaseStatus[k] = "IDLE"
    BY <2>1 DEF SupervisorReclaim, ReclaimLease, ReclaimCommits, ReclaimableStates, leaseVars
  <2>2. CASE StartRun(l)
    <3>1. leaseStatus[l] = "LEASED"
      BY <2>2 DEF StartRun, OwnershipInv, RunHoldsLease
    <3>2. phase' \notin {"enqueue", "resolve"}
      BY <2>2 DEF StartRun, loopVars
    <3> QED
      BY <1>7, <2>2, <3>1, <3>2 DEF StartRun, WorkerStatuses, RunStates
  <2>3. CASE Heartbeat(l)
    BY <2>3 DEF Heartbeat, ForwardHeartbeat, HeartbeatTarget, workerVars, loopVars,
      HeartbeatReceivableStates
  <2>4. CASE RunThrows(l)
    BY <1>7, <2>1, <2>4 DEF RunThrows, Goto, WorkerStatuses, RunStates
  <2>5. CASE RunFails(l)
    BY <1>7, <2>1, <2>5 DEF RunFails, Goto, WorkerStatuses, RunStates
  <2>6. CASE RunSucceeds(l)
    <3>1. \A k \in LeaseIds : leaseStatus'[k] = "IDLE" <=> leaseStatus[k] = "IDLE"
      BY <2>6 DEF RunSucceeds, ForwardHeartbeat, HeartbeatTarget,
        HeartbeatReceivableStates
    <3> QED
      BY <1>7, <2>6, <3>1 DEF RunSucceeds, Goto, WorkerStatuses, RunStates
  <2> QED
    BY <1>8, <2>2, <2>3, <2>4, <2>5, <2>6 DEF WorkerRun, RunEnds
<1>9. CASE FailJob \/ SettleJob \/ CompleteJob
  BY <1>9 DEF FailJob, SettleJob, CompleteJob, SettledAs, Goto, leaseVars
<1>10. CASE CrashAndRestart
  BY <1>10 DEF CrashAndRestart, leaseVars
<1>11. CASE UNCHANGED vars
  BY <1>11 DEF vars, leaseVars, workerVars, loopVars
<1>12. ASSUME NEW t \in Tasks, OperatorStep(t) PROVE WorkerInv'
  BY <1>12 DEF OperatorStep, Pause, Resume, Requeue, ForceUnblock, Cancel,
    MarkDone, Reopen, OperatorTransition, leaseVars, workerVars, loopVars
<1>13. ASSUME NEW t \in Tasks, ReconcileTaskReadiness(t) PROVE WorkerInv'
  BY <1>13 DEF ReconcileTaskReadiness, leaseVars, workerVars, loopVars
<1>14. CASE StartAutomation \/ PauseAutomation
  BY <1>14 DEF StartAutomation, PauseAutomation, leaseVars, workerVars, loopVars
<1>15. CASE StartCycle \/ ClaimTick \/ NoTick \/ CompleteTick \/ CreateNextTick
            \/ NoDispatch \/ DeliverResult \/ FinishDevelopment
  BY <1>1, <1>15 DEF StartCycle, ClaimTick, NoTick, CompleteTick, CreateNextTick,
    NoDispatch, DeliverResult, FinishDevelopment, Goto
<1> QED
  BY <1>2, <1>3, <1>4, <1>5, <1>6, <1>8, <1>9, <1>10, <1>11, <1>12, <1>13,
     <1>14, <1>15
  DEF Next, Step, AutomationCycle, Settlement

\* WorkerInv holds in every reachable state.
LEMMA WorkerCorrect == Spec => []WorkerInv
<1>1. Init => WorkerInv
  BY DEF Init, WorkerInv
<1> QED
  BY <1>1, WorkerInductive, TypeCorrect, OwnershipCorrect, PTL DEF Spec

\* A task is held by a pool only through an active lease of that pool.
LEMMA HeldBounded ==
  ASSUME TypeOK, NEW p \in Pools
  PROVE  /\ Cardinality(Ownership!Held(p)) <= Cardinality(PoolLeases(p))
         /\ Cardinality(Ownership!Held(p)) \in Nat
<1> DEFINE H == Ownership!Held(p)
           f == [l \in PoolLeases(p) |-> leaseTask[l]]
<1>1. H = {t \in Tasks : \E l \in ActiveLeases(t) : leasePool[l] = p}
  <2>1. ASSUME NEW t \in Tasks
        PROVE  (\E g \in GrantsOf(t) : g.pool = p) <=> \E l \in ActiveLeases(t) : leasePool[l] = p
    <3>1. ASSUME NEW g \in GrantsOf(t), g.pool = p
          PROVE  \E l \in ActiveLeases(t) : leasePool[l] = p
      <4>1. PICK l \in ActiveLeases(t) : g = [pool |-> leasePool[l], stage |-> LeaseStage(l)]
        BY <3>1 DEF GrantsOf
      <4> QED
        BY <3>1, <4>1
    <3>2. ASSUME NEW l \in ActiveLeases(t), leasePool[l] = p
          PROVE  \E g \in GrantsOf(t) : g.pool = p
      <4>1. [pool |-> leasePool[l], stage |-> LeaseStage(l)] \in GrantsOf(t)
        BY DEF GrantsOf
      <4> QED
        BY <3>2, <4>1
    <3> QED
      BY <3>1, <3>2
  <2>2. H = {t \in Tasks : \E g \in GrantsOf(t) : g.pool = p}
    BY DEF Ownership!Held
  <2> QED
    BY <2>1, <2>2
<1>2. \A l \in PoolLeases(p) : leaseTask[l] \in H
  BY <1>1 DEF PoolLeases, ActiveLeases, TypeOK
<1>3. \A t \in H : \E l \in PoolLeases(p) : leaseTask[l] = t
  BY <1>1 DEF PoolLeases, ActiveLeases
<1>4. f \in Surjection(PoolLeases(p), H)
  BY <1>2, <1>3 DEF Surjection
<1>5. IsFiniteSet(H) /\ Cardinality(H) <= Cardinality(PoolLeases(p))
  BY <1>4, PoolLeasesFinite, FS_Surjection
<1> QED
  BY <1>5, FS_CardinalityType

\* The grants of a task whose lease is active: that lease's, and no other.
LEMMA SoleGrant ==
  ASSUME TypeOK, OwnershipInv, NEW l \in LeaseIds, IsActive(l)
  PROVE  GrantsOf(leaseTask[l]) = {[pool |-> leasePool[l], stage |-> LeaseStage(l)]}
<1>1. ActiveLeases(leaseTask[l]) = {l}
  BY DEF ActiveLeases, OwnershipInv, ActiveIsCurrent
<1> QED
  BY <1>1 DEF GrantsOf

\* A step that leaves the active leases of a task alone leaves its grants alone.
LEMMA SameGrants ==
  ASSUME NEW t \in Tasks,
         ActiveLeases(t)' = ActiveLeases(t),
         \A k \in ActiveLeases(t) :
           leasePool'[k] = leasePool[k] /\ LeaseStage(k)' = LeaseStage(k)
  PROVE  GrantsOf(t)' = GrantsOf(t)
<1>1. GrantsOf(t)' = {[pool |-> leasePool'[l], stage |-> LeaseStage(l)'] :
                         l \in ActiveLeases(t)'}
  BY DEF GrantsOf
<1> QED
  BY <1>1 DEF GrantsOf

\* A step on one active lease changes the grants of its task only.
LEMMA OneLease ==
  ASSUME TypeOK, OwnershipInv, NEW l \in LeaseIds, IsActive(l),
         UNCHANGED <<leaseTask, leasePool>>,
         \A k \in LeaseIds : k # l =>
           /\ leaseStatus'[k] = leaseStatus[k]
           /\ run'[k] = run[k] /\ worker'[k] = worker[k]
  PROVE  /\ \A u \in Tasks : u # leaseTask[l] => GrantsOf(u)' = GrantsOf(u)
         /\ IsActive(l)' =>
              GrantsOf(leaseTask[l])' = {[pool |-> leasePool[l], stage |-> LeaseStage(l)']}
         /\ ~IsActive(l)' => GrantsOf(leaseTask[l])' = {}
<1>1. ActiveLeases(leaseTask[l]) = {l}
  BY DEF ActiveLeases, OwnershipInv, ActiveIsCurrent
<1>2. ASSUME NEW u \in Tasks, u # leaseTask[l] PROVE GrantsOf(u)' = GrantsOf(u)
  <2>1. ActiveLeases(u)' = ActiveLeases(u)
    BY <1>2 DEF ActiveLeases, IsActive
  <2>2. \A k \in ActiveLeases(u) :
          leasePool'[k] = leasePool[k] /\ LeaseStage(k)' = LeaseStage(k)
    BY <1>2 DEF ActiveLeases, LeaseStage
  <2> QED
    BY <2>1, <2>2, SameGrants
<1>3. \A k \in LeaseIds : k # l /\ leaseTask[k] = leaseTask[l] => ~IsActive(k)'
  BY <1>1 DEF ActiveLeases, IsActive
<1>4. ActiveLeases(leaseTask[l])' = {k \in {l} : IsActive(k)'}
  BY <1>3 DEF ActiveLeases
<1>5. GrantsOf(leaseTask[l])' =
        {[pool |-> leasePool[k], stage |-> LeaseStage(k)'] : k \in ActiveLeases(leaseTask[l])'}
  BY DEF GrantsOf
<1> QED
  BY <1>2, <1>4, <1>5

\* A run that ends changes no lease but its own, and that one only from an
\* active status.
LEMMA ReclaimIsLocal ==
  ASSUME TypeOK, NEW l \in LeaseIds, SupervisorReclaim(l)
  PROVE  /\ UNCHANGED <<leaseTask, leasePool>>
         /\ \A k \in LeaseIds : k # l => leaseStatus'[k] = leaseStatus[k]
BY DEF SupervisorReclaim, ReclaimLease, leaseVars, TypeOK

\* The mapped state before a step, as the abstract specification reads it.
Grants == [t \in Tasks |-> GrantsOf(t)]

\* Every step of the control plane is a step of TaskOwnership or none.
LEMMA OwnershipStep ==
  TypeOK /\ OwnershipInv /\ WorkerInv /\ [Next]_vars =>
    [Ownership!Next]_Grants
<1> SUFFICES ASSUME TypeOK, OwnershipInv, WorkerInv, [Next]_vars
             PROVE  Ownership!Next \/ UNCHANGED Grants
  OBVIOUS
<1>1. ASSUME \A t \in Tasks : GrantsOf(t)' = GrantsOf(t) PROVE UNCHANGED Grants
  BY <1>1 DEF Grants
<1>2. CASE UNCHANGED <<leaseVars, worker, run>>
  <2>1. ASSUME NEW t \in Tasks PROVE GrantsOf(t)' = GrantsOf(t)
    <3>1. ActiveLeases(t)' = ActiveLeases(t)
      BY <1>2 DEF ActiveLeases, IsActive, leaseVars
    <3>2. \A k \in ActiveLeases(t) :
            leasePool'[k] = leasePool[k] /\ LeaseStage(k)' = LeaseStage(k)
      BY <1>2 DEF LeaseStage, leaseVars
    <3> QED
      BY <3>1, <3>2, SameGrants
  <2> QED
    BY <1>1, <2>1
<1>3. CASE ScheduleNext
  <2>1. PICK t \in Tasks, p \in Pools, l \in LeaseIds :
          /\ AcquireLease(t, p, l) /\ leaseStatus[l] = "IDLE" /\ HasPoolCapacity(p)
    BY <1>3 DEF ScheduleNext, Assignable, Candidates, BestPools, FreshLeases
  <2>2. UNCHANGED <<worker, run>>
    BY <1>3 DEF ScheduleNext, workerVars
  <2>3. ~IsActive(l) /\ LeaseStage(l)' = "granted"
    BY <2>1, <2>2 DEF IsActive, LeaseStage, WorkerInv, OwnershipInv, RunHoldsLease,
      TypeOK, RunStates, ProcessingStates
  <2>4. GrantsOf(t) = {}
    BY <2>1 DEF AcquireLease, GrantsOf
  <2>5. ActiveLeases(t)' = {l}
    <3>1. ActiveLeases(t) = {}
      BY <2>1 DEF AcquireLease
    <3> QED
      BY <2>1, <2>3, <3>1 DEF AcquireLease, ActiveLeases, IsActive, TypeOK,
        TerminalLeaseStatuses
  <2>6. GrantsOf(t)' = {[pool |-> p, stage |-> "granted"]}
    <3>1. GrantsOf(t)' = {[pool |-> leasePool'[k], stage |-> LeaseStage(k)'] : k \in {l}}
      BY <2>5 DEF GrantsOf
    <3>2. leasePool'[l] = p
      BY <2>1 DEF AcquireLease, TypeOK
    <3> QED
      BY <2>3, <3>1, <3>2
  <2>7. ASSUME NEW u \in Tasks, u # t PROVE GrantsOf(u)' = GrantsOf(u)
    <3>1. ActiveLeases(u)' = ActiveLeases(u)
      BY <2>1, <2>3, <2>7 DEF AcquireLease, ActiveLeases, IsActive, TypeOK
    <3>2. \A k \in ActiveLeases(u) :
            leasePool'[k] = leasePool[k] /\ LeaseStage(k)' = LeaseStage(k)
      BY <2>1, <2>2, <2>3 DEF AcquireLease, ActiveLeases, LeaseStage, TypeOK
    <3> QED
      BY <3>1, <3>2, SameGrants
  <2>8. Cardinality(Ownership!Held(p)) < MaxConcurrency[p]
    BY <2>1, HeldBounded, PoolLeasesFinite, LifecycleAssumption DEF HasPoolCapacity
  <2>9. Grants' = [Grants EXCEPT ![t] = {[pool |-> p, stage |-> "granted"]}]
    BY <2>6, <2>7 DEF Grants
  <2>10. Ownership!Cardinality(Ownership!Held(p)) = Cardinality(Ownership!Held(p))
    BY Zenon DEF Cardinality, Ownership!Cardinality, IsFiniteSet, Ownership!IsFiniteSet
  <2>11. Ownership!Give(t, p)
    BY <2>4, <2>8, <2>9, <2>10 DEF Ownership!Give, Ownership!Grant, Grants
  <2> QED
    BY <2>11 DEF Ownership!Next
<1>4. ASSUME NEW l \in LeaseIds, IsActive(l),
             UNCHANGED <<leaseTask, leasePool>>,
             \A k \in LeaseIds : k # l =>
               /\ leaseStatus'[k] = leaseStatus[k]
               /\ run'[k] = run[k] /\ worker'[k] = worker[k],
             \/ IsActive(l)' /\ LeaseStage(l)' = LeaseStage(l)
             \/ /\ LeaseStage(l) = "granted"
                /\ IsActive(l)' /\ LeaseStage(l)' = "working"
             \/ /\ LeaseStage(l) = "working"
                /\ ~IsActive(l)' \/ LeaseStage(l)' = "over"
      PROVE  Ownership!Next \/ UNCHANGED Grants
  <2> DEFINE t == leaseTask[l]
             p == leasePool[l]
  <2>1. t \in Tasks /\ p \in Pools
    BY DEF TypeOK
  <2>2. Grants[t] = {[pool |-> p, stage |-> LeaseStage(l)]}
    BY <1>4, <2>1, SoleGrant DEF Grants
  <2>3. /\ \A u \in Tasks : u # t => GrantsOf(u)' = GrantsOf(u)
        /\ IsActive(l)' => GrantsOf(t)' = {[pool |-> p, stage |-> LeaseStage(l)']}
        /\ ~IsActive(l)' => GrantsOf(t)' = {}
    BY <1>4, OneLease
  <2>4. /\ IsActive(l)' =>
             Grants' = [Grants EXCEPT ![t] = {[pool |-> p, stage |-> LeaseStage(l)']}]
        /\ ~IsActive(l)' => Grants' = [Grants EXCEPT ![t] = {}]
    BY <1>4, <2>1, <2>3 DEF Grants
  <2>5. CASE IsActive(l)' /\ LeaseStage(l)' = LeaseStage(l)
    BY <2>1, <2>2, <2>4, <2>5 DEF Grants
  <2>6. CASE LeaseStage(l) = "granted" /\ IsActive(l)' /\ LeaseStage(l)' = "working"
    <3>1. Ownership!Begin(t, p)
      BY <2>2, <2>4, <2>6 DEF Ownership!Begin, Ownership!Grant, Grants
    <3> QED
      BY <2>1, <3>1 DEF Ownership!Next
  <2>7. CASE LeaseStage(l) = "working" /\ (~IsActive(l)' \/ LeaseStage(l)' = "over")
    <3>1. Ownership!Finish(t, p)
      BY <2>2, <2>4, <2>7 DEF Ownership!Finish, Ownership!Grant, Grants
    <3> QED
      BY <2>1, <3>1 DEF Ownership!Next
  <2> QED
    BY <1>4, <2>5, <2>6, <2>7
<1>5. CASE SpawnWorker
  <2>1. /\ focus \in LeaseIds /\ leaseStatus[focus] = "LEASED" /\ run[focus] = "none"
        /\ worker[focus] = "none"
    BY <1>5 DEF SpawnWorker, OwnershipInv, CallbackHoldsLease, WorkerInv
  <2>2. IsActive(focus)
    BY <1>5, <2>1 DEF SpawnWorker, IsActive, TerminalLeaseStatuses, leaseVars
  <2>3. LeaseStage(focus) = "granted" /\ run'[focus] = "preparing"
    BY <1>5, <2>1 DEF SpawnWorker, LeaseStage, TypeOK
  <2>4. \A l \in LeaseIds : l = focus => LeaseStage(l)' = "working"
    BY <2>3 DEF LeaseStage
  <2>5. \A k \in LeaseIds : k # focus =>
          leaseStatus'[k] = leaseStatus[k] /\ run'[k] = run[k] /\ worker'[k] = worker[k]
    BY <1>5, <2>1 DEF SpawnWorker, leaseVars, TypeOK
  <2>6. UNCHANGED <<leaseTask, leasePool>>
    BY <1>5 DEF SpawnWorker, leaseVars
  <2>7. \A l \in LeaseIds : l = focus => IsActive(l)'
    BY <1>5, <2>1 DEF SpawnWorker, IsActive, TerminalLeaseStatuses, leaseVars
  <2>8. PICK l \in LeaseIds : l = focus
    BY <2>1
  <2> QED
    BY <1>4, <2>2, <2>3, <2>4, <2>5, <2>6, <2>7, <2>8
<1>6. ASSUME NEW l \in LeaseIds, WorkerRun(l)
      PROVE  Ownership!Next \/ UNCHANGED Grants
  <2>1. run[l] # "none" /\ LeaseStage(l) = "working" /\ IsActive(l)
    BY <1>6 DEF WorkerRun, RunEnds, StartRun, Heartbeat, RunThrows, RunFails,
      RunSucceeds, LeaseStage, OwnershipInv, RunHoldsLease, IsActive, TypeOK,
      RunStates, ProcessingStates, TerminalLeaseStatuses
  <2>2. CASE StartRun(l)
    <3>1. LeaseStage(l)' = "working" /\ IsActive(l)'
      BY <2>2 DEF StartRun, LeaseStage, IsActive, TerminalLeaseStatuses, TypeOK
    <3> QED
      BY <1>4, <2>1, <2>2, <3>1 DEF StartRun, TypeOK
  <2>3. CASE Heartbeat(l)
    <3>1. LeaseStage(l)' = "working" /\ IsActive(l)'
      BY <2>1, <2>3 DEF Heartbeat, ForwardHeartbeat, HeartbeatTarget, LeaseStage,
        IsActive, TerminalLeaseStatuses, TypeOK, workerVars
    <3> QED
      BY <1>4, <2>1, <2>3, <3>1 DEF Heartbeat, ForwardHeartbeat, workerVars, TypeOK
  <2>4. CASE RunThrows(l) \/ RunFails(l)
    <3>1. LeaseStage(l)' = "over"
      BY <2>4 DEF RunThrows, RunFails, LeaseStage, TypeOK
    <3>2. SupervisorReclaim(l)
      BY <2>4 DEF RunThrows, RunFails
    <3>3. \A k \in LeaseIds : k # l => run'[k] = run[k] /\ worker'[k] = worker[k]
      BY <2>4 DEF RunThrows, RunFails, TypeOK
    <3> QED
      BY <1>4, <2>1, <3>1, <3>2, <3>3, ReclaimIsLocal
  <2>5. CASE RunSucceeds(l)
    <3>1. LeaseStage(l)' = "over"
      BY <2>5 DEF RunSucceeds, LeaseStage, TypeOK
    <3> QED
      BY <1>4, <2>1, <2>5, <3>1 DEF RunSucceeds, ForwardHeartbeat, TypeOK
  <2> QED
    BY <1>6, <2>2, <2>3, <2>4, <2>5 DEF WorkerRun, RunEnds
<1>7. CASE CrashAndRestart
  <2>1. UNCHANGED <<leaseStatus, leaseTask, leasePool, worker>>
    BY <1>7 DEF CrashAndRestart, leaseVars
  <2>2. \A l \in LeaseIds :
          LeaseStage(l)' = IF LeaseStage(l) = "working" THEN "over" ELSE LeaseStage(l)
    BY <1>7, <2>1 DEF CrashAndRestart, LeaseStage, WorkerInv
  <2>3. \A t \in Tasks : ActiveLeases(t)' = ActiveLeases(t)
    BY <2>1 DEF ActiveLeases, IsActive
  <2>4. ASSUME NEW t \in Tasks
        PROVE  GrantsOf(t)' = {IF g.stage = "working" THEN Ownership!Grant(g.pool, "over")
                               ELSE g : g \in GrantsOf(t)}
    <3> DEFINE over(g) == IF g.stage = "working" THEN Ownership!Grant(g.pool, "over") ELSE g
    <3>1. GrantsOf(t)' = {[pool |-> leasePool[l], stage |-> LeaseStage(l)'] :
                             l \in ActiveLeases(t)}
      BY <2>1, <2>3 DEF GrantsOf
    <3>2. CASE ActiveLeases(t) = {}
      BY <3>1, <3>2 DEF GrantsOf
    <3>3. ASSUME NEW l \in ActiveLeases(t)
          PROVE  GrantsOf(t)' = {over(g) : g \in GrantsOf(t)}
      <4>1. ActiveLeases(t) = {l}
        BY <3>3 DEF ActiveLeases, OwnershipInv, ActiveIsCurrent
      <4>2. GrantsOf(t)' = {[pool |-> leasePool[l], stage |-> LeaseStage(l)']}
        BY <3>1, <4>1
      <4>3. GrantsOf(t) = {[pool |-> leasePool[l], stage |-> LeaseStage(l)]}
        BY <4>1 DEF GrantsOf
      <4>4. over([pool |-> leasePool[l], stage |-> LeaseStage(l)]) =
              [pool |-> leasePool[l], stage |-> LeaseStage(l)']
        BY <2>2, <3>3 DEF Ownership!Grant, ActiveLeases
      <4> HIDE DEF over
      <4>5. {over(g) : g \in GrantsOf(t)} =
              {over([pool |-> leasePool[l], stage |-> LeaseStage(l)])}
        BY <4>3
      <4> QED
        BY <4>2, <4>4, <4>5
    <3> QED
      BY <3>2, <3>3
  <2>5. Ownership!Restart
    BY <2>4 DEF Ownership!Restart
  <2> QED
    BY <2>5 DEF Ownership!Next
<1>8. ASSUME ~ScheduleNext, ~SpawnWorker, ~CrashAndRestart,
             ~(\E l \in LeaseIds : WorkerRun(l))
      PROVE  UNCHANGED <<leaseVars, worker, run>>
  BY <1>8 DEF Next, Step, AutomationCycle, Settlement, vars, workerVars,
    StartCycle, ReconcileTaskReadiness, ClaimTick, NoTick, EnqueueDispatch,
    CompleteTick, CreateNextTick, ClaimDispatch, NoDispatch, RejectSpawn,
    FailJob, SettleJob, CompleteJob, DeliverResult, FinishDevelopment,
    OperatorStep, Pause, Resume, Requeue, ForceUnblock, Cancel, MarkDone,
    Reopen, OperatorTransition, StartAutomation, PauseAutomation
<1> QED
  BY <1>2, <1>3, <1>5, <1>6, <1>7, <1>8

\* The control plane implements TaskOwnership for every set of tasks and pools
\* and any number of leases and crashes: a task is granted to one pool at a
\* time, within its limit, worked on once by one worker, and given back only
\* when that worker ends.
THEOREM OwnershipImplemented == Spec => ImplementsOwnership
<1>1. Init => Ownership!Init
  BY DEF Init, Ownership!Init, GrantsOf, ActiveLeases, IsActive
<1>2. TypeOK /\ OwnershipInv /\ WorkerInv /\ [Next]_vars =>
        [Ownership!Next]_[t \in Tasks |-> GrantsOf(t)]
  BY OwnershipStep DEF Grants
<1> QED
  BY <1>1, <1>2, TypeCorrect, OwnershipCorrect, WorkerCorrect, PTL
  DEF Spec, ImplementsOwnership, Ownership!Spec

-----------------------------------------------------------------------------
(* The control plane with the reconciliation sweep                         *)
(*                                                                         *)
(* A sweep may take the lease of a worker that is merely slow, so a run no *)
(* longer holds its lease (RunHoldsLease) and a task may be worked on by   *)
(* two workers.  What the leases themselves promise survives, from the     *)
(* part of the ownership invariant that does not look at runs and jobs.    *)

LeaseInv == ActiveIsCurrent /\ UnscheduledHasNoLease /\ ResultHasLease

\* Every step of the control plane keeps the leases in order, whatever the
\* runs, the jobs and the callbacks hold.
LEMMA LeaseInductive == TypeOK /\ LeaseInv /\ [Next]_vars => LeaseInv'
<1> SUFFICES ASSUME TypeOK, LeaseInv, [Next]_vars PROVE LeaseInv'
  OBVIOUS
<1> USE DEF TypeOK, LeaseInv, ActiveIsCurrent, UnscheduledHasNoLease, IsActive,
            TerminalLeaseStatuses
<1>1. ResultHasLease'
  BY DEF ResultHasLease, Next, Step, AutomationCycle, WorkerRun, RunEnds, Settlement, vars,
    loopVars, Goto, StartCycle, ReconcileTaskReadiness, ClaimTick, NoTick, ScheduleNext,
    EnqueueDispatch, CompleteTick, CreateNextTick, ClaimDispatch, NoDispatch,
    RejectSpawn, SpawnWorker, StartRun, Heartbeat, RunThrows, RunFails, RunSucceeds,
    FailJob, SettleJob, CompleteJob, DeliverResult, FinishDevelopment, OperatorStep,
    Pause, Resume, Requeue, ForceUnblock, Cancel, MarkDone, Reopen,
    OperatorTransition, StartAutomation, PauseAutomation, CrashAndRestart
<1> DEFINE Good == ActiveIsCurrent' /\ UnscheduledHasNoLease'
<1> SUFFICES Good
  BY <1>1
<1>2. CASE UNCHANGED <<taskVars, leaseVars>>
  BY <1>2 DEF taskVars, leaseVars
<1>3. ASSUME NEW t \in Tasks, NEW to, NEW ctx, TransitionTask(t, to, ctx),
             to \in {"BACKLOG", "BLOCKED"} => status[t] \in {"BACKLOG", "BLOCKED"},
             UNCHANGED leaseVars
      PROVE  Good
  BY <1>3 DEF TransitionTask, leaseVars
<1>4. ASSUME NEW t \in Tasks, ReconcileTaskReadiness(t) PROVE Good
  BY <1>3, <1>4 DEF ReconcileTaskReadiness, Unreconciled
<1>5. CASE ScheduleNext
  <2>1. PICK t \in Tasks, p \in Pools, l \in LeaseIds :
          AcquireLease(t, p, l) /\ leaseStatus[l] = "IDLE"
    BY <1>5 DEF ScheduleNext, Assignable, Candidates, BestPools, FreshLeases
  <2>2. \A k \in LeaseIds : leaseTask[k] = t => ~IsActive(k)
    BY <2>1 DEF AcquireLease, ActiveLeases
  <2> QED
    BY <2>1, <2>2 DEF AcquireLease
<1>6. ASSUME NEW l \in LeaseIds, IsActive(l), UNCHANGED <<taskVars, leaseTask>>,
             \A k \in LeaseIds : k # l => leaseStatus'[k] = leaseStatus[k]
      PROVE  Good
  BY <1>6 DEF taskVars
<1>7. ASSUME NEW l \in LeaseIds, StartRun(l) PROVE Good
  BY <1>6, <1>7 DEF StartRun, ValidateWorkerLeaseTransition, LeaseGuard, ProcessingStates
<1>8. ASSUME NEW l \in LeaseIds, Heartbeat(l) \/ RunSucceeds(l) PROVE Good
  BY <1>2, <1>6, <1>8 DEF Heartbeat, RunSucceeds, ForwardHeartbeat, leaseVars,
    HeartbeatReceivableStates
<1>9. ASSUME NEW l \in LeaseIds, SupervisorReclaim(l) PROVE Good
  <2>1. CASE ReclaimLease(l, "CRASHED", {"workerCrashed"})
    <3>1. /\ leaseStatus[l] \in ReclaimableStates
          /\ leaseStatus' = [leaseStatus EXCEPT ![l] = "CRASHED"]
          /\ leaseTask' = leaseTask
      BY <2>1 DEF ReclaimLease, ReclaimCommits
    <3>2. CASE UNCHANGED taskVars
      BY <3>1, <3>2 DEF taskVars
    <3>3. CASE
        /\ status' = [status EXCEPT ![leaseTask[l]] =
                        ReclaimTarget(retryCount[leaseTask[l]], HasFailureSummary)]
        /\ currentLeaseId' = [currentLeaseId EXCEPT ![leaseTask[l]] = NoLease]
      BY <3>1, <3>3 DEF ReclaimTarget, ReclaimableStates
    <3> QED
      BY <2>1, <3>2, <3>3 DEF ReclaimLease
  <2> QED
    BY <1>2, <1>9, <2>1 DEF SupervisorReclaim
<1>10. CASE DeliverResult \/ FinishDevelopment
  <2>1. leaseTask[focus] \in Tasks
    BY <1>10 DEF DeliverResult, FinishDevelopment, ResultHasLease
  <2> QED
    BY <1>2, <1>3, <1>10, <2>1 DEF DeliverResult, FinishDevelopment, TryTransitionTask
<1>11. ASSUME NEW t \in Tasks, OperatorStep(t) PROVE Good
  <2>1. CASE Reopen(t)
    BY <2>1 DEF Reopen, ActiveLeases, leaseVars
  <2>2. CASE ~Reopen(t)
    BY <1>3, <1>11, <2>2 DEF OperatorStep, Pause, Resume, Requeue, ForceUnblock,
      Cancel, MarkDone, OperatorTransition
  <2> QED
    BY <2>1, <2>2
<1>12. \/ UNCHANGED <<taskVars, leaseVars>>
       \/ \E t \in Tasks : ReconcileTaskReadiness(t) \/ OperatorStep(t)
       \/ ScheduleNext
       \/ \E l \in LeaseIds :
            StartRun(l) \/ Heartbeat(l) \/ RunSucceeds(l) \/ SupervisorReclaim(l)
       \/ DeliverResult \/ FinishDevelopment
  BY DEF Next, Step, AutomationCycle, WorkerRun, RunEnds, Settlement, vars,
    StartCycle, ClaimTick, NoTick, EnqueueDispatch, CompleteTick, CreateNextTick,
    ClaimDispatch, NoDispatch, RejectSpawn, SpawnWorker, RunThrows, RunFails,
    FailJob, SettleJob, CompleteJob, StartAutomation, PauseAutomation, CrashAndRestart
<1> QED
  BY <1>2, <1>4, <1>5, <1>7, <1>8, <1>9, <1>10, <1>11, <1>12

\* A step of the composition is a step of the control plane, or of the sweep.
LEMMA SweepCases ==
  ASSUME [SweepNext]_allVars
  PROVE  \/ [Next]_vars
         \/ \E stale \in SUBSET StaleCandidates : SweepStaleLeases(stale)
         \/ SweepOrphanedJobs
         \/ \E stuck \in SUBSET StuckCandidates : SweepStuckTasks(stuck)
         \/ \E t \in Tasks : SweepBlockedTask(t)
BY DEF SweepNext, SweepStepTaken, ClaimSweep, CompleteSweep, CreateNextSweep, allVars,
       Next

\* What a sweep of the stale leases does to a lease and to a task: it takes
\* leases with a running worker only, a task is moved only out of ASSIGNED and
\* IN_DEVELOPMENT and with one of its leases taken.
LEMMA StaleLeasesTaken ==
  ASSUME TypeOK, NEW stale \in SUBSET StaleCandidates, SweepStaleLeases(stale)
  PROVE  \E reclaimed \in SUBSET LeaseIds :
           /\ \A l \in LeaseIds : /\ l \in reclaimed => /\ leaseStatus[l] \in ReclaimableStates
                                                        /\ leaseStatus'[l] = "TIMED_OUT"
                                  /\ l \notin reclaimed => leaseStatus'[l] = leaseStatus[l]
           /\ \A t \in Tasks :
                \/ /\ status'[t] = status[t] /\ retryCount'[t] = retryCount[t]
                   /\ currentLeaseId'[t] = currentLeaseId[t]
                \/ /\ status[t] \in ReclaimEligibleTaskStates
                   /\ status'[t] = ReclaimTarget(retryCount[t], HasFailureSummary)
                   /\ retryCount'[t] = ReclaimRetryCount(retryCount[t], HasFailureSummary)
                   /\ currentLeaseId'[t] = NoLease
                   /\ \E l \in reclaimed : leaseTask[l] = t
           /\ leaseStatus' \in [LeaseIds -> WorkerLeaseStatuses]
           /\ status' \in [Tasks -> TaskStatuses]
           /\ currentLeaseId' \in [Tasks -> LeaseIds \cup {NoLease}]
           /\ retryCount' \in [Tasks -> Nat]
           /\ UNCHANGED <<leaseTask, leasePool, workerVars, tick, paused, loopVars>>
<1> DEFINE reclaimed == {l \in stale : ReclaimCommits(l, "TIMED_OUT", {"heartbeatTimedOut"})}
<1>1. reclaimed \in SUBSET LeaseIds
  BY DEF StaleCandidates
<1>2. \A l \in reclaimed : leaseStatus[l] \in ReclaimableStates
  BY DEF ReclaimCommits
<1>3. /\ leaseStatus' = [l \in LeaseIds |->
           IF l \in reclaimed THEN "TIMED_OUT" ELSE leaseStatus[l]]
      /\ status' = [t \in Tasks |-> IF t \in TasksMovedBy(reclaimed)
           THEN ReclaimTarget(retryCount[t], HasFailureSummary) ELSE status[t]]
      /\ retryCount' = [t \in Tasks |-> IF t \in TasksMovedBy(reclaimed)
           THEN ReclaimRetryCount(retryCount[t], HasFailureSummary) ELSE retryCount[t]]
      /\ currentLeaseId' = [t \in Tasks |->
           IF t \in TasksMovedBy(reclaimed) THEN NoLease ELSE currentLeaseId[t]]
      /\ UNCHANGED <<leaseTask, leasePool, workerVars, tick, paused, loopVars>>
  BY DEF SweepStaleLeases
<1> HIDE DEF reclaimed
<1>4. \A t \in Tasks : t \in TasksMovedBy(reclaimed) =>
        /\ status[t] \in ReclaimEligibleTaskStates
        /\ \E l \in reclaimed : leaseTask[l] = t
  BY DEF TasksMovedBy
<1>5. \A n \in Nat : /\ ReclaimTarget(n, HasFailureSummary) \in TaskStatuses
                     /\ ReclaimRetryCount(n, HasFailureSummary) \in Nat
  BY DEF ReclaimTarget, ReclaimRetryCount, TaskStatuses
<1>6. /\ leaseStatus' \in [LeaseIds -> WorkerLeaseStatuses]
      /\ status' \in [Tasks -> TaskStatuses]
      /\ currentLeaseId' \in [Tasks -> LeaseIds \cup {NoLease}]
      /\ retryCount' \in [Tasks -> Nat]
  BY <1>3, <1>5 DEF TypeOK, WorkerLeaseStatuses
<1>7. \A l \in LeaseIds : /\ l \in reclaimed => leaseStatus'[l] = "TIMED_OUT"
                          /\ l \notin reclaimed => leaseStatus'[l] = leaseStatus[l]
  BY <1>3
<1>8. \A t \in Tasks :
        \/ /\ status'[t] = status[t] /\ retryCount'[t] = retryCount[t]
           /\ currentLeaseId'[t] = currentLeaseId[t]
        \/ /\ status[t] \in ReclaimEligibleTaskStates
           /\ status'[t] = ReclaimTarget(retryCount[t], HasFailureSummary)
           /\ retryCount'[t] = ReclaimRetryCount(retryCount[t], HasFailureSummary)
           /\ currentLeaseId'[t] = NoLease
           /\ \E l \in reclaimed : leaseTask[l] = t
  BY <1>3, <1>4
<1> QED
  BY <1>1, <1>2, <1>3, <1>6, <1>7, <1>8

\* Every variable keeps its domain with the sweep as well, and so does the
\* order of the leases: the sweep never leaves a task whose lease it took with
\* an active lease that is not the current one.
LEMMA SweepInductive ==
  TypeOK /\ LeaseInv /\ [SweepNext]_allVars => TypeOK' /\ LeaseInv'
<1> SUFFICES ASSUME TypeOK, LeaseInv, [SweepNext]_allVars PROVE TypeOK' /\ LeaseInv'
  OBVIOUS
<1>1. CASE [Next]_vars
  BY <1>1, TypeInductive, LeaseInductive
<1>2. ASSUME NEW stale \in SUBSET StaleCandidates, SweepStaleLeases(stale)
      PROVE  TypeOK' /\ LeaseInv'
  <2>1. PICK reclaimed \in SUBSET LeaseIds :
           /\ \A l \in LeaseIds : /\ l \in reclaimed => /\ leaseStatus[l] \in ReclaimableStates
                                                        /\ leaseStatus'[l] = "TIMED_OUT"
                                  /\ l \notin reclaimed => leaseStatus'[l] = leaseStatus[l]
           /\ \A t \in Tasks :
                \/ /\ status'[t] = status[t]
                   /\ currentLeaseId'[t] = currentLeaseId[t]
                \/ /\ status'[t] = ReclaimTarget(retryCount[t], HasFailureSummary)
                   /\ \E l \in reclaimed : leaseTask[l] = t
           /\ leaseStatus' \in [LeaseIds -> WorkerLeaseStatuses]
           /\ status' \in [Tasks -> TaskStatuses]
           /\ currentLeaseId' \in [Tasks -> LeaseIds \cup {NoLease}]
           /\ retryCount' \in [Tasks -> Nat]
           /\ UNCHANGED <<leaseTask, leasePool, workerVars, tick, paused, loopVars>>
    BY <1>2, StaleLeasesTaken
  <2>2. TypeOK'
    BY <2>1 DEF TypeOK, workerVars, loopVars
  <2>3. \A l \in LeaseIds : IsActive(l)' => IsActive(l) /\ l \notin reclaimed
    BY <2>1 DEF IsActive, TerminalLeaseStatuses
  <2>4. \A l \in reclaimed : IsActive(l)
    BY <2>1 DEF IsActive, ReclaimableStates, TerminalLeaseStatuses
  <2>5. ActiveIsCurrent'
    <3> SUFFICES ASSUME NEW l \in LeaseIds, IsActive(l)'
                 PROVE  currentLeaseId'[leaseTask[l]] = l
      BY <2>1 DEF ActiveIsCurrent
    <3>1. IsActive(l) /\ l \notin reclaimed /\ currentLeaseId[leaseTask[l]] = l
      BY <2>3 DEF LeaseInv, ActiveIsCurrent
    <3>2. \A k \in reclaimed : leaseTask[k] # leaseTask[l]
      BY <2>4, <3>1 DEF LeaseInv, ActiveIsCurrent
    <3> QED
      BY <2>1, <3>1, <3>2 DEF TypeOK
  <2>6. UnscheduledHasNoLease'
    BY <2>1, <2>3 DEF LeaseInv, UnscheduledHasNoLease, ReclaimTarget, TypeOK
  <2>7. ResultHasLease'
    BY <2>1 DEF LeaseInv, ResultHasLease, loopVars
  <2> QED
    BY <2>2, <2>5, <2>6, <2>7 DEF LeaseInv
<1>3. CASE SweepOrphanedJobs
  <2>1. TypeOK'
    BY <1>3 DEF SweepOrphanedJobs, TypeOK, taskVars, leaseVars, loopVars, JobStatuses
  <2> QED
    BY <1>3, <2>1 DEF SweepOrphanedJobs, LeaseInv, ActiveIsCurrent,
      UnscheduledHasNoLease, ResultHasLease, IsActive, taskVars, leaseVars, loopVars
<1>4. ASSUME NEW stuck \in SUBSET StuckCandidates, SweepStuckTasks(stuck)
      PROVE  TypeOK' /\ LeaseInv'
  <2>1. /\ status' \in [Tasks -> TaskStatuses]
        /\ \A t \in Tasks : status'[t] \in {status[t], "READY"}
        /\ UNCHANGED <<currentLeaseId, retryCount, leaseVars, workerVars, tick,
                       paused, loopVars>>
    BY <1>4 DEF SweepStuckTasks, TypeOK, TaskStatuses
  <2>2. TypeOK'
    BY <2>1 DEF TypeOK, leaseVars, workerVars, loopVars
  <2> QED
    BY <2>1, <2>2 DEF LeaseInv, ActiveIsCurrent, UnscheduledHasNoLease,
      ResultHasLease, IsActive, leaseVars, loopVars, TypeOK
<1>5. ASSUME NEW u \in Tasks, SweepBlockedTask(u) PROVE TypeOK' /\ LeaseInv'
  <2>1. /\ status' = [status EXCEPT ![u] = "READY"]
        /\ UNCHANGED <<currentLeaseId, retryCount, leaseVars, workerVars, tick,
                       paused, loopVars>>
    BY <1>5 DEF SweepBlockedTask, TransitionTask
  <2>2. TypeOK'
    BY <2>1 DEF TypeOK, leaseVars, workerVars, loopVars, TaskStatuses
  <2> QED
    BY <2>1, <2>2 DEF LeaseInv, ActiveIsCurrent, UnscheduledHasNoLease,
      ResultHasLease, IsActive, leaseVars, loopVars, TypeOK
<1> QED
  BY <1>1, <1>2, <1>3, <1>4, <1>5, SweepCases

\* The types and the leases are in order in every reachable state of the
\* control plane with the sweep.
THEOREM SweepCorrect == SweepSpec => [](TypeOK /\ LeaseInv)
<1>1. SweepInit => TypeOK /\ LeaseInv
  <2> SUFFICES ASSUME SweepInit PROVE TypeOK /\ LeaseInv
    OBVIOUS
  <2>1. TypeOK
    BY InitTyped DEF SweepInit
  <2> QED
    BY <2>1 DEF SweepInit, Init, LeaseInv, ActiveIsCurrent, UnscheduledHasNoLease,
      ResultHasLease, IsActive
<1> QED
  BY <1>1, SweepInductive, PTL DEF SweepSpec

\* Also with the sweep taking leases from workers that may still be alive, no
\* task ever has two active leases.
THEOREM SweepLeaseExclusivity == SweepSpec => []SingleActiveLease
<1>1. LeaseInv => SingleActiveLease
  BY DEF LeaseInv, ActiveIsCurrent, SingleActiveLease
<1> QED
  BY <1>1, SweepCorrect, PTL

\* Also with the sweep no pool is filled beyond maxConcurrency.
THEOREM SweepPoolsBounded == SweepSpec => []PoolCapacity
<1>1. TypeOK /\ PoolCapacity /\ [SweepNext]_allVars => PoolCapacity'
  <2> SUFFICES ASSUME TypeOK, PoolCapacity, [SweepNext]_allVars PROVE PoolCapacity'
    OBVIOUS
  <2>1. ASSUME \A p \in Pools : PoolLeases(p)' \subseteq PoolLeases(p)
        PROVE  PoolCapacity'
    <3> SUFFICES ASSUME NEW p \in Pools
                 PROVE  Cardinality(PoolLeases(p)') <= MaxConcurrency[p]
      BY DEF PoolCapacity
    <3>1. /\ IsFiniteSet(PoolLeases(p)')
          /\ Cardinality(PoolLeases(p)') <= Cardinality(PoolLeases(p))
      BY <2>1, PoolLeasesFinite, FS_Subset
    <3>2. Cardinality(PoolLeases(p)') \in Nat
      BY <3>1, FS_CardinalityType
    <3> QED
      BY <3>1, <3>2, PoolLeasesFinite, LifecycleAssumption DEF PoolCapacity
  <2>2. CASE [Next]_vars
    BY <2>2, PoolStep
  <2>3. ASSUME NEW stale \in SUBSET StaleCandidates, SweepStaleLeases(stale)
        PROVE  PoolCapacity'
    <3>1. PICK reclaimed \in SUBSET LeaseIds :
            /\ \A l \in LeaseIds : /\ l \in reclaimed => leaseStatus'[l] = "TIMED_OUT"
                                   /\ l \notin reclaimed => leaseStatus'[l] = leaseStatus[l]
            /\ leasePool' = leasePool
      BY <2>3, StaleLeasesTaken
    <3>2. \A p \in Pools : PoolLeases(p)' \subseteq PoolLeases(p)
      BY <3>1 DEF PoolLeases, IsActive, TerminalLeaseStatuses
    <3> QED
      BY <2>1, <3>2
  <2>4. CASE UNCHANGED leaseVars
    BY <2>1, <2>4 DEF leaseVars, PoolLeases, IsActive
  <2> QED
    BY <2>2, <2>3, <2>4, SweepCases DEF SweepOrphanedJobs, SweepStuckTasks,
      SweepBlockedTask
<1> QED
  BY <1>1, PoolInit, SweepCorrect, PTL DEF SweepSpec, SweepInit

\* Also with the sweep the automatic retries stay within max_attempts and each
\* is paid for: a slow worker whose lease was taken by the sweep costs no
\* second retry when it fails afterwards.
THEOREM SweepRetriesBounded == SweepSpec => []RetryBudget
<1>1. TypeOK /\ RetryBudget /\ [SweepNext]_allVars => RetryBudget'
  <2> SUFFICES ASSUME TypeOK, RetryBudget, [SweepNext]_allVars PROVE RetryBudget'
    OBVIOUS
  <2>1. CASE [Next]_vars
    BY <2>1, RetryStep
  <2>2. ASSUME NEW stale \in SUBSET StaleCandidates, SweepStaleLeases(stale)
        PROVE  RetryBudget'
    <3>1. PICK reclaimed \in SUBSET LeaseIds :
            /\ \A l \in LeaseIds : /\ l \in reclaimed => /\ leaseStatus[l] \in ReclaimableStates
                                                         /\ leaseStatus'[l] = "TIMED_OUT"
                                   /\ l \notin reclaimed => leaseStatus'[l] = leaseStatus[l]
            /\ \A t \in Tasks :
                 \/ retryCount'[t] = retryCount[t]
                 \/ /\ retryCount'[t] = ReclaimRetryCount(retryCount[t], HasFailureSummary)
                    /\ \E l \in reclaimed : leaseTask[l] = t
            /\ leaseTask' = leaseTask
      BY <2>2, StaleLeasesTaken
    <3> SUFFICES ASSUME NEW t \in Tasks
                 PROVE  /\ retryCount'[t] <= MaxAttempts
                        /\ retryCount'[t] <= Cardinality(SpentLeases(t)')
      BY DEF RetryBudget
    <3>2. SpentLeases(t) \subseteq SpentLeases(t)'
      BY <3>1 DEF SpentLeases
    <3>3. /\ Cardinality(SpentLeases(t)) <= Cardinality(SpentLeases(t)')
          /\ SpentLeases(t)' # SpentLeases(t) =>
               Cardinality(SpentLeases(t)) # Cardinality(SpentLeases(t)')
      BY <3>2, SpentLeasesFinite, FS_Subset
    <3>4. /\ retryCount[t] \in Nat /\ retryCount[t] <= MaxAttempts
          /\ retryCount[t] <= Cardinality(SpentLeases(t))
      BY DEF TypeOK, RetryBudget
    <3>5. CASE retryCount'[t] = retryCount[t]
      BY <3>3, <3>4, <3>5, SpentLeasesFinite, PolicyAssumption
    <3>6. CASE retryCount'[t] # retryCount[t]
      <4>1. PICK l \in reclaimed : leaseTask[l] = t
        BY <3>1, <3>6
      <4>2. l \in SpentLeases(t)' /\ l \notin SpentLeases(t)
        BY <3>1, <4>1 DEF SpentLeases, ReclaimableStates
      <4>3. retryCount[t] < MaxAttempts /\ retryCount'[t] = retryCount[t] + 1
        BY <3>1, <3>6 DEF ReclaimRetryCount, ShouldRetry
      <4> QED
        BY <3>3, <3>4, <4>2, <4>3, SpentLeasesFinite, PolicyAssumption
    <3> QED
      BY <3>5, <3>6
  <2>3. CASE UNCHANGED <<leaseVars, retryCount>>
    BY <2>3 DEF RetryBudget, SpentLeases, leaseVars
  <2> QED
    BY <2>1, <2>2, <2>3, SweepCases DEF SweepOrphanedJobs, SweepStuckTasks,
      SweepBlockedTask, TransitionTask, taskVars
<1> QED
  BY <1>1, RetryInit, SweepCorrect, PTL DEF SweepSpec, SweepInit

\* A step of the composition changes a status as the control plane does, or
\* it is a step of the sweep and the task was neither terminal nor paused.
LEMMA SweepStatusChanges ==
  TypeOK /\ LeaseInv /\ [SweepNext]_allVars =>
    /\ \A t \in Tasks :
         \/ StatusChange(t)
         \/ status[t] \notin TerminalStates \cup {"ESCALATED"}
    /\ sweepStep # "idle" =>
         \A t \in Tasks : status[t] \in TerminalStates \cup {"ESCALATED"} =>
           status'[t] = status[t]
<1> SUFFICES ASSUME TypeOK, LeaseInv, [SweepNext]_allVars
             PROVE  /\ \A t \in Tasks :
                         \/ StatusChange(t)
                         \/ status[t] \notin TerminalStates \cup {"ESCALATED"}
                    /\ sweepStep # "idle" =>
                         \A t \in Tasks : status[t] \in TerminalStates \cup {"ESCALATED"} =>
                           status'[t] = status[t]
  OBVIOUS
<1>1. CASE sweepStep = "idle" /\ [Next]_vars
  BY <1>1, StatusChanges DEF LeaseInv
<1>2. CASE \A t \in Tasks :
             status'[t] = status[t] \/ status[t] \in {"ASSIGNED", "IN_DEVELOPMENT", "BLOCKED"}
  BY <1>2 DEF StatusChange, TerminalStates
<1>3. CASE UNCHANGED status
  BY <1>2, <1>3
<1>4. ASSUME NEW stale \in SUBSET StaleCandidates, SweepStaleLeases(stale)
      PROVE  \A t \in Tasks : status'[t] = status[t]
                              \/ status[t] \in {"ASSIGNED", "IN_DEVELOPMENT", "BLOCKED"}
  BY <1>4, StaleLeasesTaken DEF ReclaimEligibleTaskStates
<1>5. ASSUME NEW stuck \in SUBSET StuckCandidates, SweepStuckTasks(stuck)
      PROVE  \A t \in Tasks : status'[t] = status[t]
                              \/ status[t] \in {"ASSIGNED", "IN_DEVELOPMENT", "BLOCKED"}
  BY <1>5 DEF SweepStuckTasks, StuckCandidates
<1>6. ASSUME NEW u \in Tasks, SweepBlockedTask(u)
      PROVE  \A t \in Tasks : status'[t] = status[t]
                              \/ status[t] \in {"ASSIGNED", "IN_DEVELOPMENT", "BLOCKED"}
  BY <1>6 DEF SweepBlockedTask, Unblockable, TransitionTask, TypeOK
<1>7. \/ sweepStep = "idle" /\ [Next]_vars
      \/ UNCHANGED status
      \/ \E stale \in SUBSET StaleCandidates : SweepStaleLeases(stale)
      \/ \E stuck \in SUBSET StuckCandidates : SweepStuckTasks(stuck)
      \/ \E t \in Tasks : SweepBlockedTask(t)
  BY DEF SweepNext, SweepStepTaken, ClaimSweep, SweepOrphanedJobs, CompleteSweep,
    CreateNextSweep, CrashAndRestart, Next, allVars, vars, taskVars
<1> QED
  BY <1>1, <1>2, <1>3, <1>4, <1>5, <1>6, <1>7

\* The sweep revives no finished task and moves no paused one, whatever it
\* finds stale, orphaned, stuck or unblocked.
THEOREM SweepSparesFrozen == SweepSpec => SweepLeavesFrozenTasks
<1>1. TypeOK /\ LeaseInv /\ [SweepNext]_allVars =>
        [\A t \in Tasks :
           status[t] \in TerminalStates \cup {"ESCALATED"} /\ sweepStep # "idle" =>
             status'[t] = status[t]]_allVars
  BY SweepStatusChanges
<1> QED
  BY <1>1, SweepCorrect, PTL DEF SweepSpec, SweepLeavesFrozenTasks

\* Also with the sweep, and with workers whose lease it took still delivering,
\* a terminal task is left only by a reopen that finds no active lease.
THEOREM SweepTerminalStays == SweepSpec => TerminalOnlyReopened
<1>1. TypeOK /\ LeaseInv /\ [SweepNext]_allVars =>
        [\A t \in Tasks :
           status[t] \in TerminalStates /\ status'[t] # status[t] =>
             status'[t] = "BACKLOG" /\ ActiveLeases(t) = {}]_vars
  BY SweepStatusChanges DEF StatusChange, TerminalStates
<1> QED
  BY <1>1, SweepCorrect, PTL DEF SweepSpec, TerminalOnlyReopened

\* Also with the sweep only an operator's decision moves a paused task.
THEOREM SweepPauseFreezes == SweepSpec => PausedIsFrozen
<1>1. TypeOK /\ LeaseInv /\ [SweepNext]_allVars =>
        [\A t \in Tasks :
           status[t] = "ESCALATED" /\ status'[t] # status[t] =>
             /\ status'[t] \in {"ASSIGNED", "CANCELLED", "DONE"}
             /\ UNCHANGED <<leaseVars, workerVars>>]_vars
  BY SweepStatusChanges DEF StatusChange, TerminalStates
<1> QED
  BY <1>1, SweepCorrect, PTL DEF SweepSpec, PausedIsFrozen

=============================================================================
