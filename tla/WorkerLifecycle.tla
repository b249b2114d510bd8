-------------------------- MODULE WorkerLifecycle --------------------------
(***************************************************************************)
(* The control plane as apps/control-plane wires it: the automation cycle  *)
(* (readiness reconciliation, scheduler tick, worker dispatch), the lease  *)
(* service, the worker supervisor with its heartbeats and its reclaim on   *)
(* failure, the result processing, the operator actions, and the crash and *)
(* restart of the whole process.                                           *)
(*                                                                         *)
(* The process is one JavaScript event loop over one SQLite database.  All *)
(* database access is synchronous, so a callback runs to completion before *)
(* the next one starts: `phase' says which callback is in progress and how *)
(* far it is, and every other callback waits until it is "idle" again.     *)
(* Each step is one committed transaction, so a crash may fall between any *)
(* two of them (only the updates of the worker entity, which no decision   *)
(* reads, share a step with their neighbour).  What is awaited (workspace  *)
(* creation, the worker process, its output) is in `run' and interleaves   *)
(* freely.                                                                 *)
(*                                                                         *)
(* A lease, the WORKER_DISPATCH job whose payload names it, the worker     *)
(* entity and the supervised run of that worker are created once for each  *)
(* other, so all four are indexed by the lease.                            *)
(***************************************************************************)
EXTENDS Integers, FiniteSets, TaskStateMachine, WorkerLeaseStateMachine,
        RecoveryPolicies

CONSTANTS
  Tasks,
  Pools,                 \* the enabled worker pools of type developer
  MaxConcurrency,        \* [Pools -> Nat]
  RequiredCapabilities,  \* [Tasks -> set of capabilities]
  PoolCapabilities,      \* [Pools -> set of capabilities]
  Rank,                  \* [Tasks -> Nat]: priority, then creation time
  HardBlocks,            \* pairs <<task, prerequisite>>
  CandidateLimit,        \* READY tasks one scheduleNext() looks at
  HasFailureSummary,     \* what reclaimLease's callers pass; default false
  OperatorActions,       \* the operator actions of this instance
  MaxCrashes,            \* bound: crashes of the process in one behaviour
  MaxLeases              \* bound: leases created in one behaviour

OperatorActionNames ==
  {"pause", "resume", "requeue", "force_unblock", "cancel", "mark_done",
   "reopen", "automation"}

ASSUME LifecycleAssumption ==
  /\ IsFiniteSet(Tasks) /\ Tasks # {}
  /\ Pools # {}
  /\ MaxConcurrency \in [Pools -> Nat]
  /\ Rank \in [Tasks -> Nat]
  /\ HardBlocks \subseteq Tasks \X Tasks
  /\ CandidateLimit \in Nat
  /\ HasFailureSummary \in BOOLEAN
  /\ OperatorActions \subseteq OperatorActionNames
  /\ MaxCrashes \in Nat
  /\ MaxLeases \in Nat

LeaseIds == 1 .. MaxLeases   \* in creation order
NoLease  == 0                \* a null lease id

VARIABLES
  status,          \* task.status
  currentLeaseId,  \* task.currentLeaseId
  retryCount,      \* task.retryCount
  leaseStatus,     \* task_lease.status; IDLE: not created yet
  leaseTask,       \* task_lease.taskId
  leasePool,       \* task_lease.poolId
  job,             \* status of the lease's WORKER_DISPATCH job
  worker,          \* status of the lease's worker entity
  run,             \* where the lease's supervised run awaits (in memory)
  tick,            \* status of the one non-terminal SCHEDULER_TICK job
  paused,          \* AutomationService._paused (in memory)
  phase,           \* the callback in progress (in memory)
  focus,           \* the lease that callback works on (in memory)
  crashes          \* crashes so far, to bound them

taskVars   == <<status, currentLeaseId, retryCount>>
leaseVars  == <<leaseStatus, leaseTask, leasePool>>
workerVars == <<job, worker, run>>
loopVars   == <<phase, focus, crashes>>
vars == <<taskVars, leaseVars, workerVars, tick, paused, loopVars>>

JobStatuses    == {"none", "PENDING", "CLAIMED", "COMPLETED", "FAILED"}
WorkerStatuses ==
  {"none", "starting", "running", "completing", "completed", "failed",
   "cancelled"}
RunStates      == {"none", "preparing", "streaming"}
Phases ==
  {"idle", "readiness", "scheduling", "enqueue", "reschedule", "dispatch",
   "resolve", "completeJob", "settleJob", "failJob", "deliver", "finish"}

-----------------------------------------------------------------------------
(* Queries                                                                 *)

\* Fault: STARTING taken for a terminal status.
TerminalLeaseStatusesFault ==
  {"COMPLETED", "STARTING", "TIMED_OUT", "CRASHED", "RECLAIMED"}

\* TERMINAL_LEASE_STATUSES of the lease repository.  "COMPLETED" is no
\* status of the lease state machine; COMPLETING is not in the list.
TerminalLeaseStatuses == {"COMPLETED", "TIMED_OUT", "CRASHED", "RECLAIMED"}

\* A stored lease that findActiveByTaskId and the pools' counts see.
IsActive(l) == leaseStatus[l] \notin TerminalLeaseStatuses \cup {"IDLE"}

\* Fault: only leases with a running worker count.
ActiveLeasesFault(t) ==
  {l \in LeaseIds : leaseStatus[l] \in ProcessingStates /\ leaseTask[l] = t}

\* findActiveByTaskId
ActiveLeases(t) == {l \in LeaseIds : IsActive(l) /\ leaseTask[l] = t}

\* activeLeaseCount of findEnabledByType
PoolLeases(p) == {l \in LeaseIds : IsActive(l) /\ leasePool[l] = p}

\* computeReadiness: every hard-block prerequisite is DONE.
IsReady(t) == \A u \in Tasks : <<t, u>> \in HardBlocks => status[u] = "DONE"

IsPoolCompatible(t, p) == RequiredCapabilities[t] \subseteq PoolCapabilities[p]

HasPoolCapacity(p) == Cardinality(PoolLeases(p)) < MaxConcurrency[p]

AvailableSlots(p) == MaxConcurrency[p] - Cardinality(PoolLeases(p))

\* selectBestPool over the compatible pools; the database returns the pools
\* in no stated order, so a tie may go to any of them.
BestPools(t) ==
  LET open == {p \in Pools : IsPoolCompatible(t, p) /\ HasPoolCapacity(p)}
  IN  {p \in open : \A q \in open : AvailableSlots(q) <= AvailableSlots(p)}

\* findReadyByPriority(candidateLimit)
Candidates ==
  {t \in Tasks :
     /\ status[t] = "READY"
     /\ Cardinality({u \in Tasks : status[u] = "READY" /\ Rank[u] < Rank[t]})
          < CandidateLimit}

\* The candidates the loop of scheduleNext does not skip: a pool has room,
\* and acquireLease raises no ExclusivityViolationError.
Assignable == {t \in Candidates : BestPools(t) # {} /\ ActiveLeases(t) = {}}

\* The next fresh lease id, when the instance has one left.
FreshLeases ==
  {l \in LeaseIds : /\ leaseStatus[l] = "IDLE"
                    /\ \A k \in LeaseIds : k < l => leaseStatus[k] # "IDLE"}

-----------------------------------------------------------------------------
(* Building blocks: one committed transaction each                         *)

\* TransitionService.transitionTask; a rejected transition changes nothing.
TransitionTask(t, to, ctx) ==
  /\ ValidateTransition(status[t], to, ctx)
  /\ status' = [status EXCEPT ![t] = to]
  /\ UNCHANGED <<currentLeaseId, retryCount>>

\* transitionTask with the caller catching the rejection.
TryTransitionTask(t, to, ctx) ==
  \/ TransitionTask(t, to, ctx)
  \/ ~ValidateTransition(status[t], to, ctx) /\ UNCHANGED taskVars

LeaseEligibleStatuses == {"READY", "CHANGES_REQUESTED", "ESCALATED"}

\* Fault: the task's current lease is set to the task itself.
AcquireLeaseFault(t, p, l) ==
  /\ status[t] \in LeaseEligibleStatuses
  /\ ActiveLeases(t) = {}
  /\ leaseStatus' = [leaseStatus EXCEPT ![l] = "LEASED"]
  /\ leaseTask' = [leaseTask EXCEPT ![l] = t]
  /\ leasePool' = [leasePool EXCEPT ![l] = p]
  /\ status' = [status EXCEPT ![t] = "ASSIGNED"]
  /\ currentLeaseId' = [currentLeaseId EXCEPT ![t] = t]
  /\ UNCHANGED retryCount

\* LeaseService.acquireLease by the scheduler (actor.type = "system").
AcquireLease(t, p, l) ==
  /\ status[t] \in LeaseEligibleStatuses
  /\ ActiveLeases(t) = {}
  /\ ValidateTransition(status[t], "ASSIGNED", {"leaseAcquired"})
  /\ leaseStatus' = [leaseStatus EXCEPT ![l] = "LEASED"]
  /\ leaseTask' = [leaseTask EXCEPT ![l] = t]
  /\ leasePool' = [leasePool EXCEPT ![l] = p]
  /\ status' = [status EXCEPT ![t] = "ASSIGNED"]
  /\ currentLeaseId' = [currentLeaseId EXCEPT ![t] = l]
  /\ UNCHANGED retryCount

\* Fault: the terminal heartbeat is treated as an ordinary one.
HeartbeatTargetFault(from, completing) ==
  IF from = "STARTING" THEN "RUNNING" ELSE "HEARTBEATING"

\* computeTargetStatus of the heartbeat service
HeartbeatTarget(from, completing) ==
  IF completing THEN "COMPLETING"
  ELSE IF from = "STARTING" THEN "RUNNING" ELSE "HEARTBEATING"

\* buildTransitionContext of the heartbeat service
HeartbeatContext(from, to) ==
  IF to = "COMPLETING" THEN {"completionSignalReceived"}
  ELSE IF from = "STARTING" THEN {"firstHeartbeatReceived"}
  ELSE {"heartbeatReceived"}

HeartbeatReceivableStates == {"STARTING", "RUNNING", "HEARTBEATING"}

\* forwardHeartbeat: receiveHeartbeat, with every error swallowed.
ForwardHeartbeat(l, completing) ==
  LET to == HeartbeatTarget(leaseStatus[l], completing)
      ok == /\ leaseStatus[l] \in HeartbeatReceivableStates
            /\ ValidateWorkerLeaseTransition(
                 leaseStatus[l], to, HeartbeatContext(leaseStatus[l], to))
  IN  /\ leaseStatus' = IF ok THEN [leaseStatus EXCEPT ![l] = to]
                              ELSE leaseStatus
      /\ UNCHANGED <<leaseTask, leasePool>>

ReclaimableStates == {"STARTING", "RUNNING", "HEARTBEATING"}
ReclaimEligibleTaskStates == {"ASSIGNED", "IN_DEVELOPMENT"}

\* buildTaskTransitionContext of the reclaim service
ReclaimTaskContext(to) ==
  IF to = "READY" THEN {"leaseReclaimedRetryEligible"}
  ELSE IF to = "FAILED" THEN {"leaseTimedOutNoRetry"}
  ELSE {"hasEscalationTrigger"}

\* Whether reclaimLease commits: any rejected check rolls all of it back.
ReclaimCommits(l, to, ctx) ==
  LET t == leaseTask[l]
      target == ReclaimTarget(retryCount[t], HasFailureSummary)
  IN  /\ leaseStatus[l] \in ReclaimableStates
      /\ ValidateWorkerLeaseTransition(leaseStatus[l], to, ctx)
      /\ status[t] \in ReclaimEligibleTaskStates =>
           ValidateTransition(status[t], target, ReclaimTaskContext(target))

\* LeaseReclaimService.reclaimLease.  The task is the one the lease names;
\* when it has left ASSIGNED and IN_DEVELOPMENT only the lease moves.
ReclaimLease(l, to, ctx) ==
  LET t == leaseTask[l]
      moves == status[t] \in ReclaimEligibleTaskStates
  IN  /\ ReclaimCommits(l, to, ctx)
      /\ leaseStatus' = [leaseStatus EXCEPT ![l] = to]
      /\ UNCHANGED <<leaseTask, leasePool>>
      /\ IF moves
         THEN /\ status' = [status EXCEPT ![t] =
                   ReclaimTarget(retryCount[t], HasFailureSummary)]
              /\ retryCount' = [retryCount EXCEPT ![t] =
                   ReclaimRetryCount(retryCount[t], HasFailureSummary)]
              /\ currentLeaseId' = [currentLeaseId EXCEPT ![t] = NoLease]
         ELSE UNCHANGED taskVars

\* Fault: the reclaim after a failed run is forgotten.
SupervisorReclaimFault(l) == UNCHANGED <<taskVars, leaseVars>>

\* The supervisor's best-effort reclaim after a failed run.
SupervisorReclaim(l) ==
  \/ ReclaimLease(l, "CRASHED", {"workerCrashed"})
  \/ /\ ~ReclaimCommits(l, "CRASHED", {"workerCrashed"})
     /\ UNCHANGED <<taskVars, leaseVars>>

\* The callback goes on (or, with "idle", ends); the process has not crashed.
Goto(p, l) == phase' = p /\ focus' = l /\ UNCHANGED crashes

-----------------------------------------------------------------------------
(* The automation cycle: AutomationService.runCycle                        *)

\* The polling timer fires.
StartCycle ==
  /\ phase = "idle" /\ ~paused
  /\ Goto("readiness", NoLease)
  /\ UNCHANGED <<taskVars, leaseVars, workerVars, tick, paused>>

\* What reconcileTaskReadiness asks of a task, and in which context.
ReadinessTarget(t) == IF IsReady(t) THEN "READY" ELSE "BLOCKED"

ReadinessContext(t) ==
  IF IsReady(t) THEN {"allDependenciesResolved"} ELSE {"hasBlockers"}

\* The BACKLOG and BLOCKED tasks the loop of reconcileTaskReadiness has still
\* to move.  Its transitions do not change the readiness of other tasks.
Unreconciled ==
  {t \in Tasks : /\ status[t] \in {"BACKLOG", "BLOCKED"}
                 /\ status[t] # ReadinessTarget(t)}

\* One task of the loop of reconcileTaskReadiness.
ReconcileTaskReadiness(t) ==
  /\ phase = "readiness" /\ t \in Unreconciled
  /\ TransitionTask(t, ReadinessTarget(t), ReadinessContext(t))
  /\ UNCHANGED <<leaseVars, workerVars, tick, paused, loopVars>>

\* processTick claims the tick job if there is one and its runAfter is past.
ClaimTick ==
  /\ phase = "readiness" /\ Unreconciled = {}
  /\ tick = "PENDING"
  /\ tick' = "CLAIMED"
  /\ Goto("scheduling", NoLease)
  /\ UNCHANGED <<taskVars, leaseVars, workerVars, paused>>

\* No tick job can be claimed: none is PENDING, or it is not due yet.
NoTick ==
  /\ phase = "readiness" /\ Unreconciled = {}
  /\ Goto("dispatch", NoLease)
  /\ UNCHANGED <<taskVars, leaseVars, workerVars, tick, paused>>

\* scheduleNext, up to the committed lease.
ScheduleNext ==
  /\ phase = "scheduling"
  /\ \E t \in Assignable :
       /\ \A u \in Assignable : Rank[t] <= Rank[u]
       /\ \E p \in BestPools(t), l \in FreshLeases :
            AcquireLease(t, p, l) /\ Goto("enqueue", l)
  /\ UNCHANGED <<workerVars, tick, paused>>

\* scheduleNext creates the WORKER_DISPATCH job in a second transaction.
EnqueueDispatch ==
  /\ phase = "enqueue"
  /\ job' = [job EXCEPT ![focus] = "PENDING"]
  /\ Goto("scheduling", NoLease)
  /\ UNCHANGED <<taskVars, leaseVars, worker, run, tick, paused>>

\* The scheduling loop stops; the tick job completes.
CompleteTick ==
  /\ phase = "scheduling"
  /\ Assignable = {} \/ FreshLeases = {}
  /\ tick' = "none"
  /\ Goto("reschedule", NoLease)
  /\ UNCHANGED <<taskVars, leaseVars, workerVars, paused>>

\* Fault: no next tick job.
CreateNextTickFault ==
  /\ phase = "reschedule"
  /\ Goto("dispatch", NoLease)
  /\ UNCHANGED <<taskVars, leaseVars, workerVars, tick, paused>>

\* processTick creates the next tick job.
CreateNextTick ==
  /\ phase = "reschedule"
  /\ tick' = "PENDING"
  /\ Goto("dispatch", NoLease)
  /\ UNCHANGED <<taskVars, leaseVars, workerVars, paused>>

\* Fault: a job that was claimed is delivered again.
ClaimDispatchFault ==
  /\ phase = "dispatch"
  /\ \E l \in LeaseIds :
       /\ job[l] \in {"PENDING", "CLAIMED"}
       /\ job' = [job EXCEPT ![l] = "CLAIMED"]
       /\ Goto("resolve", l)
  /\ UNCHANGED <<taskVars, leaseVars, worker, run, tick, paused>>

\* processDispatch claims the oldest PENDING dispatch job.
ClaimDispatch ==
  /\ phase = "dispatch"
  /\ \E l \in LeaseIds :
       /\ job[l] = "PENDING"
       /\ \A k \in LeaseIds : job[k] = "PENDING" => l <= k
       /\ job' = [job EXCEPT ![l] = "CLAIMED"]
       /\ Goto("resolve", l)
  /\ UNCHANGED <<taskVars, leaseVars, worker, run, tick, paused>>

NoDispatch ==
  /\ phase = "dispatch"
  /\ \A l \in LeaseIds : job[l] # "PENDING"
  /\ Goto("idle", NoLease)
  /\ UNCHANGED <<taskVars, leaseVars, workerVars, tick, paused>>

\* resolveSpawnContext refuses a terminal task; the job fails, the lease
\* stays as it is.
RejectSpawn ==
  /\ phase = "resolve"
  /\ IsTerminalState(status[leaseTask[focus]])
  /\ job' = [job EXCEPT ![focus] = "FAILED"]
  /\ Goto("idle", NoLease)
  /\ UNCHANGED <<taskVars, leaseVars, worker, run, tick, paused>>

\* spawnWorker creates the worker entity and awaits the workspace.
SpawnWorker ==
  /\ phase = "resolve"
  /\ ~IsTerminalState(status[leaseTask[focus]])
  /\ worker' = [worker EXCEPT ![focus] = "starting"]
  /\ run' = [run EXCEPT ![focus] = "preparing"]
  /\ Goto("idle", NoLease)
  /\ UNCHANGED <<taskVars, leaseVars, job, tick, paused>>

-----------------------------------------------------------------------------
(* The supervised run of lease l: WorkerSupervisorService.spawnWorker      *)

\* The worker process is started: the lease moves to STARTING, the worker
\* entity to "running".
StartRun(l) ==
  /\ phase = "idle" /\ run[l] = "preparing"
  /\ ValidateWorkerLeaseTransition(leaseStatus[l], "STARTING",
                                   {"workerProcessSpawned"})
  /\ leaseStatus' = [leaseStatus EXCEPT ![l] = "STARTING"]
  /\ worker' = [worker EXCEPT ![l] = "running"]
  /\ run' = [run EXCEPT ![l] = "streaming"]
  /\ UNCHANGED <<taskVars, leaseTask, leasePool, job, tick, paused, loopVars>>

\* The output stream yields a heartbeat event.
Heartbeat(l) ==
  /\ phase = "idle" /\ run[l] = "streaming"
  /\ ForwardHeartbeat(l, FALSE)
  /\ UNCHANGED <<taskVars, workerVars, tick, paused, loopVars>>

\* An awaited step rejects, in the preparation, the stream or the
\* finalization: worker failed, best-effort reclaim, and spawnWorker throws.
RunThrows(l) ==
  /\ phase = "idle" /\ run[l] # "none"
  /\ worker' = [worker EXCEPT ![l] = "failed"]
  /\ run' = [run EXCEPT ![l] = "none"]
  /\ SupervisorReclaim(l)
  /\ Goto("failJob", l)
  /\ UNCHANGED <<job, tick, paused>>

\* The worker ended without success: spawnWorker reclaims and returns.
RunFails(l) ==
  /\ phase = "idle" /\ run[l] = "streaming"
  /\ \E s \in {"failed", "cancelled"} : worker' = [worker EXCEPT ![l] = s]
  /\ run' = [run EXCEPT ![l] = "none"]
  /\ SupervisorReclaim(l)
  /\ Goto("settleJob", l)
  /\ UNCHANGED <<job, tick, paused>>

\* The worker ended with success or a partial result: the terminal heartbeat
\* moves the lease to COMPLETING if it still can.
RunSucceeds(l) ==
  /\ phase = "idle" /\ run[l] = "streaming"
  /\ ForwardHeartbeat(l, TRUE)
  /\ worker' = [worker EXCEPT ![l] = "completed"]
  /\ run' = [run EXCEPT ![l] = "none"]
  /\ Goto("completeJob", l)
  /\ UNCHANGED <<taskVars, job, tick, paused>>

\* JobQueueService.completeJob and failJob accept a CLAIMED job only (no
\* dispatch job is ever RUNNING); on any other status they throw.
SettledAs(l, s) ==
  IF job[l] = "CLAIMED" THEN [job EXCEPT ![l] = s] ELSE job

\* processDispatch after spawnWorker threw or returned an unsuccessful run.
FailJob ==
  /\ phase = "failJob"
  /\ job' = SettledAs(focus, "FAILED")
  /\ Goto("idle", NoLease)
  /\ UNCHANGED <<taskVars, leaseVars, worker, run, tick, paused>>

SettleJob ==
  /\ phase = "settleJob"
  /\ job' = SettledAs(focus, "COMPLETED")
  /\ Goto("idle", NoLease)
  /\ UNCHANGED <<taskVars, leaseVars, worker, run, tick, paused>>

\* processDispatch after a successful run.  When completeJob throws, so does
\* the failJob of the catch block, and the result is never processed.
CompleteJob ==
  /\ phase = "completeJob"
  /\ job' = SettledAs(focus, "COMPLETED")
  /\ IF job[focus] = "CLAIMED" THEN Goto("deliver", focus)
                               ELSE Goto("idle", NoLease)
  /\ UNCHANGED <<taskVars, leaseVars, worker, run, tick, paused>>

\* processSuccessfulWorkerResult, step 1.  It knows the task only, not the
\* lease or the worker.
DeliverResult ==
  /\ phase = "deliver"
  /\ TryTransitionTask(leaseTask[focus], "IN_DEVELOPMENT", {"hasHeartbeat"})
  /\ Goto("finish", focus)
  /\ UNCHANGED <<leaseVars, workerVars, tick, paused>>

\* processSuccessfulWorkerResult, step 2.
FinishDevelopment ==
  /\ phase = "finish"
  /\ TryTransitionTask(leaseTask[focus], "DEV_COMPLETE",
                       {"hasDevResultPacket", "requiredValidationsPassed"})
  /\ Goto("idle", NoLease)
  /\ UNCHANGED <<leaseVars, workerVars, tick, paused>>

-----------------------------------------------------------------------------
(* Operator actions: OperatorActionsService and the automation controller  *)

Operator(action) == action \in OperatorActions /\ phase = "idle"

\* A transition requested through executeTransitionAction.
OperatorTransition(t, to, ctx) ==
  /\ TransitionTask(t, to, ctx)
  /\ UNCHANGED <<leaseVars, workerVars, tick, paused, loopVars>>

Pause(t) ==
  /\ Operator("pause")
  /\ OperatorTransition(t, "ESCALATED", {"isOperator"})

\* resume, and resolveEscalation with "retry": the context claims a lease,
\* but none is created.
Resume(t) ==
  /\ Operator("resume")
  /\ status[t] = "ESCALATED"
  /\ OperatorTransition(t, "ASSIGNED", {"isOperator", "leaseAcquired"})

Requeue(t) ==
  /\ Operator("requeue")
  /\ OperatorTransition(t, "READY", {"leaseReclaimedRetryEligible"})

ForceUnblock(t) ==
  /\ Operator("force_unblock")
  /\ status[t] = "BLOCKED"
  /\ OperatorTransition(t, "READY", {"allDependenciesResolved"})

\* cancel (work in progress acknowledged), and resolveEscalation "cancel".
Cancel(t) ==
  /\ Operator("cancel")
  /\ status[t] # "MERGING"
  /\ OperatorTransition(t, "CANCELLED", {"isOperator"})

\* resolveEscalation with "mark_done" and evidence.
MarkDone(t) ==
  /\ Operator("mark_done")
  /\ status[t] = "ESCALATED"
  /\ OperatorTransition(t, "DONE", {"isOperator"})

\* Fault: guardReopen does not look at the leases.
ReopenFault(t) ==
  /\ Operator("reopen")
  /\ status[t] \in TerminalStates
  /\ status' = [status EXCEPT ![t] = "BACKLOG"]
  /\ currentLeaseId' = [currentLeaseId EXCEPT ![t] = NoLease]
  /\ UNCHANGED <<retryCount, leaseVars, workerVars, tick, paused, loopVars>>

\* guardReopen, then executeOverrideAction to BACKLOG.
Reopen(t) ==
  /\ Operator("reopen")
  /\ status[t] \in TerminalStates
  /\ ActiveLeases(t) = {}
  /\ status' = [status EXCEPT ![t] = "BACKLOG"]
  /\ currentLeaseId' = [currentLeaseId EXCEPT ![t] = NoLease]
  /\ UNCHANGED <<retryCount, leaseVars, workerVars, tick, paused, loopVars>>

StartAutomation ==
  /\ phase = "idle" /\ paused
  /\ paused' = FALSE
  /\ UNCHANGED <<taskVars, leaseVars, workerVars, tick, loopVars>>

PauseAutomation ==
  /\ Operator("automation") /\ ~paused
  /\ paused' = TRUE
  /\ UNCHANGED <<taskVars, leaseVars, workerVars, tick, loopVars>>

-----------------------------------------------------------------------------
(* Crash and restart of the control plane                                  *)

\* SchedulerTickService.initialize
InitializeTick == tick' = IF tick = "none" THEN "PENDING" ELSE tick

\* The process dies and restarts: what is in memory is lost, the database
\* stays.  The restarted automation is paused.
CrashAndRestart ==
  /\ crashes < MaxCrashes
  /\ crashes' = crashes + 1
  /\ run' = [l \in LeaseIds |-> "none"]
  /\ InitializeTick
  /\ paused' = TRUE
  /\ phase' = "idle" /\ focus' = NoLease
  /\ UNCHANGED <<taskVars, leaseVars, job, worker>>

-----------------------------------------------------------------------------
(* Specification                                                           *)

\* A database with imported tasks, the first start of the control plane.
Init ==
  /\ status = [t \in Tasks |-> "BACKLOG"]
  /\ currentLeaseId = [t \in Tasks |-> NoLease]
  /\ retryCount = [t \in Tasks |-> 0]
  /\ leaseStatus = [l \in LeaseIds |-> "IDLE"]
  /\ leaseTask = [l \in LeaseIds |-> CHOOSE t \in Tasks : TRUE]  \* not read
  /\ leasePool = [l \in LeaseIds |-> CHOOSE p \in Pools : TRUE]  \* yet
  /\ job = [l \in LeaseIds |-> "none"]
  /\ worker = [l \in LeaseIds |-> "none"]
  /\ run = [l \in LeaseIds |-> "none"]
  /\ tick = "PENDING"
  /\ paused = TRUE
  /\ phase = "idle"
  /\ focus = NoLease
  /\ crashes = 0

AutomationCycle ==
  \/ StartCycle \/ (\E t \in Tasks : ReconcileTaskReadiness(t))
  \/ ClaimTick \/ NoTick
  \/ ScheduleNext \/ EnqueueDispatch \/ CompleteTick \/ CreateNextTick
  \/ ClaimDispatch \/ NoDispatch \/ RejectSpawn \/ SpawnWorker

RunEnds(l) == RunThrows(l) \/ RunFails(l) \/ RunSucceeds(l)

WorkerRun(l) == StartRun(l) \/ Heartbeat(l) \/ RunEnds(l)

Settlement ==
  FailJob \/ SettleJob \/ CompleteJob \/ DeliverResult \/ FinishDevelopment

OperatorStep(t) ==
  \/ Pause(t) \/ Resume(t) \/ Requeue(t) \/ ForceUnblock(t)
  \/ Cancel(t) \/ MarkDone(t) \/ Reopen(t)

\* A step of the running process.
Step ==
  \/ AutomationCycle
  \/ \E l \in LeaseIds : WorkerRun(l)
  \/ Settlement
  \/ \E t \in Tasks : OperatorStep(t)
  \/ StartAutomation \/ PauseAutomation

Next == Step \/ CrashAndRestart

Spec == Init /\ [][Next]_vars

\* The event loop serves the polling timer, every settled promise and the
\* callback it is in; a tick job comes due; a worker process ends (of itself:
\* its time budget is only a part of its prompt).  Nothing is assumed of
\* operators or of crashes.
Fairness ==
  /\ WF_vars(AutomationCycle)
  /\ SF_vars(ClaimTick)
  /\ WF_vars(Settlement)
  /\ \A l \in LeaseIds :
       /\ SF_vars(StartRun(l) \/ RunThrows(l))
       /\ SF_vars(RunEnds(l))

FairSpec == Spec /\ Fairness

-----------------------------------------------------------------------------
(* Invariants                                                              *)

\* Every variable stays in its domain.
TypeOK ==
  /\ status \in [Tasks -> TaskStatuses]
  /\ currentLeaseId \in [Tasks -> LeaseIds \cup {NoLease}]
  /\ retryCount \in [Tasks -> Nat]
  /\ leaseStatus \in [LeaseIds -> WorkerLeaseStatuses]
  /\ leaseTask \in [LeaseIds -> Tasks]
  /\ leasePool \in [LeaseIds -> Pools]
  /\ job \in [LeaseIds -> JobStatuses]
  /\ worker \in [LeaseIds -> WorkerStatuses]
  /\ run \in [LeaseIds -> RunStates]
  /\ tick \in {"none", "PENDING", "CLAIMED"}
  /\ paused \in BOOLEAN
  /\ phase \in Phases
  /\ focus \in LeaseIds \cup {NoLease}
  /\ crashes \in Nat

\* At most one active lease per task, across the scheduler's acquisitions,
\* requeues, reopens and crashes: the exclusivity acquireLease enforces.
SingleActiveLease ==
  \A k, l \in LeaseIds :
    IsActive(k) /\ IsActive(l) /\ leaseTask[k] = leaseTask[l] => k = l

\* No pool ever carries more active leases than its maxConcurrency, although
\* the scheduler counts them in a read separate from the lease's creation.
PoolCapacity ==
  \A p \in Pools : Cardinality(PoolLeases(p)) <= MaxConcurrency[p]

\* Two supervised worker runs never work on the same task at once, whatever
\* the operator requeues, resumes, cancels or reopens while one is running.
SoleLiveRun ==
  \A k, l \in LeaseIds :
    run[k] # "none" /\ run[l] # "none" /\ leaseTask[k] = leaseTask[l] => k = l

\* A task in BACKLOG or BLOCKED has neither an active lease nor a live run:
\* what guardReopen is there to prevent when a terminal task is reopened.
UnscheduledIsUnleased ==
  \A t \in Tasks : status[t] \in {"BACKLOG", "BLOCKED"} =>
    \A l \in LeaseIds : leaseTask[l] = t => ~IsActive(l) /\ run[l] = "none"

\* The leases of a task that were reclaimed from it.
SpentLeases(t) ==
  {l \in LeaseIds :
     leaseTask[l] = t /\ leaseStatus[l] \in {"TIMED_OUT", "CRASHED"}}

\* Automatic retries stay within max_attempts, and each one was paid for by a
\* lease of the task that crashed.
RetryBudget ==
  \A t \in Tasks :
    /\ retryCount[t] <= MaxAttempts
    /\ retryCount[t] <= Cardinality(SpentLeases(t))

-----------------------------------------------------------------------------
(* Action properties                                                       *)

\* A terminal task leaves its status only for BACKLOG, by a reopen that finds
\* no active lease: no late result, reclaim or readiness pass revives it.
TerminalOnlyReopened ==
  [][\A t \in Tasks :
       status[t] \in TerminalStates /\ status'[t] # status[t] =>
         status'[t] = "BACKLOG" /\ ActiveLeases(t) = {}]_vars

\* A paused (ESCALATED) task is frozen: only an operator's decision moves it,
\* and that step touches no lease, job or worker.
PausedIsFrozen ==
  [][\A t \in Tasks :
       status[t] = "ESCALATED" /\ status'[t] # status[t] =>
         /\ status'[t] \in {"ASSIGNED", "CANCELLED", "DONE"}
         /\ UNCHANGED <<leaseVars, workerVars>>]_vars

\* Development is completed only by the worker of the task's current lease,
\* after its terminal heartbeat, although the result processing looks at the
\* task id alone.
ResultFromCurrentLease ==
  [][\A t \in Tasks :
       status[t] # "DEV_COMPLETE" /\ status'[t] = "DEV_COMPLETE" =>
         /\ currentLeaseId[t] = focus
         /\ focus \in LeaseIds /\ leaseStatus[focus] = "COMPLETING"]_vars

-----------------------------------------------------------------------------
(* Refinement                                                              *)

\* How far the grant a lease stands for is: no worker was made for it yet, its
\* supervised run is alive, or that run has ended.
LeaseStage(l) ==
  IF run[l] # "none" THEN "working" ELSE IF worker[l] = "none" THEN "granted" ELSE "over"

\* The grants of a task: its active leases.
GrantsOf(t) ==
  {[pool |-> leasePool[l], stage |-> LeaseStage(l)] : l \in ActiveLeases(t)}

Ownership == INSTANCE TaskOwnership WITH grant <- [t \in Tasks |-> GrantsOf(t)]

\* The control plane implements TaskOwnership: with the leases, jobs, workers
\* and callbacks hidden, a task is granted to one pool at a time and within
\* the pool's limit, a grant is worked on once, by one worker, and is given
\* back only when that worker ends (acquireLease, processDispatch, the
\* supervisor's reclaim), whatever operators and crashes do.
ImplementsOwnership == Ownership!Spec

-----------------------------------------------------------------------------
(* Liveness                                                                *)

\* While the automation runs, a READY task with room in a pool does not wait
\* for ever: it is leased, or stops being assignable.
ReadyIsScheduled ==
  \A t \in Tasks :
    (t \in Assignable /\ ~paused) ~>
      (t \notin Assignable \/ paused \/ FreshLeases = {})

\* While no crash happens and the automation is not paused, every assignment
\* is resolved: the task moves on, unless the dispatch failed before its lease
\* reached STARTING.
AssignmentResolved ==
  \A t \in Tasks :
    (status[t] = "ASSIGNED") ~>
      \/ status[t] # "ASSIGNED" \/ paused
      \/ \E l \in ActiveLeases(t) : leaseStatus[l] = "LEASED" /\ job[l] = "FAILED"

-----------------------------------------------------------------------------
(* What a comment says of the scheduler tick, and the code does not do     *)

\* "Persistence across restarts (the next tick survives crashes)": a claimed
\* scheduler tick is always followed by a claimable one.
TickSurvivesCrashes == (tick = "CLAIMED") ~> (tick = "PENDING")
=============================================================================
