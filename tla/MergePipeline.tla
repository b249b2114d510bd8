--------------------------- MODULE MergePipeline ---------------------------
(***************************************************************************)
(* From APPROVED to DONE: the merge queue, merge executor, conflict        *)
(* classifier and post-merge validation services of packages/application,  *)
(* for one repository, with the operator actions that reach a task while   *)
(* it is merged.                                                           *)
(*                                                                         *)
(* The services' transactions are synchronous; between two of them they    *)
(* await git and the validation commands, and anything else may happen.    *)
(* One step is what runs from one await to the next.                       *)
(*                                                                         *)
(* findByTaskId sees a task's item whatever its status, so a task has at   *)
(* most one item ever and the item is indexed by its task.                 *)
(*                                                                         *)
(* Task rows carry a version that every write increments, and a service    *)
(* writes with the version it read before it awaited.  `holds' abstracts   *)
(* the numbers: it names the executions whose version is still current.    *)
(***************************************************************************)
EXTENDS Integers, Sequences, FiniteSets, TaskStateMachine,
        MergeQueueItemStateMachine

CONSTANTS
  Tasks,
  Priorities,             \* a set of numbers, larger is more urgent
  ConflictPaths,          \* files a rebase may conflict in
  ProtectedPaths,         \* those of them the conflict policy protects
  MaxConflictFiles,
  Checks,                 \* checks of the merge gate
  RequiredChecks,
  SecurityChecks,
  CriticalCheckThreshold,
  AutoRevertOnCritical,
  UseAnalysisAgentOnHigh,
  PauseQueueOnCritical,
  ValidationRuns,         \* bound: post-merge validations of one task
  MaxCrashes              \* bound: crashes of the process

ASSUME MergeAssumption ==
  /\ IsFiniteSet(Tasks) /\ IsFiniteSet(ConflictPaths) /\ IsFiniteSet(Checks)
  /\ Priorities \subseteq Nat
  /\ MaxConflictFiles \in Nat /\ CriticalCheckThreshold \in Nat
  /\ {AutoRevertOnCritical, UseAnalysisAgentOnHigh, PauseQueueOnCritical}
       \subseteq BOOLEAN
  /\ "executor" \notin ValidationRuns
  /\ MaxCrashes \in Nat

VARIABLES
  status,       \* task.status
  priority,     \* task.priority
  holds,        \* the executions that hold the task's current version
  item,         \* status of the task's merge queue item; "none": no item
  enqueuedAt,   \* its enqueue time, as a rank among the waiting; else 0
  position,     \* its position
  exec,         \* what executeMerge awaits for the task (in memory)
  base,         \* length of the target branch it has fetched (in memory)
  post,         \* the post-merge validations of the task and their verdicts
  followUps,    \* the kinds of follow-up task its failure created
  target,       \* the tasks whose change reached the remote target branch
  queuePaused,  \* set by pauseQueue; nothing calls resumeQueue
  crashes

taskVars  == <<status, priority, holds>>
queueVars == <<item, enqueuedAt, position>>
execVars  == <<exec, base>>
postVars  == <<post, followUps, queuePaused>>
vars == <<taskVars, queueVars, execVars, postVars, target, crashes>>

ExecStates ==
  {"none", "fetching", "integrating", "validating", "pushing", "finishing"}
Verdicts   == {"passed", "failed"}
PostStates == Verdicts \cup {"idle", "running", "dropped"}
MergeStrategies == {"rebase-and-merge", "squash", "merge-commit"}

-----------------------------------------------------------------------------
(* Queries and classification                                              *)

\* Items that findNextEnqueued ranks before the item of t: by priority, then
\* by enqueue time.  (Times are ranks: equal times, which the item id decides
\* between, are not told apart.)
Ahead(t, items, times) ==
  {u \in Tasks :
     /\ items[u] = "ENQUEUED"
     /\ \/ priority[u] > priority[t]
        \/ priority[u] = priority[t] /\ times[u] < times[t]}

\* recalculatePositionsInTransaction: waiting items are numbered in queue
\* order.  (The position an item had when it left stays in its row, unread.)
RecalculatedPositions(items, times) ==
  [t \in Tasks |-> IF items[t] = "ENQUEUED"
                     THEN 1 + Cardinality(Ahead(t, items, times))
                     ELSE 0]

\* classifyConflict
ClassifyConflict(files) ==
  IF \/ Cardinality(files) >= MaxConflictFiles
     \/ files \cap ProtectedPaths # {}
    THEN "non_reworkable"
    ELSE "reworkable"

\* classifyFailureSeverity, from the checks that failed.
ClassifyFailureSeverity(failing) ==
  LET required == Cardinality(failing \cap RequiredChecks)
  IN  IF failing \cap SecurityChecks # {} \/ required > CriticalCheckThreshold
        THEN "critical"
        ELSE IF required > 0 THEN "high" ELSE "low"

\* The follow-up task applyFailure creates in its transaction.
FollowUpFor(severity) ==
  CASE severity = "critical" /\ AutoRevertOnCritical -> {"revert"}
    [] severity = "high" /\ ~UseAnalysisAgentOnHigh  -> {"revert"}
    [] severity = "low"                              -> {"diagnostic"}
    [] OTHER                                         -> {}

-----------------------------------------------------------------------------
(* Writes of a task row                                                    *)

\* A write by someone who read the row in the same transaction: no execution
\* keeps its version, except the writer if it goes on.
WriteTask(t, to, keeps) ==
  /\ status' = [status EXCEPT ![t] = to]
  /\ holds' = [holds EXCEPT ![t] = keeps]
  /\ UNCHANGED priority

\* Fault: the write ignores the version.
MayWriteFault(t, who) == TRUE

\* updateStatus with a version read earlier raises VersionConflictError
\* unless that version is current.
MayWrite(t, who) == who \in holds[t]

SetItem(t, to) == item' = [item EXCEPT ![t] = to]
Await(t, what) == exec' = [exec EXCEPT ![t] = what]
EndExec(t) == Await(t, "none") /\ base' = [base EXCEPT ![t] = 0]

-----------------------------------------------------------------------------
(* MergeQueueService                                                       *)

\* Fault: an item that has ended is no duplicate.
MayEnqueueFault(t) ==
  status[t] = "APPROVED" /\ item[t] \in {"none", "FAILED", "REQUEUED"}

\* The checks of enqueueForMerge; an item of any status is a duplicate.
MayEnqueue(t) == status[t] = "APPROVED" /\ item[t] = "none"

EnqueueForMerge(t) ==
  /\ MayEnqueue(t)
  /\ ValidateTransition(status[t], "QUEUED_FOR_MERGE", {"approved"})
  /\ WriteTask(t, "QUEUED_FOR_MERGE", {})
  /\ LET items == [item EXCEPT ![t] = "ENQUEUED"]
         times == [enqueuedAt EXCEPT ![t] =
                     1 + Cardinality({u \in Tasks : item[u] = "ENQUEUED"})]
     IN  /\ item' = items
         /\ enqueuedAt' = times
         /\ position' = RecalculatedPositions(items, times)
  /\ UNCHANGED <<execVars, postVars, target, crashes>>

\* The ranks of the other waiting items once t has left.
RanksWithout(t) ==
  [u \in Tasks |-> IF u = t THEN 0
                   ELSE IF enqueuedAt[u] > enqueuedAt[t] THEN enqueuedAt[u] - 1
                   ELSE enqueuedAt[u]]

\* dequeueNext looks neither at items in progress nor at the queue's pause.
DequeueNext(t) ==
  /\ item[t] = "ENQUEUED" /\ Ahead(t, item, enqueuedAt) = {}
  /\ ValidateMergeQueueItemTransition("ENQUEUED", "PREPARING",
                                      {"preparationStarted"})
  /\ SetItem(t, "PREPARING")
  /\ enqueuedAt' = RanksWithout(t)
  /\ position' = RecalculatedPositions([item EXCEPT ![t] = "PREPARING"],
                                       RanksWithout(t))
  /\ UNCHANGED <<taskVars, execVars, postVars, target, crashes>>

\* recalculatePositions: only this catches up with a changed priority.
RecalculatePositions ==
  /\ position' = RecalculatedPositions(item, enqueuedAt)
  /\ UNCHANGED <<taskVars, item, enqueuedAt, execVars, postVars, target,
                 crashes>>

-----------------------------------------------------------------------------
(* MergeExecutorService.executeMerge                                       *)

\* Load, check, and start; an item whose task has left QUEUED_FOR_MERGE is
\* refused and stays PREPARING.
BeginMerge(t) ==
  /\ item[t] = "PREPARING" /\ status[t] = "QUEUED_FOR_MERGE"
  /\ ValidateMergeQueueItemTransition("PREPARING", "REBASING",
                                      {"workspaceReady"})
  /\ ValidateTransition("QUEUED_FOR_MERGE", "MERGING", {})
  /\ SetItem(t, "REBASING")
  /\ WriteTask(t, "MERGING", {"executor"})
  /\ Await(t, "fetching")
  /\ UNCHANGED <<enqueuedAt, position, base, postVars, target, crashes>>

FetchTarget(t) ==
  /\ exec[t] = "fetching"
  /\ Await(t, "integrating")
  /\ base' = [base EXCEPT ![t] = Len(target)]
  /\ UNCHANGED <<taskVars, queueVars, postVars, target, crashes>>

\* The merge conflicted.  Item and task move in one transaction, with the
\* version held since BeginMerge: if the task has been written since, the
\* transaction is rolled back and executeMerge throws.
MergeConflict(t, files) ==
  /\ exec[t] = "integrating"
  /\ LET class == ClassifyConflict(files)
         itemTarget == IF class = "reworkable" THEN "REQUEUED" ELSE "FAILED"
         taskTarget == IF class = "reworkable" THEN "CHANGES_REQUESTED"
                                               ELSE "FAILED"
         itemContext == IF class = "reworkable"
                          THEN {"rebaseFailed", "conflictReworkable"}
                          ELSE {"rebaseFailed"}
     IN  \/ /\ MayWrite(t, "executor") /\ item[t] = "REBASING"
            /\ ValidateMergeQueueItemTransition("REBASING", itemTarget,
                                                itemContext)
            /\ ValidateTransition("MERGING", taskTarget, {class})
            /\ SetItem(t, itemTarget)
            /\ WriteTask(t, taskTarget, {})
         \/ /\ ~ (MayWrite(t, "executor") /\ item[t] = "REBASING")
            /\ UNCHANGED <<item, taskVars>>
  /\ EndExec(t)
  /\ UNCHANGED <<enqueuedAt, position, postVars, target, crashes>>

\* An awaited step succeeded: the item advances, the task is not read.
AdvanceItem(t, await, from, to, ctx, next) ==
  /\ exec[t] = await
  /\ item[t] = from /\ ValidateMergeQueueItemTransition(from, to, ctx)
  /\ SetItem(t, to)
  /\ IF next = "none" THEN EndExec(t) ELSE Await(t, next) /\ UNCHANGED base
  /\ UNCHANGED <<taskVars, enqueuedAt, position, postVars, target, crashes>>

Integrated(t) ==
  AdvanceItem(t, "integrating", "REBASING", "VALIDATING",
              {"rebaseSuccessful"}, "validating")

GatePassed(t) ==
  AdvanceItem(t, "validating", "VALIDATING", "MERGING",
              {"validationPassed"}, "pushing")

\* A failed gate and a failed push end the execution; the task stays MERGING.
GateFailed(t) ==
  AdvanceItem(t, "validating", "VALIDATING", "FAILED",
              {"validationFailed"}, "none")

\* git push of the target branch is refused unless it is a fast-forward.
FastForward(t) == base[t] = Len(target)

\* What a push of the branch leaves on the remote: rebase-and-merge pushes
\* the source branch, the others the target branch.
Pushed(t, strategy) ==
  \/ strategy = "rebase-and-merge" /\ UNCHANGED target
  \/ /\ strategy \in {"squash", "merge-commit"} /\ FastForward(t)
     /\ target' = Append(target, t)

\* The push is reported as failed, before or after the remote took it.
PushFailed(t) ==
  /\ exec[t] = "pushing" /\ item[t] = "MERGING"
  /\ ValidateMergeQueueItemTransition("MERGING", "FAILED", {"mergeFailed"})
  /\ UNCHANGED target \/ \E strategy \in MergeStrategies : Pushed(t, strategy)
  /\ SetItem(t, "FAILED")
  /\ EndExec(t)
  /\ UNCHANGED <<taskVars, enqueuedAt, position, postVars, crashes>>

Push(t, strategy) ==
  /\ exec[t] = "pushing"
  /\ Pushed(t, strategy)
  /\ Await(t, "finishing")
  /\ UNCHANGED <<taskVars, queueVars, base, postVars, crashes>>

\* Fault: the item is left behind.
FinalizeMergeFault(t) ==
  /\ exec[t] = "finishing"
  /\ WriteTask(t, "POST_MERGE_VALIDATION", {})
  /\ EndExec(t)
  /\ UNCHANGED <<queueVars, postVars, target, crashes>>

\* Item to MERGED, task to POST_MERGE_VALIDATION.  The task is read again,
\* but only for its version: the transition is validated from MERGING,
\* whatever the status now is.
FinalizeMerge(t) ==
  /\ exec[t] = "finishing" /\ item[t] = "MERGING"
  /\ ValidateMergeQueueItemTransition("MERGING", "MERGED",
                                      {"mergeSuccessful"})
  /\ ValidateTransition("MERGING", "POST_MERGE_VALIDATION",
                        {"mergeSuccessful"})
  /\ SetItem(t, "MERGED")
  /\ WriteTask(t, "POST_MERGE_VALIDATION", {})
  /\ EndExec(t)
  /\ UNCHANGED <<enqueuedAt, position, postVars, target, crashes>>

\* An awaited operation rejects (a failed push excepted): executeMerge
\* throws, and item and task stay as they are.
ExecuteMergeThrows(t) ==
  /\ exec[t] \in ExecStates \ {"none", "pushing"}
  /\ EndExec(t)
  /\ UNCHANGED <<taskVars, queueVars, postVars, target, crashes>>

-----------------------------------------------------------------------------
(* PostMergeValidationService                                              *)

BeginPostMergeValidation(t, v) ==
  /\ post[t][v] = "idle" /\ status[t] = "POST_MERGE_VALIDATION"
  /\ post' = [post EXCEPT ![t][v] = "running"]
  /\ holds' = [holds EXCEPT ![t] = @ \cup {v}]
  /\ UNCHANGED <<status, priority, queueVars, execVars, followUps,
                 queuePaused, target, crashes>>

\* applySuccess
ApplySuccess(t, v) ==
  /\ post[t][v] = "running" /\ MayWrite(t, v)
  /\ ValidateTransition("POST_MERGE_VALIDATION", "DONE",
                        {"postMergeValidationPassed"})
  /\ WriteTask(t, "DONE", {})
  /\ post' = [post EXCEPT ![t][v] = "passed"]
  /\ UNCHANGED <<queueVars, execVars, followUps, queuePaused, target, crashes>>

\* applyFailure: status and follow-up task in one transaction, then the
\* pause of the queue.
ApplyFailure(t, v, failing) ==
  /\ post[t][v] = "running" /\ MayWrite(t, v)
  /\ ValidateTransition("POST_MERGE_VALIDATION", "FAILED",
                        {"postMergeValidationFailed"})
  /\ WriteTask(t, "FAILED", {})
  /\ post' = [post EXCEPT ![t][v] = "failed"]
  /\ LET severity == ClassifyFailureSeverity(failing)
     IN  /\ followUps' = [followUps EXCEPT ![t] = @ \cup FollowUpFor(severity)]
         /\ queuePaused' =
              (queuePaused \/ (severity = "critical" /\ PauseQueueOnCritical))
  /\ UNCHANGED <<queueVars, execVars, target, crashes>>

\* The validation cannot be run, or its verdict meets a version conflict.
ValidationDropped(t, v) ==
  /\ post[t][v] = "running"
  /\ post' = [post EXCEPT ![t][v] = "dropped"]
  /\ UNCHANGED <<taskVars, queueVars, execVars, followUps, queuePaused,
                 target, crashes>>

-----------------------------------------------------------------------------
(* Operators, the rest of the system, and crashes.  (Leases, which some of *)
(* the operators' guards also read, are in WorkerLifecycle.)               *)

OperatorTransition(t, to, ctx) ==
  /\ ValidateTransition(status[t], to, ctx)
  /\ WriteTask(t, to, {})
  /\ UNCHANGED <<queueVars, execVars, postVars, target, crashes>>

Pause(t) == OperatorTransition(t, "ESCALATED", {"isOperator"})

Resume(t) ==
  /\ status[t] = "ESCALATED"
  /\ OperatorTransition(t, "ASSIGNED", {"isOperator", "leaseAcquired"})

Cancel(t) ==
  /\ status[t] # "MERGING"
  /\ OperatorTransition(t, "CANCELLED", {"isOperator"})

MarkDone(t) ==
  /\ status[t] = "ESCALATED"
  /\ OperatorTransition(t, "DONE", {"isOperator"})

Reopen(t) ==
  /\ status[t] \in TerminalStates
  /\ WriteTask(t, "BACKLOG", {})
  /\ UNCHANGED <<queueVars, execVars, postVars, target, crashes>>

\* changePriority, in any state; positions are not recalculated, but the row
\* has a new version.
ChangePriority(t, p) ==
  /\ priority' = [priority EXCEPT ![t] = p]
  /\ holds' = [holds EXCEPT ![t] = {}]
  /\ UNCHANGED <<status, queueVars, execVars, postVars, target, crashes>>

\* Development and review take the task to its next approval; what they do
\* in between is in the other modules.
Approve(t) ==
  /\ status[t] \in {"BACKLOG", "ASSIGNED", "CHANGES_REQUESTED"}
  /\ WriteTask(t, "APPROVED", {})
  /\ UNCHANGED <<queueVars, execVars, postVars, target, crashes>>

\* The process dies: what is awaited is lost, and nothing resumes it.
Crash ==
  /\ crashes < MaxCrashes /\ crashes' = crashes + 1
  /\ exec' = [t \in Tasks |-> "none"]
  /\ post' = [t \in Tasks |-> [v \in ValidationRuns |->
                IF post[t][v] = "running" THEN "dropped" ELSE post[t][v]]]
  /\ holds' = [t \in Tasks |-> {}]
  /\ base' = [t \in Tasks |-> 0]
  /\ UNCHANGED <<status, priority, queueVars, followUps, queuePaused, target>>

-----------------------------------------------------------------------------
Init ==
  /\ status = [t \in Tasks |-> "APPROVED"]
  /\ priority \in [Tasks -> Priorities]
  /\ holds = [t \in Tasks |-> {}]
  /\ item = [t \in Tasks |-> "none"]
  /\ enqueuedAt = [t \in Tasks |-> 0]
  /\ position = [t \in Tasks |-> 0]
  /\ exec = [t \in Tasks |-> "none"]
  /\ base = [t \in Tasks |-> 0]
  /\ post = [t \in Tasks |-> [v \in ValidationRuns |-> "idle"]]
  /\ followUps = [t \in Tasks |-> {}]
  /\ target = <<>>
  /\ queuePaused = FALSE
  /\ crashes = 0

ExecuteMerge(t) ==
  \/ BeginMerge(t) \/ FetchTarget(t) \/ Integrated(t)
  \/ \E files \in SUBSET ConflictPaths : MergeConflict(t, files)
  \/ GatePassed(t) \/ GateFailed(t)
  \/ \E strategy \in MergeStrategies : Push(t, strategy)
  \/ PushFailed(t) \/ FinalizeMerge(t) \/ ExecuteMergeThrows(t)

PostMerge(t, v) ==
  \/ BeginPostMergeValidation(t, v) \/ ApplySuccess(t, v)
  \/ \E failing \in SUBSET Checks : ApplyFailure(t, v, failing)
  \/ ValidationDropped(t, v)

OperatorStep(t) ==
  \/ Pause(t) \/ Resume(t) \/ Cancel(t) \/ MarkDone(t) \/ Reopen(t)
  \/ \E p \in Priorities : ChangePriority(t, p)

Next ==
  \/ \E t \in Tasks :
       \/ EnqueueForMerge(t) \/ DequeueNext(t) \/ ExecuteMerge(t)
       \/ \E v \in ValidationRuns : PostMerge(t, v)
       \/ OperatorStep(t) \/ Approve(t)
  \/ RecalculatePositions
  \/ Crash

Spec == Init /\ [][Next]_vars

-----------------------------------------------------------------------------
(* Properties                                                              *)

\* Type invariant.
MergeTypeOK ==
  /\ status \in [Tasks -> TaskStatuses]
  /\ priority \in [Tasks -> Priorities]
  /\ holds \in [Tasks -> SUBSET (ValidationRuns \cup {"executor"})]
  /\ item \in [Tasks -> MergeQueueItemStatuses \cup {"none"}]
  /\ enqueuedAt \in [Tasks -> Nat]
  /\ position \in [Tasks -> Nat]
  /\ exec \in [Tasks -> ExecStates]
  /\ base \in [Tasks -> Nat]
  /\ post \in [Tasks -> [ValidationRuns -> PostStates]]
  /\ followUps \in [Tasks -> SUBSET {"revert", "diagnostic"}]
  /\ target \in Seq(Tasks)
  /\ queuePaused \in BOOLEAN
  /\ crashes \in 0 .. MaxCrashes

\* The task's status and its item's status, which different services write
\* and operators and crashes interrupt, agree on the phase of the merge.  A
\* task in MERGING may have a FAILED item: a failed gate or push leaves it.
PhaseAgreement ==
  \A t \in Tasks :
    /\ status[t] = "QUEUED_FOR_MERGE" => item[t] \in {"ENQUEUED", "PREPARING"}
    /\ status[t] = "MERGING" =>
         item[t] \in {"REBASING", "VALIDATING", "MERGING", "FAILED"}
    /\ status[t] = "POST_MERGE_VALIDATION" => item[t] = "MERGED"

\* However often post-merge validation is started for a task, at most one
\* run decides it, and no follow-up task exists without a failed verdict.
SingleVerdict ==
  \A t \in Tasks :
    /\ \A v, w \in ValidationRuns :
         post[t][v] \in Verdicts /\ post[t][w] \in Verdicts => v = w
    /\ followUps[t] # {} => \E v \in ValidationRuns : post[t][v] = "failed"

\* A task's change reaches the target branch at most once, whatever failed,
\* was reopened, approved again or crashed after the push, and once it is
\* there the task's item is never queued again.
MergedOnce ==
  /\ \A i, j \in DOMAIN target : target[i] = target[j] => i = j
  /\ \A i \in DOMAIN target :
       item[target[i]] \in {"MERGING", "MERGED", "FAILED"}

\* A late conflict, gate result or post-merge verdict never moves a task
\* that has been paused or has ended; only FinalizeMerge does.
LateResultsLeaveTask ==
  [][\A t \in Tasks :
       /\ status[t] \in TerminalStates \cup {"ESCALATED"}
       /\ exec'[t] # exec[t] \/ post'[t] # post[t]
       /\ item'[t] # "MERGED" \/ item[t] = "MERGED"
       => status'[t] = status[t]]_vars

\* What makes the properties inductive, for each task: an execution awaits in
\* the stage its item is in ...
StageAgreement ==
  \A t \in Tasks :
    /\ exec[t] \in {"fetching", "integrating"} => item[t] = "REBASING"
    /\ exec[t] = "validating" => item[t] = "VALIDATING"
    /\ exec[t] \in {"pushing", "finishing"} => item[t] = "MERGING"

\* ... whoever holds the current version holds it in the status he read or
\* wrote ...
HeldStatus ==
  \A t \in Tasks :
    /\ "executor" \in holds[t] => status[t] = "MERGING"
    /\ \A v \in ValidationRuns :
         v \in holds[t] => status[t] = "POST_MERGE_VALIDATION"

\* ... and a decided task has been merged and is past its validation.
DecidedIsPast ==
  \A t \in Tasks, v \in ValidationRuns :
    post[t][v] \in Verdicts =>
      item[t] = "MERGED" /\ status[t] # "POST_MERGE_VALIDATION"

MergeInv ==
  PhaseAgreement /\ SingleVerdict /\ StageAgreement /\ HeldStatus
  /\ DecidedIsPast

\* MergedOnce needs that a push under way is the task's first.
PushIsFirst ==
  \A i \in DOMAIN target : exec[target[i]] # "pushing"

=============================================================================
