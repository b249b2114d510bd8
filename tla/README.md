# Formal specification of the factory

copilot-factory turns imported tasks into merged code: a command line registers
projects and starts a control plane; the control plane imports tasks, leases
each one to a worker process in a git worktree, follows the worker by
heartbeats, validates its output, sends its result through review and a merge
queue, and lets operators intervene at any point, from a browser. This directory
holds TLA+ modules that model that system, TLC configurations that check them on
small instances, and TLAPS proofs of the properties that matter most.
`PROJECT.json` maps every definition to the source lines it models. Source paths
below omit `src/`; `A/` stands for `packages/application/src/services/`, `D/`
for `packages/domain/src/`, `I/` for `packages/infrastructure/src/`, `C/` for
`apps/control-plane/src/` and `W/` for `apps/web-ui/src/`.

    tlc -workers 2 -config lifecycle_safety.cfg MCWorkerLifecycle
    tlc -workers 2 -config worker_run.cfg MCWorkerRun
    tlapm WorkerLifecycle_proofs.tla
    tlapm TaskBacklog_proofs.tla

Each run takes at most a few minutes, each proof module one to three.

## 1. Inventory

The system is one NestJS process (the control plane) with one JavaScript event
loop over one SQLite database (better-sqlite3, synchronous), worker processes it
spawns, a CLI that sets it up and starts it, and a web UI that talks HTTP and
socket.io to it. `packages/domain` holds pure state machines and policies,
`packages/application` services that run in units of work,
`packages/infrastructure` git, runtimes and parsers, and `C/automation` wires
the part of this that really runs.

| Component | State | Operations | Talks to | What makes it correct |
|---|---|---|---|---|
| Task state machine (`D/state-machines/task-state-machine.ts`) | none (a table) | validateTransition | every service | terminal states have no exit; ESCALATED only by an operator |
| Worker lease state machine | none (a table) | validateWorkerLeaseTransition | lease, heartbeat, reclaim | a reclaimed lease never comes back |
| Retry and escalation policies | none | shouldRetry, shouldEscalate | reclaim | retries within max_attempts |
| Transition service | task, lease, review cycle, queue item rows; audit events | transitionTask, transitionLease, ... | all | one transaction: validate, write, audit |
| Lease service | task_lease rows, task.currentLeaseId | acquireLease | scheduler | at most one active lease per task |
| Heartbeat service | lease status and timestamps | receiveHeartbeat, detectStaleLeases | supervisor, sweep | only a processing lease advances |
| Lease reclaim | lease, task status, retryCount | reclaimLease | supervisor, sweep | moves a task only out of ASSIGNED or IN_DEVELOPMENT |
| Job queue | job rows | create, claim, complete, fail | tick, dispatch, sweep, review | a job is claimed once |
| Scheduler and tick | SCHEDULER_TICK job | initialize, processTick, scheduleNext | lease service, job queue | ready work is leased; the tick survives |
| Worker dispatch and supervisor | WORKER_DISPATCH job, worker row, process handle | processDispatch, spawnWorker | workspace, runtime, reclaim | one live worker per task; failures release the task |
| Automation service | `_paused`, in-flight dispatches | runCycle, readiness reconciliation, result processing | all of the above | a result is credited to the right lease |
| Operator actions | task rows, audit | pause, resume, requeue, force-unblock, cancel, reopen, resolve escalation, priority, pool, merge order, rerun review | transition service | no action revives or duplicates work |
| Reconciliation sweep | RECONCILIATION_SWEEP job | initialize, processSweep (four sweeps) | reclaim, transition | lost work is recovered, frozen tasks are not touched |
| Workspace manager and cleanup (`I/workspace/`) | directories, worktrees, branches | create, reuse, remove; startup and recurring cleanup | git, supervisor | no worker starts in a checkout in use; no cleanup deletes one |
| Worker runtimes (`I/worker-runtime/`) | the process, its buffers, the packet file | prepare, start, stream, cancel, finalize | supervisor, workspace | one packet makes one success; every run ends |
| Command and file-scope policies (`D/policies/`) | none | evaluateCommandPolicy, checkReadAccess, checkWriteAccess, validatePostRunDiff | runtime, validation | decide as documented under every configuration |
| Policy snapshots and configuration | policy rows, the snapshot of a run | resolveConfig, generate | supervisor, validation | the most specific layer wins; a run keeps its snapshot |
| Validation (runner, packet, gate) | validation_run rows | run checks, emit, gate | policies, transition | DEV_COMPLETE only over a green run |
| Output validator, crash recovery, artifact store | packet files, failure counter, artifact refs | validateOutput, recoverFromCrash, storeArtifact | supervisor | a failed output is counted, a broken one repaired; every ref resolves |
| Review cycle (router, dispatch, consolidation, decision, rework) | review_cycle rows, reviewer jobs, task rounds | route, dispatch, assemble, decide, rework | job groups, transition | approval comes from the task's own cycle, decided once; rounds are bounded |
| Merge queue item state machine | none (a table) | validateMergeQueueItemTransition | merge queue, executor | MERGED and FAILED have no exit |
| Merge queue | merge_queue_item rows, task status | enqueueForMerge, dequeueNext, recalculatePositions | task rows | an item per task, positions 1 .. n |
| Merge executor, conflict classifier | item and task status, the target branch | executeMerge | git, merge gate | item and task agree; no change is merged twice |
| Post-merge validation | task status, follow-up tasks, queue pause | executePostMergeValidation | merge gate, merge queue pause | one verdict per task |
| Catalogue | project, repository, task rows | create, update under a version, delete | REST API | deletions leave no dangling row |
| Dependencies, follow-up tasks | task_dependency rows | add (cycle check), remove, recalculate on DONE, generate | transition | no service closes a cycle; dependants are released |
| Importer (`I/import/`) | rows, in one transaction; the manifest | discover, classify, execute | language model, catalogue | no file is lost; a repeated import adds nothing |
| CLI (`apps/cli/src/`) | database, marker file, process, signals | init, start, drain, force stop | catalogue, control plane | one registration per project; a shutdown ends |
| Event stream (`C/events/`, `W/lib/websocket/`) | rooms, the socket | connect, subscribe, broadcast, queue-depth poll | transition service, web UI | lost events leave no page stale for ever |
| REST API (`C/*/*.controller.ts`, services, DTOs) | the tables | GET, POST, PUT, DELETE, operator actions | web UI | a write is checked against the version its caller saw |
| Web UI (`W/`) | query cache, the open form, the request under way | queries, mutations, action bar | API, event stream | no unseen version is overwritten; what is offered is accepted |
| Graceful completion, optimistic retry, conflict priority, observability | - | - | - | not modelled, section 7 |

Behaviours that are hard to test, listed one by one under `hazards` in
`PROJECT.json`:

- *Interleaving.* Database access is synchronous, but spawnWorker awaits the
  workspace, the process and its output; operators' requests, polling timers and
  other runs' callbacks come between. What a callback knows (a task id, a lease
  id) may be out of date when it resumes. Two cleanups walk over the same
  directories as the runs do.
- *Crash between transactions.* acquireLease and createJob, completeJob and the
  next tick job, the writes of `factory init`, the captures of a crash recovery.
  A worker process outlives the control plane that started it.
- *Best-effort calls.* The heartbeat forwarder swallows every error, the reclaim
  after a failed run may be rejected, a failed completeJob drops the result, a
  capture that fails becomes an absent reference.
- *Versions held across awaits.* executeMerge and post-merge validation write a
  task with the version they read before git or the checks ran; a browser saves
  a form drawn from a row that has changed since.
- *Concurrent merges.* Nothing makes the merge queue hand out one item at a
  time.
- *Late and abandoned work.* A cycle superseded by a rerun still receives its
  reviewers' answers; a reused worktree still holds the last run's packet.
- *Stale clocks and stale views.* A sweep may declare a slow worker dead while
  it lives; a page may show a status that is gone, after events that were lost.
- *Self-perpetuating jobs.* The tick and the sweep create their own successors.

Not everything is wired at this commit. The merge queue, review, dependency,
follow-up, sweep, validation-gate, output-validator and crash-recovery services
are exported by `packages/application` and tested there, but no application
constructs them: the control plane stops at DEV_COMPLETE. Their modules say what
the services do when they are called as their ports and tests call them.

## 2. Modules

| Module | Models |
|---|---|
| `TaskStateMachine` | the task statuses, every guard of the transition table, the two wildcards, validateTransition |
| `WorkerLeaseStateMachine`, `MergeQueueItemStateMachine`, `ReviewCycleStateMachine` | the same for leases, merge queue items and review cycles |
| `RecoveryPolicies` | shouldRetry, the heartbeat_timeout escalation, evaluateTaskOutcome |
| `WorkerLifecycle` | the control plane as wired: automation cycle, scheduler, tick, leases, dispatch, supervised runs, heartbeats, reclaim, result processing, operator actions, crash and restart; its properties, and what a comment promises of the tick and the code does not do |
| `TaskOwnership` | the abstract specification of the lease mechanism: grants of tasks to pools, without leases, jobs, workers and callbacks |
| `ReconciliationSweep` | EXTENDS `WorkerLifecycle`; the sweep composed with it in the same event loop |
| `WorkspaceManager` | the disk: directories, worktrees git has on record, branches; creation, reuse, removal as operators |
| `WorkerRun` | EXTENDS `WorkspaceManager`; a run on the machine's side: dispatch, workspace, process, stream, packet, finalization, the two cleanups, crash and restart |
| `CommandPolicy`, `FileScopePolicy`, `ConfigResolver` | the three pure evaluations, each with the reference it is compared with |
| `WorkerOutcome` | composes them: snapshot, output validation with schema repair, crash recovery over the artifact store, validation run, packet and gate |
| `ReviewRouter` | the routing rules |
| `ReviewPipeline` | dispatch, reviewer and lead jobs, consolidation, decision, rework, escalation, operator reruns |
| `MergePipeline` | from APPROVED to DONE: merge queue, executor, conflict classification, post-merge validation, the operator actions that reach a task meanwhile, crashes; its properties |
| `TaskBacklog` | the catalogue, dependencies, follow-up tasks, the execution of imports and the three releases of a blocked task: two services and an operator |
| `TaskDiscovery` | from the files of a directory to the manifest of an import |
| `ArrayFilter` | `Array.prototype.filter`: the kept elements, by the positions they stand at; used by `TaskDiscovery` and `FileScopePolicy` |
| `FactoryInit`, `FactoryProcess` | `factory init` and `factory start` |
| `FactoryCli` | composes the two over one database |
| `FactoryApi` | tables and their references, what each repository can write, DTOs, controllers, services and operator actions, as one browser meets them |
| `EventStream`, `QueryCache` | the way of an event to the browser; the browser's copy of the data |
| `WebForms` | the pages with their queries, the forms with their requests |
| `WebConsole` | composes the last four: operator, server, stream, cache |
| `MC...` | constants for TLC, one module for each instance |
| `WorkerLifecycle_proofs`, `MergePipeline_proofs`, `ReviewPipeline_proofs`, `WorkerRun_proofs`, `WorkerOutcome_proofs`, `TaskBacklog_proofs`, `FactoryCli_proofs`, `WebConsole_proofs` | inductive invariants, theorems and TLAPS proofs about the module of that name; the first also about `ReconciliationSweep`, `TaskBacklog_proofs` also about `TaskDiscovery` |

### State of WorkerLifecycle

`status`, `currentLeaseId`, `retryCount` are columns of `task`; `leaseStatus`,
`leaseTask`, `leasePool` columns of `task_lease`; `job` and `worker` the status
of the WORKER_DISPATCH job and the worker row created for a lease; `tick` the
non-terminal SCHEDULER_TICK job. These survive a crash. `run` (where a
supervised run awaits), `paused` (`AutomationService._paused`), `phase` and
`focus` (the callback in progress and its lease) are in memory and do not. A
lease, its job, worker row and run exist once for each other, so all are indexed
by the lease; lease ids are numbers in creation order.

The refinement mapping to `TaskOwnership` gives a task the grant of its active
lease: its pool, and as its stage "granted" until a worker row exists for the
lease, "working" while its supervised run is alive (preparing or streaming) and
"over" when that run has ended.

### State of MergePipeline

`status` and `priority` are columns of `task`; `item`, `enqueuedAt` and
`position` columns of `merge_queue_item`, indexed by the task because
findByTaskId refuses a second item whatever the first one's status. Enqueue
times are ranks among the waiting items; equal timestamps, which the item id
decides between, are not told apart. `target` is the remote target branch: the
tasks whose changes are on it, in order. `exec` is what executeMerge awaits for a
task, `base` the length of the branch it has fetched, `post` the post-merge
validations of a task. `holds` abstracts row versions: it names
the executions whose version of the task row is still the current one. Every
write empties it, except for the executor when it starts (it keeps the version
updateStatus returns) and a validation when it reads the task.

### State of the other modules

- `WorkerRun`: `disk` (directories, checkouts, git's records, branches), the
  packet file and buffers of each checkout, the process and its run, the await
  spawnWorker is in, the cleanup in progress. Disk, rows and processes survive a
  crash of the control plane; everything else is its memory.
- `WorkerOutcome`: the configuration layers and what they resolve to, the run's
  `snap`, the packet on `file` and `stdout`, the `verdict`, the `store` and the
  recorded `refs`, the validation run and the latest result of each profile.
- `ReviewPipeline`: a task's status, its current cycle and round count; each
  cycle's status, routing and jobs; the packets submitted and the decisions
  taken.
- `TaskBacklog`: rows in the order of their insertion, edges with the service
  they come from (`origin`, which no service reads: the properties do).
- `TaskDiscovery`: the directory, the tasks `found` so far with the file each
  comes from, the base names the language model `failed` on, all of them
  `ordered` by the index, those still `unclassified`, the classifications so far and where the current
  batch starts, the files a warning was `reported` for, the `manifest`.
- `FactoryCli`: the database as init leaves it write by write, the marker file
  and git remote of each checkout, the phase of the process, leases and child
  processes.
- `WebConsole`: for each family of resources the server's row (`content`), the
  cache entry, and the socket's rooms, wire and subscriptions; the page, the
  open form with the version its fields were drawn from, the request under way.

### Atomicity

In `WorkerLifecycle` one step is one committed transaction. Because database
calls are synchronous and promise continuations drain before the next timer or
request, a callback runs from its first to its last step with no other callback
between: `phase` enforces that. Only a crash may fall between two of its steps.
Two simplifications: the worker row, which no decision reads, is written
together with the neighbouring lease or job; and row versions are left out,
since a service that reads and writes in one synchronous transaction cannot meet
a version conflict.

Where code awaits, one step is what runs between two awaits: git and checks in
`MergePipeline`, workspace, process and file system in `WorkerRun`, captures and
checks in `WorkerOutcome`. One sequence of awaits is taken as one step: createWorkspace
(`I/workspace/workspace-manager.ts:88`) asks the disk and git several things
before it creates the worktree, and `Dispatch` of `WorkerRun` does it at once, so
that no cleanup or crash falls inside it. In `FactoryInit` one step is one write, since nothing
spans them; each lookup is taken together with the insert it guards, since one
init runs at a time. In `ReviewPipeline` and `TaskBacklog` one step is one
service call, which is one transaction. In `WebConsole` the server's handling of
a request, the answer's arrival and the delivery of an event are steps of their
own.

### Actions

| Action | Code |
|---|---|
| `StartCycle`, `ReconcileTaskReadiness` | `C/automation/automation.service.ts` runCycle, reconcileTaskReadiness |
| `ClaimTick`, `NoTick`, `CompleteTick`, `CreateNextTick`, `InitializeTick` | `A/scheduler-tick.service.ts` processTick, runSchedulingLoop, initialize |
| `ScheduleNext` (with `AcquireLease`), `EnqueueDispatch` | `A/scheduler.service.ts` scheduleNext, `A/lease.service.ts` acquireLease |
| `ClaimDispatch`, `NoDispatch`, `RejectSpawn`, `FailJob`, `SettleJob`, `CompleteJob` | `A/worker-dispatch.service.ts` processDispatch |
| `SpawnWorker`, `StartRun`, `Heartbeat`, `RunThrows`, `RunFails`, `RunSucceeds` | `A/worker-supervisor.service.ts` spawnWorker, with `A/heartbeat.service.ts` and `A/lease-reclaim.service.ts` |
| `DeliverResult`, `FinishDevelopment` | automation.service.ts processSuccessfulWorkerResult |
| `Pause` ... `Reopen`, `StartAutomation`, `PauseAutomation` | `C/operator-actions/`, automation start and pause |
| `CrashAndRestart` | loss of the process and onModuleInit |
| `ClaimSweep` ... `CreateNextSweep` | `A/reconciliation-sweep.service.ts` processSweep |
| `SpawnStep`, `SpawnFails`, `ProcessStep`, `WorkerStep` of `WorkerRun` | spawnWorker again, `I/worker-runtime/copilot-cli-adapter.ts` and its output parsing, `C/automation/application-adapters.ts` |
| `CleanupStep` (`StartExpired` ... `CleanupFails`) | `C/workspace-cleanup/workspace-cleanup.service.ts`, `I/workspace/workspace-manager.ts`, `A/workspace-reconciliation.service.ts` |
| `ValidateOutput`, `RecoverFromCrash`, `Capture`, `RunCheck`, the gate | `A/output-validator.service.ts`, `A/crash-recovery.service.ts`, `I/artifacts/artifact-store.ts`, `A/validation-runner.service.ts`, `A/validation-gate.service.ts` |
| `TaskStep`, `JobStep`, `AssembleLeadReviewContext`, `TransitionReviewCycle` | `A/reviewer-dispatch.service.ts`, `A/job-queue.service.ts`, `A/lead-review-consolidation.service.ts`, `A/review-decision.service.ts`, `A/rework-context.service.ts` |
| `EnqueueForMerge`, `DequeueNext`, `RecalculatePositions` | `A/merge-queue.service.ts` |
| `BeginMerge`, `FetchTarget`, `MergeConflict`, `Integrated`, `GatePassed`, `GateFailed`, `Push`, `PushFailed`, `FinalizeMerge`, `ExecuteMergeThrows` | `A/merge-executor.service.ts` executeMerge, one action per await and outcome |
| `BeginPostMergeValidation`, `ApplySuccess`, `ApplyFailure`, `ValidationDropped` | `A/post-merge-validation.service.ts` |
| `Approve` | development and review, reduced to the next approval |
| `CatalogStep`, `GraphStep`, `StatusStep` of `TaskBacklog` | `C/projects/`, `C/tasks/`, `A/dependency.service.ts`, `A/followup-task.service.ts`, `C/import/import.service.ts`, `A/reverse-dependency.service.ts`, cancel, forceUnblock and reopen of `C/operator-actions/` |
| `DiscoveryStep` of `TaskDiscovery` | `I/import/`: structured parser, language model extraction, ordering, classification |
| `InitStep` | `apps/cli/src/commands/init.ts` and the starter configuration |
| `ProcessStep`, `StartMigrates` | `apps/cli/src/startup.ts`, `apps/cli/src/shutdown.ts`, `C/bootstrap.ts` |
| `Navigate`, `OpenForm`, `Submit`, ... of `WebConsole` | the pages, forms and hooks of `W/` |
| `HandleRequest`, `ServerReads` | controllers and services of `C/` |
| `SocketConnects`, `HandleSubscribe`, `QueueDepthPoll`, `DeliverEvent` | the gateway and broadcaster of `C/events/`, the WebSocketProvider |

A transition context is the set of the facts its caller claims; the model keeps
them as the code passes them, also when they are not true (resume claims
leaseAcquired without a lease). Pools are returned by the database in no stated
order, so a tie in selectBestPool is nondeterministic. Times (runAfter, TTLs,
deadlines) are abstracted to "due or not", "stale or not", at any moment. What a
service outside answers (a language model, git, a check's exit code) is a free
choice.

## 3. Runs

| Run | Instance | Shows |
|---|---|---|
| `lifecycle_safety` | 2 tasks (t2 depends on t1), 2 pools of one slot, 2 leases, 1 crash, all operator actions, default policy | `TypeOK`, `SingleActiveLease`, `SoleLiveRun`, `UnscheduledIsUnleased`, `ResultFromCurrentLease`, and the refinement `ImplementsOwnership` |
| `lifecycle_progress` | 2 independent tasks, 2 pools, 2 leases, no crash, requeue, pause and automation, one retry and then failure | `RetryBudget`, `ReadyIsScheduled`, `AssignmentResolved` |
| `sweep` | 2 dependent tasks, 1 pool of two slots, 2 leases, 1 crash, one retry | `SweepLeavesFrozenTasks`, `LostRunReclaimed` |
| `worker_run` | 1 task, 2 runs, 1 crash, 1 recurring cleanup, failed workspaces retained | `CheckoutHasOneWorker`, `WorkspaceOutlivesRun`, `OnePacketPerSuccess`, `SpawnEnds` |
| `outcome` | 2 runs of one task, 2 validations, 1 configuration edit, 1 restart, 4 layer stacks, 11 command lines, 1 diff of four files | `PoliciesDecideAsDocumented`, `GateOpensOnGreen`, `RefsResolve` |
| `review` | 1 task, 2 reviewers and a lead, 2 cycles, 2 rounds, 1 operator rerun, 4 routings | `ApprovedByCurrentCycle`, `ReviewRoundsBounded`, `ReworkSeesItsRejection` |
| `merge` | 2 tasks, 2 priorities, 2 post-merge validations per task, 1 crash, all three strategies, symmetric in tasks and validations | `PhaseAgreement`, `SingleVerdict`, `MergedOnce`, `LateResultsLeaveTask` |
| `backlog` | 3 task rows, 2 edits of edges, 2 repositories, 3 imports (one of two tasks that wait for each other) | `OnlyImportClosesCycles`, `ImportAddsTheMissing`, `EdgesStayInRepository`, `BlockedIsReleased` |
| `discovery` | directories of up to 3 files, batches of 2, 1 retry | `NoFileLost`, `ClassifiedAsItself`, `DiscoveryEnds` |
| `cli` | 2 clones of one project, 3 identifiers, 2 runs of init, 1 start, 1 worker, 2 drain polls | `OneRegistration`, `MarkerNamesItsRows`, `ShutdownEnds` |
| `client` | 1 task with 3 versions, assigned or queued for merge at first, the task page and an empty one, 3 forms, 5 operator actions, 1 lost connection, 1 event under way | `NoLostUpdate`, `CancelledWorkWasAcknowledged`, `CurrentRequestsAccepted`, `ViewsConverge` |
| `claim_tick` | 1 task, 1 pool, 1 lease, 1 crash | refutes `TickSurvivesCrashes`, section 6 |

Bounds.

- *Lifecycle and sweep.* Two tasks are needed for a dependency and for
  competition for a pool; two leases for a task to be leased again while its
  former lease, job or run is still about, which is what every exclusivity
  property is about; one crash for a crash at every step. In `lifecycle_safety`
  the two pools differ in capabilities, so that t1 fits one pool only. When the
  leases run out (`FreshLeases = {}`) the scheduling loop stops as if no task
  were assignable, so no run ends in an artificial deadlock.
- *Merge.* Two tasks are two concurrent merges and a queue with an order, two
  priorities let it change, and two validations of a task can both be running; a
  task may be paused, cancelled, reopened and approved again any number of
  times. Conflicts range over every set of one plain and one protected file,
  failures over every set of a required, a second required and a security check,
  so that each class and severity occurs.
- *Worker run.* Workspaces of different tasks do not meet; two runs are a retry
  in a reused checkout with the first run's packet, process and branch still
  there; the crash and the cleanup fall between any two steps of either.
- *Outcome.* The second run finds what the first one left. The layer stacks set
  each field at two levels at least once, out of order too; the command lines
  include for each rule of the command policy one that it alone decides; of
  the four files of the diff every layer stack decides one differently. Two
  validations let one fail after the gate has opened on the other.
- *Review.* A second cycle is what a rework or a rerun creates while jobs of the
  first are unfinished; two rounds reach the limit. Cycles of different tasks
  share no row.
- *Backlog.* Three tasks make the shortest cycle that the search must follow
  through a middle task; requests meet rows of their own and of the other
  repository.
- *Discovery.* Three files in batches of two are a full and a short batch; files
  without a title, with equal base names and with equal references are among
  them, and the language model answers any reference for any file, or none.
- *CLI.* Two clones share a remote and a name; three identifiers let a deleted
  row be registered again. A clone's remote, once it has one, is the shared one:
  the update of remote_url (init.ts:434) for a checkout whose origin changed is
  left out, section 6.
- *Client.* Version 3 leaves room for two writes nobody in this browser saw; the
  first four actions lead out of and back into ASSIGNED, over READY, CANCELLED
  and ESCALATED, the fifth is the order of the merge queue, which the page offers
  for a queued task; the automation moves the task to IN_DEVELOPMENT. The families
  of resources do not meet in any property, so one is followed; for the other
  families the tables of `FactoryApi` and `WebForms` are compared with each
  other by the assumptions `FormsPassValidation` and `RoutesHaveWrites`, which
  TLC evaluates.

Deadlock checking is off where a bounded system really stops: `review`,
`backlog`, `worker_run`, `outcome`, `cli` and `client` end when their rows, runs
or versions are used up. It is on in the others.

Fairness.

- *Lifecycle.* `WF(AutomationCycle)` and `WF(Settlement)`: the event loop serves
  the polling timer and finishes the callback it is in. `SF(ClaimTick)`: a cycle
  finds the tick job due again and again, since runAfter lies one interval
  ahead. `SF(StartRun \/ RunThrows)` and `SF(RunEnds)`: the workspace
  preparation settles and a worker process ends, which is an assumption on the
  worker, since its time budget is only a part of its prompt; strong, because
  other callbacks keep the event loop busy in between.
- *Sweep.* `SF(ClaimSweep)`: the sweep job becomes due. The last conjunct of
  `SweepFairness` says that a lease nobody renews becomes stale.
- *Worker run.* WF of the steps of spawnWorker, of the process starting or
  failing to, and of its exit, the same assumption.
- *Backlog.* WF of the readiness pass of the polling loop, for every task.
- *Discovery.* WF of its next step: a call outside returns or throws.
- *CLI.* WF of the drain's timer and of closing the application.
- *Client.* WF of connecting, subscribing and delivering (socket.io reconnects
  for ever); SF of the queue-depth timer, of the server's reads and of answers
  arriving: of the fetches the timer causes again and again, some are answered
  before the next one. Without the timer a page that missed an event would stay
  as it is.

Nothing is assumed of operators, of restarts (automation stays paused until
someone starts it), of crashes or of reviewers.

The two progress properties of the control plane are as strong as the code
allows: `AssignmentResolved` excepts a dispatch that failed while its lease was
LEASED and a paused automation; `LostRunReclaimed` excepts a COMPLETING lease
and a sweep job that was itself lost in a crash. `SpawnEnds` excepts a process
that could not be spawned and was cancelled first: cancelRun awaits an exit no
event reports. Those exceptions are real states in which a task waits for an
operator.

Every property of a passing run has a mutant: a variant of one modelled
definition, named `...Fault` and placed before it, under which TLC finds the
property violated.

## 4. What the properties say

Control plane

- `SingleActiveLease`: the exclusivity check reads and writes in separate
  transactions, and requeue, reopen, reclaim and crashes change the leases
  between them.
- `ImplementsOwnership`: the same and the capacity of pools, as a whole:
  whatever services, callbacks, operators and crashes do is one of four steps of
  the ownership of tasks.
- `SoleLiveRun`: no two workers on one task at once, although requeue makes a
  task READY while its worker runs. It depends on the old lease staying active,
  and fails with the sweep (section 6).
- `UnscheduledIsUnleased`: guardReopen is enough to keep reopened tasks clean.
- `ResultFromCurrentLease`: processSuccessfulWorkerResult is given a task id,
  yet development is completed only by the worker of the current lease.
- `SweepLeavesFrozenTasks`: nothing the sweep finds moves a finished or paused
  task.
- `RetryBudget`: retries are bounded, and each was paid for by a reclaimed
  lease.
- `ReadyIsScheduled`, `AssignmentResolved`, `LostRunReclaimed`: progress.

Runs and their output

- `CheckoutHasOneWorker`: no worker starts in a checkout where an earlier run's
  process is still at work, also when it outlived the control plane.
- `WorkspaceOutlivesRun`: the cleanups spare workspaces in use, for three
  different reasons, with one exception that the property states: the recurring
  cleanup acts on a list of terminal tasks it read when it began.
- `OnePacketPerSuccess`: the packet of a run stays in the reused workspace, and
  yet makes no second run a success. What guarantees it is that a successful
  lease stays active for good.
- `GateOpensOnGreen`: a task enters DEV_COMPLETE only over a validation whose
  every required check ended well under the run's own policy, whatever was
  edited meanwhile. That a validation is started for accepted output only is an
  assumption of the composition (`StartValidation`): neither runValidation nor
  the gate looks at the validator's verdict, and no application wires them. The
  property is about the step: a validation that is started again afterwards may
  fail and takes nothing back.
- `RefsResolve`: a crash recovery that may fail at each capture and be repeated
  never records a reference to nothing.
- `PoliciesDecideAsDocumented`: configuration, command and file-scope policies
  against reference definitions that know nothing of the order in which the code
  tests.

Review

- `ApprovedByCurrentCycle`: late answers, reruns and abandoned cycles approve
  nothing.
- `ReviewRoundsBounded`: the round count is the number of the task's rejected
  cycles, so the limit bounds the rework of its whole life.
- `ReworkSeesItsRejection`: a task sent back finds the issues it was sent back
  for.

Merge

- `PhaseAgreement`: two rows written by three services stay consistent, with an
  operator or a crash at any await. A MERGING task may have a FAILED item.
- `MergedOnce`: a change reaches the target branch at most once, although a push
  reported as failed may have landed, a crash may follow it, and the task may be
  reopened and approved again. What guarantees it is that enqueueForMerge refuses
  a task that has an item, of whatever status: the refusal that strands
  re-approved tasks (section 6) is also what keeps their change from being merged
  a second time.
- `SingleVerdict`: starting post-merge validation twice yields one verdict and
  no follow-up without a failure, thanks to the version check.
- `LateResultsLeaveTask`: what arrives late leaves a paused or ended task alone;
  the completion of a merge is the exception (section 6).

Backlog and import

- `OnlyImportClosesCycles`: the cycle search of the dependency service is
  complete over edges of every type and service; only an import, which does not
  search, closes a cycle (section 6).
- `ImportAddsTheMissing`: an import adds what the repository lacks, nothing it
  had, and moves no other row.
- `EdgesStayInRepository`: references repeat from one repository to the next;
  the edges an import or a follow-up creates still join two tasks of one
  repository, in whatever order imports, deletions and repetitions come. Edges
  added through the API may join any two tasks.
- `BlockedIsReleased`: no blocked task without open prerequisites waits for ever.
  No service of the running control plane recalculates the dependents of a task
  that is done; the polling loop has to find them.
- `NoFileLost`, `ClassifiedAsItself`, `DiscoveryEnds`: no fallback, retry or
  short answer loses a file, gives a task another one's status or keeps the user
  waiting. A file is in the manifest, was warned about, or its task gave way, in
  a directory with an index, to a later one with the same reference, whose file
  is in the manifest or was warned about. The exception is real and silent
  (section 6), and wider than equal file names: the language model's answer is
  taken as it is, so two files collide whenever it gives them one reference.

CLI

- `OneRegistration`, `MarkerNamesItsRows`: killed and repeated runs of init,
  lost markers and second clones.
- `ShutdownEnds`: the drain ends however long workers hold their leases.

Browser

- `NoLostUpdate`: the version a form sends is the page's, not the form's; that
  this is enough rests on the form drawing its fields again in the very step
  that changes the page.
- `CancelledWorkWasAcknowledged`: the acknowledgement is computed from the page
  at the moment of sending, and the page may be out of date; the guard on the
  server closes the gap.
- `CurrentRequestsAccepted`: two tables, the action bar's and the server's,
  agree wherever the view is current, but for two actions: reopen also waits for
  the last lease to end, and overriding the merge order is offered
  (`action-definitions.ts:140`) and never accepted
  (`operator-actions.service.ts:503`).
- `ViewsConverge`: with lost connections and failed fetches.

## 5. Proofs

`WorkerLifecycle_proofs` proves for every finite set of tasks, every set of
pools, every policy, every candidate limit and any number of leases and crashes
(assumptions `LifecycleAssumption` and `PolicyAssumption`):

| Theorem | Statement |
|---|---|
| `TypeCorrect` | `Spec => []TypeOK` |
| `OwnershipCorrect` | `Spec => []OwnershipInv` |
| `LeaseExclusivity`, `WorkerExclusivity`, `UnscheduledUnleased` | `SingleActiveLease`, `SoleLiveRun`, `UnscheduledIsUnleased` |
| `PoolsBounded`, `RetriesBounded` | `PoolCapacity`, `RetryBudget` |
| `TerminalStaysTerminal`, `PauseFreezes`, `ResultIsCurrent` | the action properties `TerminalOnlyReopened`, `PausedIsFrozen`, `ResultFromCurrentLease` |
| `OwnershipImplemented` | `Spec => ImplementsOwnership`, the refinement of `TaskOwnership` |

`SingleActiveLease` is not inductive: nothing in it says that a run about to
start, a pending job or a result being delivered still has its lease.
`OwnershipInv` adds that: an active lease is the current lease of its task
(`ActiveIsCurrent`); a run holds its lease, LEASED while it prepares and in a
processing state while it streams (`RunHoldsLease`); a PENDING job's lease is
LEASED and has no run (`PendingIsLeased`); the lease a callback works on is in
the state that callback needs (`CallbackHoldsLease`); BACKLOG and BLOCKED tasks
have no active lease (`UnscheduledHasNoLease`). The invariants follow from it
directly. For the action properties `StatusChanges` classifies how a step may
change a task's status, from two lemmas on the transition table
(`TerminalHasNoExit`, `EscalatedExits`). `PoolsBounded` rests on
`OnlySchedulerActivates`, `RetriesBounded` on `RetryIsPaid`, both with the
library's facts on cardinality. `PoolCapacity`, `TerminalOnlyReopened` and
`PausedIsFrozen` are proved and in no run of their own.

The same module proves over the composition with the sweep (`SweepSpec`, for any
number of sweeps and any leases found stale): `SweepLeaseExclusivity`
(`SingleActiveLease`), `SweepPoolsBounded`, `SweepRetriesBounded`,
`SweepSparesFrozen` (`SweepLeavesFrozenTasks`), `SweepTerminalStays` and
`SweepPauseFreezes`. `OwnershipInv` does not survive the sweep, which takes the
lease of a worker that may be alive and leaves its run going; `SweepCorrect`
proves the part of it that does: an active lease is its task's current one, an
unscheduled task has none, and a result is delivered under some lease
(`LeaseInv`). The steps of the control plane are shown once to keep `LeaseInv`
without the facts the sweep breaks (`LeaseInductive`); every other step of the
composition is one of four of the sweep's (`SweepCases`), of which
`StaleLeasesTaken` describes the one that takes leases. That retries stay paid
for rests on the reclaim's own guard: a lease that has ended is not reclaimed a
second time.

`OwnershipImplemented` shows first that a task's grants are those of one lease
(`OneLease`, from `OwnershipInv`), so that a step that touches no lease and no
run leaves every grant alone (`SameGrants`), and one that touches a single lease
changes one task's (`SoleGrant`, `ReclaimIsLocal`). `HeldBounded` carries the
pool's limit from leases to tasks, by a surjection. `OwnershipStep` then takes
the actions one by one: acquireLease gives, the run's start begins, each of its
endings finishes, a crash is the abstract restart; the rest stutter.

`MergePipeline_proofs` proves for any finite set of tasks, any number of
validations and crashes, and every conflict and failure policy
(`MergeAssumption`): `MergeTypeCorrect` (`MergeTypeOK`), `MergeInvariant`,
`PhasesAgree` (`PhaseAgreement`), `VerdictsSingle` (`SingleVerdict`),
`MergedAtMostOnce` (`MergedOnce`) and `LateResultsHarmless`
(`LateResultsLeaveTask`). `MergeInv` strengthens the first and the third with
what the executions in flight know: an execution awaits in the stage its item is
in (`StageAgreement`), whoever holds the current version holds it in the status
he read or wrote (`HeldStatus`), and a decided task is merged and past its
validation (`DecidedIsPast`). `HeldStatus` is the heart of it: a version check
alone says only that nobody wrote; that the status is still the one the constant
transition assumes follows from it. `MergedOnce` is inductive
only together with `PushIsFirst`: the change of an execution that is still before
its push is not on the branch yet.

`ReviewPipeline_proofs` proves for any tasks and reviewers, every answer of the
router, any limit on rounds and any number of cycles and reruns
(`ReviewAssumption`): `ApprovedByCurrentCycleHolds`, `ReviewRoundsBoundedHolds`,
`ReworkSeesItsRejectionHolds`, and the action property `VerdictIsFinal`, which
has no run of its own. Nothing in `ApprovedByCurrentCycle` says why a cycle that
a rerun has replaced cannot approve, so `ReviewInv` adds that a verdict was
written together with its one decision (`VerdictHasItsDecision`), that
consolidation begins after the last specialist (`SpecialistsThrough`), that a
task's current cycle is its own and its newest (`CurrentIsNewest`), and what the
task's status says of that cycle (`StatusFollowsCycle`). That the rework context,
which is looked up by the task, is the current cycle's follows from
`CurrentIsNewest`; the round count is carried as a cardinality
(`RejectionCounted`). Lemmas reduce the actions to what they do to jobs, tasks,
cycles and decisions, and the invariant is proved for each such kind of step.

`WorkerRun_proofs` proves for any tasks and any number of runs, crashes and
cleanups (`RunAssumption`, `RepositoryAssumption`): `CheckoutHasOneWorkerHolds`,
`OnePacketPerSuccessHolds`, `WorkspaceOutlivesRunHolds`. `RunInv` ties lease,
adapter record and process of a task to the await spawnWorker is in
(`LeaseFollowsStep`, `RunFollowsStep`); its heart is `ProcessHasLease`: a process
that outlived its control plane left a lease in LEASED or STARTING that nobody
ends, so that the task is not dispatched again. `UsedMeansCompleting` does the
same for packets, `CleanupSound` says what a cleanup between two of its steps is
about to delete.

`WorkerOutcome_proofs` proves for every configuration and any number of runs,
validations, edits and restarts (`OutcomeAssumption`, and `ConfigAssumption`,
which says that resolved policies have the form their schemas ask for):
`RefsResolveHolds`, `GateOpensOnGreenHolds`.
`OutcomeInv` keeps that a validation run under way or stored is justified check
by check by the policy it runs under (`ValidationJustified`), and that a
recovery's references resolve at every capture (`RecoveryResolves`). Of the
command policy it proves, with no state at all, that the evaluation agrees with
the reference: `AllowedIsPermitted` for every well-formed policy and command
line, and the converse `PermittedIsAllowed` for non-empty words and policies with
one rule for each command. The second condition is needed: the code takes the
first rule that names the command and does not look at a second one.

The same is proved of the other two evaluations. `ConfigResolves`: after any
number of layers each field has the value and the source of the last layer that
sets it. The loop is a recursive function on the number of layers; that it exists
(`ResolutionExists`) and what it has computed after each layer are shown from the
least number for which they would fail. `AccessAsDocumented`: reads and writes
are decided as the documentation says. `EnumerationExists` and
`EnumerationUnique` say what a filter returns, `CollapseIs` and `DropLeadingIs`
what repeated slashes and leading segments leave, and `FileMeans` and `RootMeans`
conclude that normalizePath and normalizeRoot leave exactly the segments that
name something. This needs paths in which "." stands at the start only and files
without a trailing slash (`NamesFile`, `NamesDirectory`); of others, such as
`/./apps`, it is not true, since normalizePath strips dots before slashes and
once only. `PoliciesDecideAsDocumentedHolds` brings the three together: every
snapshot is what resolveConfig made of configured layers (`SnapshotResolved`).
That command lines have no empty words and git prints plain paths is an
assumption (`InputAssumption`); that rules and roots are unambiguous is asked for
by no schema and therefore a hypothesis of the theorem
(`UnambiguousConfiguration`), which TLC evaluates on the layers of its run.

`TaskBacklog_proofs` proves for any projects, repositories, requests, batches and
edits (`BacklogAssumption`): `OnlyImportClosesCyclesHolds`,
`EdgesStayInRepositoryHolds`, `ImportAddsTheMissingHolds`. A graph is acyclic when
no non-empty set of tasks has an edge out of each member into the set; in this
form no induction along paths is needed. `AcyclicEdge` shows that an edge the
search of addDependency lets through keeps the graph acyclic: the set of tasks
reachable from its end would otherwise contain its beginning. `AcyclicNewTasks`
covers follow-up tasks, which nothing depends on yet. `BacklogInv` adds the
foreign keys and the unique index of the edges. The rows an import creates are
taken in the order of the request through an enumeration (`InOrder`), about which
the provers can reason, rather than by a fold.

Of the discovery it proves for any documents, directories, batch sizes and
retries (`DiscoveryAssumption`): `DiscoveryLosesNoFile` (`NoFileLost`) and
`DiscoveryClassifies` (`ClassifiedAsItself`). Neither is inductive: a file that
is in no manifest yet is not lost. `DiscoveryInv` says where it is instead: given
to the language model and found or failed on, which the base names tell apart
only if they are distinct (`ExtractedCover`); past the fallback found, reported,
or outdone in the index by a later task with its reference (`ClassifiedCover`); and that the
classifications are those of the first tasks in their order (`ResultsOwn`).
`FilterOf` says that a filter keeps each position once and no other,
`OrderingKeeps` that the index represents every task it is given, `BatchIs` and
`AnswersAre` that a batch and the answer to it, however short, belong together.

`FactoryCli_proofs` proves for any checkouts, names and number of runs, kills,
lost markers and deletions (`InitAssumption`, `MarkAssumption`):
`OneRegistrationHolds`, `MarkerNamesItsRowsHolds`. What makes them inductive is
to treat the marker file, the marker a running init has read and the identifiers
it has drawn so far alike: `MarksSound` says of everything a checkout holds that
its rows exist or were deleted, under the checkout's name, and that two checkouts
holding the same row have the same name.

`WebConsole_proofs` proves for any families, pages, forms and actions and any
number of versions and reconnections (`ConsoleAssumption`):
`NoLostUpdateHolds`, `CancelledWorkWasAcknowledgedHolds`,
`CurrentRequestsAcceptedHolds`. `ConsoleInv` says that whatever the cache holds
or a fetch brings is a version the task once had, and the task itself if the
version is the present one (`Past`, `CacheSound`); that a form of the present
version asks for what the action bar offers in the present status (`FormSound`);
and the same of a request under way (`RequestSound`). `OfferedIsAccepted`
compares the two tables, the bar's and the server's, entry by entry;
`AnsweredByHandler` shows that only the server's handler answers a request.

Every invariant and every action property of the runs is proved. Only
model-checked are the liveness properties `ReadyIsScheduled`,
`AssignmentResolved`, `LostRunReclaimed`, `BlockedIsReleased`, `DiscoveryEnds`,
`SpawnEnds`, `ShutdownEnds` and `ViewsConverge`: fairness and ENABLED are out of
the prover's reach. So is induction over data by the library's theorems, which is
why filters are enumerations, loops are recursive functions and the arguments
about them go by a least counterexample.

## 6. Where the code and its documents disagree

One disagreement has a run that TLC refutes, and a finding with the quotation.
`claim_tick`: a crash inside processTick leaves the tick job CLAIMED; initialize
sees a non-terminal job and creates none, so no tick runs again.

Others were met while modelling and are part of the models as the code has them,
without a run of their own.

Control plane and sweep

- requeue leaves the old lease active; once that worker completes, the lease is
  COMPLETING for good and the READY task is never leased.
- COMPLETING counts as active, so each success uses up a slot of the pool.
- The default retry policy requires a failure summary that no caller passes, so
  the first crash escalates.
- The sweep cannot reclaim a LEASED lease; with the sweep, a slow worker is
  timed out but not stopped, and a second worker starts on the same task:
  `SoleLiveRun` and `ResultFromCurrentLease` are theorems of the control plane
  alone and do not hold of the composition.
- resume puts a task into ASSIGNED with no lease, while `docs/user-guide.md:930`
  says a new lease is acquired; `README.md:117` says the sweep recovers
  interrupted work on startup, but no application constructs it; the
  supervisor's comment speaks of CRASHED then RECLAIMED, the code stops at
  CRASHED; guardReopen names COMPLETED, a status no lease has; reopen does not
  reset retryCount.

Merge

- Two merges may run at once, each integrated with the branch it fetched; that
  the second push is then refused is git's doing, an assumption of the model
  (`FastForward`) and stated by no property.
- executeMerge re-reads the task before its last write but not its status; a
  task paused and cancelled during the push goes from CANCELLED to
  POST_MERGE_VALIDATION.
- A failed gate or push leaves the task MERGING, from where it can be paused but
  not cancelled; a REQUEUED item never becomes ENQUEUED again, while
  `docs/user-guide.md:784` says it does automatically, and enqueueForMerge
  refuses the re-approved task as a duplicate; dequeueNext looks neither at
  items in progress nor at the queue's pause, while its header says that it
  serializes merges; rebase-and-merge pushes the source branch only; a priority
  change makes a verdict in flight fail with a version conflict; a crash after
  applyFailure's transaction loses the queue's pause (modelled as one step, the
  pause is read by nothing); overrideMergeOrder is always refused, since
  task.mergeQueueItemId is never set.

Import and dependencies

- `docs/prd/002-data-model.md:215` calls the dependencies a directed acyclic
  graph and `docs/TASK_FORMAT.md:581` promises a warning about circular ones;
  the import inserts its edges without a search and no code warns.
- Two entries of one request with the same new reference are both inserted; with
  an index, of two tasks with one reference applyOrdering keeps the later and
  drops the earlier silently (`I/import/markdown-task-parser.ts:797`), also when
  it was the language model that answered one reference for two files; two files
  with one base name are taken for each other.
- forceUnblock makes a BLOCKED task READY whatever its prerequisites, and the
  scheduler takes it.
- addDependency does not block a task that is READY already;
  checkParentChildReadiness has no caller.

Runs, workspaces and output

- RECLAIMED is set by nothing, so the startup cleanup never removes a crashed
  worker's worktree; the recurring cleanup takes every task that is not terminal
  for unknown, but hands the directory over as the repository and so deletes no
  orphan; it deletes the branch `factory/{task}`, while dispatched branches end
  in `/r1`.
- A dirty workspace makes every retry throw, with the lease left LEASED.
- The time budget of a run is told to the model in the prompt and enforced by
  nothing; a run that was prepared and never started is never finalized.
- The output validator compares the packet's run_id only for a caller that gives
  one (`A/output-validator.service.ts:342`); without it, the packet an earlier
  attempt left in the reused workspace is accepted. Both kinds of caller are in
  the model.
- The gate looks at the latest `default-dev` run whichever attempt it belongs
  to; a malformed schema version or a JSON null makes the validator throw
  without counting a failure; crash recovery reads the packet where the adapter
  does not write it, and takes an earlier attempt's; a worker's output called
  `git-diff.patch` collides with the recovery's.
- Of a command listed twice the policy reads the first rule only; normalizePath
  is not idempotent; the snapshot drops on_violation; two writers of one
  artifact share its temporary file; validatePostRunDiff and selectProfile have
  no caller.
- graceful completion writes its rejection's audit event in a transaction it
  rolls back; acceptResult changes no row, so that it accepts a duplicate.

CLI

- init's header says "fully idempotent" and speaks of one transaction
  (`apps/cli/src/commands/init.ts:14`, `:18`, `:361`); no transaction spans its
  writes, and a rerun imports again. An old marker brings a deleted repository
  back beside another clone's; changing a checkout's origin can do the same.
- childPids is never filled, so the second signal kills no worker; the drain
  does not stop the scheduler, counts no LEASED lease and takes an unreadable
  database for a drained one; automation is at work before the port is bound;
  signals before that end the process at once.
- The startup diagnostics count lease statuses in lower case; the control
  plane's own handleShutdown never closes the application.

API and web UI

- REST edits, as opposed to transitions, emit no event; after a reconnect
  nothing is invalidated, and the queue-depth timer alone refreshes tasks,
  audit, merge queue and factory state; an invalidation during a first fetch is
  lost.
- Pools, policies, prompts and profiles are saved without a version; a
  resubmitted creation whose answer was lost duplicates; EditTaskDialog cannot
  clear an optional field; a template that is referred to cannot be deleted.
- The action bar offers to override the merge order of every QUEUED_FOR_MERGE
  task (`W/features/task-detail/components/operator-actions/action-definitions.ts:140`);
  the server refuses it each time, for want of a mergeQueueItemId.
- CreatePromptDialog offers the role "validator", which the DTO refuses;
  CreatePoolDialog accepts a concurrency above the API's 100; the requeue of a
  FAILED merge item is always refused; POST /tasks/batch finds no schema to
  validate its array with.
- broadcastToEntity sends twice to a socket in both rooms; the worker output
  panel's cleanup leaves the whole "workers" channel; the `reconnect_attempt`
  listener is on the socket instead of its manager; broadcastHeartbeat has no
  caller; two status filters at once filter nothing, sorting is not sent,
  APPROVED is in no category of the dashboard.

## 7. What is not modelled, and why

- *Graceful completion.* No application constructs it, and its acceptance of a
  late result changes no row: a model would repeat its guards.
- *Optimistic retry, conflict priority, calculateBackoff, the other escalation
  triggers.* Called by nothing; the version conflicts they would resolve arise
  in `MergePipeline` and `WebConsole`, whose callers give up instead.
- *Observability and audit payloads, testing helpers.* Written after commit,
  read by no decision.
- *Text.* Prompts, markdown and glob or regular-expression matching: what a text
  parses into, and what a pattern matches, are inputs of the modules. The
  field-by-field declarations of packets are abstracted to the defects the
  validator tells apart.
- *git, SQLite, socket.io and react-query* are external and modelled by their
  effect on the state above.
- *The worker output panel* with its entity rooms and unsubscriptions,
  rendering, filters and sorting. The three channel subscriptions are joined in
  one step, and one mutation is under way at a time.
- *The families besides tasks* are not followed through the browser, see the
  bounds of `client`.

What would come next: a refinement for the review (one verdict per cycle); a
browser with two families; two tasks in `worker_run`, when the cleanups get to
walk over both.
