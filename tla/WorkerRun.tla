----------------------------- MODULE WorkerRun -----------------------------
(***************************************************************************)
(* One worker's life on the machine: the workspace the supervisor asks     *)
(* for, the files it mounts, the process the Copilot CLI adapter starts,   *)
(* the result packet that process leaves behind, and the two cleanups that *)
(* delete workspaces (at startup, and as a recurring job).                 *)
(*                                                                         *)
(* WorkerLifecycle has the same spawnWorker from the side of leases and    *)
(* jobs; here a lease has the statuses the cleanups distinguish, and the   *)
(* task the ones that open or close a workspace.  Runs are numbered per    *)
(* task.  The packet file lies under the task's artifact directory, the    *)
(* same for all its runs: packet[t] is the run that last wrote a valid     *)
(* packet there, 0 for none.                                               *)
(***************************************************************************)
EXTENDS FiniteSets, WorkspaceManager

CONSTANTS
  MaxRuns,       \* bound: runs prepared per task
  MaxCrashes,    \* bound: crashes of the control plane
  MaxCleanups,   \* bound: cleanup jobs processed
  RetainFailed   \* retention_policy.retain_failed_workspaces

ASSUME RunAssumption ==
  /\ MaxRuns \in Nat \ {0} /\ MaxCrashes \in Nat /\ MaxCleanups \in Nat
  /\ RetainFailed \in BOOLEAN

VARIABLES
  status,    \* task status
  lease,     \* status of the task's newest lease
  crashed,   \* tasks with an earlier lease that ended in CRASHED
  step,      \* how far spawnWorker got, per task
  run,       \* the adapter's CopilotCliRunState
  proc,      \* the operating system process of the newest run
  disk,      \* see WorkspaceManager
  packet,    \* the result packet file, by the run that wrote it
  used,      \* packets a run was declared successful for
  runs,      \* runs prepared so far
  cleanup,   \* progress of processReconciliation
  cleanupJob,\* the newest CLEANUP job
  cleanups,  \* CLEANUP jobs completed
  crashes

taskVars == <<status, lease, crashed>>
runVars == <<step, run, proc, packet, used, runs>>
cleanupVars == <<cleanup, cleanupJob, cleanups>>
runState == <<taskVars, runVars, disk, cleanupVars, crashes>>

TerminalStates == {"DONE", "FAILED", "CANCELLED"}
Statuses == TerminalStates \cup
  {"BACKLOG", "READY", "ASSIGNED", "DEV_COMPLETE", "ESCALATED"}
ExitCodes == {"none", "zero", "marker", "nonzero"}
NoRun == [phase |-> "none", exit |-> "none", resolved |-> FALSE,
          printed |-> FALSE, pid |-> FALSE]
NoCleanup == [pass |-> "idle", todo |-> {}, known |-> {}, path |-> <<>>,
              stage |-> "next"]

Init ==
  /\ status = [t \in Tasks |-> "READY"]
  /\ lease = [t \in Tasks |-> "IDLE"]
  /\ crashed = {}
  /\ step = [t \in Tasks |-> "idle"]
  /\ run = [t \in Tasks |-> NoRun]
  /\ proc = [t \in Tasks |-> "none"]
  /\ disk = EmptyDisk
  /\ packet = [t \in Tasks |-> 0]
  /\ used = [t \in Tasks |-> {}]
  /\ runs = [t \in Tasks |-> 0]
  /\ cleanup = NoCleanup
  /\ cleanupJob = "PENDING" /\ cleanups = 0
  /\ crashes = 0

-----------------------------------------------------------------------------
(* Tasks and leases around the run                                         *)

Goto(t, s) == step' = [step EXCEPT ![t] = s]

\* Fault: a lease whose worker has delivered is over.
ActiveLeaseFault(t) == lease[t] \in {"LEASED", "STARTING"}

\* findActiveByTaskId: every status but the failed ones
ActiveLease(t) == lease[t] \in {"LEASED", "STARTING", "COMPLETING"}

\* The scheduler leases a READY task and queues its dispatch job.
Assign(t) ==
  /\ status[t] = "READY" /\ ~ActiveLease(t) /\ step[t] = "idle"
  /\ runs[t] < MaxRuns
  /\ status' = [status EXCEPT ![t] = "ASSIGNED"]
  /\ lease' = [lease EXCEPT ![t] = "LEASED"]
  /\ crashed' = IF lease[t] = "CRASHED" THEN crashed \cup {t} ELSE crashed
  /\ Goto(t, "queued")
  /\ UNCHANGED <<run, proc, packet, used, runs, disk, cleanupVars, crashes>>

Cancel(t) ==
  /\ status[t] \notin TerminalStates
  /\ status' = [status EXCEPT ![t] = "CANCELLED"]
  /\ UNCHANGED <<lease, crashed, runVars, disk, cleanupVars, crashes>>

\* Review and merge, as far as the workspace is concerned.
Finish(t) ==
  /\ status[t] = "DEV_COMPLETE"
  /\ status' = [status EXCEPT ![t] = "DONE"]
  /\ UNCHANGED <<lease, crashed, runVars, disk, cleanupVars, crashes>>

Reopen(t) ==
  /\ status[t] \in TerminalStates /\ ~ActiveLease(t)
  /\ status' = [status EXCEPT ![t] = "BACKLOG"]
  /\ UNCHANGED <<lease, crashed, runVars, disk, cleanupVars, crashes>>

BecomeReady(t) ==
  /\ status[t] = "BACKLOG"
  /\ status' = [status EXCEPT ![t] = "READY"]
  /\ UNCHANGED <<lease, crashed, runVars, disk, cleanupVars, crashes>>

\* The supervisor's best-effort reclaim: a LEASED lease is refused, a task
\* that has left its assignment stays where it is.
ReclaimAfterFailure(t) ==
  /\ lease' = [lease EXCEPT ![t] = IF @ = "STARTING" THEN "CRASHED" ELSE @]
  /\ \E to \in {"READY", "FAILED", "ESCALATED"} :
       status' = [status EXCEPT ![t] =
         IF @ = "ASSIGNED" /\ lease[t] = "STARTING" THEN to ELSE @]
  /\ UNCHANGED crashed

-----------------------------------------------------------------------------
(* spawnWorker: one action from one await to the next                      *)

\* A dispatch job is claimed once, which sets its attempt count to 1.
Attempt == 1

\* resolveSpawnContext finds nothing to do for a task that has ended.
ResolveSpawnContext(t) == status[t] \notin TerminalStates

\* processDispatch up to createWorkspace.  A task that has ended meanwhile
\* only fails the job.
Dispatch(t) ==
  /\ step[t] = "queued"
  /\ \E added \in BOOLEAN :
       LET outcome == CreateOutcome(disk, t, Attempt)
           ok == outcome = "reused" \/ (outcome = "created" /\ added)
       IN  IF ~ResolveSpawnContext(t)
           THEN Goto(t, "idle") /\ UNCHANGED <<taskVars, disk>>
           ELSE /\ disk' = AfterCreate(disk, t, Attempt, added)
                /\ IF ok THEN Goto(t, "workspace") /\ UNCHANGED taskVars
                         ELSE Goto(t, "idle") /\ ReclaimAfterFailure(t)
  /\ UNCHANGED <<run, proc, packet, used, runs, cleanupVars, crashes>>

\* mountPackets; nothing reads what it leaves after a failure.
MountPackets(t) ==
  /\ step[t] = "workspace"
  /\ Goto(t, "mounted")
  /\ UNCHANGED <<taskVars, run, proc, packet, used, runs, disk, cleanupVars,
                 crashes>>

\* prepareRun writes the task packet, the policy and the prompt, and leaves
\* the result packet of an earlier run where it is.
PrepareRun(t) ==
  /\ step[t] = "mounted"
  /\ Goto(t, "prepared")
  /\ runs' = [runs EXCEPT ![t] = @ + 1]
  /\ run' = [run EXCEPT ![t] = [NoRun EXCEPT !.phase = "prepared"]]
  /\ UNCHANGED <<taskVars, proc, packet, used, disk, cleanupVars, crashes>>

\* startRun spawns the process; whether that worked is an event of its own.
StartRun(t) ==
  /\ step[t] = "prepared" /\ run[t].phase = "prepared"
  /\ Goto(t, "started")
  /\ run' = [run EXCEPT ![t].phase = "running"]
  /\ proc' = [proc EXCEPT ![t] = "spawning"]
  /\ UNCHANGED <<taskVars, packet, used, runs, disk, cleanupVars, crashes>>

\* transitionLease to STARTING and the worker row to running.
StartLease(t) ==
  /\ step[t] = "started" /\ lease[t] = "LEASED"
  /\ lease' = [lease EXCEPT ![t] = "STARTING"]
  /\ Goto(t, "streaming")
  /\ UNCHANGED <<status, crashed, run, proc, packet, used, runs, disk,
                 cleanupVars, crashes>>

\* collectArtifacts: a packet file wins over a packet printed on stdout,
\* which is saved as the file.
CollectedPacket(t) ==
  IF packet[t] # 0 THEN packet[t]
  ELSE IF run[t].printed THEN runs[t] ELSE 0

\* determineRunStatus
RunStatus(r, found) ==
  IF r.phase = "cancelled" THEN "cancelled"
  ELSE IF found # 0 THEN "success"
  ELSE IF r.exit \in {"zero", "marker"} THEN "partial"
  ELSE "failed"

\* finalizeRun forgets the run.
FinalizeRun(t) ==
  LET found == CollectedPacket(t) IN
  /\ packet' = [packet EXCEPT ![t] = found]
  /\ run' = [run EXCEPT ![t] = NoRun]

\* The stream ends with the process: collectArtifacts, finalizeRun, and the
\* terminal heartbeat or the reclaim.
StreamEnds(t) ==
  LET outcome == RunStatus(run[t], CollectedPacket(t)) IN
  /\ step[t] = "streaming" /\ run[t].phase # "running"
  /\ FinalizeRun(t)
  /\ used' = IF outcome = "success"
             THEN [used EXCEPT ![t] = @ \cup {CollectedPacket(t)}] ELSE used
  /\ Goto(t, "idle")
  /\ IF outcome \in {"success", "partial"}
     THEN /\ lease' = [lease EXCEPT ![t] = "COMPLETING"]
          /\ status' = [status EXCEPT ![t] =
                          IF @ = "ASSIGNED" THEN "DEV_COMPLETE" ELSE @]
          /\ UNCHANGED crashed
     ELSE ReclaimAfterFailure(t)
  /\ UNCHANGED <<proc, runs, disk, cleanupVars, crashes>>

\* Any call of spawnWorker throws.  A running process is killed and waited
\* for; a run that was prepared but never started is not finalized, because
\* collectArtifacts throws first.
SpawnFails(t) ==
  /\ step[t] \in {"workspace", "mounted", "prepared", "started", "streaming"}
  /\ IF run[t].phase = "running"
     THEN /\ run' = [run EXCEPT ![t].phase = "cancelled"]
          /\ Goto(t, "cancelling")
          /\ UNCHANGED <<taskVars, packet>>
     ELSE /\ IF run[t].phase = "completed" THEN FinalizeRun(t)
                                           ELSE UNCHANGED <<run, packet>>
          /\ Goto(t, "idle")
          /\ ReclaimAfterFailure(t)
  /\ UNCHANGED <<proc, used, runs, disk, cleanupVars, crashes>>

\* Fault: nobody waits for the killed process.
CancelEndsFault(t) ==
  /\ step[t] = "cancelling"
  /\ FinalizeRun(t)
  /\ Goto(t, "idle")
  /\ ReclaimAfterFailure(t)
  /\ UNCHANGED <<proc, used, runs, disk, cleanupVars, crashes>>

\* cancelRun has seen the exit; the rest of the catch block.
CancelEnds(t) ==
  /\ step[t] = "cancelling" /\ run[t].resolved
  /\ FinalizeRun(t)
  /\ Goto(t, "idle")
  /\ ReclaimAfterFailure(t)
  /\ UNCHANGED <<proc, used, runs, disk, cleanupVars, crashes>>

-----------------------------------------------------------------------------
(* The process, and the adapter's listeners                                *)

Checkout(t) == ComputeLayout(Repository, t)

\* The operating system runs the command in the checkout.
ProcessStarts(t) ==
  /\ proc[t] = "spawning" /\ disk.tree[Checkout(t)] # "absent"
  /\ proc' = [proc EXCEPT ![t] = "alive"]
  /\ run' = [run EXCEPT ![t].pid = run[t].phase # "none"]
  /\ UNCHANGED <<taskVars, step, packet, used, runs, disk, cleanupVars,
                 crashes>>

\* The run has ended: its exit code is known and its waiters are told.
Settled(r, code) ==
  [r EXCEPT !.phase = IF r.phase = "running" THEN "completed" ELSE r.phase,
            !.exit = code, !.resolved = TRUE]

\* onError: no command, or no directory to run it in.  No exit follows, and
\* only a run that is still running is settled.
SpawnError(t) ==
  /\ proc[t] = "spawning"
  /\ proc' = [proc EXCEPT ![t] = "none"]
  /\ run' = IF run[t].phase = "running"
            THEN [run EXCEPT ![t] = Settled(run[t], "nonzero")] ELSE run
  /\ UNCHANGED <<taskVars, step, packet, used, runs, disk, cleanupVars,
                 crashes>>

\* Fault: only a run that is still running is settled by the exit.
ProcessExitsFault(t) ==
  /\ proc[t] = "alive"
  /\ proc' = [proc EXCEPT ![t] = "none"]
  /\ run' = IF run[t].phase = "running"
            THEN [run EXCEPT ![t] = Settled(run[t], "zero")] ELSE run
  /\ UNCHANGED <<taskVars, step, packet, used, runs, disk, cleanupVars,
                 crashes>>

\* onExit.  After a crash of the control plane nobody listens.
ProcessExits(t) ==
  /\ proc[t] = "alive"
  /\ proc' = [proc EXCEPT ![t] = "none"]
  /\ \E code \in ExitCodes \ {"none"} :
       run' = IF run[t].phase \in {"running", "cancelled"}
              THEN [run EXCEPT ![t] = Settled(run[t], code)] ELSE run
  /\ UNCHANGED <<taskVars, step, packet, used, runs, disk, cleanupVars,
                 crashes>>

\* What the worker does: write its packet, print it, edit, commit.
WorkerWrites(t) ==
  /\ proc[t] = "alive" /\ packet[t] # runs[t]
  /\ packet' = [packet EXCEPT ![t] = runs[t]]
  /\ UNCHANGED <<taskVars, step, run, proc, used, runs, disk, cleanupVars,
                 crashes>>

WorkerPrints(t) ==
  /\ proc[t] = "alive" /\ run[t].phase = "running" /\ ~run[t].printed
  /\ run' = [run EXCEPT ![t].printed = TRUE]
  /\ UNCHANGED <<taskVars, step, proc, packet, used, runs, disk, cleanupVars,
                 crashes>>

WorkerChangesTree(t) ==
  /\ proc[t] = "alive" /\ disk.tree[Checkout(t)] # "absent"
  /\ disk' = [disk EXCEPT !.tree[Checkout(t)] =
                IF @ = "clean" THEN "dirty" ELSE "clean"]
  /\ UNCHANGED <<taskVars, runVars, cleanupVars, crashes>>

-----------------------------------------------------------------------------
(* Cleanup at startup: WorkspaceCleanupService                             *)

\* Any lease that is not COMPLETING (or RECLAIMED, which nothing sets).
HasActiveLeaseForTask(t) ==
  lease[t] \in {"LEASED", "STARTING", "CRASHED"} \/ t \in crashed

\* cleanOrphanedWorkspaces; aged are the directories past the retention
\* period whose deletion succeeds.
CleanOrphanedWorkspaces(d, aged) ==
  LET gone == {p \in aged : ~HasActiveLeaseForTask(p[2])} IN
  [d EXCEPT !.roots = @ \ gone,
            !.tree = [p \in Paths |-> IF p \in gone THEN "absent" ELSE @[p]]]

\* The control plane dies, its children and a pending dispatch job do not.  On the way up the startup
\* cleanup runs, and initialize finds the CLEANUP job or creates one.
CrashAndRestart ==
  /\ crashes < MaxCrashes
  /\ crashes' = crashes + 1
  /\ step' = [t \in Tasks |-> IF step[t] = "queued" THEN "queued" ELSE "idle"]
  /\ run' = [t \in Tasks |-> NoRun]
  /\ cleanup' = NoCleanup
  /\ cleanupJob' = IF cleanupJob = "none" THEN "PENDING" ELSE cleanupJob
  /\ \E aged \in SUBSET disk.roots :
       disk' = CleanOrphanedWorkspaces(disk, aged)
  /\ UNCHANGED <<taskVars, proc, packet, used, runs, cleanups>>

-----------------------------------------------------------------------------
(* Recurring cleanup: WorkspaceReconciliationService                       *)

\* Claim the job and read the terminal tasks, once; due are the tasks past
\* the retention period.
StartCleanup ==
  /\ cleanupJob = "PENDING" /\ cleanups < MaxCleanups
  /\ cleanupJob' = "CLAIMED"
  /\ LET terminal == {t \in Tasks : status[t] \in TerminalStates} IN
     \E due \in SUBSET terminal :
       cleanup' = [NoCleanup EXCEPT !.pass = "expired", !.known = terminal,
         !.todo = {t \in due : CleanupEligible(status[t], RetainFailed)}]
  /\ UNCHANGED <<taskVars, runVars, disk, cleanups, crashes>>

\* cleanupExpiredWorkspaces goes to its next task.
NextExpired(t) ==
  /\ cleanup.pass = "expired" /\ cleanup.stage = "next" /\ t \in cleanup.todo
  /\ cleanup' = [cleanup EXCEPT !.todo = @ \ {t}, !.stage = "worktree",
                   !.path = ComputeLayout(Repository, t)]
  /\ UNCHANGED <<taskVars, runVars, disk, cleanupJob, cleanups, crashes>>

\* listWorkspaceDirectories; every task that was not terminal counts as
\* unknown.
StartOrphans ==
  /\ cleanup.pass = "expired" /\ cleanup.stage = "next" /\ cleanup.todo = {}
  /\ cleanup' = [cleanup EXCEPT !.pass = "orphans",
       !.todo = {p[2] : p \in disk.roots} \ cleanup.known]
  /\ UNCHANGED <<taskVars, runVars, disk, cleanupJob, cleanups, crashes>>

\* Fault: the repository of the directory is looked up.
OrphanLayoutFault(t) == ComputeLayout(Repository, t)

\* The orphan pass hands its own directory over as the repository, so the
\* layout is computed from a base name that is the task's.
OrphanLayout(t) == ComputeLayout(t, t)

NextOrphan(t) ==
  /\ cleanup.pass = "orphans" /\ cleanup.stage = "next" /\ t \in cleanup.todo
  /\ cleanup' = [cleanup EXCEPT !.todo = @ \ {t}, !.stage = "worktree",
                   !.path = OrphanLayout(t)]
  /\ UNCHANGED <<taskVars, runVars, disk, cleanupJob, cleanups, crashes>>

\* cleanupWorkspace, one await at a time.
CleanupWorktree ==
  /\ cleanup.stage = "worktree"
  /\ disk' = RemoveWorktree(disk, cleanup.path)
  /\ cleanup' = [cleanup EXCEPT !.stage = "directory"]
  /\ UNCHANGED <<taskVars, runVars, cleanupJob, cleanups, crashes>>

CleanupDirectory ==
  /\ cleanup.stage = "directory"
  /\ disk' = RemoveDirectory(disk, cleanup.path)
  /\ cleanup' = [cleanup EXCEPT !.stage = "branch"]
  /\ UNCHANGED <<taskVars, runVars, cleanupJob, cleanups, crashes>>

\* Inside a workspace there is no repository to delete a branch from.
CleanupBranch ==
  /\ cleanup.stage = "branch"
  /\ disk' = IF cleanup.path[1] = Repository
             THEN DeleteBranch(disk, cleanup.path[2]) ELSE disk
  /\ cleanup' = [cleanup EXCEPT !.stage = "next", !.path = <<>>]
  /\ UNCHANGED <<taskVars, runVars, cleanupJob, cleanups, crashes>>

\* A step of cleanupWorkspace throws; the next workspace's turn.
CleanupFails ==
  /\ cleanup.stage # "next"
  /\ cleanup' = [cleanup EXCEPT !.stage = "next", !.path = <<>>]
  /\ UNCHANGED <<taskVars, runVars, disk, cleanupJob, cleanups, crashes>>

\* completeJob, then createJob, in two transactions.
EndCleanup ==
  /\ cleanup.pass = "orphans" /\ cleanup.stage = "next" /\ cleanup.todo = {}
  /\ cleanup' = NoCleanup
  /\ cleanupJob' = "none"
  /\ cleanups' = cleanups + 1
  /\ UNCHANGED <<taskVars, runVars, disk, crashes>>

CreateNextCleanup ==
  /\ cleanupJob = "none"
  /\ cleanupJob' = "PENDING"
  /\ UNCHANGED <<taskVars, runVars, disk, cleanup, cleanups, crashes>>

-----------------------------------------------------------------------------
TaskStep(t) == Assign(t) \/ Cancel(t) \/ Finish(t) \/ Reopen(t) \/ BecomeReady(t)

SpawnStep(t) ==
  \/ Dispatch(t) \/ MountPackets(t) \/ PrepareRun(t) \/ StartRun(t)
  \/ StartLease(t) \/ StreamEnds(t) \/ CancelEnds(t)

ProcessStep(t) == ProcessStarts(t) \/ SpawnError(t) \/ ProcessExits(t)

WorkerStep(t) == WorkerWrites(t) \/ WorkerPrints(t) \/ WorkerChangesTree(t)

CleanupStep ==
  \/ StartCleanup \/ (\E t \in Tasks : NextExpired(t) \/ NextOrphan(t))
  \/ StartOrphans \/ CleanupWorktree \/ CleanupDirectory \/ CleanupBranch
  \/ CleanupFails \/ EndCleanup \/ CreateNextCleanup

Next ==
  \/ \E t \in Tasks :
       TaskStep(t) \/ SpawnStep(t) \/ SpawnFails(t) \/ ProcessStep(t)
         \/ WorkerStep(t)
  \/ CleanupStep
  \/ CrashAndRestart

\* Callbacks run when they can, and the command ends by itself: the adapter
\* does not enforce the time budget it prints into the prompt.
Fairness ==
  \A t \in Tasks :
    /\ WF_runState(SpawnStep(t))
    /\ WF_runState(ProcessStarts(t) \/ SpawnError(t))
    /\ WF_runState(ProcessExits(t))

RunSpec == Init /\ [][Next]_runState /\ Fairness

-----------------------------------------------------------------------------
(* Properties                                                              *)

InUse(t) ==
  \/ step[t] \in {"workspace", "mounted", "prepared", "started", "streaming"}
  \/ proc[t] = "alive" /\ lease[t] = "STARTING"

\* A workspace in use is deleted by no cleanup, except by the recurring one
\* when it found the task terminal as it began: it does not look again when
\* the task's turn comes (the task may have been reopened by then).  The
\* startup cleanup goes by the leases, and the orphan pass, which takes every
\* task that is not terminal for unknown, looks in the wrong directory.
WorkspaceOutlivesRun ==
  [][\A t \in Tasks :
       InUse(t) /\ disk.tree[Checkout(t)] # "absent"
                /\ disk'.tree[Checkout(t)] = "absent"
       => cleanup.pass = "expired" /\ t \in cleanup.known]_runState

\* Each result packet makes at most one run a success.  The file is not
\* removed between runs, so this rests on the lease of a successful run
\* staying active for good.
OnePacketPerSuccess ==
  [][\A t \in Tasks :
       step[t] = "streaming" /\ step'[t] = "idle" /\ lease'[t] = "COMPLETING"
       => CollectedPacket(t) \notin used[t]]_runState

\* No worker is started in a checkout in which a process of an earlier run
\* is still at work, also when that process has outlived the control plane
\* that started it.
CheckoutHasOneWorker ==
  \A t \in Tasks :
    step[t] \in {"workspace", "mounted", "prepared"} => proc[t] = "none"

\* A process that could not be spawned and was cancelled first: cancelRun
\* waits for an exit that no event reports.
ExitLost(t) ==
  /\ step[t] = "cancelling" /\ ~run[t].resolved
  /\ proc[t] = "none" /\ ~run[t].pid

\* spawnWorker returns, whatever happens to its process, unless the exit is
\* lost.
SpawnEnds == \A t \in Tasks : step[t] # "idle" ~> step[t] = "idle" \/ ExitLost(t)

=============================================================================
