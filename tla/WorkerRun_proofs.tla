-------------------------- MODULE WorkerRun_proofs --------------------------
(***************************************************************************)
(* Theorems about a worker's run on the machine, for any set of tasks and  *)
(* any number of runs, crashes and cleanup jobs.                           *)
(***************************************************************************)
EXTENDS WorkerRun, TLAPS

-----------------------------------------------------------------------------
(* The inductive invariant                                                 *)

Leases == {"IDLE", "LEASED", "STARTING", "COMPLETING", "CRASHED"}
EarlySteps == {"queued", "workspace", "mounted", "prepared", "started"}
Steps == EarlySteps \cup {"idle", "streaming", "cancelling"}
RunStates == [phase : {"none", "prepared", "running", "completed", "cancelled"},
              exit : ExitCodes, resolved : BOOLEAN, printed : BOOLEAN, pid : BOOLEAN]
Trees == {"absent", "clean", "dirty"}
Branches == Tasks \X Nat

TaskTypeOK ==
  /\ status \in [Tasks -> Statuses]
  /\ lease \in [Tasks -> Leases]
  /\ crashed \in SUBSET Tasks

RunTypeOK ==
  /\ step \in [Tasks -> Steps]
  /\ run \in [Tasks -> RunStates]
  /\ proc \in [Tasks -> {"none", "spawning", "alive"}]
  /\ packet \in [Tasks -> Nat]
  /\ used \in [Tasks -> SUBSET Nat]
  /\ runs \in [Tasks -> Nat]

DiskTypeOK ==
  disk \in [roots : SUBSET Paths, tree : [Paths -> Trees],
            registered : SUBSET Paths, branches : SUBSET Branches]

CleanupTypeOK ==
  cleanup \in [pass : {"idle", "expired", "orphans"}, todo : SUBSET Tasks,
               known : SUBSET Tasks, path : Paths \cup {<<>>},
               stage : {"next", "worktree", "directory", "branch"}]

TypeOK == TaskTypeOK /\ RunTypeOK /\ DiskTypeOK /\ CleanupTypeOK

\* The lease of a task goes with the progress of spawnWorker.
LeaseFollowsStep(t) ==
  /\ step[t] \in EarlySteps => lease[t] = "LEASED"
  /\ step[t] = "streaming" => lease[t] = "STARTING"
  /\ step[t] = "cancelling" => lease[t] \in {"LEASED", "STARTING"}

\* So does the adapter's record of the run; one that was prepared and not
\* started stays.
RunFollowsStep(t) ==
  /\ step[t] \in {"idle", "queued", "workspace", "mounted", "prepared"}
       => run[t].phase \in {"none", "prepared"}
  /\ step[t] \in {"started", "streaming"} => run[t].phase \in {"running", "completed"}
  /\ step[t] = "cancelling" => run[t].phase = "cancelled"
  /\ run[t].phase \in {"none", "prepared", "running"} => ~run[t].resolved
  /\ run[t].phase = "completed" => run[t].resolved

\* A process is the newest run's or has outlived its control plane, and then
\* the lease that nobody ends keeps the task from being assigned again.
ProcessHasLease(t) ==
  proc[t] # "none" => /\ step[t] \in {"idle", "started", "streaming", "cancelling"}
                      /\ lease[t] \in {"LEASED", "STARTING"}
                      /\ ~run[t].resolved

\* A packet was used by the run that left the lease in COMPLETING.
UsedMeansCompleting(t) == used[t] # {} => lease[t] = "COMPLETING"

TaskSound(t) ==
  LeaseFollowsStep(t) /\ RunFollowsStep(t) /\ ProcessHasLease(t) /\ UsedMeansCompleting(t)

\* The recurring cleanup deletes the checkouts of tasks it found terminal; in
\* the orphan pass, a directory that is nobody's checkout.
CleanupSound ==
  /\ cleanup.pass = "expired" => cleanup.todo \subseteq cleanup.known
  /\ cleanup.stage # "next" =>
       \/ /\ cleanup.pass = "expired"
          /\ \E t \in cleanup.known : cleanup.path = <<Repository, t>>
       \/ /\ cleanup.pass = "orphans"
          /\ \E t \in Tasks : cleanup.path = <<t, t>>

RunInv == TypeOK /\ (\A t \in Tasks : TaskSound(t)) /\ CleanupSound

-----------------------------------------------------------------------------
(* Types                                                                   *)

LEMMA TypeInit == Init => TypeOK
<1> SUFFICES ASSUME Init PROVE TypeOK
  OBVIOUS
<1>1. TaskTypeOK
  BY DEF Init, TaskTypeOK, Statuses, Leases
<1>2. RunTypeOK
  BY DEF Init, RunTypeOK, Steps, RunStates, NoRun, ExitCodes
<1>3. DiskTypeOK
  BY DEF Init, DiskTypeOK, EmptyDisk, Trees
<1>4. CleanupTypeOK
  BY DEF Init, CleanupTypeOK, NoCleanup
<1> QED  BY <1>1, <1>2, <1>3, <1>4 DEF TypeOK

LEMMA NoRunIsRun == NoRun \in RunStates
BY DEF NoRun, RunStates, ExitCodes

\* What the reclaim does to the task and its lease.
LEMMA ReclaimOutcome ==
  ASSUME TaskTypeOK, NEW t \in Tasks, ReclaimAfterFailure(t)
  PROVE  /\ TaskTypeOK'
         /\ lease' = [lease EXCEPT ![t] = IF lease[t] = "STARTING" THEN "CRASHED" ELSE lease[t]]
<1>1. lease' = [lease EXCEPT ![t] = IF lease[t] = "STARTING" THEN "CRASHED" ELSE lease[t]]
  BY DEF ReclaimAfterFailure, TaskTypeOK
<1>2. lease' \in [Tasks -> Leases]
  BY <1>1 DEF TaskTypeOK, Leases
<1>3. status' \in [Tasks -> Statuses]
  <2>1. PICK to \in {"READY", "FAILED", "ESCALATED"} :
           status' = [status EXCEPT ![t] =
                        IF @ = "ASSIGNED" /\ lease[t] = "STARTING" THEN to ELSE @]
    BY DEF ReclaimAfterFailure
  <2>2. to \in Statuses  BY DEF Statuses, TerminalStates
  <2> QED  BY <2>1, <2>2 DEF TaskTypeOK
<1> QED  BY <1>1, <1>2, <1>3 DEF ReclaimAfterFailure, TaskTypeOK

LEMMA FinalizeOutcome ==
  ASSUME RunTypeOK, NEW t \in Tasks, FinalizeRun(t)
  PROVE  /\ packet' \in [Tasks -> Nat]
         /\ run' = [run EXCEPT ![t] = NoRun]
         /\ run' \in [Tasks -> RunStates]
         /\ CollectedPacket(t) \in Nat
<1>1. CollectedPacket(t) \in Nat
  BY DEF RunTypeOK, CollectedPacket
<1> QED  BY <1>1, NoRunIsRun DEF FinalizeRun, RunTypeOK

LEMMA GotoStep ==
  ASSUME RunTypeOK, NEW t \in Tasks, NEW s \in Steps, Goto(t, s)
  PROVE  step' = [step EXCEPT ![t] = s] /\ step' \in [Tasks -> Steps]
BY DEF RunTypeOK, Goto

LEMMA StepNames ==
  /\ "idle" \in Steps /\ "queued" \in Steps /\ "workspace" \in Steps
  /\ "mounted" \in Steps /\ "prepared" \in Steps /\ "started" \in Steps
  /\ "streaming" \in Steps /\ "cancelling" \in Steps
BY DEF Steps, EarlySteps

-----------------------------------------------------------------------------
(* The disk                                                                *)

LEMMA CheckoutIsPath == \A t \in Tasks : Checkout(t) \in Paths
BY DEF Checkout, ComputeLayout, Paths

LEMMA CreateKeepsType ==
  ASSUME DiskTypeOK, NEW t \in Tasks, NEW added \in BOOLEAN,
         disk' = AfterCreate(disk, t, Attempt, added)
  PROVE  DiskTypeOK' /\ \A u \in Tasks : disk'.tree[Checkout(u)] = "absent"
                                        => disk.tree[Checkout(u)] = "absent"
<1> DEFINE p == ComputeLayout(Repository, t)
           b == ComputeBranchName(t, Attempt)
<1>1. p \in Paths /\ b \in Branches
  BY DEF ComputeLayout, Paths, ComputeBranchName, Branches, Attempt
<1>2. \/ disk' = [roots |-> disk.roots \cup {p}, tree |-> [disk.tree EXCEPT ![p] = "clean"],
                  registered |-> disk.registered \cup {p}, branches |-> disk.branches \cup {b}]
      \/ disk' = [disk EXCEPT !.roots = @ \cup {p}]
      \/ disk' = disk
  BY DEF AfterCreate
<1> HIDE DEF p, b
<1> QED  BY <1>1, <1>2, CheckoutIsPath DEF DiskTypeOK, Trees

-----------------------------------------------------------------------------
(* Steps of a task, of spawnWorker and of the process                      *)

\* Task u is as it was, for all that TaskSound says of it.
Same(u) == /\ step'[u] = step[u] /\ lease'[u] = lease[u] /\ run'[u] = run[u]
           /\ proc'[u] = proc[u] /\ used'[u] = used[u]

LEMMA SameIsSound ==
  ASSUME NEW u \in Tasks, TaskSound(u), Same(u)
  PROVE  TaskSound(u)'
BY DEF TaskSound, Same, LeaseFollowsStep, RunFollowsStep, ProcessHasLease, UsedMeansCompleting

\* A step of task t keeps the types, the soundness of t, and the other tasks.
StepOf(t) ==
  /\ TaskTypeOK' /\ RunTypeOK'
  /\ TaskSound(t)'
  /\ \A u \in Tasks \ {t} : Same(u)

LEMMA TaskStepSound ==
  ASSUME TypeOK, NEW t \in Tasks, TaskSound(t), TaskStep(t)
  PROVE  StepOf(t)
<1> USE DEF TypeOK
<1>1. CASE Assign(t)
  <2>1. /\ step' = [step EXCEPT ![t] = "queued"] /\ step' \in [Tasks -> Steps]
        /\ lease' = [lease EXCEPT ![t] = "LEASED"]
        /\ UNCHANGED <<run, proc, used, packet, runs>>
    BY <1>1, GotoStep, StepNames DEF Assign
  <2>2. TaskTypeOK' /\ RunTypeOK'
    BY <1>1, <2>1 DEF Assign, TaskTypeOK, RunTypeOK, Statuses, Leases
  <2>3. proc[t] = "none" /\ used[t] = {} /\ run[t].phase \in {"none", "prepared"}
    BY <1>1 DEF Assign, ActiveLease, TaskSound, ProcessHasLease, UsedMeansCompleting,
                RunFollowsStep
  <2>4. TaskSound(t)'
    BY <2>1, <2>3 DEF TaskSound, LeaseFollowsStep, RunFollowsStep, ProcessHasLease,
              UsedMeansCompleting, TaskTypeOK, RunTypeOK, EarlySteps
  <2> QED  BY <2>1, <2>2, <2>4 DEF StepOf, Same, TaskTypeOK, RunTypeOK
<1>2. CASE Cancel(t) \/ Finish(t) \/ Reopen(t) \/ BecomeReady(t)
  <2>1. /\ \E to \in Statuses : status' = [status EXCEPT ![t] = to]
        /\ UNCHANGED <<lease, crashed, step, run, proc, packet, used, runs>>
    BY <1>2 DEF Cancel, Finish, Reopen, BecomeReady, Statuses, TerminalStates, runVars
  <2>2. TaskTypeOK' /\ RunTypeOK'
    BY <2>1 DEF TaskTypeOK, RunTypeOK
  <2>3. \A u \in Tasks : Same(u)
    BY <2>1 DEF Same
  <2> QED  BY <2>2, <2>3, SameIsSound DEF StepOf
<1> QED  BY <1>1, <1>2 DEF TaskStep

LEMMA DispatchSound ==
  ASSUME TypeOK, NEW t \in Tasks, TaskSound(t), Dispatch(t)
  PROVE  StepOf(t)
<1> USE DEF TypeOK
<1>1. step[t] = "queued" /\ UNCHANGED <<run, proc, used, packet, runs>>
  BY DEF Dispatch
<1>2. lease[t] = "LEASED" /\ proc[t] = "none"
  BY <1>1 DEF TaskSound, LeaseFollowsStep, ProcessHasLease, EarlySteps
<1>3. /\ TaskTypeOK'
      /\ lease' = lease
      /\ \/ Goto(t, "idle") \/ Goto(t, "workspace")
  <2>1. CASE UNCHANGED taskVars /\ (Goto(t, "idle") \/ Goto(t, "workspace"))
    BY <2>1 DEF taskVars, TaskTypeOK
  <2>2. CASE Goto(t, "idle") /\ ReclaimAfterFailure(t)
    BY <1>2, <2>2, ReclaimOutcome DEF TaskTypeOK
  <2> QED  BY <2>1, <2>2 DEF Dispatch
<1>4. /\ step' = [step EXCEPT ![t] = "idle"] \/ step' = [step EXCEPT ![t] = "workspace"]
      /\ step' \in [Tasks -> Steps]
  BY <1>3, GotoStep, StepNames
<1>5. RunTypeOK'
  BY <1>1, <1>4 DEF RunTypeOK
<1>6. TaskSound(t)'
  BY <1>1, <1>2, <1>3, <1>4
     DEF TaskSound, LeaseFollowsStep, RunFollowsStep, ProcessHasLease, UsedMeansCompleting,
         RunTypeOK, EarlySteps
<1> QED  BY <1>1, <1>3, <1>4, <1>5, <1>6 DEF StepOf, Same, RunTypeOK

LEMMA SpawnStepSound ==
  ASSUME TypeOK, NEW t \in Tasks, TaskSound(t), SpawnStep(t)
  PROVE  StepOf(t)
<1> USE DEF TypeOK
<1>1. CASE Dispatch(t)  BY <1>1, DispatchSound
<1>2. CASE MountPackets(t)
  <2>1. step' = [step EXCEPT ![t] = "mounted"] /\ step' \in [Tasks -> Steps]
    BY <1>2, GotoStep, StepNames DEF MountPackets
  <2>2. step[t] = "workspace" /\ UNCHANGED <<taskVars, run, proc, packet, used, runs>>
    BY <1>2 DEF MountPackets
  <2>3. TaskTypeOK' /\ RunTypeOK'
    BY <2>1, <2>2 DEF TaskTypeOK, RunTypeOK, taskVars
  <2>4. TaskSound(t)'
    BY <2>1, <2>2 DEF TaskSound, LeaseFollowsStep, RunFollowsStep, ProcessHasLease,
                      UsedMeansCompleting, RunTypeOK, EarlySteps, taskVars
  <2> QED  BY <2>1, <2>2, <2>3, <2>4 DEF StepOf, Same, RunTypeOK, taskVars
<1>3. CASE PrepareRun(t)
  <2>1. step' = [step EXCEPT ![t] = "prepared"] /\ step' \in [Tasks -> Steps]
    BY <1>3, GotoStep, StepNames DEF PrepareRun
  <2>2. /\ step[t] = "mounted" /\ UNCHANGED <<taskVars, proc, packet, used>>
        /\ runs' = [runs EXCEPT ![t] = @ + 1]
        /\ run' = [run EXCEPT ![t] = [NoRun EXCEPT !.phase = "prepared"]]
    BY <1>3 DEF PrepareRun
  <2>3. [NoRun EXCEPT !.phase = "prepared"] \in RunStates
    BY DEF NoRun, RunStates, ExitCodes
  <2>4. TaskTypeOK' /\ RunTypeOK'
    BY <2>1, <2>2, <2>3 DEF TaskTypeOK, RunTypeOK, taskVars
  <2>5. proc[t] = "none"
    BY <2>2 DEF TaskSound, ProcessHasLease
  <2>6. run'[t].phase = "prepared" /\ run'[t].resolved = FALSE
    BY <2>2 DEF RunTypeOK, NoRun
  <2>7. TaskSound(t)'
    BY <2>1, <2>2, <2>5, <2>6
       DEF TaskSound, LeaseFollowsStep, RunFollowsStep, ProcessHasLease,
           UsedMeansCompleting, RunTypeOK, EarlySteps, taskVars
  <2> QED  BY <2>1, <2>2, <2>4, <2>7 DEF StepOf, Same, RunTypeOK, taskVars
<1>4. CASE StartRun(t)
  <2>1. step' = [step EXCEPT ![t] = "started"] /\ step' \in [Tasks -> Steps]
    BY <1>4, GotoStep, StepNames DEF StartRun
  <2>2. /\ step[t] = "prepared" /\ run[t].phase = "prepared"
        /\ UNCHANGED <<taskVars, packet, used, runs>>
        /\ run' = [run EXCEPT ![t].phase = "running"]
        /\ proc' = [proc EXCEPT ![t] = "spawning"]
    BY <1>4 DEF StartRun
  <2>3. TaskTypeOK' /\ RunTypeOK'
    BY <2>1, <2>2 DEF TaskTypeOK, RunTypeOK, RunStates, taskVars
  <2>4. run'[t].phase = "running" /\ run'[t].resolved = run[t].resolved
    BY <2>2 DEF RunTypeOK, RunStates
  <2>5. TaskSound(t)'
    BY <2>1, <2>2, <2>4
       DEF TaskSound, LeaseFollowsStep, RunFollowsStep, ProcessHasLease,
           UsedMeansCompleting, RunTypeOK, EarlySteps, taskVars
  <2> QED  BY <2>1, <2>2, <2>3, <2>5 DEF StepOf, Same, RunTypeOK, taskVars
<1>5. CASE StartLease(t)
  <2>1. step' = [step EXCEPT ![t] = "streaming"] /\ step' \in [Tasks -> Steps]
    BY <1>5, GotoStep, StepNames DEF StartLease
  <2>2. /\ step[t] = "started" /\ lease' = [lease EXCEPT ![t] = "STARTING"]
        /\ UNCHANGED <<status, crashed, run, proc, packet, used, runs>>
    BY <1>5 DEF StartLease
  <2>3. TaskTypeOK' /\ RunTypeOK'
    BY <2>1, <2>2 DEF TaskTypeOK, RunTypeOK, Leases
  <2>4. used[t] = {}
    BY <2>2 DEF TaskSound, UsedMeansCompleting, LeaseFollowsStep, EarlySteps
  <2>5. TaskSound(t)'
    BY <2>1, <2>2, <2>4
       DEF TaskSound, LeaseFollowsStep, RunFollowsStep, ProcessHasLease,
           UsedMeansCompleting, TaskTypeOK, RunTypeOK, EarlySteps
  <2> QED  BY <2>1, <2>2, <2>3, <2>5 DEF StepOf, Same, TaskTypeOK, RunTypeOK
<1>6. CASE StreamEnds(t)
  <2>1. step' = [step EXCEPT ![t] = "idle"] /\ step' \in [Tasks -> Steps]
    BY <1>6, GotoStep, StepNames DEF StreamEnds
  <2>2. /\ step[t] = "streaming" /\ run[t].phase # "running"
        /\ FinalizeRun(t) /\ UNCHANGED <<proc, runs>>
    BY <1>6 DEF StreamEnds
  <2>3. /\ run[t].phase = "completed" /\ lease[t] = "STARTING" /\ used[t] = {}
    BY <2>2 DEF TaskSound, RunFollowsStep, LeaseFollowsStep, UsedMeansCompleting
  <2>4. run' = [run EXCEPT ![t] = NoRun] /\ run' \in [Tasks -> RunStates]
        /\ packet' \in [Tasks -> Nat] /\ CollectedPacket(t) \in Nat
    BY <2>2, FinalizeOutcome
  <2>5. proc[t] = "none"
    BY <2>3 DEF TaskSound, RunFollowsStep, ProcessHasLease
  <2> DEFINE won == RunStatus(run[t], CollectedPacket(t)) \in {"success", "partial"}
  <2>6. CASE won
    <3>1. /\ lease' = [lease EXCEPT ![t] = "COMPLETING"] /\ UNCHANGED crashed
          /\ status' = [status EXCEPT ![t] = IF @ = "ASSIGNED" THEN "DEV_COMPLETE" ELSE @]
          /\ used' = used \/ used' = [used EXCEPT ![t] = @ \cup {CollectedPacket(t)}]
      BY <1>6, <2>6 DEF StreamEnds
    <3>2. TaskTypeOK' /\ RunTypeOK'
      BY <2>1, <2>2, <2>4, <3>1 DEF TaskTypeOK, RunTypeOK, Statuses, Leases
    <3>3. TaskSound(t)'
      BY <2>1, <2>2, <2>4, <2>5, <3>1
         DEF TaskSound, LeaseFollowsStep, RunFollowsStep, ProcessHasLease,
             UsedMeansCompleting, TaskTypeOK, RunTypeOK, EarlySteps, NoRun
    <3> QED  BY <2>1, <2>2, <2>4, <3>1, <3>2, <3>3 DEF StepOf, Same, TaskTypeOK, RunTypeOK
  <2>7. CASE ~won
    <3>1. ReclaimAfterFailure(t) /\ used' = used
      BY <1>6, <2>7 DEF StreamEnds
    <3>2. TaskTypeOK' /\ lease' = [lease EXCEPT ![t] = "CRASHED"]
      BY <2>3, <3>1, ReclaimOutcome
    <3>3. RunTypeOK'
      BY <2>1, <2>2, <2>4, <3>1 DEF RunTypeOK
    <3>4. TaskSound(t)'
      BY <2>1, <2>2, <2>3, <2>4, <2>5, <3>1, <3>2
         DEF TaskSound, LeaseFollowsStep, RunFollowsStep, ProcessHasLease,
             UsedMeansCompleting, TaskTypeOK, RunTypeOK, EarlySteps, NoRun
    <3> QED  BY <2>1, <2>2, <2>4, <3>1, <3>2, <3>3, <3>4 DEF StepOf, Same, TaskTypeOK, RunTypeOK
  <2> QED  BY <2>6, <2>7
<1>7. CASE CancelEnds(t)
  <2>1. step' = [step EXCEPT ![t] = "idle"] /\ step' \in [Tasks -> Steps]
    BY <1>7, GotoStep, StepNames DEF CancelEnds
  <2>2. /\ step[t] = "cancelling" /\ run[t].resolved /\ UNCHANGED <<proc, runs, used>>
        /\ FinalizeRun(t) /\ ReclaimAfterFailure(t)
    BY <1>7 DEF CancelEnds
  <2>3. proc[t] = "none" /\ used[t] = {}
    BY <2>2 DEF TaskSound, ProcessHasLease, UsedMeansCompleting, LeaseFollowsStep
  <2>4. run' = [run EXCEPT ![t] = NoRun] /\ run' \in [Tasks -> RunStates]
        /\ packet' \in [Tasks -> Nat]
    BY <2>2, FinalizeOutcome
  <2>5. /\ TaskTypeOK'
        /\ lease' = [lease EXCEPT ![t] = IF lease[t] = "STARTING" THEN "CRASHED" ELSE lease[t]]
    BY <2>2, ReclaimOutcome
  <2>6. RunTypeOK'
    BY <2>1, <2>2, <2>4 DEF RunTypeOK
  <2>7. TaskSound(t)'
    BY <2>1, <2>2, <2>3, <2>4
       DEF TaskSound, LeaseFollowsStep, RunFollowsStep, ProcessHasLease,
           UsedMeansCompleting, RunTypeOK, EarlySteps, NoRun
  <2> QED  BY <2>1, <2>2, <2>4, <2>5, <2>6, <2>7 DEF StepOf, Same, TaskTypeOK, RunTypeOK
<1> QED  BY <1>1, <1>2, <1>3, <1>4, <1>5, <1>6, <1>7 DEF SpawnStep

LEMMA SpawnFailsSound ==
  ASSUME TypeOK, NEW t \in Tasks, TaskSound(t), SpawnFails(t)
  PROVE  StepOf(t)
<1> USE DEF TypeOK
<1>1. /\ step[t] \in {"workspace", "mounted", "prepared", "started", "streaming"}
      /\ UNCHANGED <<proc, used, runs>>
  BY DEF SpawnFails
<1>2. lease[t] \in {"LEASED", "STARTING"} /\ used[t] = {}
  BY <1>1 DEF TaskSound, LeaseFollowsStep, UsedMeansCompleting, EarlySteps
<1>3. CASE run[t].phase = "running"
  <2>1. /\ run' = [run EXCEPT ![t].phase = "cancelled"] /\ UNCHANGED <<taskVars, packet>>
        /\ step' = [step EXCEPT ![t] = "cancelling"] /\ step' \in [Tasks -> Steps]
    BY <1>3, GotoStep, StepNames DEF SpawnFails
  <2>2. TaskTypeOK' /\ RunTypeOK'
    BY <1>1, <2>1 DEF TaskTypeOK, RunTypeOK, RunStates, taskVars
  <2>3. run'[t].phase = "cancelled" /\ run'[t].resolved = run[t].resolved
    BY <2>1 DEF RunTypeOK, RunStates
  <2>4. TaskSound(t)'
    BY <1>1, <1>2, <1>3, <2>1, <2>3
       DEF TaskSound, LeaseFollowsStep, RunFollowsStep, ProcessHasLease,
           UsedMeansCompleting, RunTypeOK, EarlySteps, taskVars
  <2> QED  BY <1>1, <2>1, <2>2, <2>4 DEF StepOf, Same, RunTypeOK, taskVars
<1>4. CASE run[t].phase # "running"
  <2>1. /\ step' = [step EXCEPT ![t] = "idle"] /\ step' \in [Tasks -> Steps]
        /\ ReclaimAfterFailure(t)
    BY <1>4, GotoStep, StepNames DEF SpawnFails
  <2>2. /\ TaskTypeOK'
        /\ lease' = [lease EXCEPT ![t] = IF lease[t] = "STARTING" THEN "CRASHED" ELSE lease[t]]
    BY <2>1, ReclaimOutcome
  <2>3. proc[t] = "none"
    BY <1>1, <1>4 DEF TaskSound, RunFollowsStep, ProcessHasLease
  <2>4. /\ \/ run[t].phase = "completed" /\ run' = [run EXCEPT ![t] = NoRun]
           \/ run[t].phase # "completed" /\ run' = run
        /\ run' \in [Tasks -> RunStates] /\ packet' \in [Tasks -> Nat]
    <3>1. CASE run[t].phase = "completed"
      BY <1>4, <3>1, FinalizeOutcome DEF SpawnFails
    <3>2. CASE run[t].phase # "completed"
      BY <1>4, <3>2 DEF SpawnFails, RunTypeOK
    <3> QED  BY <3>1, <3>2
  <2>5. RunTypeOK'
    BY <1>1, <2>1, <2>4 DEF RunTypeOK
  <2>6. run'[t].phase \in {"none", "prepared"} /\ ~run'[t].resolved
    BY <1>1, <1>4, <2>4 DEF TaskSound, RunFollowsStep, RunTypeOK, NoRun
  <2>7. TaskSound(t)'
    BY <1>1, <1>2, <2>1, <2>3, <2>6
       DEF TaskSound, LeaseFollowsStep, RunFollowsStep, ProcessHasLease,
           UsedMeansCompleting, RunTypeOK, EarlySteps
  <2> QED  BY <1>1, <2>1, <2>2, <2>4, <2>5, <2>7 DEF StepOf, Same, TaskTypeOK, RunTypeOK
<1> QED  BY <1>3, <1>4

LEMMA SettledIsRun ==
  ASSUME NEW r \in RunStates, NEW code \in ExitCodes, r.phase \in {"running", "cancelled"}
  PROVE  /\ Settled(r, code) \in RunStates /\ Settled(r, code).resolved
         /\ Settled(r, code).phase = IF r.phase = "running" THEN "completed" ELSE "cancelled"
BY DEF Settled, RunStates

\* The process of task t is gone, which settles a run that waits for it.
ProcessGone(t) ==
  /\ proc[t] # "none" /\ proc' = [proc EXCEPT ![t] = "none"]
  /\ UNCHANGED <<taskVars, step, packet, used, runs>>
  /\ \/ run' = run
     \/ /\ run[t].phase \in {"running", "cancelled"}
        /\ \E code \in ExitCodes : run' = [run EXCEPT ![t] = Settled(run[t], code)]

LEMMA ProcessGoneSound ==
  ASSUME TypeOK, NEW t \in Tasks, TaskSound(t), ProcessGone(t)
  PROVE  StepOf(t)
<1> USE DEF TypeOK
<1>0. run[t] \in RunStates /\ UNCHANGED <<taskVars, step, packet, used, runs>>
      /\ proc' = [proc EXCEPT ![t] = "none"]
  BY DEF RunTypeOK, ProcessGone
<1>1. CASE run' = run
  <2>1. TaskTypeOK' /\ RunTypeOK'
    BY <1>0, <1>1 DEF TaskTypeOK, RunTypeOK, taskVars
  <2>2. TaskSound(t)'
    BY <1>0, <1>1
       DEF TaskSound, LeaseFollowsStep, RunFollowsStep, ProcessHasLease,
           UsedMeansCompleting, RunTypeOK, EarlySteps, taskVars
  <2> QED  BY <1>0, <1>1, <2>1, <2>2 DEF StepOf, Same, RunTypeOK, taskVars
<1>2. ASSUME NEW code \in ExitCodes, run[t].phase \in {"running", "cancelled"},
             run' = [run EXCEPT ![t] = Settled(run[t], code)]
      PROVE  StepOf(t)
  <2>1. TaskTypeOK' /\ RunTypeOK'
    BY <1>0, <1>2, SettledIsRun DEF TaskTypeOK, RunTypeOK, taskVars
  <2>2. /\ run'[t].phase = IF run[t].phase = "running" THEN "completed" ELSE "cancelled"
        /\ run'[t].resolved
    BY <1>0, <1>2, SettledIsRun DEF RunTypeOK
  <2>3. proc'[t] = "none"
    BY <1>0 DEF RunTypeOK
  <2>4. TaskSound(t)'
    BY <1>0, <1>2, <2>2, <2>3
       DEF TaskSound, LeaseFollowsStep, RunFollowsStep, ProcessHasLease,
           UsedMeansCompleting, EarlySteps, taskVars
  <2> QED  BY <1>0, <1>2, <2>1, <2>4 DEF StepOf, Same, RunTypeOK, taskVars
<1> QED  BY <1>1, <1>2 DEF ProcessGone

LEMMA ProcessStepSound ==
  ASSUME TypeOK, NEW t \in Tasks, TaskSound(t), ProcessStep(t)
  PROVE  StepOf(t)
<1> USE DEF TypeOK
<1>1. CASE ProcessStarts(t)
  <2>1. /\ UNCHANGED <<taskVars, step, packet, used, runs>> /\ proc[t] = "spawning"
        /\ proc' = [proc EXCEPT ![t] = "alive"]
        /\ run' = [run EXCEPT ![t].pid = run[t].phase # "none"]
    BY <1>1 DEF ProcessStarts
  <2>2. TaskTypeOK' /\ RunTypeOK'
    BY <2>1 DEF TaskTypeOK, RunTypeOK, RunStates, taskVars
  <2>3. run'[t].phase = run[t].phase /\ run'[t].resolved = run[t].resolved
    BY <2>1 DEF RunTypeOK, RunStates
  <2>4. TaskSound(t)'
    BY <2>1, <2>3
       DEF TaskSound, LeaseFollowsStep, RunFollowsStep, ProcessHasLease,
           UsedMeansCompleting, RunTypeOK, EarlySteps, taskVars
  <2> QED  BY <2>1, <2>2, <2>4 DEF StepOf, Same, RunTypeOK, taskVars
<1>2. CASE SpawnError(t)
  <2>1. ProcessGone(t)
    BY <1>2 DEF SpawnError, ProcessGone, ExitCodes
  <2> QED  BY <2>1, ProcessGoneSound
<1>3. CASE ProcessExits(t)
  <2>1. ProcessGone(t)
    BY <1>3 DEF ProcessExits, ProcessGone
  <2> QED  BY <2>1, ProcessGoneSound
<1> QED  BY <1>1, <1>2, <1>3 DEF ProcessStep

LEMMA WorkerStepSound ==
  ASSUME TypeOK, NEW t \in Tasks, TaskSound(t), WorkerStep(t)
  PROVE  StepOf(t)
<1> USE DEF TypeOK
<1>1. UNCHANGED <<taskVars, step, proc, used, runs>>
  BY DEF WorkerStep, WorkerWrites, WorkerPrints, WorkerChangesTree, runVars
<1>2. CASE WorkerPrints(t)
  <2>1. run' = [run EXCEPT ![t].printed = TRUE] /\ packet' = packet
    BY <1>2 DEF WorkerPrints
  <2>2. TaskTypeOK' /\ RunTypeOK'
    BY <1>1, <2>1 DEF TaskTypeOK, RunTypeOK, RunStates, taskVars
  <2>3. run'[t].phase = run[t].phase /\ run'[t].resolved = run[t].resolved
    BY <2>1 DEF RunTypeOK, RunStates
  <2>4. TaskSound(t)'
    BY <1>1, <2>3
       DEF TaskSound, LeaseFollowsStep, RunFollowsStep, ProcessHasLease,
           UsedMeansCompleting, EarlySteps, taskVars
  <2> QED  BY <1>1, <2>1, <2>2, <2>4 DEF StepOf, Same, RunTypeOK, taskVars
<1>3. CASE WorkerWrites(t) \/ WorkerChangesTree(t)
  <2>1. run' = run /\ packet' \in [Tasks -> Nat]
    BY <1>3 DEF WorkerWrites, WorkerChangesTree, runVars, RunTypeOK
  <2>2. TaskTypeOK' /\ RunTypeOK'
    BY <1>1, <2>1 DEF TaskTypeOK, RunTypeOK, taskVars
  <2>3. \A u \in Tasks : Same(u)
    BY <1>1, <2>1 DEF Same, taskVars
  <2> QED  BY <2>2, <2>3, SameIsSound DEF StepOf
<1> QED  BY <1>2, <1>3 DEF WorkerStep

-----------------------------------------------------------------------------
(* Crashes and cleanups                                                    *)

LEMMA CrashSound ==
  ASSUME TypeOK, \A t \in Tasks : TaskSound(t), CrashAndRestart
  PROVE  /\ TypeOK' /\ CleanupSound'
         /\ \A t \in Tasks : TaskSound(t)'
<1> USE DEF TypeOK
<1>1. /\ step' = [t \in Tasks |-> IF step[t] = "queued" THEN "queued" ELSE "idle"]
      /\ run' = [t \in Tasks |-> NoRun] /\ cleanup' = NoCleanup
      /\ UNCHANGED <<taskVars, proc, packet, used, runs>>
  BY DEF CrashAndRestart
<1>2. TaskTypeOK' /\ RunTypeOK'
  BY <1>1, StepNames, NoRunIsRun DEF TaskTypeOK, RunTypeOK, taskVars
<1>3. CleanupTypeOK' /\ CleanupSound'
  BY <1>1 DEF NoCleanup, CleanupTypeOK, CleanupSound
<1>4. DiskTypeOK'
  <2>1. PICK aged \in SUBSET disk.roots : disk' = CleanOrphanedWorkspaces(disk, aged)
    BY DEF CrashAndRestart
  <2> DEFINE gone == {p \in aged : ~HasActiveLeaseForTask(p[2])}
             tree == [p \in Paths |-> IF p \in gone THEN "absent" ELSE disk.tree[p]]
  <2>2. disk' = [disk EXCEPT !.roots = disk.roots \ gone, !.tree = tree]
    BY <2>1 DEF CleanOrphanedWorkspaces, DiskTypeOK
  <2>3. tree \in [Paths -> Trees]
    BY DEF DiskTypeOK, Trees
  <2> HIDE DEF gone, tree
  <2> QED  BY <2>2, <2>3 DEF DiskTypeOK
<1>5. ASSUME NEW t \in Tasks
      PROVE  TaskSound(t)'
  BY <1>1 DEF TaskSound, LeaseFollowsStep, RunFollowsStep, ProcessHasLease,
              UsedMeansCompleting, RunTypeOK, EarlySteps, NoRun, taskVars
<1> QED  BY <1>2, <1>3, <1>4, <1>5

LEMMA CleanupStepSound ==
  ASSUME TypeOK, CleanupSound, CleanupStep
  PROVE  /\ CleanupTypeOK' /\ CleanupSound' /\ DiskTypeOK'
         /\ UNCHANGED <<taskVars, runVars>>
<1> USE DEF TypeOK
<1>0. UNCHANGED <<taskVars, runVars>>
  BY DEF CleanupStep, StartCleanup, NextExpired, NextOrphan, StartOrphans, CleanupWorktree,
         CleanupDirectory, CleanupBranch, CleanupFails, EndCleanup, CreateNextCleanup
<1>1. CASE StartCleanup
  <2> DEFINE terminal == {t \in Tasks : status[t] \in TerminalStates}
  <2>1. PICK due \in SUBSET terminal :
          cleanup' = [NoCleanup EXCEPT !.pass = "expired", !.known = terminal,
                        !.todo = {t \in due : CleanupEligible(status[t], RetainFailed)}]
    BY <1>1 DEF StartCleanup
  <2> DEFINE todo == {t \in due : CleanupEligible(status[t], RetainFailed)}
  <2>2. terminal \subseteq Tasks /\ todo \subseteq terminal
    OBVIOUS
  <2>3. cleanup' = [pass |-> "expired", todo |-> todo, known |-> terminal, path |-> <<>>,
                    stage |-> "next"]
    BY <2>1 DEF NoCleanup
  <2> HIDE DEF terminal, todo
  <2>4. CleanupTypeOK' /\ CleanupSound'
    BY <2>2, <2>3 DEF CleanupTypeOK, CleanupSound
  <2> QED  BY <1>1, <2>4 DEF StartCleanup, DiskTypeOK
<1>2. ASSUME NEW t \in Tasks, NextExpired(t)
      PROVE  CleanupTypeOK' /\ CleanupSound' /\ DiskTypeOK'
  <2>1. /\ cleanup.pass = "expired" /\ t \in cleanup.todo /\ disk' = disk
        /\ cleanup' = [cleanup EXCEPT !.todo = @ \ {t}, !.stage = "worktree",
                                      !.path = <<Repository, t>>]
    BY <1>2 DEF NextExpired, ComputeLayout
  <2>2. <<Repository, t>> \in Paths  BY DEF Paths
  <2>3. CleanupTypeOK'
    BY <2>1, <2>2 DEF CleanupTypeOK
  <2>4. t \in cleanup.known
    BY <2>1 DEF CleanupSound
  <2> QED  BY <2>1, <2>3, <2>4 DEF CleanupTypeOK, CleanupSound, DiskTypeOK
<1>3. ASSUME NEW t \in Tasks, NextOrphan(t)
      PROVE  CleanupTypeOK' /\ CleanupSound' /\ DiskTypeOK'
  <2>1. /\ cleanup.pass = "orphans" /\ disk' = disk
        /\ cleanup' = [cleanup EXCEPT !.todo = @ \ {t}, !.stage = "worktree",
                                      !.path = <<t, t>>]
    BY <1>3 DEF NextOrphan, OrphanLayout, ComputeLayout
  <2>2. <<t, t>> \in Paths  BY DEF Paths
  <2>3. CleanupTypeOK'
    BY <2>1, <2>2 DEF CleanupTypeOK
  <2> QED  BY <2>1, <2>3 DEF CleanupTypeOK, CleanupSound, DiskTypeOK
<1>4. CASE StartOrphans
  <2>1. {p[2] : p \in disk.roots} \subseteq Tasks
    BY DEF DiskTypeOK, Paths
  <2> QED  BY <1>4, <2>1 DEF StartOrphans, CleanupTypeOK, CleanupSound, DiskTypeOK
<1>5. CASE cleanup.stage # "next" /\ (CleanupWorktree \/ CleanupDirectory)
  <2>1. CleanupTypeOK' /\ CleanupSound'
    BY <1>5 DEF CleanupWorktree, CleanupDirectory, CleanupTypeOK, CleanupSound
  <2>2. cleanup.path \in Paths
    BY <1>5 DEF CleanupSound, CleanupTypeOK, Paths
  <2>3. \/ disk' = disk
        \/ disk' = [disk EXCEPT !.tree[cleanup.path] = "absent",
                                !.registered = @ \ {cleanup.path}]
        \/ disk' = [disk EXCEPT !.roots = @ \ {cleanup.path},
                                !.tree[cleanup.path] = "absent"]
    BY <1>5 DEF CleanupWorktree, CleanupDirectory, RemoveWorktree, RemoveDirectory
  <2>4. [disk.tree EXCEPT ![cleanup.path] = "absent"] \in [Paths -> Trees]
    BY <2>2 DEF DiskTypeOK, Trees
  <2>5. DiskTypeOK'
    <3>1. \/ disk' = disk
          \/ \E T \in [Paths -> Trees], R \in SUBSET Paths :
               disk' = [disk EXCEPT !.tree = T, !.registered = R]
          \/ \E T \in [Paths -> Trees], R \in SUBSET Paths :
               disk' = [disk EXCEPT !.roots = R, !.tree = T]
      <4>1. disk.registered \ {cleanup.path} \in SUBSET Paths
            /\ disk.roots \ {cleanup.path} \in SUBSET Paths
        BY DEF DiskTypeOK
      <4>2. CASE disk' = [disk EXCEPT !.tree[cleanup.path] = "absent",
                                      !.registered = @ \ {cleanup.path}]
        BY <2>4, <4>1, <4>2 DEF DiskTypeOK
      <4>3. CASE disk' = [disk EXCEPT !.roots = @ \ {cleanup.path},
                                      !.tree[cleanup.path] = "absent"]
        BY <2>4, <4>1, <4>3 DEF DiskTypeOK
      <4> QED  BY <2>3, <4>2, <4>3
    <3> QED  BY <3>1 DEF DiskTypeOK
  <2> QED  BY <1>0, <2>1, <2>5
<1>6. CASE CleanupBranch
  <2>1. CleanupTypeOK' /\ CleanupSound'
    BY <1>6 DEF CleanupBranch, CleanupTypeOK, CleanupSound
  <2> QED  BY <1>6, <2>1 DEF CleanupBranch, DeleteBranch, DiskTypeOK
<1>7. CASE CleanupFails
  BY <1>7 DEF CleanupFails, CleanupTypeOK, CleanupSound, DiskTypeOK
<1>8. CASE EndCleanup
  BY <1>8 DEF EndCleanup, NoCleanup, CleanupTypeOK, CleanupSound, DiskTypeOK
<1>9. CASE CreateNextCleanup
  BY <1>9 DEF CreateNextCleanup, CleanupTypeOK, CleanupSound, DiskTypeOK
<1> QED
  BY <1>0, <1>1, <1>2, <1>3, <1>4, <1>5, <1>6, <1>7, <1>8, <1>9
     DEF CleanupStep, CleanupWorktree, CleanupDirectory

-----------------------------------------------------------------------------
(* The theorems                                                            *)

LEMMA TaskStepDisk ==
  ASSUME TypeOK, NEW t \in Tasks,
         \/ TaskStep(t) \/ SpawnStep(t) \/ SpawnFails(t) \/ ProcessStep(t)
         \/ WorkerStep(t)
  PROVE  /\ cleanup' = cleanup /\ DiskTypeOK'
         /\ \A u \in Tasks : disk'.tree[Checkout(u)] = "absent"
                             => disk.tree[Checkout(u)] = "absent"
<1> USE DEF TypeOK
<1>1. CASE Dispatch(t)
  <2>1. disk' = disk \/ \E added \in BOOLEAN : disk' = AfterCreate(disk, t, Attempt, added)
    BY <1>1 DEF Dispatch
  <2>2. cleanup' = cleanup
    BY <1>1 DEF Dispatch, cleanupVars
  <2> QED  BY <2>1, <2>2, CreateKeepsType DEF DiskTypeOK
<1>2. CASE WorkerChangesTree(t)
  <2>1. /\ cleanup' = cleanup
        /\ disk' = [disk EXCEPT !.tree[Checkout(t)] = IF @ = "clean" THEN "dirty" ELSE "clean"]
    BY <1>2 DEF WorkerChangesTree, cleanupVars
  <2>2. \E x \in {"clean", "dirty"} : disk' = [disk EXCEPT !.tree[Checkout(t)] = x]
    BY <2>1
  <2> QED  BY <2>1, <2>2, CheckoutIsPath DEF DiskTypeOK, Trees
<1>3. CASE ~Dispatch(t) /\ ~WorkerChangesTree(t)
  <2>1. disk' = disk /\ cleanup' = cleanup
    BY <1>3 DEF TaskStep, Assign, Cancel, Finish, Reopen, BecomeReady, SpawnStep,
                MountPackets, PrepareRun, StartRun, StartLease, StreamEnds, CancelEnds,
                SpawnFails, ProcessStep, ProcessStarts, SpawnError, ProcessExits, WorkerStep,
                WorkerWrites, WorkerPrints, cleanupVars
  <2> QED  BY <2>1 DEF DiskTypeOK
<1> QED  BY <1>1, <1>2, <1>3

LEMMA RunInvNext == RunInv /\ [Next]_runState => RunInv'
<1> SUFFICES ASSUME RunInv, [Next]_runState PROVE RunInv'
  OBVIOUS
<1>0. TypeOK /\ CleanupSound /\ \A t \in Tasks : TaskSound(t)
  BY DEF RunInv
<1>1. ASSUME NEW t \in Tasks,
             \/ TaskStep(t) \/ SpawnStep(t) \/ SpawnFails(t) \/ ProcessStep(t)
             \/ WorkerStep(t)
      PROVE  RunInv'
  <2>1. StepOf(t)
    BY <1>0, <1>1, TaskStepSound, SpawnStepSound, SpawnFailsSound, ProcessStepSound,
       WorkerStepSound
  <2>2. cleanup' = cleanup /\ DiskTypeOK'
    BY <1>0, <1>1, TaskStepDisk
  <2>3. TypeOK' /\ CleanupSound'
    BY <1>0, <2>1, <2>2 DEF StepOf, TypeOK, CleanupTypeOK, CleanupSound
  <2>4. \A u \in Tasks : TaskSound(u)'
    BY <1>0, <2>1, SameIsSound DEF StepOf
  <2> QED  BY <2>3, <2>4 DEF RunInv
<1>2. CASE CleanupStep
  <2>1. /\ CleanupTypeOK' /\ CleanupSound' /\ DiskTypeOK'
        /\ UNCHANGED <<taskVars, runVars>>
    BY <1>0, <1>2, CleanupStepSound
  <2>2. \A u \in Tasks : Same(u)
    BY <2>1 DEF Same, taskVars, runVars
  <2>3. TaskTypeOK' /\ RunTypeOK'
    BY <1>0, <2>1 DEF TypeOK, TaskTypeOK, RunTypeOK, taskVars, runVars
  <2> QED  BY <1>0, <2>1, <2>2, <2>3, SameIsSound DEF RunInv, TypeOK
<1>3. CASE CrashAndRestart
  BY <1>0, <1>3, CrashSound DEF RunInv
<1>4. CASE UNCHANGED runState
  <2>1. UNCHANGED <<status, lease, crashed, step, run, proc, packet, used, runs, disk, cleanup>>
    BY <1>4 DEF runState, taskVars, runVars, cleanupVars
  <2>2. \A u \in Tasks : Same(u)
    BY <2>1 DEF Same
  <2>3. TypeOK' /\ CleanupSound'
    BY <1>0, <2>1 DEF TypeOK, TaskTypeOK, RunTypeOK, DiskTypeOK, CleanupTypeOK, CleanupSound
  <2> QED  BY <1>0, <2>2, <2>3, SameIsSound DEF RunInv
<1> QED  BY <1>1, <1>2, <1>3, <1>4 DEF Next

(* The lease of a task, the adapter's record of its run and the process go  *)
(* together at every await of spawnWorker, whatever fails, is cancelled or   *)
(* crashes: a process whose control plane died is covered by a lease that    *)
(* nobody ends, and a packet was used only by the run that completed.        *)
THEOREM RunInvariant == RunSpec => []RunInv
<1>1. Init => RunInv
  <2> SUFFICES ASSUME Init PROVE RunInv
    OBVIOUS
  <2>1. \A t \in Tasks : TaskSound(t)
    BY DEF Init, TaskSound, LeaseFollowsStep, RunFollowsStep, ProcessHasLease,
           UsedMeansCompleting, EarlySteps, NoRun
  <2>2. CleanupSound
    BY DEF Init, CleanupSound, NoCleanup
  <2> QED  BY <2>1, <2>2, TypeInit DEF RunInv
<1> QED  BY <1>1, RunInvNext, PTL DEF RunSpec

(* No worker is prepared in a checkout in which the process of an earlier    *)
(* run is still at work, also when it has outlived its control plane.        *)
THEOREM CheckoutHasOneWorkerHolds == RunSpec => []CheckoutHasOneWorker
<1>1. RunInv => CheckoutHasOneWorker
  BY DEF RunInv, TypeOK, RunTypeOK, TaskSound, ProcessHasLease, CheckoutHasOneWorker
<1> QED  BY <1>1, RunInvariant, PTL

(* Each result packet makes at most one run a success, although the file     *)
(* stays when the next run is prepared.                                      *)
THEOREM OnePacketPerSuccessHolds == RunSpec => OnePacketPerSuccess
<1> DEFINE Fresh == \A t \in Tasks :
             step[t] = "streaming" /\ step'[t] = "idle" /\ lease'[t] = "COMPLETING"
               => CollectedPacket(t) \notin used[t]
<1>1. RunInv /\ [Next]_runState => [Fresh]_runState
  <2> SUFFICES ASSUME RunInv, NEW t \in Tasks, step[t] = "streaming"
               PROVE  CollectedPacket(t) \notin used[t]
    OBVIOUS
  <2> QED  BY DEF RunInv, TaskSound, LeaseFollowsStep, UsedMeansCompleting
<1> QED  BY <1>1, RunInvariant, PTL DEF RunSpec, OnePacketPerSuccess

(* A workspace in use is deleted by no cleanup, except by the recurring one  *)
(* when it found the task terminal as it began.                              *)
THEOREM WorkspaceOutlivesRunHolds == RunSpec => WorkspaceOutlivesRun
<1> DEFINE Kept == \A t \in Tasks :
             InUse(t) /\ disk.tree[Checkout(t)] # "absent"
                      /\ disk'.tree[Checkout(t)] = "absent"
               => cleanup.pass = "expired" /\ t \in cleanup.known
<1>1. RunInv /\ [Next]_runState => [Kept]_runState
  <2> SUFFICES ASSUME RunInv, Next, NEW t \in Tasks, InUse(t),
                      disk.tree[Checkout(t)] # "absent", disk'.tree[Checkout(t)] = "absent"
               PROVE  cleanup.pass = "expired" /\ t \in cleanup.known
    OBVIOUS
  <2>0. TypeOK /\ CleanupSound /\ TaskSound(t)
    BY DEF RunInv
  <2>1. Checkout(t) = <<Repository, t>> /\ Checkout(t) \in Paths
    BY CheckoutIsPath DEF Checkout, ComputeLayout
  <2>2. ~\E u \in Tasks : \/ TaskStep(u) \/ SpawnStep(u) \/ SpawnFails(u) \/ ProcessStep(u)
                          \/ WorkerStep(u)
    BY <2>0, TaskStepDisk
  <2>3. CASE CrashAndRestart
    <3>1. HasActiveLeaseForTask(t)
      BY <2>0 DEF InUse, TaskSound, LeaseFollowsStep, EarlySteps, HasActiveLeaseForTask
    <3>2. PICK aged \in SUBSET disk.roots : disk' = CleanOrphanedWorkspaces(disk, aged)
      BY <2>3 DEF CrashAndRestart
    <3> DEFINE gone == {p \in aged : ~HasActiveLeaseForTask(p[2])}
    <3>3. Checkout(t) \notin gone
      BY <2>1, <3>1
    <3>4. disk'.tree = [p \in Paths |-> IF p \in gone THEN "absent" ELSE disk.tree[p]]
      BY <2>0, <3>2 DEF CleanOrphanedWorkspaces, TypeOK, DiskTypeOK
    <3> QED  BY <2>1, <3>3, <3>4
  <2>4. CASE CleanupStep
    <3>1. CASE cleanup.stage # "next" /\ (CleanupWorktree \/ CleanupDirectory)
      <4>1. cleanup.path = <<Repository, t>>
        BY <2>0, <2>1, <3>1
           DEF CleanupWorktree, CleanupDirectory, RemoveWorktree, RemoveDirectory, TypeOK,
               DiskTypeOK
      <4> QED  BY <2>0, <3>1, <4>1, RepositoryAssumption DEF CleanupSound
    <3>2. CASE ~CleanupWorktree /\ ~CleanupDirectory
      BY <2>0, <2>4, <3>2
         DEF CleanupStep, StartCleanup, NextExpired, NextOrphan, StartOrphans, CleanupBranch,
             CleanupFails, EndCleanup, CreateNextCleanup, DeleteBranch, TypeOK, DiskTypeOK
    <3> QED  BY <3>1, <3>2 DEF CleanupWorktree, CleanupDirectory
  <2> QED  BY <2>2, <2>3, <2>4 DEF Next
<1> QED  BY <1>1, RunInvariant, PTL DEF RunSpec, WorkspaceOutlivesRun
=============================================================================
