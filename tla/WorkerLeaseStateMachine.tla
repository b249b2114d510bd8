---------------------- MODULE WorkerLeaseStateMachine ----------------------
(***************************************************************************)
(* The worker lease state machine of packages/domain.  As for tasks, a     *)
(* context is the set of the flags the caller asserts.  IDLE is the state  *)
(* of a lease identifier no lease has been created under: the code never   *)
(* stores it, it only names it as the source of the first transition.      *)
(***************************************************************************)

WorkerLeaseStatuses ==
  {"IDLE", "LEASED", "STARTING", "RUNNING", "HEARTBEATING", "COMPLETING",
   "TIMED_OUT", "CRASHED", "RECLAIMED"}

\* The states in which a worker process is executing under the lease.
ProcessingStates == {"STARTING", "RUNNING", "HEARTBEATING"}

LeaseGuard(from, to, ctx) ==
  \/ from = "IDLE" /\ to = "LEASED" /\ "leaseAcquired" \in ctx
  \/ from = "LEASED" /\ to = "STARTING" /\ "workerProcessSpawned" \in ctx
  \/ from = "STARTING" /\ to = "RUNNING" /\ "firstHeartbeatReceived" \in ctx
  \/ /\ from \in {"RUNNING", "HEARTBEATING"} /\ to = "HEARTBEATING"
     /\ "heartbeatReceived" \in ctx
  \/ /\ from \in ProcessingStates /\ to = "COMPLETING"
     /\ "completionSignalReceived" \in ctx
  \/ /\ from \in ProcessingStates /\ to = "TIMED_OUT"
     /\ "heartbeatTimedOut" \in ctx
  \/ from \in ProcessingStates /\ to = "CRASHED" /\ "workerCrashed" \in ctx
  \/ /\ from \in {"TIMED_OUT", "CRASHED"} /\ to = "RECLAIMED"
     /\ "reclaimRequested" \in ctx

\* Only HEARTBEATING may be re-entered from itself.
ValidateWorkerLeaseTransition(from, to, ctx) ==
  /\ from # to \/ from = "HEARTBEATING"
  /\ LeaseGuard(from, to, ctx)
=============================================================================
