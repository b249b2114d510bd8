-------------------------- MODULE RecoveryPolicies --------------------------
(***************************************************************************)
(* The retry and escalation policies of packages/domain, as the lease      *)
(* reclaim uses them.  The parameters are the fields of the two policy     *)
(* records that decide an outcome; delays and routing are left out.        *)
(***************************************************************************)
EXTENDS Naturals

CONSTANTS
  MaxAttempts,             \* retryPolicy.max_attempts
  RequireFailureSummary,   \* retryPolicy.require_failure_summary_packet
  HeartbeatTimeoutAction   \* escalationPolicy.triggers.heartbeat_timeout

EscalationTriggerActions ==
  {"escalate", "fail_then_escalate", "retry_or_escalate",
   "disable_profile_and_escalate"}

ASSUME PolicyAssumption ==
  /\ MaxAttempts \in Nat
  /\ RequireFailureSummary \in BOOLEAN
  /\ HeartbeatTimeoutAction \in EscalationTriggerActions

\* Fault: one retry too many.
ShouldRetryFault(retryCount, hasFailureSummary) ==
  /\ retryCount <= MaxAttempts
  /\ RequireFailureSummary => hasFailureSummary

ShouldRetry(retryCount, hasFailureSummary) ==
  /\ retryCount < MaxAttempts
  /\ RequireFailureSummary => hasFailureSummary

\* shouldEscalate for the heartbeat_timeout trigger fires unconditionally
\* and hands back the configured action.
HeartbeatTimeoutEscalation == HeartbeatTimeoutAction

\* evaluateTaskOutcome: the status a reclaimed task moves to.
ReclaimTarget(retryCount, hasFailureSummary) ==
  IF ShouldRetry(retryCount, hasFailureSummary) THEN "READY"
  ELSE IF HeartbeatTimeoutEscalation = "fail_then_escalate" THEN "FAILED"
  ELSE "ESCALATED"

ReclaimRetryCount(retryCount, hasFailureSummary) ==
  IF ShouldRetry(retryCount, hasFailureSummary) THEN retryCount + 1
  ELSE retryCount
=============================================================================
