-------------------------- MODULE TaskStateMachine --------------------------
(***************************************************************************)
(* The task state machine of packages/domain: the statuses of a task, the  *)
(* transition table with its guards, and the validation function every     *)
(* service of the application layer calls before it commits a transition.  *)
(*                                                                         *)
(* A TransitionContext is the set of the facts its caller asserts: a flag  *)
(* is in the set when the code sets it to true.  The two many-valued       *)
(* fields appear as the facts a guard asks for: a lead review decision and *)
(* a merge conflict classification are named by their value, and           *)
(* "postMergeValidationFailed" stands for postMergeValidationPassed=false. *)
(***************************************************************************)

TaskStatuses ==
  {"BACKLOG", "READY", "BLOCKED", "ASSIGNED", "IN_DEVELOPMENT",
   "DEV_COMPLETE", "IN_REVIEW", "CHANGES_REQUESTED", "APPROVED",
   "QUEUED_FOR_MERGE", "MERGING", "POST_MERGE_VALIDATION", "DONE",
   "FAILED", "ESCALATED", "CANCELLED"}

TerminalStates == {"DONE", "FAILED", "CANCELLED"}

IsTerminalState(s) == s \in TerminalStates

WildcardEscalationSources == TaskStatuses \ (TerminalStates \cup {"ESCALATED"})

WildcardCancellationSources == TaskStatuses \ TerminalStates

-----------------------------------------------------------------------------
(* The guards, grouped by the phase of the task's life they belong to.     *)

\* Leaving BACKLOG and BLOCKED: dependencies and policy blockers.
ReadinessGuard(from, to, ctx) ==
  \/ /\ from \in {"BACKLOG", "BLOCKED"} /\ to = "READY"
     /\ "allDependenciesResolved" \in ctx
     /\ "hasPolicyBlockers" \notin ctx
  \/ /\ from = "BACKLOG" /\ to = "BLOCKED"
     /\ ctx \cap {"hasBlockers", "hasPolicyBlockers"} # {}

\* From a lease to a finished, failed or reclaimed development run.
DevelopmentGuard(from, to, ctx) ==
  \/ /\ from \in {"READY", "CHANGES_REQUESTED"} /\ to = "ASSIGNED"
     /\ "leaseAcquired" \in ctx
  \/ /\ from = "ASSIGNED" /\ to = "IN_DEVELOPMENT"
     /\ "hasHeartbeat" \in ctx
  \/ /\ from \in {"ASSIGNED", "IN_DEVELOPMENT"} /\ to = "READY"
     /\ "leaseReclaimedRetryEligible" \in ctx
  \/ /\ from = "ASSIGNED" /\ to = "FAILED"
     /\ "leaseTimedOutNoRetry" \in ctx
  \/ /\ from = "IN_DEVELOPMENT" /\ to = "DEV_COMPLETE"
     /\ {"hasDevResultPacket", "requiredValidationsPassed"} \subseteq ctx
  \/ /\ from = "IN_DEVELOPMENT" /\ to = "FAILED"
     /\ ctx \cap {"hasUnrecoverableFailure", "leaseTimedOutNoRetry"} # {}

\* Review fan-out and the lead reviewer's decision.
ReviewGuard(from, to, ctx) ==
  \/ /\ from = "DEV_COMPLETE" /\ to = "IN_REVIEW"
     /\ "hasReviewRoutingDecision" \in ctx
  \/ /\ from = "IN_REVIEW" /\ to = "CHANGES_REQUESTED"
     /\ ctx \cap {"changes_requested", "escalated"} # {}
  \/ /\ from = "IN_REVIEW" /\ to = "APPROVED"
     /\ ctx \cap {"approved", "approved_with_follow_up"} # {}

\* Merge queue, integration and post-merge validation.
MergeGuard(from, to, ctx) ==
  \/ from = "APPROVED" /\ to = "QUEUED_FOR_MERGE"
  \/ from = "QUEUED_FOR_MERGE" /\ to = "MERGING"
  \/ /\ from = "MERGING" /\ to = "POST_MERGE_VALIDATION"
     /\ "mergeSuccessful" \in ctx
  \/ /\ from = "MERGING" /\ to = "CHANGES_REQUESTED"
     /\ "reworkable" \in ctx
  \/ /\ from = "MERGING" /\ to = "FAILED"
     /\ "non_reworkable" \in ctx
  \/ /\ from = "POST_MERGE_VALIDATION" /\ to = "DONE"
     /\ "postMergeValidationPassed" \in ctx
  \/ /\ from = "POST_MERGE_VALIDATION" /\ to = "FAILED"
     /\ "postMergeValidationFailed" \in ctx

\* What an operator (or, for ESCALATED, an escalation trigger) may do.
InterventionGuard(from, to, ctx) ==
  \/ /\ from = "ESCALATED" /\ to = "ASSIGNED"
     /\ {"isOperator", "leaseAcquired"} \subseteq ctx
  \/ /\ from = "ESCALATED" /\ to = "DONE"
     /\ "isOperator" \in ctx
  \/ /\ from \in WildcardEscalationSources /\ to = "ESCALATED"
     /\ ctx \cap {"isOperator", "hasEscalationTrigger"} # {}
  \/ /\ from \in WildcardCancellationSources /\ to = "CANCELLED"
     /\ "isOperator" \in ctx

\* validateTransition: the table and the two wildcards; no self transition.
ValidateTransition(from, to, ctx) ==
  /\ from # to
  /\ \/ ReadinessGuard(from, to, ctx)
     \/ DevelopmentGuard(from, to, ctx)
     \/ ReviewGuard(from, to, ctx)
     \/ MergeGuard(from, to, ctx)
     \/ InterventionGuard(from, to, ctx)
=============================================================================
