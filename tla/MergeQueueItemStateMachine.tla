--------------------- MODULE MergeQueueItemStateMachine ---------------------
(***************************************************************************)
(* The merge queue item state machine of packages/domain.  A context is    *)
(* the set of the flags its caller asserts, as in TaskStateMachine.        *)
(***************************************************************************)

MergeQueueItemStatuses ==
  {"ENQUEUED", "PREPARING", "REBASING", "VALIDATING", "MERGING", "MERGED",
   "REQUEUED", "FAILED"}

ItemGuard(from, to, ctx) ==
  \/ from = "ENQUEUED" /\ to = "PREPARING" /\ "preparationStarted" \in ctx
  \/ from = "PREPARING" /\ to = "REBASING" /\ "workspaceReady" \in ctx
  \/ from = "REBASING" /\ to = "VALIDATING" /\ "rebaseSuccessful" \in ctx
  \/ from = "REBASING" /\ to = "FAILED" /\ "rebaseFailed" \in ctx
  \/ /\ from = "REBASING" /\ to = "REQUEUED"
     /\ {"rebaseFailed", "conflictReworkable"} \subseteq ctx
  \/ from = "VALIDATING" /\ to = "MERGING" /\ "validationPassed" \in ctx
  \/ from = "VALIDATING" /\ to = "FAILED" /\ "validationFailed" \in ctx
  \/ /\ from = "VALIDATING" /\ to = "REQUEUED"
     /\ \/ {"validationFailed", "failureTransient"} \subseteq ctx
        \/ "preempted" \in ctx
  \/ from = "MERGING" /\ to = "MERGED" /\ "mergeSuccessful" \in ctx
  \/ from = "MERGING" /\ to = "FAILED" /\ "mergeFailed" \in ctx
  \/ /\ from = "MERGING" /\ to = "REQUEUED"
     /\ {"mergeFailed", "failureTransient"} \subseteq ctx
  \/ from = "REQUEUED" /\ to = "ENQUEUED"

ValidateMergeQueueItemTransition(from, to, ctx) ==
  from # to /\ ItemGuard(from, to, ctx)
=============================================================================
