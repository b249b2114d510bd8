----------------------- MODULE ReviewCycleStateMachine -----------------------
(***************************************************************************)
(* The review cycle state machine of packages/domain.  A transition        *)
(* context is the set of the facts its caller asserts, as in               *)
(* TaskStateMachine; the lead reviewer's decision is named by its value.   *)
(***************************************************************************)

ReviewCycleStatuses ==
  {"NOT_STARTED", "ROUTED", "IN_PROGRESS", "AWAITING_REQUIRED_REVIEWS",
   "CONSOLIDATING", "APPROVED", "REJECTED", "ESCALATED"}

\* The reviewers at work: routing, first review, waiting for the rest.
ReviewingGuard(from, to, ctx) ==
  \/ /\ from = "NOT_STARTED" /\ to = "ROUTED"
     /\ "routingDecisionEmitted" \in ctx
  \/ /\ from = "ROUTED" /\ to = "IN_PROGRESS"
     /\ "reviewStarted" \in ctx
  \/ /\ from = "IN_PROGRESS" /\ to = "AWAITING_REQUIRED_REVIEWS"
     /\ "awaitingRequiredReviews" \in ctx
  \/ /\ from \in {"IN_PROGRESS", "AWAITING_REQUIRED_REVIEWS"}
     /\ to = "CONSOLIDATING"
     /\ "allRequiredReviewsComplete" \in ctx

\* The lead reviewer's decision, and the triggers that cut a review short.
DecisionGuard(from, to, ctx) ==
  \/ /\ from = "CONSOLIDATING" /\ to = "APPROVED"
     /\ ctx \cap {"approved", "approved_with_follow_up"} # {}
  \/ /\ from = "CONSOLIDATING" /\ to = "REJECTED"
     /\ "rejected" \in ctx
  \/ /\ from = "CONSOLIDATING" /\ to = "ESCALATED"
     /\ ctx \cap {"escalated", "hasEscalationTrigger"} # {}
  \/ /\ from \in {"IN_PROGRESS", "AWAITING_REQUIRED_REVIEWS"}
     /\ to = "ESCALATED"
     /\ "hasEscalationTrigger" \in ctx

\* validateReviewCycleTransition: everything outside the table is refused.
ValidateReviewCycleTransition(from, to, ctx) ==
  /\ from # to
  /\ ReviewingGuard(from, to, ctx) \/ DecisionGuard(from, to, ctx)
=============================================================================
