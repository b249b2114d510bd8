--------------------------- MODULE ReviewPipeline ---------------------------
(***************************************************************************)
(* The review of a finished task: reviewer-dispatch fans out one job per   *)
(* reviewer and a lead job that depends on them, the job queue runs them,  *)
(* lead-review-consolidation opens the lead's turn, review-decision        *)
(* applies the verdict, and a rejected task comes back for another cycle.  *)
(* Operators may rerun a review or resume an escalated task at any point.  *)
(*                                                                         *)
(* Every service call is one transaction, so one action; nothing orders    *)
(* the calls of different services but the guards they evaluate.  A review *)
(* cycle is named by its order of creation.                                *)
(***************************************************************************)
EXTENDS Naturals, Sequences, FiniteSets, TaskStateMachine,
        ReviewCycleStateMachine

CONSTANTS
  Tasks,             \* tasks under review
  Reviewers,         \* reviewer types
  Lead,              \* the lead review job of a cycle
  RoutingDecisions,  \* what the router answers: [required, optional]
  MaxReviewRounds,   \* params.maxReviewRounds
  MaxCycles,         \* bound: review cycles the run may create
  MaxReruns,         \* bound: operator interventions of the run
  None               \* no current review cycle (SQL NULL)

Cycles == 1 .. MaxCycles
JobStatuses == {"NONE", "PENDING", "CLAIMED", "RUNNING", "COMPLETED", "FAILED"}
TerminalJobStatuses == {"COMPLETED", "FAILED"}
LeadDecisions == {"approved", "approved_with_follow_up", "changes_requested",
                  "escalated"}
RejectionContexts == [prior_review_cycle_id : Cycles, issues : 0 .. 1]

ASSUME ReviewAssumption ==
  /\ MaxReviewRounds \in Nat \ {0}
  /\ MaxCycles \in Nat
  /\ MaxReruns \in Nat
  /\ Lead \notin Reviewers
  /\ None \notin Cycles \cup Tasks \cup RejectionContexts
  /\ \A d \in RoutingDecisions :
        /\ d.required \in SUBSET Reviewers
        /\ d.optional \in SUBSET Reviewers
        /\ d.required # {}
        /\ d.required \cap d.optional = {}

VARIABLES
  taskStatus,   \* task.status
  current,      \* task.currentReviewCycleId
  rounds,       \* task.reviewRoundCount
  cycle,        \* the review cycle rows: [status, task, required]
  jobs,         \* the job group of each cycle
  decisions,    \* lead review decision rows, in the order they were written
  followUps,    \* follow-up tasks created from the decisions on a task
  reruns        \* interventions so far (bound)

vars == <<taskStatus, current, rounds, cycle, jobs, decisions, followUps, reruns>>

NoCycle == [status |-> "NOT_STARTED", task |-> None, required |-> {}]

Allocated == {c \in Cycles : cycle[c].task # None}
CyclesOf(t) == {c \in Allocated : cycle[c].task = t}

Init ==
  /\ taskStatus = [t \in Tasks |-> "DEV_COMPLETE"]
  /\ current = [t \in Tasks |-> None]
  /\ rounds = [t \in Tasks |-> 0]
  /\ cycle = [c \in Cycles |-> NoCycle]
  /\ jobs = [c \in Cycles |-> [j \in Reviewers \cup {Lead} |-> "NONE"]]
  /\ decisions = [c \in Cycles |-> <<>>]
  /\ followUps = [t \in Tasks |-> 0]
  /\ reruns = 0

-----------------------------------------------------------------------------
(* reviewer-dispatch.service: the fan-out.                                 *)

NewReviewCycle(t, routing) ==
  [status |-> "ROUTED", task |-> t, required |-> routing.required]

\* dispatchReviewers creates the cycle (NOT_STARTED, then ROUTED in the same
\* transaction), its jobs, and moves the task to IN_REVIEW.
DispatchReviewers(t, routing) ==
  /\ taskStatus[t] = "DEV_COMPLETE"
  /\ ValidateTransition("DEV_COMPLETE", "IN_REVIEW", {"hasReviewRoutingDecision"})
  /\ ValidateReviewCycleTransition("NOT_STARTED", "ROUTED",
                                   {"routingDecisionEmitted"})
  /\ \E c \in Cycles \ Allocated :
       /\ \A d \in Cycles : d < c => d \in Allocated
       /\ cycle' = [cycle EXCEPT ![c] = NewReviewCycle(t, routing)]
       /\ jobs' = [jobs EXCEPT ![c] =
                     [j \in Reviewers \cup {Lead} |->
                        IF j = Lead \/ j \in routing.required \cup routing.optional
                        THEN "PENDING" ELSE "NONE"]]
       /\ taskStatus' = [taskStatus EXCEPT ![t] = "IN_REVIEW"]
       /\ current' = [current EXCEPT ![t] = c]
  /\ UNCHANGED <<rounds, decisions, followUps, reruns>>

-----------------------------------------------------------------------------
(* job-queue.service, for the jobs of a review cycle.                      *)

Specialists(c) == {r \in Reviewers : jobs[c][r] # "NONE"}

\* areJobDependenciesMet: the lead job depends on every specialist job.
AreJobDependenciesMet(c, j) ==
  j = Lead => \A r \in Specialists(c) : jobs[c][r] \in TerminalJobStatuses

Eligible(c, j) == jobs[c][j] = "PENDING" /\ AreJobDependenciesMet(c, j)

SetJob(c, j, to) ==
  /\ jobs' = [jobs EXCEPT ![c][j] = to]
  /\ UNCHANGED <<taskStatus, current, rounds, cycle, decisions, followUps, reruns>>

\* claimNextByType takes an eligible job of the oldest cycle that has one.
ClaimJob(c, j) ==
  /\ Eligible(c, j)
  /\ \A d \in Cycles : d < c =>
        ~\E i \in Reviewers \cup {Lead} : (i = Lead <=> j = Lead) /\ Eligible(d, i)
  /\ SetJob(c, j, "CLAIMED")

StartJob(c, j) == jobs[c][j] = "CLAIMED" /\ SetJob(c, j, "RUNNING")

CompleteJob(c, j) ==
  jobs[c][j] \in {"CLAIMED", "RUNNING"} /\ SetJob(c, j, "COMPLETED")

FailJob(c, j) ==
  jobs[c][j] \in {"CLAIMED", "RUNNING"} /\ SetJob(c, j, "FAILED")

-----------------------------------------------------------------------------
(* The cycle's own transitions.                                            *)

SetCycle(c, to) == cycle' = [cycle EXCEPT ![c].status = to]

\* The facts a caller of transitionReviewCycle can assert of a cycle, for the
\* transitions no other service owns.
CycleFacts(c) ==
  {f \in {"reviewStarted", "awaitingRequiredReviews", "hasEscalationTrigger"} :
     /\ f = "reviewStarted" => \E r \in Specialists(c) : jobs[c][r] # "PENDING"
     /\ f = "awaitingRequiredReviews" =>
          \E r \in cycle[c].required : jobs[c][r] \notin TerminalJobStatuses}

TransitionReviewCycle(c, to) ==
  /\ c \in Allocated
  /\ to \in {"IN_PROGRESS", "AWAITING_REQUIRED_REVIEWS", "ESCALATED"}
  /\ ValidateReviewCycleTransition(cycle[c].status, to, CycleFacts(c))
  /\ SetCycle(c, to)
  /\ UNCHANGED <<taskStatus, current, rounds, jobs, decisions, followUps, reruns>>

\* checkSpecialistJobsCompletion; the lead job itself is not looked at.
AllSpecialistsTerminal(c) ==
  \A r \in Specialists(c) : jobs[c][r] \in TerminalJobStatuses

\* getConsolidationSourceStatus
ConsolidationSource(c) ==
  cycle[c].status \in {"IN_PROGRESS", "AWAITING_REQUIRED_REVIEWS"}

\* assembleLeadReviewContext; the context it returns only reads.
AssembleLeadReviewContext(c) ==
  /\ c \in Allocated
  /\ ConsolidationSource(c)
  /\ AllSpecialistsTerminal(c)
  /\ ValidateReviewCycleTransition(cycle[c].status, "CONSOLIDATING",
                                   {"allRequiredReviewsComplete"})
  /\ SetCycle(c, "CONSOLIDATING")
  /\ UNCHANGED <<taskStatus, current, rounds, jobs, decisions, followUps, reruns>>

-----------------------------------------------------------------------------
(* review-decision.service: the lead reviewer's verdict.                   *)

\* A packet; items counts the entries of the list its decision is about, the
\* blocking issues or, for approved_with_follow_up, the follow-up references.
Packets == [cycle : Cycles, decision : LeadDecisions, items : 0 .. 1]

\* Fault: the cross-field rules are not part of the schema.
ValidatePacketFault(p) == p.decision \in LeadDecisions

\* validatePacket: the cross-field rules of LeadReviewDecisionPacketSchema.
ValidatePacket(p) ==
  p.decision \in {"changes_requested", "approved_with_follow_up"} => p.items > 0

\* Fault: the limit is compared with the rounds already counted.
PolicyEscalationFault(t, decision) ==
  /\ decision = "changes_requested"
  /\ rounds[t] >= MaxReviewRounds

\* shouldEscalate for max_review_rounds_exceeded, on the next round.
PolicyEscalation(t, decision) ==
  /\ decision = "changes_requested"
  /\ rounds[t] + 1 >= MaxReviewRounds

GetReviewCycleTargetStatus(decision, escalate) ==
  CASE decision \in {"approved", "approved_with_follow_up"} -> "APPROVED"
    [] decision = "changes_requested" /\ ~escalate -> "REJECTED"
    [] OTHER -> "ESCALATED"

GetTaskTargetStatus(decision, escalate) ==
  CASE decision \in {"approved", "approved_with_follow_up"} -> "APPROVED"
    [] decision = "changes_requested" /\ ~escalate -> "CHANGES_REQUESTED"
    [] OTHER -> "ESCALATED"

GetTaskTransitionContext(decision, escalate) ==
  IF escalate \/ decision = "escalated" THEN {"hasEscalationTrigger"}
  ELSE {decision}

GetReviewCycleTransitionContext(decision, escalate) ==
  CASE decision \in {"approved", "approved_with_follow_up"} -> {decision}
    [] decision = "changes_requested" /\ ~escalate -> {"rejected"}
    [] OTHER -> {"escalated"}

\* Fault: the decision is not checked against the task's current cycle.
DecisionAppliesFault(t, c, p) ==
  /\ taskStatus[t] = "IN_REVIEW"
  /\ cycle[c].task = t
  /\ cycle[c].status = "CONSOLIDATING"
  /\ p.cycle = c

\* What applyDecision verifies about the task, the cycle and the packet.
DecisionApplies(t, c, p) ==
  /\ taskStatus[t] = "IN_REVIEW"
  /\ cycle[c].task = t
  /\ cycle[c].status = "CONSOLIDATING"
  /\ current[t] # None => current[t] = c
  /\ p.cycle = c

\* applyDecision: record, cycle, rounds, task and follow-ups, or nothing.
ApplyDecision(t, c, p) ==
  LET escalate == PolicyEscalation(t, p.decision)
      cycleTo == GetReviewCycleTargetStatus(p.decision, escalate)
      taskTo == GetTaskTargetStatus(p.decision, escalate)
  IN  /\ ValidatePacket(p)
      /\ DecisionApplies(t, c, p)
      /\ ValidateReviewCycleTransition("CONSOLIDATING", cycleTo,
            GetReviewCycleTransitionContext(p.decision, escalate))
      /\ ValidateTransition("IN_REVIEW", taskTo,
            GetTaskTransitionContext(p.decision, escalate))
      /\ decisions' = [decisions EXCEPT ![c] = Append(@, p)]
      /\ SetCycle(c, cycleTo)
      /\ rounds' = [rounds EXCEPT ![t] =
                      IF p.decision = "changes_requested" /\ ~escalate
                      THEN @ + 1 ELSE @]
      /\ taskStatus' = [taskStatus EXCEPT ![t] = taskTo]
      /\ followUps' = [followUps EXCEPT ![t] =
                         IF p.decision = "approved_with_follow_up"
                         THEN @ + p.items ELSE @]
      /\ UNCHANGED <<current, jobs, reruns>>

-----------------------------------------------------------------------------
(* rework-context.service: what a rejected task's developer is given.      *)

\* findLatestRejectedByTaskId
LatestRejected(t) ==
  LET rejected == {c \in CyclesOf(t) : cycle[c].status = "REJECTED"}
  IN  IF rejected = {} THEN None
      ELSE CHOOSE c \in rejected : \A d \in rejected : d <= c

\* buildRejectionContext without an explicit cycle: the latest rejected cycle
\* and its decision; None where the code throws.  The lead's own blocking
\* issues take precedence over the specialists'.
BuildRejectionContext(t) ==
  LET c == LatestRejected(t)
  IN  IF c = None \/ decisions[c] = <<>> THEN None
      ELSE [prior_review_cycle_id |-> c, issues |-> decisions[c][1].items]

-----------------------------------------------------------------------------
(* Around the review: development, merging and the operator.               *)

SetTask(t, to) ==
  /\ taskStatus' = [taskStatus EXCEPT ![t] = to]
  /\ UNCHANGED <<current, rounds, cycle, jobs, decisions, followUps>>

\* The scheduler leases a rejected task again, the worker delivers.
StartRework(t) ==
  /\ ValidateTransition(taskStatus[t], "ASSIGNED", {"leaseAcquired"})
  /\ SetTask(t, "ASSIGNED")
  /\ UNCHANGED reruns

FinishRework(t) ==
  /\ taskStatus[t] = "ASSIGNED"
  /\ SetTask(t, "DEV_COMPLETE")
  /\ UNCHANGED reruns

\* The merge pipeline hands an approved task back with a reworkable conflict.
MergeConflict(t) ==
  /\ taskStatus[t] = "APPROVED"
  /\ reruns < MaxReruns
  /\ reruns' = reruns + 1
  /\ SetTask(t, "CHANGES_REQUESTED")

\* Operator actions: rerunReview overrides the status and nothing else, so
\* the old cycle and its jobs stay as they are; pause and resume.
RerunReview(t) ==
  /\ taskStatus[t] \in {"APPROVED", "IN_REVIEW"}
  /\ reruns < MaxReruns
  /\ reruns' = reruns + 1
  /\ SetTask(t, "DEV_COMPLETE")

PauseReview(t) ==
  /\ reruns < MaxReruns
  /\ ValidateTransition(taskStatus[t], "ESCALATED", {"isOperator"})
  /\ reruns' = reruns + 1
  /\ SetTask(t, "ESCALATED")

ResumeTask(t) ==
  /\ taskStatus[t] = "ESCALATED"
  /\ ValidateTransition("ESCALATED", "ASSIGNED", {"isOperator", "leaseAcquired"})
  /\ SetTask(t, "ASSIGNED")
  /\ UNCHANGED reruns

-----------------------------------------------------------------------------
JobStep(c, j) ==
  ClaimJob(c, j) \/ StartJob(c, j) \/ CompleteJob(c, j) \/ FailJob(c, j)

TaskStep(t) ==
  \/ \E routing \in RoutingDecisions : DispatchReviewers(t, routing)
  \/ \E c \in Cycles : \E p \in Packets : ApplyDecision(t, c, p)
  \/ StartRework(t) \/ FinishRework(t) \/ MergeConflict(t)
  \/ RerunReview(t) \/ PauseReview(t) \/ ResumeTask(t)

Next ==
  \/ \E t \in Tasks : TaskStep(t)
  \/ \E c \in Cycles : \E j \in Reviewers \cup {Lead} : JobStep(c, j)
  \/ \E c \in Cycles : AssembleLeadReviewContext(c)
  \/ \E c \in Cycles : \E to \in ReviewCycleStatuses : TransitionReviewCycle(c, to)

ReviewSpec == Init /\ [][Next]_vars

-----------------------------------------------------------------------------
(* Properties *)

\* A task is APPROVED by the cycle it currently points to and by no other:
\* that cycle was decided once, in favour, with all its reviewers through.
\* Dispatch, operator reruns and late decisions of an abandoned cycle may
\* interleave as they like.
ApprovedByCurrentCycle ==
  \A t \in Tasks : taskStatus[t] = "APPROVED" =>
    LET c == current[t]
    IN  /\ c # None
        /\ cycle[c].status = "APPROVED"
        /\ Len(decisions[c]) = 1
        /\ decisions[c][1].decision \in {"approved", "approved_with_follow_up"}
        /\ \A r \in Specialists(c) : jobs[c][r] \in TerminalJobStatuses

\* reviewRoundCount is the number of the task's rejected cycles and stays
\* below the limit, so the limit bounds the rework of a task over its whole
\* life, resumptions after an escalation included.
ReviewRoundsBounded ==
  \A t \in Tasks :
    /\ rounds[t] = Cardinality({c \in CyclesOf(t) : cycle[c].status = "REJECTED"})
    /\ rounds[t] < MaxReviewRounds

\* A task sent back by its reviewers finds the rejection of its own current
\* cycle, with at least one blocking issue, when the rework context is built.
ReworkSeesItsRejection ==
  \A t \in Tasks :
    (/\ taskStatus[t] = "CHANGES_REQUESTED"
     /\ cycle[current[t]].status # "APPROVED") =>
      /\ BuildRejectionContext(t) # None
      /\ BuildRejectionContext(t).prior_review_cycle_id = current[t]
      /\ BuildRejectionContext(t).issues > 0
=============================================================================
