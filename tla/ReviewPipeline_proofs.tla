----------------------- MODULE ReviewPipeline_proofs -----------------------
(***************************************************************************)
(* Theorems about the review pipeline, for every set of tasks and of       *)
(* reviewers, every answer of the router, any limit on review rounds and   *)
(* any number of cycles and operator interventions.                        *)
(***************************************************************************)
EXTENDS ReviewPipeline, FiniteSetTheorems, TLAPS

-----------------------------------------------------------------------------
(* The inductive invariant                                                 *)

ReviewTypeOK ==
  /\ taskStatus \in [Tasks -> TaskStatuses]
  /\ current \in [Tasks -> Cycles \cup {None}]
  /\ rounds \in [Tasks -> Nat]
  /\ cycle \in [Cycles -> [status : ReviewCycleStatuses,
                           task : Tasks \cup {None},
                           required : SUBSET Reviewers]]
  /\ jobs \in [Cycles -> [Reviewers \cup {Lead} -> JobStatuses]]
  /\ decisions \in [Cycles -> Seq(Packets)]
  /\ followUps \in [Tasks -> Nat]
  /\ reruns \in Nat

\* Cycles are created one after the other.
CyclesInOrder ==
  \A c, d \in Cycles : d < c /\ cycle[c].task # None => cycle[d].task # None

\* A cycle without a task has not been touched.
UnusedUntouched ==
  \A c \in Cycles : cycle[c].task = None => cycle[c].status = "NOT_STARTED"

\* A decision row is written with the verdict it records and only then, so an
\* undecided cycle has none and a verdict has the one that led to it.
VerdictHasItsDecision ==
  \A c \in Cycles :
    /\ cycle[c].status \notin {"APPROVED", "REJECTED", "ESCALATED"} =>
         decisions[c] = <<>>
    /\ cycle[c].status = "APPROVED" =>
         /\ Len(decisions[c]) = 1
         /\ decisions[c][1].decision \in {"approved", "approved_with_follow_up"}
    /\ cycle[c].status = "REJECTED" =>
         /\ Len(decisions[c]) = 1
         /\ decisions[c][1].items > 0

\* Consolidation starts after the last specialist, and no job starts again.
SpecialistsThrough ==
  \A c \in Cycles : cycle[c].status \in {"CONSOLIDATING", "APPROVED"} =>
    AllSpecialistsTerminal(c)

\* The current cycle of a task is its own and its newest.
CurrentIsNewest ==
  \A t \in Tasks :
    /\ current[t] # None => cycle[current[t]].task = t
    /\ \A c \in Cycles : cycle[c].task = t =>
         current[t] # None /\ c <= current[t]

\* What a task's status says about its current cycle.
StatusFollowsCycle ==
  \A t \in Tasks :
    /\ taskStatus[t] \in {"IN_REVIEW", "APPROVED", "CHANGES_REQUESTED"} =>
         current[t] # None
    /\ taskStatus[t] = "APPROVED" => cycle[current[t]].status = "APPROVED"
    /\ taskStatus[t] = "CHANGES_REQUESTED" =>
         cycle[current[t]].status \in {"APPROVED", "REJECTED"}

RejectedCycles(t) == {c \in CyclesOf(t) : cycle[c].status = "REJECTED"}

ReviewInv ==
  /\ ReviewTypeOK
  /\ CyclesInOrder
  /\ UnusedUntouched
  /\ VerdictHasItsDecision
  /\ SpecialistsThrough
  /\ CurrentIsNewest
  /\ StatusFollowsCycle
  /\ ReviewRoundsBounded

-----------------------------------------------------------------------------
(* What the actions do, by the part of the state they touch                *)

\* Only a job that is not over moves, and it moves forward.
JobMoved(c, j) ==
  /\ jobs[c][j] \in {"PENDING", "CLAIMED", "RUNNING"}
  /\ \E to \in {"CLAIMED", "RUNNING", "COMPLETED", "FAILED"} :
       jobs' = [jobs EXCEPT ![c][j] = to]
  /\ UNCHANGED <<taskStatus, current, rounds, cycle, decisions,
                 followUps, reruns>>

\* Every step of the job queue is such a move.
LEMMA JobOutcome ==
  ASSUME ReviewTypeOK, NEW c \in Cycles, NEW j \in Reviewers \cup {Lead},
         JobStep(c, j)
  PROVE  JobMoved(c, j)
BY DEF JobStep, ClaimJob, StartJob, CompleteJob, FailJob, Eligible, SetJob,
       JobMoved

\* What happens around the review writes the task's status alone; a task is
\* sent back for a conflict from APPROVED only, and nothing here approves.
TaskMoved(t) ==
  /\ \E to \in {"ASSIGNED", "DEV_COMPLETE", "CHANGES_REQUESTED",
                "ESCALATED"} :
       /\ taskStatus' = [taskStatus EXCEPT ![t] = to]
       /\ to = "CHANGES_REQUESTED" => taskStatus[t] = "APPROVED"
  /\ reruns' \in Nat
  /\ UNCHANGED <<current, rounds, cycle, jobs, decisions, followUps>>

\* Development, merging and the operator do no more than that.
LEMMA AroundOutcome ==
  ASSUME ReviewTypeOK, NEW t \in Tasks,
         \/ StartRework(t) \/ FinishRework(t) \/ MergeConflict(t)
         \/ RerunReview(t) \/ PauseReview(t) \/ ResumeTask(t)
  PROVE  TaskMoved(t)
BY DEF StartRework, FinishRework, MergeConflict, RerunReview, PauseReview,
       ResumeTask, SetTask, ReviewTypeOK, TaskMoved

\* The cycle's own transitions leave a verdict alone and reach none but
\* ESCALATED; CONSOLIDATING is entered with the specialists through.
CycleMoved(c) ==
  /\ cycle[c].task # None
  /\ cycle[c].status \in {"ROUTED", "IN_PROGRESS",
                          "AWAITING_REQUIRED_REVIEWS", "CONSOLIDATING"}
  /\ \E to \in {"IN_PROGRESS", "AWAITING_REQUIRED_REVIEWS",
                "ESCALATED", "CONSOLIDATING"} :
       /\ SetCycle(c, to)
       /\ to = "CONSOLIDATING" => AllSpecialistsTerminal(c)
  /\ UNCHANGED <<taskStatus, current, rounds, jobs, decisions,
                 followUps, reruns>>

\* assembleLeadReviewContext and transitionReviewCycle are such steps.
LEMMA CycleOutcome ==
  ASSUME ReviewTypeOK, NEW c \in Cycles,
         \/ AssembleLeadReviewContext(c)
         \/ \E to \in ReviewCycleStatuses : TransitionReviewCycle(c, to)
  PROVE  CycleMoved(c)
<1>1. CASE AssembleLeadReviewContext(c)
  BY <1>1 DEF AssembleLeadReviewContext, Allocated, ConsolidationSource, CycleMoved
<1>2. ASSUME NEW to \in ReviewCycleStatuses, TransitionReviewCycle(c, to)
      PROVE  /\ cycle[c].task # None
             /\ cycle[c].status \in {"ROUTED", "IN_PROGRESS",
                                     "AWAITING_REQUIRED_REVIEWS", "CONSOLIDATING"}
             /\ to \in {"IN_PROGRESS", "AWAITING_REQUIRED_REVIEWS", "ESCALATED"}
             /\ SetCycle(c, to)
             /\ UNCHANGED <<taskStatus, current, rounds, jobs, decisions,
                            followUps, reruns>>
  <2>1. /\ to \in {"IN_PROGRESS", "AWAITING_REQUIRED_REVIEWS", "ESCALATED"}
        /\ ValidateReviewCycleTransition(cycle[c].status, to, CycleFacts(c))
    BY <1>2 DEF TransitionReviewCycle
  <2>2. cycle[c].status \in {"ROUTED", "IN_PROGRESS",
                             "AWAITING_REQUIRED_REVIEWS", "CONSOLIDATING"}
    BY <2>1 DEF ValidateReviewCycleTransition, ReviewingGuard, DecisionGuard
  <2> QED
    BY <1>2, <2>2 DEF TransitionReviewCycle, Allocated
<1> QED
  BY <1>1, <1>2 DEF CycleMoved

\* A verdict: the cycle and the task move together, the packet is the only
\* decision row added, and a rejection counts a round below the limit.
Decided(t, c, p) ==
  /\ taskStatus[t] = "IN_REVIEW"
  /\ cycle[c].task = t
  /\ cycle[c].status = "CONSOLIDATING"
  /\ current[t] # None => current[t] = c
  /\ decisions' = [decisions EXCEPT ![c] = Append(@, p)]
  /\ \/ /\ p.decision \in {"approved", "approved_with_follow_up"}
        /\ SetCycle(c, "APPROVED")
        /\ taskStatus' = [taskStatus EXCEPT ![t] = "APPROVED"]
        /\ rounds' = rounds
     \/ /\ p.items > 0
        /\ rounds[t] + 1 < MaxReviewRounds
        /\ SetCycle(c, "REJECTED")
        /\ taskStatus' = [taskStatus EXCEPT ![t] = "CHANGES_REQUESTED"]
        /\ rounds' = [rounds EXCEPT ![t] = @ + 1]
     \/ /\ SetCycle(c, "ESCALATED")
        /\ taskStatus' = [taskStatus EXCEPT ![t] = "ESCALATED"]
        /\ rounds' = rounds
  /\ followUps' \in [Tasks -> Nat]
  /\ UNCHANGED <<current, jobs, reruns>>

\* applyDecision does this, whatever the packet says.
LEMMA DecisionOutcome ==
  ASSUME ReviewTypeOK, NEW t \in Tasks, NEW c \in Cycles, NEW p \in Packets,
         ApplyDecision(t, c, p)
  PROVE  Decided(t, c, p)
<1> DEFINE esc == PolicyEscalation(t, p.decision)
           cycleTo == GetReviewCycleTargetStatus(p.decision, esc)
           taskTo == GetTaskTargetStatus(p.decision, esc)
<1>0. p.decision \in LeadDecisions /\ p.items \in Nat
  BY DEF Packets
<1>1. /\ ValidatePacket(p)
      /\ DecisionApplies(t, c, p)
      /\ decisions' = [decisions EXCEPT ![c] = Append(@, p)]
      /\ SetCycle(c, cycleTo)
      /\ rounds' = [rounds EXCEPT ![t] =
                      IF p.decision = "changes_requested" /\ ~esc
                      THEN @ + 1 ELSE @]
      /\ taskStatus' = [taskStatus EXCEPT ![t] = taskTo]
      /\ followUps' = [followUps EXCEPT ![t] =
                         IF p.decision = "approved_with_follow_up"
                         THEN @ + p.items ELSE @]
      /\ UNCHANGED <<current, jobs, reruns>>
  BY DEF ApplyDecision
<1>2. followUps' \in [Tasks -> Nat]
  BY <1>0, <1>1 DEF ReviewTypeOK
<1>3. CASE p.decision \in {"approved", "approved_with_follow_up"}
  <2>1. cycleTo = "APPROVED" /\ taskTo = "APPROVED"
    BY <1>3 DEF GetReviewCycleTargetStatus, GetTaskTargetStatus
  <2>2. rounds' = rounds
    BY <1>1, <1>3 DEF ReviewTypeOK
  <2> QED
    BY <1>1, <1>2, <1>3, <2>1, <2>2 DEF DecisionApplies, Decided
<1>4. CASE p.decision = "changes_requested" /\ ~esc
  <2>1. cycleTo = "REJECTED" /\ taskTo = "CHANGES_REQUESTED"
    BY <1>4 DEF GetReviewCycleTargetStatus, GetTaskTargetStatus
  <2>2. rounds[t] + 1 < MaxReviewRounds
    BY <1>4, ReviewAssumption DEF PolicyEscalation, ReviewTypeOK
  <2>3. p.items > 0
    BY <1>1, <1>4 DEF ValidatePacket
  <2> QED
    BY <1>1, <1>2, <1>4, <2>1, <2>2, <2>3 DEF DecisionApplies, Decided
<1>5. CASE /\ p.decision \notin {"approved", "approved_with_follow_up"}
           /\ ~(p.decision = "changes_requested" /\ ~esc)
  <2>1. cycleTo = "ESCALATED" /\ taskTo = "ESCALATED"
    BY <1>5 DEF GetReviewCycleTargetStatus, GetTaskTargetStatus
  <2>2. rounds' = rounds
    BY <1>1, <1>5 DEF ReviewTypeOK
  <2> QED
    BY <1>1, <1>2, <2>1, <2>2 DEF DecisionApplies, Decided
<1> QED
  BY <1>3, <1>4, <1>5

\* One status is written, and nothing else of any cycle.
StatusWritten(c, to) ==
  /\ cycle' \in [Cycles -> [status : ReviewCycleStatuses,
                            task : Tasks \cup {None},
                            required : SUBSET Reviewers]]
  /\ \A d \in Cycles : /\ cycle'[d].task = cycle[d].task
                       /\ d # c => cycle'[d] = cycle[d]
  /\ cycle'[c].status = to

\* Every transition of a cycle is such a write.
LEMMA StatusWrite ==
  ASSUME ReviewTypeOK, NEW c \in Cycles, NEW to \in ReviewCycleStatuses,
         SetCycle(c, to)
  PROVE  StatusWritten(c, to)
BY DEF ReviewTypeOK, SetCycle, StatusWritten

\* The cycles of a task are finitely many, so its rejections can be counted.
LEMMA RejectedFinite ==
  ASSUME NEW t
  PROVE  IsFiniteSet(RejectedCycles(t))
<1>1. IsFiniteSet(Cycles)
  BY FS_Interval, ReviewAssumption DEF Cycles
<1>2. RejectedCycles(t) \subseteq Cycles
  BY DEF RejectedCycles, CyclesOf, Allocated
<1> QED
  BY <1>1, <1>2, FS_Subset

\* As long as no cycle becomes or stops being a rejected cycle of t and its
\* counter stays, the counter stays right.
LEMMA RoundsKept ==
  ASSUME ReviewRoundsBounded, rounds' = rounds,
         \A t \in Tasks : RejectedCycles(t)' = RejectedCycles(t)
  PROVE  ReviewRoundsBounded'
BY DEF ReviewRoundsBounded, RejectedCycles

-----------------------------------------------------------------------------
(* Type correctness                                                        *)

\* Every variable keeps its domain in every step of the review.
LEMMA ReviewTypeInductive == ReviewTypeOK /\ [Next]_vars => ReviewTypeOK'
<1> SUFFICES ASSUME ReviewTypeOK, [Next]_vars PROVE ReviewTypeOK'
  OBVIOUS
<1>1. ASSUME NEW t \in Tasks, NEW routing \in RoutingDecisions,
             DispatchReviewers(t, routing)
      PROVE  ReviewTypeOK'
  <2>1. NewReviewCycle(t, routing) \in [status : ReviewCycleStatuses,
                                        task : Tasks \cup {None},
                                        required : SUBSET Reviewers]
    BY ReviewAssumption DEF NewReviewCycle, ReviewCycleStatuses
  <2>2. /\ taskStatus' \in [Tasks -> TaskStatuses]
        /\ current' \in [Tasks -> Cycles \cup {None}]
        /\ cycle' \in [Cycles -> [status : ReviewCycleStatuses,
                                  task : Tasks \cup {None},
                                  required : SUBSET Reviewers]]
    BY <1>1, <2>1 DEF DispatchReviewers, ReviewTypeOK, TaskStatuses
  <2>3. jobs' \in [Cycles -> [Reviewers \cup {Lead} -> JobStatuses]]
    <3> DEFINE group == [j \in Reviewers \cup {Lead} |->
                           IF j = Lead \/ j \in routing.required \cup routing.optional
                           THEN "PENDING" ELSE "NONE"]
    <3>1. group \in [Reviewers \cup {Lead} -> JobStatuses]
      BY DEF JobStatuses
    <3>2. \E c \in Cycles : jobs' = [jobs EXCEPT ![c] = group]
      BY <1>1 DEF DispatchReviewers
    <3> QED
      BY <3>1, <3>2 DEF ReviewTypeOK
  <2> QED
    BY <1>1, <2>2, <2>3 DEF DispatchReviewers, ReviewTypeOK
<1>2. ASSUME NEW t \in Tasks, NEW c \in Cycles, NEW p \in Packets,
             ApplyDecision(t, c, p)
      PROVE  ReviewTypeOK'
  <2>1. Decided(t, c, p)
    BY <1>2, DecisionOutcome
  <2>2. \E to \in ReviewCycleStatuses : StatusWritten(c, to)
    BY <2>1, StatusWrite DEF Decided, ReviewCycleStatuses
  <2>3. decisions' \in [Cycles -> Seq(Packets)]
    BY <2>1 DEF Decided, ReviewTypeOK
  <2>4. taskStatus' \in [Tasks -> TaskStatuses]
    <3>1. \E to \in TaskStatuses : taskStatus' = [taskStatus EXCEPT ![t] = to]
      BY <2>1 DEF Decided, TaskStatuses
    <3> QED
      BY <3>1 DEF ReviewTypeOK
  <2>5. rounds' \in [Tasks -> Nat]
    BY <2>1 DEF Decided, ReviewTypeOK
  <2> QED
    BY <2>1, <2>2, <2>3, <2>4, <2>5 DEF Decided, StatusWritten, ReviewTypeOK
<1>3. ASSUME NEW t \in Tasks,
             \/ StartRework(t) \/ FinishRework(t) \/ MergeConflict(t)
             \/ RerunReview(t) \/ PauseReview(t) \/ ResumeTask(t)
      PROVE  ReviewTypeOK'
  <2>1. TaskMoved(t)
    BY <1>3, AroundOutcome
  <2> QED
    BY <2>1 DEF TaskMoved, ReviewTypeOK, TaskStatuses
<1>4. ASSUME NEW c \in Cycles, NEW j \in Reviewers \cup {Lead}, JobStep(c, j)
      PROVE  ReviewTypeOK'
  <2>1. JobMoved(c, j)
    BY <1>4, JobOutcome
  <2>2. \E to \in JobStatuses : jobs' = [jobs EXCEPT ![c][j] = to]
    BY <2>1 DEF JobMoved, JobStatuses
  <2>3. jobs' \in [Cycles -> [Reviewers \cup {Lead} -> JobStatuses]]
    <3>1. PICK to \in JobStatuses : jobs' = [jobs EXCEPT ![c][j] = to]
      BY <2>2
    <3>2. jobs[c] \in [Reviewers \cup {Lead} -> JobStatuses]
      BY DEF ReviewTypeOK
    <3>3. [jobs[c] EXCEPT ![j] = to] \in [Reviewers \cup {Lead} -> JobStatuses]
      BY <3>2
    <3> QED
      BY <3>1, <3>3 DEF ReviewTypeOK
  <2> QED
    BY <2>1, <2>3 DEF JobMoved, ReviewTypeOK
<1>5. ASSUME NEW c \in Cycles,
             \/ AssembleLeadReviewContext(c)
             \/ \E to \in ReviewCycleStatuses : TransitionReviewCycle(c, to)
      PROVE  ReviewTypeOK'
  <2>1. CycleMoved(c)
    BY <1>5, CycleOutcome
  <2>2. \E to \in ReviewCycleStatuses : StatusWritten(c, to)
    BY <2>1, StatusWrite DEF CycleMoved, ReviewCycleStatuses
  <2> QED
    BY <2>1, <2>2 DEF CycleMoved, StatusWritten, ReviewTypeOK
<1>6. CASE UNCHANGED vars
  BY <1>6 DEF vars, ReviewTypeOK
<1> QED
  BY <1>1, <1>2, <1>3, <1>4, <1>5, <1>6 DEF Next, TaskStep

-----------------------------------------------------------------------------
(* The invariant                                                           *)

LEMMA ReviewInvInitial == Init => ReviewInv
<1> SUFFICES ASSUME Init PROVE ReviewInv
  OBVIOUS
<1> USE DEF Init, NoCycle
<1>1. ReviewTypeOK
  BY DEF ReviewTypeOK, TaskStatuses, ReviewCycleStatuses, JobStatuses
<1>2. CyclesInOrder /\ UnusedUntouched /\ VerdictHasItsDecision
      /\ SpecialistsThrough /\ StatusFollowsCycle
  BY DEF CyclesInOrder, UnusedUntouched, VerdictHasItsDecision,
         SpecialistsThrough, StatusFollowsCycle
<1>3. CurrentIsNewest
  BY ReviewAssumption DEF CurrentIsNewest
<1>4. ReviewRoundsBounded
  <2> SUFFICES ASSUME NEW t \in Tasks
               PROVE  rounds[t] = Cardinality(RejectedCycles(t))
                      /\ rounds[t] < MaxReviewRounds
    BY DEF ReviewRoundsBounded, RejectedCycles
  <2>1. RejectedCycles(t) = {}
    BY DEF RejectedCycles, CyclesOf, Allocated
  <2>2. Cardinality(RejectedCycles(t)) = 0
    BY <2>1, FS_EmptySet
  <2> QED
    BY <2>2, ReviewAssumption
<1> QED
  BY <1>1, <1>2, <1>3, <1>4 DEF ReviewInv

\* A job's move disturbs no cycle whose specialists are through.
LEMMA JobKeepsInv ==
  ASSUME ReviewInv, ReviewTypeOK', NEW c \in Cycles,
         NEW j \in Reviewers \cup {Lead}, JobMoved(c, j)
  PROVE  ReviewInv'
<1> USE DEF ReviewInv
<1>1. UNCHANGED <<taskStatus, current, rounds, cycle, decisions>>
  BY DEF JobMoved
<1>2. ASSUME NEW d \in Cycles, AllSpecialistsTerminal(d)
      PROVE  AllSpecialistsTerminal(d)'
  <2>1. ASSUME NEW r \in Reviewers, jobs'[d][r] # "NONE"
        PROVE  jobs'[d][r] \in TerminalJobStatuses
    <3>1. jobs[c][j] \notin {"NONE"} \cup TerminalJobStatuses
      BY DEF JobMoved, TerminalJobStatuses
    <3>2. jobs[d][r] \in {"NONE"} \cup TerminalJobStatuses
      BY <1>2 DEF AllSpecialistsTerminal, Specialists
    <3>3. jobs'[d][r] = jobs[d][r]
      BY <3>1, <3>2 DEF JobMoved, ReviewTypeOK
    <3> QED
      BY <2>1, <3>2, <3>3
  <2> QED
    BY <2>1 DEF AllSpecialistsTerminal, Specialists
<1>3. SpecialistsThrough'
  BY <1>1, <1>2 DEF SpecialistsThrough
<1>4. /\ CyclesInOrder' /\ UnusedUntouched' /\ VerdictHasItsDecision'
      /\ CurrentIsNewest' /\ StatusFollowsCycle'
  BY <1>1 DEF CyclesInOrder, UnusedUntouched, VerdictHasItsDecision,
              CurrentIsNewest, StatusFollowsCycle
<1>5. ReviewRoundsBounded'
  BY <1>1, RoundsKept DEF RejectedCycles, CyclesOf, Allocated
<1> QED
  BY <1>3, <1>4, <1>5

\* Nor does anything that writes the task's status alone.
LEMMA TaskKeepsInv ==
  ASSUME ReviewInv, ReviewTypeOK', NEW t \in Tasks, TaskMoved(t)
  PROVE  ReviewInv'
<1> USE DEF ReviewInv
<1>1. UNCHANGED <<current, rounds, cycle, jobs, decisions>>
  BY DEF TaskMoved
<1>2. StatusFollowsCycle'
  BY <1>1 DEF StatusFollowsCycle, TaskMoved, ReviewTypeOK
<1>3. /\ CyclesInOrder' /\ UnusedUntouched' /\ VerdictHasItsDecision'
      /\ CurrentIsNewest' /\ SpecialistsThrough'
  BY <1>1 DEF CyclesInOrder, UnusedUntouched, VerdictHasItsDecision,
              CurrentIsNewest, SpecialistsThrough, AllSpecialistsTerminal,
              Specialists
<1>4. ReviewRoundsBounded'
  BY <1>1, RoundsKept DEF RejectedCycles, CyclesOf, Allocated
<1> QED
  BY <1>2, <1>3, <1>4

\* A cycle that moves on its own holds no verdict before it moves.
LEMMA CycleKeepsInv ==
  ASSUME ReviewInv, ReviewTypeOK', NEW c \in Cycles, CycleMoved(c)
  PROVE  ReviewInv'
<1> USE DEF ReviewInv
<1>1. UNCHANGED <<taskStatus, current, rounds, jobs, decisions>>
  BY DEF CycleMoved
<1>2. PICK to \in {"IN_PROGRESS", "AWAITING_REQUIRED_REVIEWS", "ESCALATED",
                   "CONSOLIDATING"} :
        /\ StatusWritten(c, to)
        /\ to = "CONSOLIDATING" => AllSpecialistsTerminal(c)
  BY StatusWrite DEF CycleMoved, ReviewCycleStatuses
<1>3. /\ cycle[c].task # None
      /\ cycle[c].status \notin {"APPROVED", "REJECTED", "ESCALATED"}
  BY DEF CycleMoved
<1>4. CyclesInOrder' /\ UnusedUntouched'
  BY <1>2, <1>3 DEF CyclesInOrder, UnusedUntouched, StatusWritten
<1>5. VerdictHasItsDecision'
  BY <1>1, <1>2, <1>3 DEF VerdictHasItsDecision, StatusWritten
<1>6. SpecialistsThrough'
  BY <1>1, <1>2 DEF SpecialistsThrough, StatusWritten, AllSpecialistsTerminal,
                    Specialists
<1>7. CurrentIsNewest'
  BY <1>1, <1>2 DEF CurrentIsNewest, StatusWritten, ReviewTypeOK
<1>8. StatusFollowsCycle'
  BY <1>1, <1>2, <1>3 DEF StatusFollowsCycle, StatusWritten, ReviewTypeOK
<1>9. ReviewRoundsBounded'
  <2>1. \A t \in Tasks : RejectedCycles(t)' = RejectedCycles(t)
    BY <1>2, <1>3 DEF RejectedCycles, CyclesOf, Allocated, StatusWritten
  <2> QED
    BY <1>1, <2>1, RoundsKept
<1> QED
  BY <1>4, <1>5, <1>6, <1>7, <1>8, <1>9

\* The fan-out takes the first free cycle, which becomes the newest.
LEMMA DispatchKeepsInv ==
  ASSUME ReviewInv, ReviewTypeOK', NEW t \in Tasks,
         NEW routing \in RoutingDecisions, DispatchReviewers(t, routing)
  PROVE  ReviewInv'
<1> USE DEF ReviewInv
<1>1. UNCHANGED <<rounds, decisions>>
  BY DEF DispatchReviewers
<1>2. PICK c \in Cycles :
        /\ cycle[c].task = None
        /\ \A d \in Cycles : d < c => cycle[d].task # None
        /\ cycle' = [cycle EXCEPT ![c] = NewReviewCycle(t, routing)]
        /\ \A d \in Cycles \ {c} : jobs'[d] = jobs[d]
        /\ taskStatus' = [taskStatus EXCEPT ![t] = "IN_REVIEW"]
        /\ current' = [current EXCEPT ![t] = c]
  BY DEF DispatchReviewers, Allocated, ReviewTypeOK
<1>3. /\ cycle'[c].status = "ROUTED" /\ cycle'[c].task = t /\ t # None
      /\ \A d \in Cycles \ {c} : cycle'[d] = cycle[d]
  BY <1>2, ReviewAssumption DEF NewReviewCycle, ReviewTypeOK
<1>4. cycle[c].status = "NOT_STARTED" /\ decisions[c] = <<>>
  BY <1>2 DEF UnusedUntouched, VerdictHasItsDecision
<1>5. \A d \in Cycles : cycle[d].task # None => d < c
  BY <1>2 DEF CyclesInOrder, Cycles
<1>6. CyclesInOrder'
  BY <1>2, <1>3, <1>5 DEF CyclesInOrder, Cycles
<1>7. UnusedUntouched'
  BY <1>3 DEF UnusedUntouched
<1>8. VerdictHasItsDecision'
  BY <1>1, <1>3, <1>4 DEF VerdictHasItsDecision
<1>9. SpecialistsThrough'
  BY <1>2, <1>3 DEF SpecialistsThrough, AllSpecialistsTerminal, Specialists
<1>10. CurrentIsNewest'
  <2>1. ASSUME NEW u \in Tasks, u # t
        PROVE  /\ current'[u] = current[u]
               /\ current[u] # None => current[u] \in Cycles \ {c}
    BY <1>2, <2>1, ReviewAssumption DEF CurrentIsNewest, ReviewTypeOK
  <2>2. current'[t] = c /\ c # None
    BY <1>2, ReviewAssumption DEF ReviewTypeOK
  <2>3. \A d \in Cycles : cycle'[d].task # None => d <= c
    BY <1>3, <1>5 DEF Cycles
  <2> QED
    BY <1>3, <2>1, <2>2, <2>3, ReviewAssumption DEF CurrentIsNewest
<1>11. StatusFollowsCycle'
  <2>1. ASSUME NEW u \in Tasks, u # t
        PROVE  /\ current'[u] = current[u]
               /\ current[u] # None => current[u] \in Cycles \ {c}
    BY <1>2, <2>1, ReviewAssumption DEF CurrentIsNewest, ReviewTypeOK
  <2>2. current'[t] = c /\ c # None
    BY <1>2, ReviewAssumption DEF ReviewTypeOK
  <2> QED
    BY <1>2, <1>3, <2>1, <2>2 DEF StatusFollowsCycle, ReviewTypeOK
<1>12. ReviewRoundsBounded'
  <2>1. \A u \in Tasks : RejectedCycles(u)' = RejectedCycles(u)
    BY <1>3, <1>4 DEF RejectedCycles, CyclesOf, Allocated
  <2> QED
    BY <1>1, <2>1, RoundsKept
<1> QED
  BY <1>6, <1>7, <1>8, <1>9, <1>10, <1>11, <1>12

\* A rejection counted: the rejected cycle was not among the rejected ones.
LEMMA RejectionCounted ==
  ASSUME ReviewInv, NEW t \in Tasks, NEW c \in Cycles, StatusWritten(c, "REJECTED"),
         cycle[c].task = t, cycle[c].status = "CONSOLIDATING",
         rounds[t] + 1 < MaxReviewRounds, rounds' = [rounds EXCEPT ![t] = @ + 1]
  PROVE  ReviewRoundsBounded'
<1> SUFFICES ASSUME NEW u \in Tasks
             PROVE  rounds'[u] = Cardinality(RejectedCycles(u)')
                    /\ rounds'[u] < MaxReviewRounds
  BY DEF ReviewRoundsBounded, RejectedCycles
<1>1. /\ rounds[u] = Cardinality(RejectedCycles(u))
      /\ rounds[u] < MaxReviewRounds
      /\ rounds \in [Tasks -> Nat]
  BY DEF ReviewInv, ReviewTypeOK, ReviewRoundsBounded, RejectedCycles
<1>2. CASE u = t
  <2>1. /\ RejectedCycles(u)' = RejectedCycles(u) \cup {c}
        /\ c \notin RejectedCycles(u)
    BY <1>2, ReviewAssumption
       DEF RejectedCycles, CyclesOf, Allocated, StatusWritten
  <2>2. Cardinality(RejectedCycles(u) \cup {c}) = Cardinality(RejectedCycles(u)) + 1
    BY <2>1, RejectedFinite, FS_AddElement
  <2> QED
    BY <1>1, <1>2, <2>1, <2>2
<1>3. CASE u # t
  <2>1. RejectedCycles(u)' = RejectedCycles(u)
    BY <1>3 DEF RejectedCycles, CyclesOf, Allocated, StatusWritten
  <2> QED
    BY <1>1, <1>3, <2>1
<1> QED
  BY <1>2, <1>3

\* A verdict falls on the task's current cycle and on no other.
LEMMA DecisionKeepsInv ==
  ASSUME ReviewInv, ReviewTypeOK', NEW t \in Tasks, NEW c \in Cycles,
         NEW p \in Packets, Decided(t, c, p)
  PROVE  ReviewInv'
<1> USE DEF ReviewInv
<1>1. /\ taskStatus[t] = "IN_REVIEW"
      /\ cycle[c].task = t
      /\ cycle[c].status = "CONSOLIDATING"
      /\ UNCHANGED <<current, jobs>>
  BY DEF Decided
<1>2. current[t] = c /\ c # None /\ t # None
  BY <1>1, ReviewAssumption DEF Decided, StatusFollowsCycle
<1>3. \A u \in Tasks : u # t /\ current[u] # None => current[u] \in Cycles \ {c}
  BY <1>1 DEF CurrentIsNewest, ReviewTypeOK
<1>4. PICK to \in {"APPROVED", "REJECTED", "ESCALATED"} :
        /\ StatusWritten(c, to)
        /\ to = "APPROVED" =>
             p.decision \in {"approved", "approved_with_follow_up"}
        /\ to = "REJECTED" =>
             /\ p.items > 0
             /\ rounds[t] + 1 < MaxReviewRounds
             /\ rounds' = [rounds EXCEPT ![t] = @ + 1]
        /\ to # "REJECTED" => rounds' = rounds
        /\ taskStatus' = [taskStatus EXCEPT ![t] =
                            IF to = "REJECTED" THEN "CHANGES_REQUESTED" ELSE to]
  <2>1. CASE /\ p.decision \in {"approved", "approved_with_follow_up"}
             /\ SetCycle(c, "APPROVED")
             /\ taskStatus' = [taskStatus EXCEPT ![t] = "APPROVED"]
             /\ rounds' = rounds
    <3>1. StatusWritten(c, "APPROVED")
      BY <2>1, StatusWrite DEF ReviewCycleStatuses
    <3> QED
      BY <2>1, <3>1
  <2>2. CASE /\ p.items > 0
             /\ rounds[t] + 1 < MaxReviewRounds
             /\ SetCycle(c, "REJECTED")
             /\ taskStatus' = [taskStatus EXCEPT ![t] = "CHANGES_REQUESTED"]
             /\ rounds' = [rounds EXCEPT ![t] = @ + 1]
    <3>1. StatusWritten(c, "REJECTED")
      BY <2>2, StatusWrite DEF ReviewCycleStatuses
    <3> QED
      BY <2>2, <3>1
  <2>3. CASE /\ SetCycle(c, "ESCALATED")
             /\ taskStatus' = [taskStatus EXCEPT ![t] = "ESCALATED"]
             /\ rounds' = rounds
    <3>1. StatusWritten(c, "ESCALATED")
      BY <2>3, StatusWrite DEF ReviewCycleStatuses
    <3> QED
      BY <2>3, <3>1
  <2> QED
    BY <2>1, <2>2, <2>3 DEF Decided
<1>5. CyclesInOrder' /\ UnusedUntouched'
  BY <1>1, <1>2, <1>4 DEF CyclesInOrder, UnusedUntouched, StatusWritten
<1>6. VerdictHasItsDecision'
  <2>1. /\ Len(decisions'[c]) = 1
        /\ decisions'[c][1] = p
        /\ \A d \in Cycles \ {c} : decisions'[d] = decisions[d]
    <3>1. decisions[c] = <<>>
      BY <1>1 DEF VerdictHasItsDecision
    <3>2. decisions' = [decisions EXCEPT ![c] = Append(<<>>, p)]
      BY <3>1 DEF Decided
    <3> QED
      BY <3>2 DEF ReviewTypeOK
  <2> QED
    BY <1>4, <2>1 DEF VerdictHasItsDecision, StatusWritten
<1>7. SpecialistsThrough'
  BY <1>1, <1>4 DEF SpecialistsThrough, StatusWritten, AllSpecialistsTerminal,
                    Specialists
<1>8. CurrentIsNewest'
  BY <1>1, <1>4 DEF CurrentIsNewest, StatusWritten, ReviewTypeOK
<1>9. StatusFollowsCycle'
  <2>1. ASSUME NEW u \in Tasks, u # t
        PROVE  /\ taskStatus'[u] = taskStatus[u]
               /\ current[u] # None => cycle'[current[u]] = cycle[current[u]]
    BY <1>3, <1>4, <2>1 DEF StatusWritten, ReviewTypeOK
  <2>2. taskStatus'[t] = IF to = "REJECTED" THEN "CHANGES_REQUESTED" ELSE to
    BY <1>4 DEF ReviewTypeOK
  <2> QED
    BY <1>1, <1>2, <1>4, <2>1, <2>2 DEF StatusFollowsCycle, StatusWritten
<1>10. ReviewRoundsBounded'
  <2>1. CASE to = "REJECTED"
    BY <1>1, <1>4, <2>1, RejectionCounted
  <2>2. CASE to # "REJECTED"
    <3>1. \A u \in Tasks : RejectedCycles(u)' = RejectedCycles(u)
      BY <1>1, <1>4, <2>2 DEF RejectedCycles, CyclesOf, Allocated, StatusWritten
    <3> QED
      BY <1>4, <2>2, <3>1, RoundsKept
  <2> QED
    BY <2>1, <2>2
<1> QED
  BY <1>5, <1>6, <1>7, <1>8, <1>9, <1>10

\* The invariant is inductive: one case for each kind of step.
LEMMA ReviewInvInductive == ReviewInv /\ [Next]_vars => ReviewInv'
<1> SUFFICES ASSUME ReviewInv, [Next]_vars PROVE ReviewInv'
  OBVIOUS
<1>0. ReviewTypeOK /\ ReviewTypeOK'
  BY ReviewTypeInductive DEF ReviewInv
<1>1. ASSUME NEW t \in Tasks, NEW routing \in RoutingDecisions,
             DispatchReviewers(t, routing)
      PROVE  ReviewInv'
  BY <1>0, <1>1, DispatchKeepsInv
<1>2. ASSUME NEW t \in Tasks, NEW c \in Cycles, NEW p \in Packets,
             ApplyDecision(t, c, p)
      PROVE  ReviewInv'
  BY <1>0, <1>2, DecisionOutcome, DecisionKeepsInv
<1>3. ASSUME NEW t \in Tasks,
             \/ StartRework(t) \/ FinishRework(t) \/ MergeConflict(t)
             \/ RerunReview(t) \/ PauseReview(t) \/ ResumeTask(t)
      PROVE  ReviewInv'
  BY <1>0, <1>3, AroundOutcome, TaskKeepsInv
<1>4. ASSUME NEW c \in Cycles, NEW j \in Reviewers \cup {Lead}, JobStep(c, j)
      PROVE  ReviewInv'
  BY <1>0, <1>4, JobOutcome, JobKeepsInv
<1>5. ASSUME NEW c \in Cycles,
             \/ AssembleLeadReviewContext(c)
             \/ \E to \in ReviewCycleStatuses : TransitionReviewCycle(c, to)
      PROVE  ReviewInv'
  BY <1>0, <1>5, CycleOutcome, CycleKeepsInv
<1>6. CASE UNCHANGED vars
  <2>1. ReviewRoundsBounded'
    BY <1>6, RoundsKept DEF vars, ReviewInv, RejectedCycles, CyclesOf, Allocated
  <2> QED
    BY <1>0, <1>6, <2>1
       DEF vars, ReviewInv, CyclesInOrder, UnusedUntouched,
           VerdictHasItsDecision, SpecialistsThrough, AllSpecialistsTerminal,
           Specialists, CurrentIsNewest, StatusFollowsCycle
<1> QED
  BY <1>1, <1>2, <1>3, <1>4, <1>5, <1>6 DEF Next, TaskStep

-----------------------------------------------------------------------------
(* The theorems                                                            *)

\* The whole invariant holds of every execution, whatever the interleaving of
\* dispatch, job queue, consolidation, decisions and operators.
THEOREM ReviewInvariant == ReviewSpec => []ReviewInv
BY ReviewInvInitial, ReviewInvInductive, PTL DEF ReviewSpec

\* applyDecision never approves a task on the strength of an abandoned cycle
\* or past a reviewer: an APPROVED task was approved by its current cycle.
THEOREM ApprovedByCurrentCycleHolds == ReviewSpec => []ApprovedByCurrentCycle
<1>1. ReviewInv => ApprovedByCurrentCycle
  <2> SUFFICES ASSUME ReviewInv, NEW t \in Tasks, taskStatus[t] = "APPROVED"
               PROVE  /\ current[t] # None
                      /\ cycle[current[t]].status = "APPROVED"
                      /\ Len(decisions[current[t]]) = 1
                      /\ decisions[current[t]][1].decision
                           \in {"approved", "approved_with_follow_up"}
                      /\ AllSpecialistsTerminal(current[t])
    BY DEF ApprovedByCurrentCycle, AllSpecialistsTerminal
  <2>1. current[t] \in Cycles /\ cycle[current[t]].status = "APPROVED"
    BY DEF ReviewInv, ReviewTypeOK, StatusFollowsCycle
  <2> QED
    BY <2>1, ReviewAssumption
       DEF ReviewInv, VerdictHasItsDecision, SpecialistsThrough
<1> QED
  BY <1>1, ReviewInvariant, PTL

\* reviewRoundCount counts the rejected cycles of a task and stays below the
\* limit over the whole life of the task.
THEOREM ReviewRoundsBoundedHolds == ReviewSpec => []ReviewRoundsBounded
<1>1. ReviewInv => ReviewRoundsBounded
  BY DEF ReviewInv
<1> QED
  BY <1>1, ReviewInvariant, PTL

\* findLatestRejectedByTaskId returns the task's current cycle when that is
\* the one that was rejected, however many were rejected before it.
LEMMA LatestIsCurrent ==
  ASSUME ReviewInv, NEW t \in Tasks, current[t] # None,
         cycle[current[t]].status = "REJECTED"
  PROVE  LatestRejected(t) = current[t]
<1>1. /\ current[t] \in RejectedCycles(t)
      /\ \A d \in RejectedCycles(t) : d <= current[t]
  BY ReviewAssumption DEF ReviewInv, ReviewTypeOK, CurrentIsNewest,
     RejectedCycles, CyclesOf, Allocated
<1>2. RejectedCycles(t) \subseteq Nat
  BY DEF RejectedCycles, CyclesOf, Allocated, Cycles
<1>3. LatestRejected(t) =
        CHOOSE c \in RejectedCycles(t) : \A d \in RejectedCycles(t) : d <= c
  BY <1>1 DEF LatestRejected, RejectedCycles
<1> DEFINE m == CHOOSE c \in RejectedCycles(t) :
                  \A d \in RejectedCycles(t) : d <= c
<1>4. m \in RejectedCycles(t) /\ \A d \in RejectedCycles(t) : d <= m
  BY <1>1
<1>5. m = current[t]
  <2> HIDE DEF m
  <2> QED
    BY <1>1, <1>2, <1>4
<1> QED
  BY <1>3, <1>5

\* buildRejectionContext hands a task sent back by its reviewers the rejection
\* it answers, with a blocking issue in it: never an older cycle's.
THEOREM ReworkSeesItsRejectionHolds == ReviewSpec => []ReworkSeesItsRejection
<1>1. ReviewInv => ReworkSeesItsRejection
  <2> SUFFICES ASSUME ReviewInv, NEW t \in Tasks,
                      taskStatus[t] = "CHANGES_REQUESTED",
                      cycle[current[t]].status # "APPROVED"
               PROVE  /\ BuildRejectionContext(t) # None
                      /\ BuildRejectionContext(t).prior_review_cycle_id = current[t]
                      /\ BuildRejectionContext(t).issues > 0
    BY DEF ReworkSeesItsRejection
  <2>1. /\ current[t] # None
        /\ current[t] \in Cycles
        /\ cycle[current[t]].status = "REJECTED"
    BY DEF ReviewInv, ReviewTypeOK, StatusFollowsCycle
  <2>2. LatestRejected(t) = current[t]
    BY <2>1, LatestIsCurrent
  <2>3. Len(decisions[current[t]]) = 1 /\ decisions[current[t]][1].items > 0
    BY <2>1 DEF ReviewInv, VerdictHasItsDecision
  <2>4. decisions[current[t]] # <<>>
    BY <2>3
  <2>5. BuildRejectionContext(t) =
          [prior_review_cycle_id |-> current[t],
           issues |-> decisions[current[t]][1].items]
    BY <2>1, <2>2, <2>4 DEF BuildRejectionContext
  <2>6. decisions[current[t]][1].items \in 0 .. 1
    <3>1. decisions[current[t]] \in Seq(Packets)
      BY <2>1 DEF ReviewInv, ReviewTypeOK
    <3>2. decisions[current[t]][1] \in Packets
      BY <2>3, <3>1
    <3> QED
      BY <3>2 DEF Packets
  <2>7. BuildRejectionContext(t) # None
    BY <2>1, <2>5, <2>6, ReviewAssumption DEF RejectionContexts
  <2> QED
    BY <2>3, <2>5, <2>7
<1> QED
  BY <1>1, ReviewInvariant, PTL

\* What a step may never do to a cycle that has been decided: change its
\* verdict, its task, its required reviewers or its decision row.
VerdictKept ==
  \A c \in Cycles : cycle[c].status \in {"APPROVED", "REJECTED"} =>
    cycle'[c] = cycle[c] /\ decisions'[c] = decisions[c]

\* No rerun, late job, second decision or cycle transition touches a verdict:
\* applyDecision and transitionReviewCycle refuse a decided cycle.
THEOREM VerdictIsFinal == ReviewSpec => [][VerdictKept]_vars
<1>1. ReviewInv /\ [Next]_vars => [VerdictKept]_vars
  <2> SUFFICES ASSUME ReviewInv, Next PROVE VerdictKept
    BY DEF VerdictKept, vars
  <2>0. ReviewTypeOK
    BY DEF ReviewInv
  <2>1. ASSUME NEW t \in Tasks, NEW routing \in RoutingDecisions,
               DispatchReviewers(t, routing)
        PROVE  VerdictKept
    <3>1. PICK c \in Cycles :
            /\ cycle[c].task = None
            /\ cycle' = [cycle EXCEPT ![c] = NewReviewCycle(t, routing)]
      BY <2>1 DEF DispatchReviewers, Allocated, ReviewTypeOK
    <3>2. cycle[c].status = "NOT_STARTED"
      BY <3>1 DEF ReviewInv, UnusedUntouched
    <3>3. \A d \in Cycles \ {c} : cycle'[d] = cycle[d]
      BY <2>0, <3>1 DEF ReviewTypeOK
    <3> QED
      BY <2>1, <3>2, <3>3 DEF VerdictKept, DispatchReviewers
  <2>2. ASSUME NEW t \in Tasks, NEW c \in Cycles, NEW p \in Packets,
               ApplyDecision(t, c, p)
        PROVE  VerdictKept
    <3>1. Decided(t, c, p)
      BY <2>0, <2>2, DecisionOutcome
    <3>2. \E to \in ReviewCycleStatuses : StatusWritten(c, to)
      BY <2>0, <3>1, StatusWrite DEF Decided, ReviewCycleStatuses
    <3>3. \A d \in Cycles \ {c} : decisions'[d] = decisions[d]
      BY <2>0, <3>1 DEF Decided, ReviewTypeOK
    <3> QED
      BY <3>1, <3>2, <3>3 DEF VerdictKept, Decided, StatusWritten
  <2>3. ASSUME NEW t \in Tasks,
               \/ StartRework(t) \/ FinishRework(t) \/ MergeConflict(t)
               \/ RerunReview(t) \/ PauseReview(t) \/ ResumeTask(t)
        PROVE  VerdictKept
    <3>1. TaskMoved(t)
      BY <2>0, <2>3, AroundOutcome
    <3> QED
      BY <3>1 DEF TaskMoved, VerdictKept
  <2>4. ASSUME NEW c \in Cycles, NEW j \in Reviewers \cup {Lead}, JobStep(c, j)
        PROVE  VerdictKept
    <3>1. JobMoved(c, j)
      BY <2>0, <2>4, JobOutcome
    <3> QED
      BY <3>1 DEF JobMoved, VerdictKept
  <2>5. ASSUME NEW c \in Cycles,
               \/ AssembleLeadReviewContext(c)
               \/ \E to \in ReviewCycleStatuses : TransitionReviewCycle(c, to)
        PROVE  VerdictKept
    <3>1. CycleMoved(c)
      BY <2>0, <2>5, CycleOutcome
    <3>2. \E to \in ReviewCycleStatuses : StatusWritten(c, to)
      BY <2>0, <3>1, StatusWrite DEF CycleMoved, ReviewCycleStatuses
    <3> QED
      BY <3>1, <3>2 DEF VerdictKept, CycleMoved, StatusWritten
  <2> QED
    BY <2>1, <2>2, <2>3, <2>4, <2>5 DEF Next, TaskStep
<1> QED
  BY <1>1, ReviewInvariant, PTL DEF ReviewSpec
=============================================================================
