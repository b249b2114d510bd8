------------------------ MODULE MergePipeline_proofs ------------------------
(***************************************************************************)
(* Theorems about the merge pipeline, for every finite set of tasks, every *)
(* conflict and failure policy, and any number of validation runs and      *)
(* crashes.                                                                *)
(***************************************************************************)
EXTENDS MergePipeline, FiniteSetTheorems, SequenceTheorems, TLAPS

-----------------------------------------------------------------------------
(* Lemmas about the helpers                                                *)

\* recalculatePositions assigns natural numbers.
LEMMA PositionsType ==
  ASSUME NEW items, NEW times
  PROVE  RecalculatedPositions(items, times) \in [Tasks -> Nat]
<1>1. ASSUME NEW t \in Tasks PROVE Cardinality(Ahead(t, items, times)) \in Nat
  <2>1. Ahead(t, items, times) \subseteq Tasks
    BY DEF Ahead
  <2> QED
    BY <2>1, FS_Subset, FS_CardinalityType, MergeAssumption
<1> QED
  BY <1>1 DEF RecalculatedPositions

\* applyFailure creates a revert task, a diagnostic task or none.
LEMMA FollowUpType ==
  ASSUME NEW severity
  PROVE  FollowUpFor(severity) \subseteq {"revert", "diagnostic"}
BY DEF FollowUpFor

\* A conflict sends the task to CHANGES_REQUESTED or FAILED and the item to
\* REQUEUED or FAILED, or changes neither, and ends the execution.
LEMMA ConflictOutcome ==
  ASSUME NEW t \in Tasks, NEW files, MergeConflict(t, files)
  PROVE  /\ exec[t] = "integrating"
         /\ EndExec(t)
         /\ UNCHANGED <<enqueuedAt, position, postVars, target, crashes>>
         /\ \/ /\ MayWrite(t, "executor") /\ item[t] = "REBASING"
               /\ \E s \in {"REQUEUED", "FAILED"} : SetItem(t, s)
               /\ \E s \in {"CHANGES_REQUESTED", "FAILED"} : WriteTask(t, s, {})
            \/ UNCHANGED <<item, taskVars>>
BY DEF MergeConflict

\* A step of executeMerge that only advances the item: what it waited for,
\* the item's next status, and what it awaits next.
LEMMA AdvanceOutcome ==
  ASSUME MergeTypeOK, NEW t \in Tasks,
         Integrated(t) \/ GatePassed(t) \/ GateFailed(t) \/ PushFailed(t)
  PROVE  /\ \/ exec[t] = "integrating" /\ item[t] = "REBASING"
               /\ SetItem(t, "VALIDATING") /\ Await(t, "validating")
            \/ exec[t] = "validating" /\ item[t] = "VALIDATING"
               /\ SetItem(t, "MERGING") /\ Await(t, "pushing")
            \/ exec[t] = "validating" /\ item[t] = "VALIDATING"
               /\ SetItem(t, "FAILED") /\ Await(t, "none")
            \/ exec[t] = "pushing" /\ item[t] = "MERGING"
               /\ SetItem(t, "FAILED") /\ Await(t, "none")
         /\ exec' \in [Tasks -> ExecStates]
         /\ base' \in [Tasks -> Nat]
         /\ UNCHANGED <<taskVars, enqueuedAt, position, postVars, crashes>>
         /\ PushFailed(t) \/ UNCHANGED target
<1>1. CASE Integrated(t)
  BY <1>1 DEF Integrated, AdvanceItem, Await, MergeTypeOK, ExecStates
<1>2. CASE GatePassed(t)
  BY <1>2 DEF GatePassed, AdvanceItem, Await, MergeTypeOK, ExecStates
<1>3. CASE GateFailed(t)
  <2>1. /\ EndExec(t)
        /\ exec[t] = "validating" /\ item[t] = "VALIDATING"
        /\ SetItem(t, "FAILED")
        /\ UNCHANGED <<taskVars, enqueuedAt, position, postVars, target,
                       crashes>>
    BY <1>3 DEF GateFailed, AdvanceItem
  <2>2. /\ Await(t, "none")
        /\ exec' \in [Tasks -> ExecStates]
        /\ base' \in [Tasks -> Nat]
    BY <2>1 DEF EndExec, Await, MergeTypeOK, ExecStates
  <2> QED
    BY <2>1, <2>2
<1>4. CASE PushFailed(t)
  <2>1. /\ EndExec(t)
        /\ exec[t] = "pushing" /\ item[t] = "MERGING"
        /\ SetItem(t, "FAILED")
        /\ UNCHANGED <<taskVars, enqueuedAt, position, postVars, crashes>>
    BY <1>4 DEF PushFailed
  <2>2. /\ Await(t, "none")
        /\ exec' \in [Tasks -> ExecStates]
        /\ base' \in [Tasks -> Nat]
    BY <2>1 DEF EndExec, Await, MergeTypeOK, ExecStates
  <2> QED
    BY <1>4, <2>1, <2>2
<1> QED
  BY <1>1, <1>2, <1>3, <1>4

\* A push leaves the target branch as it was or adds the task to it.
LEMMA PushOutcome ==
  ASSUME NEW t, NEW strategy, Pushed(t, strategy)
  PROVE  UNCHANGED target \/ target' = Append(target, t)
BY DEF Pushed

\* The same of a push reported as failed.
LEMMA PushFailedOutcome ==
  ASSUME NEW t, PushFailed(t)
  PROVE  UNCHANGED target \/ target' = Append(target, t)
<1>1. UNCHANGED target \/ \E strategy \in MergeStrategies : Pushed(t, strategy)
  BY DEF PushFailed
<1> QED
  BY <1>1, PushOutcome

\* An operator's transition takes the task out of the merge.
LEMMA OperatorOutcome ==
  ASSUME NEW t \in Tasks, Pause(t) \/ Resume(t) \/ Cancel(t) \/ MarkDone(t)
                          \/ Reopen(t) \/ Approve(t)
  PROVE  /\ \E s \in {"ESCALATED", "ASSIGNED", "CANCELLED", "DONE", "BACKLOG",
                      "APPROVED"} : WriteTask(t, s, {})
         /\ UNCHANGED <<queueVars, execVars, postVars, target, crashes>>
BY DEF Pause, Resume, Cancel, MarkDone, Reopen, Approve, OperatorTransition

-----------------------------------------------------------------------------
(* Type correctness                                                        *)

\* Every variable keeps its domain in every step of the pipeline.
LEMMA MergeTypeInductive == MergeTypeOK /\ [Next]_vars => MergeTypeOK'
<1> SUFFICES ASSUME MergeTypeOK, [Next]_vars PROVE MergeTypeOK'
  OBVIOUS
<1> USE MergeAssumption DEF MergeTypeOK
<1>0. \A t \in Tasks : Append(target, t) \in Seq(Tasks)
  BY AppendProperties
<1>1. ASSUME NEW t \in Tasks, EnqueueForMerge(t) PROVE MergeTypeOK'
  <2>1. Cardinality({u \in Tasks : item[u] = "ENQUEUED"}) \in Nat
    BY FS_Subset, FS_CardinalityType
  <2>2. position' \in [Tasks -> Nat]
    BY <1>1, PositionsType DEF EnqueueForMerge
  <2>3. item' = [item EXCEPT ![t] = "ENQUEUED"]
    BY <1>1 DEF EnqueueForMerge
  <2>4. enqueuedAt' \in [Tasks -> Nat]
    BY <1>1, <2>1 DEF EnqueueForMerge
  <2>5. /\ WriteTask(t, "QUEUED_FOR_MERGE", {})
        /\ UNCHANGED <<execVars, postVars, target, crashes>>
    BY <1>1 DEF EnqueueForMerge
  <2> QED
    BY <2>2, <2>3, <2>4, <2>5 DEF WriteTask, execVars, postVars,
       TaskStatuses, MergeQueueItemStatuses
<1>2. ASSUME NEW t \in Tasks, DequeueNext(t) PROVE MergeTypeOK'
  <2>1. position' \in [Tasks -> Nat]
    BY <1>2, PositionsType DEF DequeueNext
  <2>2. enqueuedAt' \in [Tasks -> Nat]
    BY <1>2 DEF DequeueNext, RanksWithout
  <2> QED
    BY <1>2, <2>1, <2>2 DEF DequeueNext, SetItem, taskVars, execVars, postVars,
       MergeQueueItemStatuses
<1>3. ASSUME NEW t \in Tasks, BeginMerge(t) PROVE MergeTypeOK'
  BY <1>3 DEF BeginMerge, SetItem, WriteTask, Await, postVars, TaskStatuses,
              MergeQueueItemStatuses, ExecStates
<1>4. ASSUME NEW t \in Tasks, FetchTarget(t) PROVE MergeTypeOK'
  BY <1>4 DEF FetchTarget, Await, taskVars, queueVars, postVars, ExecStates
<1>5. ASSUME NEW t \in Tasks, NEW files, MergeConflict(t, files)
      PROVE  MergeTypeOK'
  <2>1. /\ exec' \in [Tasks -> ExecStates]
        /\ base' \in [Tasks -> Nat]
        /\ UNCHANGED <<enqueuedAt, position, postVars, target, crashes>>
    <3>1. /\ EndExec(t)
          /\ UNCHANGED <<enqueuedAt, position, postVars, target, crashes>>
      BY <1>5, ConflictOutcome
    <3> QED
      BY <3>1 DEF EndExec, Await, ExecStates
  <2>2. CASE UNCHANGED <<item, taskVars>>
    BY <2>1, <2>2 DEF taskVars, postVars
  <2>3. ASSUME NEW i \in {"REQUEUED", "FAILED"}, SetItem(t, i),
               NEW s \in {"CHANGES_REQUESTED", "FAILED"}, WriteTask(t, s, {})
        PROVE  MergeTypeOK'
    BY <2>1, <2>3 DEF SetItem, WriteTask, postVars, TaskStatuses,
       MergeQueueItemStatuses
  <2>4. \/ UNCHANGED <<item, taskVars>>
        \/ /\ \E i \in {"REQUEUED", "FAILED"} : SetItem(t, i)
           /\ \E s \in {"CHANGES_REQUESTED", "FAILED"} : WriteTask(t, s, {})
    BY <1>5, ConflictOutcome
  <2> QED
    BY <2>2, <2>3, <2>4
<1>6. ASSUME NEW t \in Tasks,
             Integrated(t) \/ GatePassed(t) \/ GateFailed(t) \/ PushFailed(t)
      PROVE  MergeTypeOK'
  <2>1. target' \in Seq(Tasks)
    BY <1>6, <1>0, AdvanceOutcome, PushFailedOutcome
  <2>2. /\ \E s \in MergeQueueItemStatuses : SetItem(t, s)
        /\ exec' \in [Tasks -> ExecStates] /\ base' \in [Tasks -> Nat]
        /\ UNCHANGED <<taskVars, enqueuedAt, position, postVars, crashes>>
    BY <1>6, AdvanceOutcome DEF MergeQueueItemStatuses
  <2>3. item' \in [Tasks -> MergeQueueItemStatuses \cup {"none"}]
    <3>1. PICK s \in MergeQueueItemStatuses : SetItem(t, s)
      BY <2>2
    <3>2. item \in [Tasks -> MergeQueueItemStatuses \cup {"none"}]
      OBVIOUS
    <3> QED
      BY ONLY <3>1, <3>2 DEF SetItem
  <2>4. UNCHANGED <<taskVars, enqueuedAt, position, postVars, crashes>>
    BY <2>2
  <2>5. exec' \in [Tasks -> ExecStates] /\ base' \in [Tasks -> Nat]
    BY <2>2
  <2> QED
    BY <2>1, <2>3, <2>4, <2>5 DEF taskVars, postVars
<1>7. ASSUME NEW t \in Tasks, NEW strategy, Push(t, strategy)
      PROVE  MergeTypeOK'
  <2>1. target' \in Seq(Tasks)
    <3>1. Pushed(t, strategy)
      BY <1>7 DEF Push
    <3>2. UNCHANGED target \/ target' = Append(target, t)
      BY ONLY <3>1, PushOutcome
    <3> QED
      BY <3>2, <1>0
  <2> QED
    BY <1>7, <2>1 DEF Push, Await, taskVars, queueVars, postVars, ExecStates
<1>8. ASSUME NEW t \in Tasks, FinalizeMerge(t) PROVE MergeTypeOK'
  BY <1>8 DEF FinalizeMerge, SetItem, WriteTask, EndExec, Await, postVars,
     TaskStatuses, MergeQueueItemStatuses, ExecStates
<1>9. ASSUME NEW t \in Tasks, ExecuteMergeThrows(t) PROVE MergeTypeOK'
  BY <1>9 DEF ExecuteMergeThrows, EndExec, Await, taskVars, queueVars,
     postVars, ExecStates
<1>10. ASSUME NEW t \in Tasks, NEW v \in ValidationRuns,
              BeginPostMergeValidation(t, v)
       PROVE  MergeTypeOK'
  BY <1>10 DEF BeginPostMergeValidation, queueVars, execVars, PostStates
<1>11. ASSUME NEW t \in Tasks, NEW v \in ValidationRuns, ApplySuccess(t, v)
       PROVE  MergeTypeOK'
  BY <1>11 DEF ApplySuccess, WriteTask, queueVars, execVars, PostStates,
     Verdicts, TaskStatuses
<1>12. ASSUME NEW t \in Tasks, NEW v \in ValidationRuns, NEW failing,
              ApplyFailure(t, v, failing)
       PROVE  MergeTypeOK'
  <2>1. followUps' \in [Tasks -> SUBSET {"revert", "diagnostic"}]
    BY <1>12, FollowUpType DEF ApplyFailure
  <2>2. queuePaused' \in BOOLEAN
    BY <1>12 DEF ApplyFailure
  <2> QED
    BY <1>12, <2>1, <2>2 DEF ApplyFailure, WriteTask, queueVars, execVars,
       PostStates, Verdicts, TaskStatuses
<1>13. ASSUME NEW t \in Tasks, NEW v \in ValidationRuns,
              ValidationDropped(t, v)
       PROVE  MergeTypeOK'
  BY <1>13 DEF ValidationDropped, taskVars, queueVars, execVars, PostStates
<1>14. ASSUME NEW t \in Tasks, Pause(t) \/ Resume(t) \/ Cancel(t)
                               \/ MarkDone(t) \/ Reopen(t) \/ Approve(t)
       PROVE  MergeTypeOK'
  BY <1>14, OperatorOutcome DEF WriteTask, queueVars, execVars, postVars,
     TaskStatuses
<1>15. ASSUME NEW t \in Tasks, NEW p \in Priorities, ChangePriority(t, p)
       PROVE  MergeTypeOK'
  BY <1>15 DEF ChangePriority, queueVars, execVars, postVars
<1>16. CASE Crash
  BY <1>16 DEF Crash, queueVars, PostStates, ExecStates
<1>17. CASE RecalculatePositions
  BY <1>17, PositionsType DEF RecalculatePositions, taskVars, execVars, postVars
<1>18. CASE UNCHANGED vars
  BY <1>18 DEF vars, taskVars, queueVars, execVars, postVars
<1> QED
  BY <1>1, <1>2, <1>3, <1>4, <1>5, <1>6, <1>7, <1>8, <1>9, <1>10, <1>11,
     <1>12, <1>13, <1>14, <1>15, <1>16, <1>17, <1>18
     DEF Next, ExecuteMerge, PostMerge, OperatorStep

\* The initial state is well typed.
LEMMA MergeTypeInit == Init => MergeTypeOK
<1>1. <<>> \in Seq(Tasks)
  BY EmptySeq
<1> SUFFICES ASSUME Init PROVE MergeTypeOK
  OBVIOUS
<1>2. crashes \in 0 .. MaxCrashes /\ target \in Seq(Tasks)
  BY <1>1, MergeAssumption DEF Init
<1>3. post \in [Tasks -> [ValidationRuns -> PostStates]]
  BY DEF Init, PostStates
<1>4. /\ status \in [Tasks -> TaskStatuses]
      /\ item \in [Tasks -> MergeQueueItemStatuses \cup {"none"}]
      /\ exec \in [Tasks -> ExecStates]
  BY DEF Init, TaskStatuses, ExecStates
<1>5. /\ enqueuedAt \in [Tasks -> Nat] /\ position \in [Tasks -> Nat]
      /\ base \in [Tasks -> Nat]
      /\ priority \in [Tasks -> Priorities] /\ queuePaused \in BOOLEAN
      /\ holds \in [Tasks -> SUBSET (ValidationRuns \cup {"executor"})]
      /\ followUps \in [Tasks -> SUBSET {"revert", "diagnostic"}]
  BY DEF Init
<1> QED
  BY <1>2, <1>3, <1>4, <1>5 DEF MergeTypeOK

\* In every reachable state the pipeline's variables have their types.
THEOREM MergeTypeCorrect == Spec => []MergeTypeOK
BY MergeTypeInit, MergeTypeInductive, PTL DEF Spec

-----------------------------------------------------------------------------
(* The inductive invariant                                                 *)

\* The validation run v of task t goes from one state to another.
PostChange(t, v, from, to) ==
  post[t][v] = from /\ post' = [post EXCEPT ![t][v] = to]

\* Such a change touches that run and no other.
LEMMA PostEffect ==
  ASSUME MergeTypeOK, NEW t \in Tasks, NEW v \in ValidationRuns,
         NEW from, NEW to, PostChange(t, v, from, to)
  PROVE  /\ post[t][v] = from /\ post'[t][v] = to
         /\ \A u \in Tasks, w \in ValidationRuns :
              u # t \/ w # v => post'[u][w] = post[u][w]
BY DEF PostChange, MergeTypeOK

\* If neither state is a verdict, the verdicts stay what they were.
LEMMA SameVerdicts ==
  ASSUME MergeTypeOK, NEW t \in Tasks, NEW v \in ValidationRuns,
         NEW from, NEW to, PostChange(t, v, from, to),
         from \notin Verdicts, to \notin Verdicts,
         MergeInv, UNCHANGED <<status, item, followUps>>
  PROVE  SingleVerdict' /\ DecidedIsPast'
<1>1. /\ post[t][v] = from /\ post'[t][v] = to
      /\ \A u \in Tasks, w \in ValidationRuns :
           u # t \/ w # v => post'[u][w] = post[u][w]
  BY PostEffect
<1>2. from # "failed" /\ to # "failed"
  BY DEF Verdicts
<1>3. \A u \in Tasks, w \in ValidationRuns :
        /\ (post'[u][w] \in Verdicts) => (post[u][w] \in Verdicts)
        /\ (post[u][w] = "failed") => (post'[u][w] = "failed")
  BY <1>1, <1>2
<1>4. SingleVerdict /\ DecidedIsPast
  BY DEF MergeInv
<1>5. SingleVerdict'
  BY <1>3, <1>4 DEF SingleVerdict
<1>6. DecidedIsPast'
  BY <1>3, <1>4 DEF DecidedIsPast
<1> QED
  BY <1>5, <1>6

\* The first verdict of a task leaves it with that verdict alone.
LEMMA FirstVerdict ==
  ASSUME SingleVerdict, NEW t \in Tasks, NEW v \in ValidationRuns,
         \A u \in Tasks, w \in ValidationRuns :
           u # t \/ w # v => post'[u][w] = post[u][w],
         \A w \in ValidationRuns : post'[t][w] \in Verdicts => w = v,
         \A u \in Tasks \ {t} : followUps'[u] = followUps[u],
         followUps'[t] # {} => post'[t][v] = "failed"
  PROVE  SingleVerdict'
<1> SUFFICES ASSUME NEW u \in Tasks
             PROVE  /\ \A x, y \in ValidationRuns :
                         post'[u][x] \in Verdicts /\ post'[u][y] \in Verdicts
                           => x = y
                    /\ followUps'[u] # {} =>
                         \E x \in ValidationRuns : post'[u][x] = "failed"
  BY DEF SingleVerdict
<1>1. CASE u = t
  BY <1>1
<1>2. CASE u # t
  BY <1>2 DEF SingleVerdict
<1> QED
  BY <1>1, <1>2

\* Where neither a validation nor a follow-up task changes, and no merged task
\* past its validation goes back, the verdicts stand.
LEMMA VerdictsStand ==
  ASSUME SingleVerdict, DecidedIsPast, UNCHANGED <<post, followUps>>,
         \A u \in Tasks :
           item[u] = "MERGED" /\ status[u] # "POST_MERGE_VALIDATION" =>
             item'[u] = "MERGED" /\ status'[u] # "POST_MERGE_VALIDATION"
  PROVE  SingleVerdict' /\ DecidedIsPast'
BY DEF SingleVerdict, DecidedIsPast

\* Every step of the pipeline preserves the invariant.
LEMMA MergeInductive == MergeTypeOK /\ MergeInv /\ [Next]_vars => MergeInv'
<1> SUFFICES ASSUME MergeTypeOK, MergeInv, [Next]_vars PROVE MergeInv'
  OBVIOUS
<1>a. /\ status \in [Tasks -> TaskStatuses]
      /\ holds \in [Tasks -> SUBSET (ValidationRuns \cup {"executor"})]
      /\ item \in [Tasks -> MergeQueueItemStatuses \cup {"none"}]
      /\ exec \in [Tasks -> ExecStates]
  BY DEF MergeTypeOK
<1>b. /\ PhaseAgreement /\ StageAgreement /\ HeldStatus
      /\ SingleVerdict /\ DecidedIsPast
  BY DEF MergeInv
<1>c. "executor" \notin ValidationRuns
  BY MergeAssumption
<1>1. ASSUME NEW t \in Tasks, EnqueueForMerge(t) PROVE MergeInv'
  <2>1. /\ item[t] = "none"
        /\ item' = [item EXCEPT ![t] = "ENQUEUED"]
        /\ WriteTask(t, "QUEUED_FOR_MERGE", {})
        /\ UNCHANGED <<exec, post, followUps>>
    BY <1>1 DEF EnqueueForMerge, MayEnqueue, execVars, postVars
  <2>2. SingleVerdict' /\ DecidedIsPast'
    BY <2>1, <1>a, <1>b, VerdictsStand DEF WriteTask
  <2>3. (PhaseAgreement /\ StageAgreement /\ HeldStatus)'
    BY <2>1, <1>a, <1>b, <1>c DEF PhaseAgreement, StageAgreement,
       HeldStatus, WriteTask
  <2> QED
    BY <2>2, <2>3 DEF MergeInv
<1>2. ASSUME NEW t \in Tasks, DequeueNext(t) PROVE MergeInv'
  <2>1. /\ item[t] = "ENQUEUED"
        /\ item' = [item EXCEPT ![t] = "PREPARING"]
        /\ UNCHANGED <<status, holds, exec, post, followUps>>
    BY <1>2 DEF DequeueNext, SetItem, taskVars, execVars, postVars
  <2>2. SingleVerdict' /\ DecidedIsPast'
    BY <2>1, <1>a, <1>b, VerdictsStand
  <2>3. (PhaseAgreement /\ StageAgreement /\ HeldStatus)'
    BY <2>1, <1>a, <1>b, <1>c DEF PhaseAgreement, StageAgreement, HeldStatus
  <2> QED
    BY <2>2, <2>3 DEF MergeInv
<1>3. ASSUME NEW t \in Tasks, BeginMerge(t) PROVE MergeInv'
  <2>1. /\ item[t] = "PREPARING"
        /\ item' = [item EXCEPT ![t] = "REBASING"]
        /\ status' = [status EXCEPT ![t] = "MERGING"]
        /\ holds' = [holds EXCEPT ![t] = {"executor"}]
        /\ exec' = [exec EXCEPT ![t] = "fetching"]
        /\ UNCHANGED <<post, followUps>>
    BY <1>3 DEF BeginMerge, SetItem, WriteTask, Await, postVars
  <2>2. SingleVerdict' /\ DecidedIsPast'
    BY <2>1, <1>a, <1>b, VerdictsStand
  <2>3. (PhaseAgreement /\ StageAgreement /\ HeldStatus)'
    BY <2>1, <1>a, <1>b, <1>c DEF PhaseAgreement, StageAgreement, HeldStatus
  <2> QED
    BY <2>2, <2>3 DEF MergeInv
<1>4. ASSUME NEW t \in Tasks, FetchTarget(t) PROVE MergeInv'
  <2>1. /\ exec[t] = "fetching"
        /\ exec' = [exec EXCEPT ![t] = "integrating"]
        /\ UNCHANGED <<status, holds, item, post, followUps>>
    BY <1>4 DEF FetchTarget, Await, taskVars, queueVars, postVars
  <2>2. SingleVerdict' /\ DecidedIsPast'
    BY <2>1, <1>b, VerdictsStand
  <2>3. (PhaseAgreement /\ StageAgreement /\ HeldStatus)'
    BY <2>1, <1>a, <1>b DEF PhaseAgreement, StageAgreement, HeldStatus
  <2> QED
    BY <2>2, <2>3 DEF MergeInv
<1>5. ASSUME NEW t \in Tasks, NEW files, MergeConflict(t, files)
      PROVE  MergeInv'
  <2>1. /\ exec[t] = "integrating" /\ EndExec(t)
        /\ UNCHANGED postVars
    BY <1>5, ConflictOutcome
  <2>2. CASE UNCHANGED <<item, taskVars>>
    <3>1. /\ exec' = [exec EXCEPT ![t] = "none"]
          /\ UNCHANGED <<status, holds, item, post, followUps>>
      BY <2>1, <2>2 DEF EndExec, Await, taskVars, postVars
    <3>2. SingleVerdict' /\ DecidedIsPast'
      BY <3>1, <1>b, VerdictsStand
    <3>3. (PhaseAgreement /\ StageAgreement /\ HeldStatus)'
      BY <3>1, <1>a, <1>b DEF PhaseAgreement, StageAgreement, HeldStatus
    <3> QED
      BY <3>2, <3>3 DEF MergeInv
  <2>3. ASSUME NEW i \in {"REQUEUED", "FAILED"}, SetItem(t, i),
               NEW s \in {"CHANGES_REQUESTED", "FAILED"}, WriteTask(t, s, {}),
               item[t] = "REBASING"
        PROVE  MergeInv'
    <3>1. /\ item' = [item EXCEPT ![t] = i]
          /\ status' = [status EXCEPT ![t] = s]
          /\ holds' = [holds EXCEPT ![t] = {}]
          /\ exec' = [exec EXCEPT ![t] = "none"]
          /\ UNCHANGED <<post, followUps>>
      BY <2>1, <2>3 DEF EndExec, Await, SetItem, WriteTask, postVars
    <3>2. SingleVerdict' /\ DecidedIsPast'
      BY <2>3, <3>1, <1>a, <1>b, VerdictsStand
    <3>3. (PhaseAgreement /\ StageAgreement /\ HeldStatus)'
      BY <2>3, <3>1, <1>a, <1>b, <1>c
         DEF PhaseAgreement, StageAgreement, HeldStatus
    <3> QED
      BY <3>2, <3>3 DEF MergeInv
  <2>4. \/ UNCHANGED <<item, taskVars>>
        \/ /\ item[t] = "REBASING"
           /\ \E i \in {"REQUEUED", "FAILED"} : SetItem(t, i)
           /\ \E s \in {"CHANGES_REQUESTED", "FAILED"} : WriteTask(t, s, {})
    BY <1>5, ConflictOutcome
  <2> QED
    BY <2>2, <2>3, <2>4
<1>6. ASSUME NEW t \in Tasks,
             Integrated(t) \/ GatePassed(t) \/ GateFailed(t) \/ PushFailed(t)
      PROVE  MergeInv'
  <2>1. PICK from, to, now, next :
          /\ exec[t] = now /\ item[t] = from
          /\ SetItem(t, to) /\ Await(t, next)
          /\ <<now, from, to, next>> \in
               {<<"integrating", "REBASING", "VALIDATING", "validating">>,
                <<"validating", "VALIDATING", "MERGING", "pushing">>,
                <<"validating", "VALIDATING", "FAILED", "none">>,
                <<"pushing", "MERGING", "FAILED", "none">>}
    BY <1>6, AdvanceOutcome
  <2>2. UNCHANGED <<status, holds, post, followUps>>
    BY <1>6, AdvanceOutcome DEF taskVars, postVars
  <2>3. SingleVerdict' /\ DecidedIsPast'
    BY <2>1, <2>2, <1>a, <1>b, VerdictsStand DEF SetItem
  <2>4. PhaseAgreement'
    BY <2>1, <2>2, <1>a, <1>b DEF PhaseAgreement, SetItem
  <2>5. StageAgreement'
    BY <2>1, <2>2, <1>a, <1>b DEF StageAgreement, SetItem, Await
  <2>6. HeldStatus'
    BY <2>2, <1>b DEF HeldStatus
  <2> QED
    BY <2>3, <2>4, <2>5, <2>6 DEF MergeInv
<1>7. ASSUME NEW t \in Tasks, NEW strategy, Push(t, strategy) PROVE MergeInv'
  <2>1. /\ exec[t] = "pushing"
        /\ exec' = [exec EXCEPT ![t] = "finishing"]
        /\ UNCHANGED <<status, holds, item, post, followUps>>
    BY <1>7 DEF Push, Await, taskVars, queueVars, postVars
  <2>2. SingleVerdict' /\ DecidedIsPast'
    BY <2>1, <1>b, VerdictsStand
  <2>3. (PhaseAgreement /\ StageAgreement /\ HeldStatus)'
    BY <2>1, <1>a, <1>b DEF PhaseAgreement, StageAgreement, HeldStatus
  <2> QED
    BY <2>2, <2>3 DEF MergeInv
<1>8. ASSUME NEW t \in Tasks, FinalizeMerge(t) PROVE MergeInv'
  <2>1. /\ item[t] = "MERGING"
        /\ item' = [item EXCEPT ![t] = "MERGED"]
        /\ status' = [status EXCEPT ![t] = "POST_MERGE_VALIDATION"]
        /\ holds' = [holds EXCEPT ![t] = {}]
        /\ exec' = [exec EXCEPT ![t] = "none"]
        /\ UNCHANGED <<post, followUps>>
    BY <1>8 DEF FinalizeMerge, SetItem, WriteTask, EndExec, Await, postVars
  <2>2. SingleVerdict' /\ DecidedIsPast'
    BY <2>1, <1>a, <1>b, VerdictsStand
  <2>3. (PhaseAgreement /\ StageAgreement /\ HeldStatus)'
    BY <2>1, <1>a, <1>b, <1>c DEF PhaseAgreement, StageAgreement, HeldStatus
  <2> QED
    BY <2>2, <2>3 DEF MergeInv
<1>9. ASSUME NEW t \in Tasks, ExecuteMergeThrows(t) PROVE MergeInv'
  <2>1. /\ exec' = [exec EXCEPT ![t] = "none"]
        /\ UNCHANGED <<status, holds, item, post, followUps>>
    BY <1>9 DEF ExecuteMergeThrows, EndExec, Await, taskVars, queueVars,
                postVars
  <2>2. SingleVerdict' /\ DecidedIsPast'
    BY <2>1, <1>b, VerdictsStand
  <2>3. (PhaseAgreement /\ StageAgreement /\ HeldStatus)'
    BY <2>1, <1>a, <1>b DEF PhaseAgreement, StageAgreement, HeldStatus
  <2> QED
    BY <2>2, <2>3 DEF MergeInv
<1>10. ASSUME NEW t \in Tasks, NEW v \in ValidationRuns,
              BeginPostMergeValidation(t, v)
       PROVE  MergeInv'
  <2>1. /\ status[t] = "POST_MERGE_VALIDATION"
        /\ holds' = [holds EXCEPT ![t] = @ \cup {v}]
        /\ UNCHANGED <<status, item, exec, followUps>>
    BY <1>10 DEF BeginPostMergeValidation, queueVars, execVars
  <2>2. PostChange(t, v, "idle", "running")
    BY <1>10 DEF BeginPostMergeValidation, PostChange
  <2>3. "idle" \notin Verdicts /\ "running" \notin Verdicts
    BY DEF Verdicts
  <2>4. SingleVerdict' /\ DecidedIsPast'
    BY <2>1, <2>2, <2>3, <1>b, SameVerdicts
  <2>5. (PhaseAgreement /\ StageAgreement /\ HeldStatus)'
    BY <2>1, <1>a, <1>b, <1>c DEF PhaseAgreement, StageAgreement, HeldStatus
  <2> QED
    BY <2>4, <2>5 DEF MergeInv
<1>11. ASSUME NEW t \in Tasks, NEW v \in ValidationRuns, ApplySuccess(t, v)
       PROVE  MergeInv'
  <2>1. /\ v \in holds[t]
        /\ status' = [status EXCEPT ![t] = "DONE"]
        /\ holds' = [holds EXCEPT ![t] = {}]
        /\ UNCHANGED <<item, exec>>
        /\ \A u \in Tasks \ {t} : followUps'[u] = followUps[u]
    BY <1>11 DEF ApplySuccess, MayWrite, WriteTask, queueVars, execVars
  <2>2. /\ status[t] = "POST_MERGE_VALIDATION" /\ item[t] = "MERGED"
        /\ \A w \in ValidationRuns : post[t][w] \notin Verdicts
    BY <2>1, <1>b DEF HeldStatus, PhaseAgreement, DecidedIsPast
  <2>3. PostChange(t, v, "running", "passed")
    BY <1>11 DEF ApplySuccess, PostChange
  <2>4. /\ \A u \in Tasks, w \in ValidationRuns :
            u # t \/ w # v => post'[u][w] = post[u][w]
        /\ post'[t][v] = "passed"
    BY <2>3, PostEffect
  <2>5. \A w \in ValidationRuns : post'[t][w] \in Verdicts => w = v
    BY <2>2, <2>4
  <2>6. followUps' = followUps /\ followUps[t] = {}
    <3>1. \A w \in ValidationRuns : post[t][w] # "failed"
      BY <2>2 DEF Verdicts
    <3> QED
      BY <1>11, <1>b, <3>1 DEF ApplySuccess, SingleVerdict
  <2>7. (PhaseAgreement /\ StageAgreement /\ HeldStatus)'
    BY <2>1, <1>a, <1>b, <1>c DEF PhaseAgreement, StageAgreement, HeldStatus
  <2>8. SingleVerdict'
    <3>1. followUps'[t] # {} => post'[t][v] = "failed"
      BY <2>1, <2>4, <2>5, <2>6
    <3> QED
      BY <2>1, <2>4, <2>5, <1>b, <3>1, FirstVerdict
  <2>9. DecidedIsPast'
    BY <2>1, <2>2, <2>4, <1>a, <1>b DEF DecidedIsPast
  <2> QED
    BY <2>7, <2>8, <2>9 DEF MergeInv
<1>12. ASSUME NEW t \in Tasks, NEW v \in ValidationRuns, NEW failing,
              ApplyFailure(t, v, failing)
       PROVE  MergeInv'
  <2>1. /\ v \in holds[t]
        /\ status' = [status EXCEPT ![t] = "FAILED"]
        /\ holds' = [holds EXCEPT ![t] = {}]
        /\ UNCHANGED <<item, exec>>
        /\ \A u \in Tasks \ {t} : followUps'[u] = followUps[u]
    BY <1>12 DEF ApplyFailure, MayWrite, WriteTask, queueVars, execVars
  <2>2. /\ status[t] = "POST_MERGE_VALIDATION" /\ item[t] = "MERGED"
        /\ \A w \in ValidationRuns : post[t][w] \notin Verdicts
    BY <2>1, <1>b DEF HeldStatus, PhaseAgreement, DecidedIsPast
  <2>3. PostChange(t, v, "running", "failed")
    BY <1>12 DEF ApplyFailure, PostChange
  <2>4. /\ \A u \in Tasks, w \in ValidationRuns :
            u # t \/ w # v => post'[u][w] = post[u][w]
        /\ post'[t][v] = "failed"
    BY <2>3, PostEffect
  <2>5. \A w \in ValidationRuns : post'[t][w] \in Verdicts => w = v
    BY <2>2, <2>4
  <2>6. (PhaseAgreement /\ StageAgreement /\ HeldStatus)'
    BY <2>1, <1>a, <1>b, <1>c DEF PhaseAgreement, StageAgreement, HeldStatus
  <2>7. SingleVerdict'
    <3>1. followUps'[t] # {} => post'[t][v] = "failed"
      BY <2>1, <2>4, <2>5
    <3> QED
      BY <2>1, <2>4, <2>5, <1>b, <3>1, FirstVerdict
  <2>8. DecidedIsPast'
    BY <2>1, <2>2, <2>4, <1>a, <1>b DEF DecidedIsPast
  <2> QED
    BY <2>6, <2>7, <2>8 DEF MergeInv
<1>13. ASSUME NEW t \in Tasks, NEW v \in ValidationRuns,
              ValidationDropped(t, v)
       PROVE  MergeInv'
  <2>1. UNCHANGED <<status, holds, item, exec, followUps>>
    BY <1>13 DEF ValidationDropped, taskVars, queueVars, execVars
  <2>2. PostChange(t, v, "running", "dropped")
    BY <1>13 DEF ValidationDropped, PostChange
  <2>3. "running" \notin Verdicts /\ "dropped" \notin Verdicts
    BY DEF Verdicts
  <2>4. SingleVerdict' /\ DecidedIsPast'
    BY <2>1, <2>2, <2>3, <1>b, SameVerdicts
  <2>5. (PhaseAgreement /\ StageAgreement /\ HeldStatus)'
    BY <2>1, <1>a, <1>b, <1>c DEF PhaseAgreement, StageAgreement, HeldStatus
  <2> QED
    BY <2>4, <2>5 DEF MergeInv
<1>14. ASSUME NEW t \in Tasks, Pause(t) \/ Resume(t) \/ Cancel(t)
                               \/ MarkDone(t) \/ Reopen(t) \/ Approve(t)
       PROVE  MergeInv'
  <2>1. PICK s \in {"ESCALATED", "ASSIGNED", "CANCELLED", "DONE", "BACKLOG",
                    "APPROVED"} : WriteTask(t, s, {})
    BY <1>14, OperatorOutcome
  <2>2. UNCHANGED <<item, exec, post, followUps>>
    BY <1>14, OperatorOutcome DEF queueVars, execVars, postVars
  <2>3. SingleVerdict' /\ DecidedIsPast'
    BY <2>1, <2>2, <1>a, <1>b, VerdictsStand DEF WriteTask
  <2>4. (PhaseAgreement /\ StageAgreement /\ HeldStatus)'
    BY <2>1, <2>2, <1>a, <1>b, <1>c DEF PhaseAgreement, StageAgreement,
       HeldStatus, WriteTask
  <2> QED
    BY <2>3, <2>4 DEF MergeInv
<1>15. ASSUME NEW t \in Tasks, NEW p \in Priorities, ChangePriority(t, p)
       PROVE  MergeInv'
  <2>1. /\ holds' = [holds EXCEPT ![t] = {}]
        /\ UNCHANGED <<status, item, exec, post, followUps>>
    BY <1>15 DEF ChangePriority, queueVars, execVars, postVars
  <2>2. SingleVerdict' /\ DecidedIsPast'
    BY <2>1, <1>b, VerdictsStand
  <2>3. (PhaseAgreement /\ StageAgreement /\ HeldStatus)'
    BY <2>1, <1>a, <1>b DEF PhaseAgreement, StageAgreement, HeldStatus
  <2> QED
    BY <2>2, <2>3 DEF MergeInv
<1>16. CASE Crash
  <2>1. /\ exec' = [t \in Tasks |-> "none"]
        /\ holds' = [t \in Tasks |-> {}]
        /\ UNCHANGED <<status, item, followUps>>
    BY <1>16 DEF Crash, queueVars
  <2>2. \A t \in Tasks, v \in ValidationRuns :
          /\ post'[t][v] \in Verdicts => post[t][v] \in Verdicts
          /\ post[t][v] = "failed" => post'[t][v] = "failed"
    BY <1>16 DEF Crash, Verdicts
  <2>3. (PhaseAgreement /\ StageAgreement /\ HeldStatus)'
    BY <2>1, <1>a, <1>b, <1>c DEF PhaseAgreement, StageAgreement, HeldStatus
  <2>4. SingleVerdict'
    BY <2>1, <2>2, <1>b DEF SingleVerdict
  <2>5. DecidedIsPast'
    BY <2>1, <2>2, <1>b DEF DecidedIsPast
  <2> QED
    BY <2>3, <2>4, <2>5 DEF MergeInv
<1>17. CASE RecalculatePositions \/ UNCHANGED vars
  <2>1. UNCHANGED <<status, holds, item, exec, post, followUps>>
    BY <1>17 DEF RecalculatePositions, vars, taskVars, queueVars, execVars,
                 postVars
  <2> QED
    BY <2>1, <1>b DEF MergeInv, PhaseAgreement, SingleVerdict, StageAgreement,
                      HeldStatus, DecidedIsPast
<1> QED
  BY <1>1, <1>2, <1>3, <1>4, <1>5, <1>6, <1>7, <1>8, <1>9, <1>10, <1>11,
     <1>12, <1>13, <1>14, <1>15, <1>16, <1>17
     DEF Next, ExecuteMerge, PostMerge, OperatorStep

\* Initially no task has an item, an execution or a validation.
LEMMA MergeInvInit == Init => MergeInv
BY DEF Init, MergeInv, PhaseAgreement, SingleVerdict, StageAgreement,
   HeldStatus, DecidedIsPast, Verdicts

\* The invariant, with the types, holds in every reachable state.
THEOREM MergeInvariant == Spec => [](MergeTypeOK /\ MergeInv)
BY MergeTypeInit, MergeTypeInductive, MergeInvInit, MergeInductive, PTL DEF Spec

\* Task and merge queue item always agree on the phase of the merge.
THEOREM PhasesAgree == Spec => []PhaseAgreement
<1>1. MergeTypeOK /\ MergeInv => PhaseAgreement
  BY DEF MergeInv
<1> QED
  BY <1>1, MergeInvariant, PTL

\* A task is decided by at most one post-merge validation.
THEOREM VerdictsSingle == Spec => []SingleVerdict
<1>1. MergeTypeOK /\ MergeInv => SingleVerdict
  BY DEF MergeInv
<1> QED
  BY <1>1, MergeInvariant, PTL

-----------------------------------------------------------------------------
(* The target branch                                                       *)

\* A push under way, of a task that is not on the branch, keeps MergedOnce.
LEMMA FirstPush ==
  ASSUME MergeTypeOK, MergedOnce, PushIsFirst,
         NEW t \in Tasks, exec[t] = "pushing", target' = Append(target, t),
         item'[t] \in {"MERGING", "MERGED", "FAILED"}, exec'[t] # "pushing",
         \A u \in Tasks \ {t} : item'[u] = item[u] /\ exec'[u] = exec[u]
  PROVE  (MergedOnce /\ PushIsFirst)'
<1>1. target \in Seq(Tasks)
  BY DEF MergeTypeOK
<1>2. /\ DOMAIN target = 1 .. Len(target) /\ Len(target) \in Nat
      /\ \A i \in DOMAIN target : target[i] \in Tasks
  BY <1>1, LenProperties, ElementOfSeq
<1>3. /\ target' \in Seq(Tasks)
      /\ Len(target') = Len(target) + 1
      /\ \A i \in 1 .. Len(target) : target'[i] = target[i]
      /\ target'[Len(target) + 1] = t
  BY <1>1, AppendProperties
<1>4. DOMAIN target' = 1 .. (Len(target) + 1)
  BY <1>3, LenProperties
<1>5. \A i \in DOMAIN target' :
        \/ i \in DOMAIN target /\ target'[i] = target[i]
        \/ i = Len(target) + 1 /\ i \notin DOMAIN target /\ target'[i] = t
  BY <1>2, <1>3, <1>4
<1>6. \A i \in DOMAIN target : target[i] # t
  BY DEF PushIsFirst
<1>7. \A i, j \in DOMAIN target' : target'[i] = target'[j] => i = j
  BY <1>5, <1>6 DEF MergedOnce
<1>8. \A i \in DOMAIN target' :
        /\ item'[target'[i]] \in {"MERGING", "MERGED", "FAILED"}
        /\ exec'[target'[i]] # "pushing"
  BY <1>2, <1>5, <1>6 DEF MergedOnce, PushIsFirst
<1> QED
  BY <1>7, <1>8 DEF MergedOnce, PushIsFirst

\* An item past its gate stays past it, and only an item in its gate starts to
\* be pushed.
ItemsStayPast ==
  \A u \in Tasks :
    /\ item[u] \in {"MERGING", "MERGED", "FAILED"} =>
         item'[u] \in {"MERGING", "MERGED", "FAILED"}
    /\ exec'[u] = "pushing" => exec[u] = "pushing" \/ item[u] = "VALIDATING"

\* While nothing is pushed, that keeps MergedOnce.
LEMMA BranchKept ==
  ASSUME MergeTypeOK, MergedOnce, PushIsFirst, UNCHANGED target, ItemsStayPast
  PROVE  (MergedOnce /\ PushIsFirst)'
<1>1. \A i \in DOMAIN target : target[i] \in Tasks
  BY ElementOfSeq, LenProperties DEF MergeTypeOK
<1>2. \A i \in DOMAIN target :
        /\ item'[target[i]] \in {"MERGING", "MERGED", "FAILED"}
        /\ exec'[target[i]] # "pushing"
  BY <1>1 DEF MergedOnce, PushIsFirst, ItemsStayPast
<1> QED
  BY <1>2 DEF MergedOnce, PushIsFirst

\* Every step that pushes nothing leaves the branch alone and moves no item
\* back before its gate.
LEMMA StepsStayPast ==
  ASSUME MergeTypeOK, [Next]_vars,
         ~ \E t \in Tasks : PushFailed(t)
                            \/ \E strategy \in MergeStrategies : Push(t, strategy)
  PROVE  UNCHANGED target /\ ItemsStayPast
<1>a. /\ item \in [Tasks -> MergeQueueItemStatuses \cup {"none"}]
      /\ exec \in [Tasks -> ExecStates]
  BY DEF MergeTypeOK
<1>1. ASSUME NEW t \in Tasks, EnqueueForMerge(t) \/ DequeueNext(t)
      PROVE  UNCHANGED target /\ ItemsStayPast
  BY <1>1, <1>a DEF EnqueueForMerge, MayEnqueue, DequeueNext, SetItem, execVars,
     ItemsStayPast
<1>2. ASSUME NEW t \in Tasks, BeginMerge(t) \/ FetchTarget(t)
      PROVE  UNCHANGED target /\ ItemsStayPast
  BY <1>2, <1>a DEF BeginMerge, FetchTarget, SetItem, Await, queueVars,
     ItemsStayPast
<1>3. ASSUME NEW t \in Tasks, NEW files, MergeConflict(t, files)
      PROVE  UNCHANGED target /\ ItemsStayPast
  <2>1. /\ exec' = [exec EXCEPT ![t] = "none"]
        /\ UNCHANGED target
    BY <1>3, ConflictOutcome DEF EndExec, Await
  <2>2. \A u \in Tasks : item[u] # "REBASING" => item'[u] = item[u]
    BY <1>3, <1>a, ConflictOutcome DEF SetItem
  <2> QED
    BY <2>1, <2>2, <1>a DEF ItemsStayPast
<1>4. ASSUME NEW t \in Tasks, Integrated(t) \/ GatePassed(t) \/ GateFailed(t)
      PROVE  UNCHANGED target /\ ItemsStayPast
  <2>1. UNCHANGED target
    BY <1>4 DEF Integrated, GatePassed, GateFailed, AdvanceItem
  <2>2. /\ \E s \in MergeQueueItemStatuses : SetItem(t, s)
        /\ \E x \in ExecStates : Await(t, x)
        /\ item[t] \in {"REBASING", "VALIDATING"} \/ exec'[t] = "none"
        /\ item'[t] \in {"VALIDATING", "MERGING", "FAILED"}
        /\ item[t] \in {"REBASING", "VALIDATING", "MERGING"}
        /\ item[t] = "MERGING" => item'[t] = "FAILED"
        /\ exec'[t] = "pushing" => item[t] = "VALIDATING"
    BY <1>4, <1>a, AdvanceOutcome DEF MergeQueueItemStatuses, ExecStates,
       SetItem, Await
  <2> QED
    BY <2>1, <2>2, <1>a DEF ItemsStayPast, SetItem, Await
<1>5. ASSUME NEW t \in Tasks, FinalizeMerge(t) \/ ExecuteMergeThrows(t)
      PROVE  UNCHANGED target /\ ItemsStayPast
  BY <1>5, <1>a DEF FinalizeMerge, ExecuteMergeThrows, SetItem, EndExec, Await,
     queueVars, ItemsStayPast
<1>6. ASSUME UNCHANGED <<item, exec, target>>
      PROVE  UNCHANGED target /\ ItemsStayPast
  BY <1>6 DEF ItemsStayPast
<1>7. ASSUME NEW t \in Tasks, NEW v \in ValidationRuns, PostMerge(t, v)
      PROVE  UNCHANGED <<item, exec, target>>
  BY <1>7 DEF PostMerge, BeginPostMergeValidation, ApplySuccess, ApplyFailure,
     ValidationDropped, queueVars, execVars
<1>8. ASSUME NEW t \in Tasks, OperatorStep(t) \/ Approve(t)
      PROVE  UNCHANGED <<item, exec, target>>
  BY <1>8, OperatorOutcome DEF OperatorStep, ChangePriority, queueVars, execVars
<1>9. CASE RecalculatePositions \/ UNCHANGED vars
  <2>1. UNCHANGED <<item, exec, target>>
    BY <1>9 DEF RecalculatePositions, execVars, queueVars, vars
  <2> QED
    BY <2>1, <1>6
<1>10. CASE Crash
  BY <1>10, <1>a DEF Crash, queueVars, ItemsStayPast
<1> QED
  BY <1>1, <1>2, <1>3, <1>4, <1>5, <1>6, <1>7, <1>8, <1>9, <1>10
     DEF Next, ExecuteMerge

\* No task's change reaches the target branch twice, and none that is there
\* belongs to an item that is queued again.
THEOREM MergedAtMostOnce == Spec => []MergedOnce
<1>1. Init => MergedOnce /\ PushIsFirst
  BY DEF Init, MergedOnce, PushIsFirst
<1>2. MergeTypeOK /\ MergeInv /\ MergedOnce /\ PushIsFirst /\ [Next]_vars
        => (MergedOnce /\ PushIsFirst)'
  <2> SUFFICES ASSUME MergeTypeOK, MergeInv, MergedOnce, PushIsFirst,
                      [Next]_vars
               PROVE  (MergedOnce /\ PushIsFirst)'
    OBVIOUS
  <2>a. /\ item \in [Tasks -> MergeQueueItemStatuses \cup {"none"}]
        /\ exec \in [Tasks -> ExecStates]
    BY DEF MergeTypeOK
  <2>1. ASSUME NEW t \in Tasks, NEW strategy, Push(t, strategy)
        PROVE  (MergedOnce /\ PushIsFirst)'
    <3>1. /\ exec[t] = "pushing" /\ item[t] = "MERGING"
          /\ exec' = [exec EXCEPT ![t] = "finishing"] /\ item' = item
      BY <2>1 DEF Push, Await, queueVars, MergeInv, StageAgreement
    <3>2. CASE UNCHANGED target
      BY <3>1, <3>2, <2>a, BranchKept DEF ItemsStayPast
    <3>3. CASE target' = Append(target, t)
      BY <3>1, <3>3, <2>a, FirstPush
    <3> QED
      BY <2>1, <3>2, <3>3, PushOutcome DEF Push
  <2>2. ASSUME NEW t \in Tasks, PushFailed(t)
        PROVE  (MergedOnce /\ PushIsFirst)'
    <3>1. /\ exec[t] = "pushing" /\ item[t] = "MERGING"
          /\ exec' = [exec EXCEPT ![t] = "none"]
          /\ item' = [item EXCEPT ![t] = "FAILED"]
      BY <2>2 DEF PushFailed, SetItem, EndExec, Await
    <3>2. CASE UNCHANGED target
      BY <3>1, <3>2, <2>a, BranchKept DEF ItemsStayPast
    <3>3. CASE target' = Append(target, t)
      BY <3>1, <3>3, <2>a, FirstPush
    <3> QED
      BY <2>2, <3>2, <3>3, PushFailedOutcome
  <2> QED
    BY <2>1, <2>2, StepsStayPast, BranchKept
<1> QED
  BY <1>1, <1>2, MergeInvariant, PTL DEF Spec

-----------------------------------------------------------------------------
(* Late results                                                            *)

\* A result that arrives after its task was paused or ended does not move it,
\* unless it completes the merge.
THEOREM LateResultsHarmless == Spec => LateResultsLeaveTask
<1> DEFINE Harmless ==
      \A t \in Tasks :
        /\ status[t] \in TerminalStates \cup {"ESCALATED"}
        /\ exec'[t] # exec[t] \/ post'[t] # post[t]
        /\ item'[t] # "MERGED" \/ item[t] = "MERGED"
        => status'[t] = status[t]
<1>1. MergeTypeOK /\ MergeInv /\ [Next]_vars => [Harmless]_vars
  <2> SUFFICES ASSUME MergeTypeOK, MergeInv, Next,
                      NEW u \in Tasks,
                      status[u] \in TerminalStates \cup {"ESCALATED"},
                      exec'[u] # exec[u] \/ post'[u] # post[u],
                      item'[u] # "MERGED" \/ item[u] = "MERGED"
               PROVE  status'[u] = status[u]
    OBVIOUS
  <2> USE DEF TerminalStates
  <2>1. ASSUME NEW t \in Tasks, BeginMerge(t) PROVE status'[u] = status[u]
    BY <2>1 DEF BeginMerge, WriteTask, Await, postVars, MergeTypeOK
  <2>2. ASSUME NEW t \in Tasks,
               \/ FetchTarget(t) \/ Integrated(t) \/ GatePassed(t)
               \/ GateFailed(t) \/ PushFailed(t) \/ ExecuteMergeThrows(t)
               \/ \E strategy \in MergeStrategies : Push(t, strategy)
        PROVE  status'[u] = status[u]
    BY <2>2 DEF FetchTarget, Integrated, GatePassed, GateFailed, PushFailed,
       AdvanceItem, ExecuteMergeThrows, Push, taskVars
  <2>3. ASSUME NEW t \in Tasks, NEW files, MergeConflict(t, files)
        PROVE  status'[u] = status[u]
    <3>1. CASE UNCHANGED <<item, taskVars>>
      BY <3>1 DEF taskVars
    <3>2. ASSUME MayWrite(t, "executor"), NEW s, WriteTask(t, s, {})
          PROVE  status'[u] = status[u]
      <4>1. status[t] = "MERGING"
        BY <3>2 DEF MayWrite, MergeInv, HeldStatus
      <4> QED
        BY <3>2, <4>1 DEF WriteTask, MergeTypeOK
    <3> QED
      BY <2>3, <3>1, <3>2, ConflictOutcome
  <2>4. ASSUME NEW t \in Tasks, FinalizeMerge(t) PROVE status'[u] = status[u]
    BY <2>4 DEF FinalizeMerge, SetItem, WriteTask, EndExec, Await, postVars,
       MergeTypeOK
  <2>5. ASSUME NEW t \in Tasks, NEW v \in ValidationRuns, PostMerge(t, v)
        PROVE  status'[u] = status[u]
    <3>1. CASE BeginPostMergeValidation(t, v) \/ ValidationDropped(t, v)
      BY <3>1 DEF BeginPostMergeValidation, ValidationDropped, taskVars
    <3>2. ASSUME MayWrite(t, v), NEW s, WriteTask(t, s, {})
          PROVE  status'[u] = status[u]
      <4>1. status[t] = "POST_MERGE_VALIDATION"
        BY <3>2 DEF MayWrite, MergeInv, HeldStatus
      <4> QED
        BY <3>2, <4>1 DEF WriteTask, MergeTypeOK
    <3> QED
      BY <2>5, <3>1, <3>2 DEF PostMerge, ApplySuccess, ApplyFailure
  <2>6. ASSUME NEW t \in Tasks, OperatorStep(t) \/ Approve(t)
                                \/ EnqueueForMerge(t) \/ DequeueNext(t)
        PROVE  FALSE
    <3>1. exec' = exec /\ post' = post
      BY <2>6, OperatorOutcome DEF OperatorStep, ChangePriority,
         EnqueueForMerge, DequeueNext, execVars, postVars
    <3> QED
      BY <3>1
  <2>7. CASE Crash \/ RecalculatePositions
    BY <2>7 DEF Crash, RecalculatePositions, taskVars
  <2> QED
    BY <2>1, <2>2, <2>3, <2>4, <2>5, <2>6, <2>7 DEF Next, ExecuteMerge
<1> QED
  BY <1>1, MergeInvariant, PTL DEF Spec, LateResultsLeaveTask
=============================================================================
