------------------------------ MODULE WebConsole ------------------------------
(***************************************************************************)
(* One browser against the control plane: the page the operator is on, the *)
(* form that is open, the request under way, the query cache behind the    *)
(* page and the event stream that invalidates it.  Meanwhile the           *)
(* automation and other browsers change what the server would answer.      *)
(*                                                                         *)
(* page     the route shown                                                *)
(* form     the open form, or NoForm: its name, the action asked for, the  *)
(*          version its fields were drawn from, and whether the operator   *)
(*          ticked the box about work in progress                          *)
(* request  the mutation under way, or NoRequest                           *)
(***************************************************************************)
EXTENDS EventStream, QueryCache, WebForms

CONSTANTS
  OpenPages,     \* the pages a model visits
  OpenForms,     \* the forms a model opens
  OpenActions,   \* the operator actions it asks for
  Moves,         \* the statuses its automation moves the task to
  Entities       \* the entities besides the task that change meanwhile

VARIABLES page, form, request

\* The families whose rows are a worker, a review cycle, a merge queue item; a
\* lease is a part of its task's page and no row of its own.
ShownIn ==
  [e \in DOMAIN ENTITY_TYPE_TO_CHANNEL \ {"task"} |->
     CASE e = "task-lease"       -> {}
       [] e = "worker"           -> {"pools"}
       [] e = "review-cycle"     -> {"reviews"}
       [] e = "merge-queue-item" -> {"mergeQueue"}]

\* What a model opens and moves exists, and it follows the task and the
\* resources its forms write.
ASSUME ConsoleAssumption ==
  /\ "tasks" \in Families /\ Families \subseteq DOMAIN Resources
  /\ MaxVersion \in Nat /\ InitialStatuses \subseteq TaskStatuses
  /\ OpenPages \subseteq DOMAIN Routes
  /\ OpenForms \subseteq {n \in DOMAIN Forms : Forms[n].family \in Families}
  /\ OpenActions \subseteq ActionIds
  /\ Moves \subseteq TaskStatuses
  /\ Entities \subseteq DOMAIN ShownIn

browserVars == <<page, form, request>>

vars == <<content, entry, streamVars, browserVars>>

NoForm == [name |-> "none", action |-> "none", base |-> 0, ticked |-> FALSE]

NoRequest == [name |-> "none", action |-> "none", seen |-> 0, ack |-> FALSE, base |-> 0,
              ticked |-> FALSE, phase |-> "none"]

Mounted == Routes[page] \cap Families

View(f) == entry[f].data

Init ==
  /\ ApiInit /\ CacheInit /\ StreamInit
  /\ page = "notFound" /\ form = NoForm /\ request = NoRequest

-----------------------------------------------------------------------------
(* The operator.                                                           *)

FetchMounted(families) ==
  \E expired \in BOOLEAN :
     entry' = [f \in Families |-> IF f \in families THEN FetchIfStale(entry[f], expired)
                                  ELSE entry[f]]

\* The page is unmounted with its form; the queries of the new one are fetched
\* when they are stale.
Navigate(p) ==
  /\ p # page
  /\ page' = p /\ form' = NoForm
  /\ FetchMounted(Routes[p] \cap Families)
  /\ UNCHANGED <<content, streamVars, request>>

Focus ==
  /\ FetchMounted(Mounted)
  /\ UNCHANGED <<content, streamVars, browserVars>>

Pending == request # NoRequest

\* What a form may ask for: the actions of the action bar depend on the status
\* the page shows.
Offers(n) ==
  IF Forms[n].method # "ACT" THEN {"none"}
  ELSE Forms[n].actions \cap
         (IF Forms[n].page = "task" THEN STATUS_ACTIONS[View("tasks").status] ELSE ActionIds)

\* The form is drawn from what the page shows.  The buttons of the action bar
\* are disabled while one of its requests is pending.
OpenForm(n, a) ==
  /\ form = NoForm /\ Forms[n].page = page
  /\ Forms[n].method # "POST" => View(Forms[n].family).version > 0
  /\ a \in Offers(n)
  /\ Forms[n].method = "ACT" => ~Pending
  /\ form' = [NoForm EXCEPT !.name = n, !.action = a, !.base = View(Forms[n].family).version]
  /\ UNCHANGED <<content, entry, streamVars, page, request>>

\* The box is shown when a task that is shown in development is cancelled.
ShowAcknowledgeInProgress ==
  form.action = "cancel" /\ View("tasks").status = "IN_DEVELOPMENT"

Acknowledge ==
  /\ form # NoForm /\ ShowAcknowledgeInProgress /\ ~form.ticked /\ ~Pending
  /\ form' = [form EXCEPT !.ticked = TRUE]
  /\ UNCHANGED <<content, entry, streamVars, page, request>>

CloseForm ==
  /\ form # NoForm
  /\ Forms[form.name].modal => ~Pending
  /\ form' = NoForm
  /\ UNCHANGED <<content, entry, streamVars, page, request>>

\* The version and the acknowledgement are taken from what the page shows at
\* this moment, the fields from the form.
Submit ==
  /\ form # NoForm /\ ~Pending
  /\ ShowAcknowledgeInProgress => form.ticked
  /\ request' = [name |-> form.name, action |-> form.action,
                 seen |-> IF Forms[form.name].method = "PUT"
                            THEN View(Forms[form.name].family).version ELSE 0,
                 ack |-> ShowAcknowledgeInProgress,
                 base |-> form.base, ticked |-> form.ticked, phase |-> "sent"]
  /\ UNCHANGED <<content, entry, streamVars, page, form>>

-----------------------------------------------------------------------------
(* The server.                                                             *)

\* What the handler of the request under way answers and leaves of its row;
\* chance stands for what the model does not follow: a name already taken, a
\* row that is referred to, a lease that is still active.
Answer(chance) ==
  LET r == request
      f == Forms[r.name].family
      m == Forms[r.name].method
  IN  IF ~ZodValidationPipe(f, m, Forms[r.name].sends)
        THEN [outcome |-> "refused", row |-> content[f]]
        ELSE CASE m = "POST"   -> PostRow(f, chance)
               [] m = "PUT"    -> PutRow(f, r.seen)
               [] m = "DELETE" -> DeleteRow(f, chance)
               [] m = "SWITCH" -> [outcome |-> "ok", row |-> Written(content[f])]
               [] m = "ACT"    -> IF Accepts(r.action, content[f].status, r.ack, chance)
                                    THEN [outcome |-> "ok", row |-> Applied(r.action, content[f])]
                                    ELSE [outcome |-> "refused", row |-> content[f]]

\* Only the transition service and the factory switch broadcast; the services
\* that write a row themselves do not.
Broadcasts(r) ==
  CASE Forms[r.name].method = "SWITCH" -> BroadcastToChannel("queue", "factory.state_changed")
    [] r.action \in DOMAIN OperatorActions /\ OperatorActions[r.action].checked ->
         Emit("task")
    [] OTHER -> <<>>

HandleRequest(chance) ==
  /\ request.phase = "sent"
  /\ LET f == Forms[request.name].family
         a == Answer(chance)
     IN  /\ a.outcome = "ok" => CanChange(f)
         /\ content' = [content EXCEPT ![f] = a.row]
         /\ request' = [NoRequest EXCEPT !.name = request.name, !.phase = a.outcome]
         /\ IF a.outcome = "ok" THEN Send(Broadcasts(request)) ELSE UNCHANGED wire
  /\ UNCHANGED <<entry, socket, rooms, asks, drops, page, form>>

\* A GET is answered with the rows of this moment.
ServerReads(f) ==
  /\ entry[f].fetch = "sent"
  /\ entry' = [entry EXCEPT ![f].fetch = "served", ![f].served = content[f]]
  /\ UNCHANGED <<content, streamVars, browserVars>>

\* What the automation asserts when it asks for a transition.
AutomationFacts ==
  {"allDependenciesResolved", "hasBlockers", "leaseAcquired", "hasHeartbeat",
   "leaseReclaimedRetryEligible", "leaseTimedOutNoRetry", "hasDevResultPacket",
   "requiredValidationsPassed", "hasUnrecoverableFailure", "hasReviewRoutingDecision",
   "changes_requested", "approved", "mergeSuccessful", "reworkable", "non_reworkable",
   "postMergeValidationPassed", "postMergeValidationFailed", "hasEscalationTrigger"}

\* The automation commits a transition of the task, and its event goes out.
AutomationMoves(to) ==
  /\ CanChange("tasks")
  /\ ValidateTransition(content["tasks"].status, to, AutomationFacts)
  /\ content' = [content EXCEPT !["tasks"] = Moved(content["tasks"], to)]
  /\ Send(Emit("task"))
  /\ UNCHANGED <<entry, socket, rooms, asks, drops, browserVars>>

EntityMoves(type) ==
  /\ \A f \in ShownIn[type] \cap Families : CanChange(f)
  /\ content' = [f \in Families |-> IF f \in ShownIn[type] THEN Written(content[f])
                                    ELSE content[f]]
  /\ Send(Emit(type))
  /\ UNCHANGED <<entry, socket, rooms, asks, drops, browserVars>>

\* Another browser saves a row; no event tells of it.
OtherBrowserWrites(f) ==
  /\ CanChange(f) /\ content[f].version > 0 /\ "PUT" \in DOMAIN Resources[f].methods
  /\ content' = [content EXCEPT ![f] = Written(content[f])]
  /\ UNCHANGED <<entry, streamVars, browserVars>>

-----------------------------------------------------------------------------
(* What reaches the browser.                                               *)

\* Fault: the form keeps the fields it has.
FormAfterFault(f, row) == form

\* The effect of a form that follows its row: when another version of the row
\* is shown, the fields are drawn from it again.
FormAfter(f, row) ==
  IF form # NoForm /\ Forms[form.name].follows /\ Forms[form.name].family = f
    THEN [form EXCEPT !.base = row.version]
    ELSE form

\* The panel of an escalated task goes when the task is shown elsewhere.
PanelGone(f, row) ==
  form.name = "escalation" /\ f = "tasks" /\ row.status # "ESCALATED"

FetchArrives(f) ==
  /\ FetchSucceeds(f)
  /\ form' = IF PanelGone(f, entry[f].served) THEN NoForm ELSE FormAfter(f, entry[f].served)
  /\ UNCHANGED <<content, streamVars, page, request>>

FetchLost(f) ==
  /\ FetchFails(f)
  /\ UNCHANGED <<content, streamVars, browserVars>>

\* The provider's listener invalidates what the event concerns.
DeliverEvent ==
  /\ wire # <<>>
  /\ wire' = Tail(wire)
  /\ InvalidateAll(GetInvalidationKeys(Head(wire)), Mounted)
  /\ UNCHANGED <<content, socket, rooms, asks, drops, browserVars>>

\* The answer of the mutation: success invalidates what the hook names, and the
\* form, if it is still there, closes or stays.
AnswerArrives ==
  /\ request.phase \in {"ok", "refused"}
  /\ IF request.phase = "ok" THEN InvalidateAll(Forms[request.name].refreshes, Mounted)
     ELSE UNCHANGED entry
  /\ form' = IF form.name = request.name /\ request.phase \in Forms[form.name].closes
               THEN NoForm ELSE form
  /\ request' = NoRequest
  /\ UNCHANGED <<content, streamVars, page>>

\* The request or its answer is lost; the browser sees an error either way.
AnswerLost ==
  /\ Pending
  /\ form' = IF form.name = request.name /\ "refused" \in Forms[form.name].closes
               THEN NoForm ELSE form
  /\ request' = NoRequest
  /\ UNCHANGED <<content, entry, streamVars, page>>

StreamStep ==
  /\ SocketConnects \/ SocketDrops \/ HandleSubscribe \/ QueueDepthPoll
  /\ UNCHANGED <<content, entry, browserVars>>

-----------------------------------------------------------------------------
Next ==
  \/ \E p \in OpenPages : Navigate(p)
  \/ Focus
  \/ \E n \in OpenForms : \E a \in OpenActions \cup {"none"} : OpenForm(n, a)
  \/ Acknowledge \/ CloseForm \/ Submit
  \/ \E chance \in BOOLEAN : HandleRequest(chance)
  \/ \E f \in Families : ServerReads(f) \/ FetchArrives(f) \/ FetchLost(f)
  \/ \E to \in Moves : AutomationMoves(to)
  \/ \E type \in Entities : EntityMoves(type)
  \/ \E f \in Families : OtherBrowserWrites(f)
  \/ DeliverEvent \/ AnswerArrives \/ AnswerLost
  \/ StreamStep

Step(A) == A /\ UNCHANGED <<content, entry, browserVars>>

\* The socket reconnects for ever and its messages are delivered; the timer of
\* the queue depths fires every few seconds, and of the fetches it causes some
\* are answered before the next one.
Fairness ==
  /\ WF_vars(Step(SocketConnects)) /\ WF_vars(Step(HandleSubscribe))
  /\ WF_vars(DeliverEvent)
  /\ SF_vars(Step(QueueDepthPoll))
  /\ \A f \in Families : SF_vars(ServerReads(f)) /\ SF_vars(FetchArrives(f))

Spec == Init /\ [][Next]_vars /\ Fairness

-----------------------------------------------------------------------------
(* Properties.                                                             *)

\* A saved edit never replaces a version the operator did not see: when the
\* server accepts the EditTaskDialog's request, the task's row is the one the
\* form's fields were drawn from, however late the save and whatever the page
\* showed in between (EditTaskDialog.tsx's effect on [open, task], the version
\* buildUpdateInput sends, TasksService.update).
NoLostUpdate ==
  [][(request.name = "editTask" /\ request.phase = "sent" /\ request'.phase = "ok")
       => request.base = content["tasks"].version]_vars

\* Work in progress is cancelled only by an operator who said so: a cancel the
\* server accepts while the task is in development comes from a form whose box
\* was ticked, even when the page showed another status at any time
\* (ConfirmActionDialog's canConfirm, TaskActionBar's executeAction, guardCancel).
CancelledWorkWasAcknowledged ==
  [][(/\ request.action = "cancel" /\ request.phase = "sent" /\ request'.phase = "ok"
      /\ content["tasks"].status = "IN_DEVELOPMENT")
       => request.ticked]_vars

\* What the page offers is what the server accepts: a request about a task that
\* has not changed since its form was opened is never refused, with two
\* exceptions: a reopening waits for the last lease, and the order of the merge
\* queue, which the bar offers for a queued task, cannot be overridden at all
\* (STATUS_ACTIONS of action-definitions.ts against the guards and transitions
\* of the operator actions service).
CurrentRequestsAccepted ==
  [][(/\ request.phase = "sent" /\ request'.phase = "refused"
      /\ Forms[request.name].page = "task" /\ Forms[request.name].family = "tasks"
      /\ request.base = content["tasks"].version)
       => request.action \in {"reopen", "override_merge_order"}]_vars

\* Views converge: once the server's rows stop changing, a page stops showing
\* old tasks, whatever events were lost with the connection and however many
\* fetches failed (WebSocketProvider's subscriptions after every connect, the
\* queue-depth timer, the invalidation map).
ViewsConverge ==
  \A f \in Families \cap CHANNEL_INVALIDATION_MAP["queue"] :
     <>[](f \in Mounted => View(f) \in {NoContent, content[f]})
=============================================================================
