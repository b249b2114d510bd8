-------------------------- MODULE WebConsole_proofs --------------------------
(***************************************************************************)
(* Proofs about the browser and the control plane: what a page shows of    *)
(* the task is a version the task once had, so a form that was opened from *)
(* the present version still fits the task, and one that was not is told   *)
(* by its version.                                                         *)
(***************************************************************************)
EXTENDS WebConsole, TLAPS

Contents == [version : Nat, status : TaskStatuses \cup {"none"}]

Entries == [data : Contents, fetch : {"idle", "sent", "served"}, served : Contents,
            tries : Nat, stale : BOOLEAN]

OpenedForms == [name : OpenForms, action : OpenActions \cup {"none"}, base : Nat,
                ticked : BOOLEAN]

SentRequests == [name : OpenForms, action : OpenActions \cup {"none"}, seen : Nat,
                 ack : BOOLEAN, base : Nat, ticked : BOOLEAN, phase : {"sent"}]

TypeOK ==
  /\ content \in [Families -> Contents]
  /\ entry \in [Families -> Entries]
  /\ form \in OpenedForms \cup {NoForm}
  /\ \/ request \in SentRequests
     \/ request.phase \in {"none", "ok", "refused"}

Task == content["tasks"]

\* There is a task at all times.
TaskKept == Task.version > 0 /\ Task.status \in TaskStatuses

\* A version of the task, the present one or one it had.
Past(row) ==
  /\ row.version <= Task.version
  /\ row.version = Task.version => row = Task

\* What the cache holds of the task and what is on its way there are versions
\* it had, and the second is not the older one.
CacheSound ==
  LET e == entry["tasks"] IN
  /\ Past(e.data)
  /\ e.data.version > 0 => e.data.status \in TaskStatuses
  /\ e.fetch = "served" =>
       /\ Past(e.served) /\ e.served.version > 0 /\ e.served.status \in TaskStatuses
       /\ e.data.version <= e.served.version

TaskForm(n) == Forms[n].page = "task" /\ Forms[n].family = "tasks"

\* A form of the action bar whose version is the present one asks for what the
\* bar offers for the present status.
Fits(x) ==
  x.base = Task.version =>
    (Forms[x.name].method = "ACT" =>
       x.action \in Forms[x.name].actions \cap STATUS_ACTIONS[Task.status])

FormSound ==
  form # NoForm =>
    /\ Forms[form.name].method # "ACT" => form.action = "none"
    /\ TaskForm(form.name) => form.base <= View("tasks").version /\ Fits(form)
    /\ form.name = "editTask" => form.base = View("tasks").version

RequestSound ==
  request.phase = "sent" =>
    /\ Forms[request.name].method # "ACT" => request.action = "none"
    /\ request.ack => request.ticked
    /\ request.name = "editTask" => request.seen = request.base
    /\ TaskForm(request.name) =>
         /\ request.base <= Task.version /\ Fits(request)
         /\ (/\ request.base = Task.version /\ request.action = "cancel"
             /\ Task.status = "IN_DEVELOPMENT") => request.ack

ConsoleInv == TypeOK /\ TaskKept /\ CacheSound /\ FormSound /\ RequestSound

-----------------------------------------------------------------------------
(* The forms about a task.                                                 *)

FormNames == DOMAIN Forms

\* The forms whose requests are about the task, and what the proofs need of
\* the others.
LEMMA FormTable ==
  /\ \A n \in {"createTask", "batchCreate", "importTasks"} :
       n \in FormNames => /\ Forms[n].family = "tasks" /\ Forms[n].page = "tasks"
                         /\ Forms[n].method = "POST" /\ ~Forms[n].follows
  /\ /\ Forms["editTask"].family = "tasks" /\ Forms["editTask"].page = "task"
     /\ Forms["editTask"].method = "PUT" /\ Forms["editTask"].follows
     /\ Forms["editTask"].sends = {"version"}
  /\ \A n \in {"confirmAction", "reassignPool", "priority", "escalation", "queueItem",
               "resumeQueue"} :
       /\ Forms[n].family = "tasks" /\ Forms[n].page \in {"task", "mergeQueue"}
       /\ Forms[n].method = "ACT" /\ ~Forms[n].follows
       /\ Forms[n].sends = {"actorId", "reason"}
  /\ \A n \in FormNames \ {"createTask", "batchCreate", "importTasks", "editTask",
                           "confirmAction", "reassignPool", "priority", "escalation",
                           "queueItem", "resumeQueue"} :
       Forms[n].family # "tasks" /\ Forms[n].method \in {"POST", "PUT", "DELETE", "SWITCH"}
<1>1. /\ Forms["createTask"] = CreateTaskDialog /\ Forms["batchCreate"] = BatchCreateDialog
      /\ Forms["importTasks"] = ImportTasksDialog /\ Forms["editTask"] = EditTaskDialog
  BY DEF Forms
<1>2. /\ Forms["confirmAction"] = ConfirmActionDialog
      /\ Forms["reassignPool"] = ReassignPoolDialog
      /\ Forms["priority"] = PriorityChangeSelect
      /\ Forms["escalation"] = EscalationResolutionPanel
      /\ Forms["queueItem"] = QueueItemActions /\ Forms["resumeQueue"] = ResumeQueueButton
  BY DEF Forms
<1>3. /\ Forms["createPool"] = CreatePoolDialog /\ Forms["createProfile"] = CreateProfileDialog
      /\ Forms["createProject"] = CreateProjectDialog
      /\ Forms["createRepository"] = CreateRepositoryDialog
      /\ Forms["createPrompt"] = CreatePromptDialog
  BY DEF Forms
<1>4. /\ Forms["concurrency"] = ConcurrencyEditor /\ Forms["poolToggle"] = PoolToggle
      /\ Forms["poolsTab"] = PoolsTab /\ Forms["policiesTab"] = PoliciesTab
      /\ Forms["promptEditor"] = PromptEditor /\ Forms["promptDelete"] = PromptDelete
      /\ Forms["factorySwitch"] = FactorySwitch
  BY DEF Forms
<1>5. \A x \in {CreateTaskDialog, BatchCreateDialog, ImportTasksDialog} :
        x.family = "tasks" /\ x.page = "tasks" /\ x.method = "POST" /\ ~x.follows
  <2> DEFINE P(x) == x.family = "tasks" /\ x.page = "tasks" /\ x.method = "POST" /\ ~x.follows
  <2>1. P(CreateTaskDialog)   BY DEF CreateTaskDialog, Form
  <2>2. P(BatchCreateDialog)  BY DEF BatchCreateDialog, Form
  <2>3. P(ImportTasksDialog)  BY DEF ImportTasksDialog, Form
  <2> QED  BY <2>1, <2>2, <2>3
<1>6. /\ EditTaskDialog.family = "tasks" /\ EditTaskDialog.page = "task"
      /\ EditTaskDialog.method = "PUT" /\ EditTaskDialog.follows
      /\ EditTaskDialog.sends = {"version"}
  BY DEF EditTaskDialog, Form
<1>7. \A x \in {ConfirmActionDialog, ReassignPoolDialog, PriorityChangeSelect,
                EscalationResolutionPanel, QueueItemActions, ResumeQueueButton} :
        /\ x.family = "tasks" /\ x.page \in {"task", "mergeQueue"}
        /\ x.method = "ACT" /\ ~x.follows /\ x.sends = {"actorId", "reason"}
  <2> DEFINE P(x) == /\ x.family = "tasks" /\ x.page \in {"task", "mergeQueue"}
                     /\ x.method = "ACT" /\ ~x.follows /\ x.sends = {"actorId", "reason"}
  <2>1. P(ConfirmActionDialog)        BY DEF ConfirmActionDialog, ActionForm, Form
  <2>2. P(ReassignPoolDialog)         BY DEF ReassignPoolDialog, ActionForm, Form
  <2>3. P(PriorityChangeSelect)       BY DEF PriorityChangeSelect, ActionForm, Form
  <2>4. P(EscalationResolutionPanel)  BY DEF EscalationResolutionPanel, ActionForm, Form
  <2>5. P(QueueItemActions)           BY DEF QueueItemActions, ActionForm, Form
  <2>6. P(ResumeQueueButton)
    BY DEF ResumeQueueButton, QueueItemActions, ActionForm, Form
  <2> QED  BY <2>1, <2>2, <2>3, <2>4, <2>5, <2>6
<1>8. \A x \in {CreatePoolDialog, CreateProfileDialog, CreateProjectDialog,
                CreateRepositoryDialog, CreatePromptDialog} :
        x.family # "tasks" /\ x.method \in {"POST", "PUT", "DELETE", "SWITCH"}
  BY DEF CreatePoolDialog, CreateProfileDialog, CreateProjectDialog,
         CreateRepositoryDialog, CreatePromptDialog, Form
<1>9. \A x \in {ConcurrencyEditor, PoolToggle, PoolsTab, PoliciesTab, PromptEditor,
                PromptDelete, FactorySwitch} :
        x.family # "tasks" /\ x.method \in {"POST", "PUT", "DELETE", "SWITCH"}
  <2> DEFINE P(x) == x.family # "tasks" /\ x.method \in {"POST", "PUT", "DELETE", "SWITCH"}
  <2>1. P(ConcurrencyEditor)  BY DEF ConcurrencyEditor, Form
  <2>2. P(PoolToggle)         BY DEF PoolToggle, Form
  <2>3. P(PoolsTab)           BY DEF PoolsTab, Form
  <2>4. P(PoliciesTab)        BY DEF PoliciesTab, Form
  <2>5. P(PromptEditor)       BY DEF PromptEditor, Form
  <2>6. P(PromptDelete)       BY DEF PromptDelete, Form
  <2>7. P(FactorySwitch)      BY DEF FactorySwitch, Form
  <2> QED  BY <2>1, <2>2, <2>3, <2>4, <2>5, <2>6, <2>7
<1>10. FormNames =
         {"createTask", "batchCreate", "importTasks", "createPool", "createProfile",
          "createProject", "createRepository", "createPrompt", "editTask", "concurrency",
          "poolToggle", "poolsTab", "policiesTab", "promptEditor", "promptDelete",
          "factorySwitch", "confirmAction", "reassignPool", "priority", "escalation",
          "queueItem", "resumeQueue"}
  BY DEF FormNames, Forms
<1> HIDE DEF FormNames
<1> QED  BY <1>1, <1>2, <1>3, <1>4, <1>5, <1>6, <1>7, <1>8, <1>9, <1>10

LEMMA TaskForms ==
  ASSUME NEW n \in FormNames
  PROVE  /\ Forms[n].method = "ACT" => Forms[n].family = "tasks" /\ ~Forms[n].follows
                                      /\ Forms[n].sends = {"actorId", "reason"}
         /\ Forms[n].family = "tasks" => Forms[n].method \in {"POST", "PUT", "ACT"}
         /\ Forms[n].method \in {"POST", "PUT", "DELETE", "SWITCH", "ACT"}
         /\ (TaskForm(n) /\ Forms[n].method # "ACT") => n = "editTask"
         /\ (Forms[n].family = "tasks" /\ Forms[n].follows) => n = "editTask"
         /\ n = "editTask" => /\ TaskForm(n) /\ Forms[n].method = "PUT" /\ Forms[n].follows
                              /\ Forms[n].sends = {"version"}
  BY FormTable DEF TaskForm

-----------------------------------------------------------------------------
(* What the action bar offers is what the operator actions service accepts, *)
(* but for the two actions that ask for more than the task's status.        *)

LEMMA Unchecked ==
  ASSUME NEW s \in TaskStatuses, NEW a \in STATUS_ACTIONS[s] \cap DOMAIN MetadataActions
  PROVE  s \in MetadataActions[a]
  BY DEF STATUS_ACTIONS, MetadataActions, TaskStatuses, TerminalStates, ResolutionActions

LEMMA OfferedIsAccepted ==
  ASSUME NEW s \in TaskStatuses, NEW a \in STATUS_ACTIONS[s],
         a \notin {"reopen", "override_merge_order"},
         NEW ack \in BOOLEAN, (a = "cancel" /\ s = "IN_DEVELOPMENT") => ack,
         NEW chance \in BOOLEAN
  PROVE  Accepts(a, s, ack, chance)
<1>1. CASE a \in DOMAIN MetadataActions
  BY <1>1, Unchecked DEF Accepts
<1>2. CASE a \notin DOMAIN MetadataActions
  <2>1. a \in {"pause", "requeue", "force_unblock", "cancel", "rerun_review"}
               \cup ResolutionActions
    BY <1>2 DEF STATUS_ACTIONS, MetadataActions, TaskStatuses
  <2>2. CASE a = "pause"
    BY <1>2, <2>2 DEF Accepts, STATUS_ACTIONS, OperatorActions, Transition, TaskStatuses,
       ValidateTransition, InterventionGuard, WildcardEscalationSources, TerminalStates,
       ResolutionActions
  <2>3. CASE a = "requeue"
    BY <1>2, <2>3 DEF Accepts, STATUS_ACTIONS, OperatorActions, Transition, TaskStatuses,
       ValidateTransition, DevelopmentGuard, ResolutionActions
  <2>4. CASE a = "force_unblock"
    BY <1>2, <2>4 DEF Accepts, STATUS_ACTIONS, OperatorActions, Transition, TaskStatuses,
       ValidateTransition, ReadinessGuard, ResolutionActions
  <2>5. CASE a = "cancel"
    BY <1>2, <2>5 DEF Accepts, STATUS_ACTIONS, OperatorActions, Transition, TaskStatuses,
       ValidateTransition, InterventionGuard, WildcardCancellationSources, TerminalStates,
       ResolutionActions, GuardCancel
  <2>6. CASE a = "rerun_review"
    BY <1>2, <2>6 DEF Accepts, STATUS_ACTIONS, OperatorActions, Override, TaskStatuses,
       ResolutionActions
  <2>7. CASE a \in ResolutionActions
    BY <1>2, <2>7 DEF Accepts, STATUS_ACTIONS, OperatorActions, Transition, TaskStatuses,
       ValidateTransition, InterventionGuard, WildcardCancellationSources, TerminalStates,
       ResolutionActions
  <2> QED  BY <2>1, <2>2, <2>3, <2>4, <2>5, <2>6, <2>7
<1> QED  BY <1>1, <1>2

-----------------------------------------------------------------------------
(* The steps, by what they do to the task and to the cache.                *)

\* The row of the task stays, or another version takes its place.
TaskAdvances ==
  /\ content' \in [Families -> Contents]
  /\ \/ content'["tasks"] = Task
     \/ content'["tasks"].version > Task.version /\ content'["tasks"].status \in TaskStatuses

\* An entry is fetched anew, or left alone, with the data it shows.
Refetched(e, x) ==
  /\ x \in Entries /\ x.data = e.data
  /\ x.fetch = "served" => e.fetch = "served" /\ x.served = e.served

LEMMA NoContentType == NoContent \in Contents /\ NoContent.version = 0
  BY DEF NoContent, Content, Contents

LEMMA RefetchedBy ==
  ASSUME NEW e \in Entries, NEW b \in BOOLEAN
  PROVE  /\ Refetched(e, e) /\ Refetched(e, StartFetch(e)) /\ Refetched(e, FetchIfStale(e, b))
         /\ Refetched(e, Invalidate(e, b)) /\ Refetched(e, AfterFailure(e))
<1>1. Refetched(e, e)
  BY DEF Refetched
<1>2. \A x \in Entries : StartFetch(x) \in Entries /\ StartFetch(x).data = x.data
                         /\ StartFetch(x).fetch = "sent"
  BY NoContentType DEF StartFetch, Entries
<1>3. Refetched(e, StartFetch(e))
  BY <1>2 DEF Refetched
<1>4. Refetched(e, FetchIfStale(e, b))
  BY <1>1, <1>3 DEF FetchIfStale
<1>5. Refetched(e, Invalidate(e, b))
  <2> DEFINE x == [e EXCEPT !.stale = TRUE]
  <2>1. x \in Entries /\ x.data = e.data /\ x.fetch = e.fetch /\ x.served = e.served
    BY DEF Entries
  <2> HIDE DEF x
  <2>2. Refetched(e, x) /\ Refetched(e, StartFetch(x))
    BY <1>2, <2>1 DEF Refetched
  <2> QED  BY <2>2 DEF Invalidate, x
<1>6. Refetched(e, AfterFailure(e))
  <2> DEFINE x == [e EXCEPT !.fetch = "sent", !.served = NoContent, !.tries = e.tries + 1]
             y == [e EXCEPT !.fetch = "idle", !.served = NoContent, !.tries = 0, !.stale = TRUE]
  <2>1. x \in Entries /\ x.data = e.data /\ x.fetch = "sent"
    <3>1. e.tries + 1 \in Nat  BY DEF Entries
    <3> QED  BY <3>1, NoContentType DEF Entries
  <2>2. y \in Entries /\ y.data = e.data /\ y.fetch = "idle"
    BY NoContentType DEF Entries
  <2>3. AfterFailure(e) = x \/ AfterFailure(e) = y
    BY DEF AfterFailure
  <2> HIDE DEF x, y
  <2> QED  BY <2>1, <2>2, <2>3 DEF Refetched
<1> QED  BY <1>1, <1>3, <1>4, <1>5, <1>6

LEMMA ContentStep ==
  ASSUME ConsoleInv, TaskAdvances, UNCHANGED <<entry, form>>,
         request' = request \/ request'.phase \in {"ok", "refused"}
  PROVE  ConsoleInv'
<1> USE ConsoleAssumption
<1>0. TypeOK /\ TaskKept /\ CacheSound /\ FormSound /\ RequestSound
  BY DEF ConsoleInv
<1>1. Task \in Contents /\ Task' \in Contents /\ Task' = content'["tasks"]
  BY <1>0 DEF TypeOK, Task, TaskAdvances
<1>2. TypeOK' /\ TaskKept'
  <2>1. TaskKept'
    BY <1>0, <1>1 DEF TaskKept, TaskAdvances, Contents
  <2>2. request' \in SentRequests \/ request'.phase \in {"none", "ok", "refused"}
    BY <1>0 DEF TypeOK
  <2> QED  BY <1>0, <2>1, <2>2 DEF TypeOK, TaskAdvances
<1>3. ASSUME NEW row \in Contents, Past(row)
      PROVE  row.version <= Task'.version /\ (row.version = Task'.version => row = Task')
  BY <1>1, <1>3 DEF Past, TaskAdvances, Contents
<1>4. entry["tasks"] \in Entries
  BY <1>0 DEF TypeOK
<1>5. CacheSound'
  BY <1>0, <1>3, <1>4 DEF CacheSound, Past, Entries
<1>6. ASSUME NEW b \in Nat, b <= Task.version
      PROVE  b <= Task'.version /\ (b = Task'.version => Task' = Task)
  BY <1>1, <1>6 DEF TaskAdvances, Contents
<1>7. FormSound'
  <2>1. SUFFICES ASSUME form # NoForm  PROVE FormSound'
    BY DEF FormSound
  <2>2. form.base \in Nat /\ View("tasks") \in Contents /\ View("tasks")' = View("tasks")
    BY <1>0, <1>4, <2>1 DEF TypeOK, OpenedForms, Entries, View
  <2>3. TaskForm(form.name) => form.base <= Task.version
    BY <1>0, <1>1, <2>1, <2>2 DEF FormSound, CacheSound, Past, View, Contents
  <2> QED  BY <1>0, <1>6, <2>1, <2>2, <2>3 DEF FormSound, Fits
<1>8. RequestSound'
  <2>1. CASE request' = request /\ request.phase = "sent"
    <3>1. request.base \in Nat
      BY <1>0, <2>1 DEF TypeOK, SentRequests
    <3>2. TaskForm(request.name) => /\ request.base <= Task.version
                                    /\ request.base <= Task'.version
                                    /\ request.base = Task'.version => Task' = Task
      BY <1>0, <1>6, <2>1, <3>1 DEF RequestSound
    <3> QED  BY <1>0, <2>1, <3>2 DEF RequestSound, Fits
  <2>2. CASE request'.phase # "sent"
    BY <2>2 DEF RequestSound
  <2> QED  BY <2>1, <2>2
<1> QED  BY <1>2, <1>5, <1>7, <1>8 DEF ConsoleInv

LEMMA CacheStep ==
  ASSUME ConsoleInv, UNCHANGED content, entry' \in [Families -> Entries],
         \A f \in Families : Refetched(entry[f], entry'[f]),
         form' = form \/ form' = NoForm, request' = request \/ request' = NoRequest
  PROVE  ConsoleInv'
<1> USE ConsoleAssumption
<1>0. TypeOK /\ TaskKept /\ CacheSound /\ FormSound /\ RequestSound
  BY DEF ConsoleInv
<1>1. NoRequest.phase = "none"
  BY DEF NoRequest
<1>2. TypeOK' /\ TaskKept' /\ Task' = Task
  BY <1>0, <1>1 DEF TypeOK, TaskKept, Task
<1>3. CacheSound' /\ View("tasks")' = View("tasks")
  <2>1. Refetched(entry["tasks"], entry'["tasks"])
    OBVIOUS
  <2> QED  BY <1>0, <1>2, <2>1 DEF CacheSound, Past, Refetched, View
<1>4. FormSound'
  BY <1>0, <1>2, <1>3 DEF FormSound, Fits
<1>5. RequestSound'
  BY <1>0, <1>1, <1>2 DEF RequestSound, Fits
<1> QED  BY <1>2, <1>3, <1>4, <1>5 DEF ConsoleInv

-----------------------------------------------------------------------------
(* One lemma for each action.                                              *)

LEMMA InitSound == Init => ConsoleInv
<1> SUFFICES ASSUME Init  PROVE ConsoleInv
  OBVIOUS
<1> USE ConsoleAssumption
<1>1. content \in [Families -> Contents]
  BY DEF Init, ApiInit, Content, Contents
<1>2. TaskKept
  BY DEF Init, ApiInit, Content, TaskKept, Task
<1>3. NewEntry \in Entries /\ NewEntry.data = NoContent /\ NewEntry.fetch = "idle"
  BY NoContentType DEF NewEntry, Entries
<1>4. entry \in [Families -> Entries] /\ entry["tasks"] = NewEntry
  BY <1>3 DEF Init, CacheInit
<1>5. CacheSound
  BY <1>1, <1>2, <1>3, <1>4, NoContentType DEF CacheSound, Past, TaskKept, Task, Contents
<1>6. FormSound /\ RequestSound
  BY DEF Init, FormSound, RequestSound, NoRequest
<1>7. TypeOK
  BY <1>1, <1>4 DEF Init, TypeOK, NoRequest
<1> QED  BY <1>2, <1>5, <1>6, <1>7 DEF ConsoleInv

LEMMA FetchMountedSound ==
  ASSUME TypeOK, NEW families, FetchMounted(families)
  PROVE  entry' \in [Families -> Entries] /\ \A f \in Families : Refetched(entry[f], entry'[f])
<1>1. PICK b \in BOOLEAN :
        entry' = [f \in Families |-> IF f \in families THEN FetchIfStale(entry[f], b)
                                     ELSE entry[f]]
  BY DEF FetchMounted
<1>2. \A f \in Families : entry[f] \in Entries
  BY DEF TypeOK
<1>3. \A f \in Families : Refetched(entry[f], entry'[f])
  BY <1>1, <1>2, RefetchedBy
<1> QED  BY <1>1, <1>3 DEF Refetched

LEMMA InvalidateAllSound ==
  ASSUME TypeOK, NEW families, NEW mounted, InvalidateAll(families, mounted)
  PROVE  entry' \in [Families -> Entries] /\ \A f \in Families : Refetched(entry[f], entry'[f])
<1>1. entry' = [f \in Families |-> IF f \in families THEN Invalidate(entry[f], f \in mounted)
                                   ELSE entry[f]]
  BY DEF InvalidateAll
<1>2. \A f \in Families : entry[f] \in Entries
  BY DEF TypeOK
<1>3. \A f \in Families : (f \in mounted) \in BOOLEAN
  OBVIOUS
<1>4. \A f \in Families : Refetched(entry[f], entry'[f])
  BY <1>1, <1>2, <1>3, RefetchedBy
<1> QED  BY <1>1, <1>4 DEF Refetched

LEMMA SameEntries ==
  ASSUME TypeOK, UNCHANGED entry
  PROVE  entry' \in [Families -> Entries] /\ \A f \in Families : Refetched(entry[f], entry'[f])
  BY RefetchedBy DEF TypeOK

LEMMA CacheActions ==
  ASSUME ConsoleInv,
         \/ \E p \in OpenPages : Navigate(p)
         \/ Focus \/ CloseForm \/ StreamStep \/ DeliverEvent \/ AnswerArrives \/ AnswerLost
         \/ \E f \in Families : FetchLost(f)
  PROVE  ConsoleInv'
<1>0. TypeOK
  BY DEF ConsoleInv
<1>1. CASE \E p \in OpenPages : Navigate(p)
  BY <1>0, <1>1, FetchMountedSound, CacheStep DEF Navigate
<1>2. CASE Focus
  BY <1>0, <1>2, FetchMountedSound, CacheStep DEF Focus, browserVars
<1>3. CASE CloseForm \/ StreamStep \/ AnswerLost
  BY <1>0, <1>3, SameEntries, CacheStep DEF CloseForm, StreamStep, AnswerLost, browserVars
<1>4. CASE DeliverEvent
  BY <1>0, <1>4, InvalidateAllSound, CacheStep DEF DeliverEvent, browserVars
<1>5. CASE AnswerArrives
  BY <1>0, <1>5, InvalidateAllSound, SameEntries, CacheStep DEF AnswerArrives
<1>6. CASE \E f \in Families : FetchLost(f)
  <2>1. PICK f \in Families : FetchLost(f)
    BY <1>6
  <2>2. \A g \in Families : entry[g] \in Entries /\ entry'[g] \in {entry[g], AfterFailure(entry[g])}
    BY <1>0, <2>1 DEF TypeOK, FetchLost, FetchFails
  <2>3. \A g \in Families : Refetched(entry[g], entry'[g])
    BY <2>2, RefetchedBy
  <2>4. entry' \in [Families -> Entries]
    BY <1>0, <2>1, <2>3 DEF TypeOK, FetchLost, FetchFails, Refetched
  <2> QED  BY <2>1, <2>3, <2>4, CacheStep DEF FetchLost, browserVars
<1> QED  BY <1>1, <1>2, <1>3, <1>4, <1>5, <1>6

\* What a form, an open one or the one behind a request, may count on.
LEMMA PresentView ==
  ASSUME TypeOK, TaskKept, CacheSound
  PROVE  /\ View("tasks") \in Contents /\ Task \in Contents
         /\ View("tasks").version <= Task.version
         /\ \A b \in Nat : (b <= View("tasks").version /\ b = Task.version)
                              => View("tasks") = Task
<1>1. View("tasks") \in Contents /\ Task \in Contents
  BY ConsoleAssumption DEF TypeOK, View, Task, Entries
<1>2. Past(View("tasks"))
  BY DEF CacheSound, View
<1> QED  BY <1>1, <1>2 DEF Past, Contents

LEMMA OpenFormSound ==
  ASSUME ConsoleInv, NEW n \in OpenForms, NEW a \in OpenActions \cup {"none"}, OpenForm(n, a)
  PROVE  ConsoleInv'
<1> USE ConsoleAssumption
<1>0. TypeOK /\ TaskKept /\ CacheSound /\ FormSound /\ RequestSound
  BY DEF ConsoleInv
<1>1. n \in FormNames /\ Forms[n].family \in Families
  BY DEF FormNames
<1>2. View(Forms[n].family).version \in Nat
  BY <1>0, <1>1 DEF TypeOK, Entries, Contents, View
<1>3. /\ form'.name = n /\ form'.action = a /\ form'.base = View(Forms[n].family).version
      /\ form' \in OpenedForms
  <2>1. form' = [name |-> n, action |-> a, base |-> View(Forms[n].family).version,
                 ticked |-> FALSE]
    BY DEF OpenForm, NoForm
  <2> QED  BY <1>2, <2>1 DEF OpenedForms
<1>4. TypeOK' /\ TaskKept' /\ CacheSound' /\ RequestSound'
  BY <1>0, <1>3 DEF OpenForm, TypeOK, TaskKept, Task, CacheSound, Past, RequestSound, Fits
<1>5. View("tasks")' = View("tasks") /\ Task' = Task
  BY DEF OpenForm, View, Task
<1>6. Forms[n].method # "ACT" => a = "none"
  BY DEF OpenForm, Offers
<1>7. ASSUME TaskForm(n), View("tasks").version = Task.version, Forms[n].method = "ACT"
      PROVE  a \in Forms[n].actions \cap STATUS_ACTIONS[Task.status]
  <2>1. View("tasks") = Task
    BY <1>0, <1>7, PresentView DEF Contents
  <2> QED  BY <1>7, <2>1 DEF OpenForm, Offers, TaskForm
<1>8. (n = "editTask" \/ TaskForm(n)) => Forms[n].family = "tasks"
  BY <1>1, TaskForms DEF TaskForm
<1>9. FormSound'
  BY <1>2, <1>3, <1>5, <1>6, <1>7, <1>8 DEF FormSound, Fits
<1> QED  BY <1>4, <1>9 DEF ConsoleInv

LEMMA AcknowledgeSound ==
  ASSUME ConsoleInv, Acknowledge
  PROVE  ConsoleInv'
<1>0. TypeOK /\ TaskKept /\ CacheSound /\ FormSound /\ RequestSound
  BY DEF ConsoleInv
<1>1. /\ form \in OpenedForms /\ form' \in OpenedForms /\ form'.name = form.name
      /\ form'.action = form.action /\ form'.base = form.base
  BY <1>0 DEF Acknowledge, TypeOK, OpenedForms
<1>2. TypeOK' /\ TaskKept' /\ CacheSound' /\ RequestSound'
  BY <1>0, <1>1 DEF Acknowledge, TypeOK, TaskKept, Task, CacheSound, Past, RequestSound, Fits
<1>3. View("tasks")' = View("tasks") /\ Task' = Task
  BY DEF Acknowledge, View, Task
<1>4. FormSound'
  BY <1>0, <1>1, <1>3 DEF FormSound, Fits, Acknowledge
<1> QED  BY <1>2, <1>4 DEF ConsoleInv

LEMMA SubmitSound ==
  ASSUME ConsoleInv, Submit
  PROVE  ConsoleInv'
<1> USE ConsoleAssumption
<1>0. TypeOK /\ TaskKept /\ CacheSound /\ FormSound /\ RequestSound
  BY DEF ConsoleInv
<1>1. form \in OpenedForms /\ form # NoForm
  BY <1>0 DEF Submit, TypeOK
<1>2. form.name \in FormNames /\ Forms[form.name].family \in Families
  BY <1>1 DEF FormNames, OpenedForms
<1>3. View(Forms[form.name].family).version \in Nat
  BY <1>0, <1>2 DEF TypeOK, Entries, Contents, View
<1>4. ShowAcknowledgeInProgress \in BOOLEAN
  BY DEF ShowAcknowledgeInProgress
<1>5. request' \in SentRequests
  BY <1>1, <1>3, <1>4 DEF Submit, SentRequests, OpenedForms
<1>6. TypeOK' /\ TaskKept' /\ CacheSound' /\ FormSound' /\ Task' = Task
  BY <1>0, <1>5 DEF Submit, TypeOK, TaskKept, Task, CacheSound, Past, FormSound, Fits, View
<1>7. /\ request'.name = form.name /\ request'.action = form.action
      /\ request'.base = form.base /\ request'.ticked = form.ticked
      /\ request'.ack = ShowAcknowledgeInProgress
      /\ request'.seen = IF Forms[form.name].method = "PUT"
                           THEN View(Forms[form.name].family).version ELSE 0
  BY DEF Submit
<1>8. request'.ack => request'.ticked
  BY <1>7 DEF Submit
<1>9. form.name = "editTask" => request'.seen = request'.base
  BY <1>0, <1>1, <1>2, <1>7, TaskForms DEF FormSound, TaskForm
<1>10. ASSUME TaskForm(form.name)
       PROVE  /\ form.base <= Task.version /\ Fits(form)
              /\ (/\ form.base = Task.version /\ form.action = "cancel"
                  /\ Task.status = "IN_DEVELOPMENT") => ShowAcknowledgeInProgress
  <2>1. form.base \in Nat /\ form.base <= View("tasks").version /\ Fits(form)
    BY <1>0, <1>1, <1>10 DEF FormSound, OpenedForms
  <2>2. form.base <= Task.version /\ (form.base = Task.version => View("tasks") = Task)
    BY <1>0, <2>1, PresentView DEF Contents
  <2> QED  BY <2>1, <2>2 DEF ShowAcknowledgeInProgress
<1>11. RequestSound'
  BY <1>0, <1>1, <1>6, <1>7, <1>8, <1>9, <1>10 DEF RequestSound, FormSound, Fits
<1> QED  BY <1>6, <1>11 DEF ConsoleInv

LEMMA ServerReadsSound ==
  ASSUME ConsoleInv, NEW f \in Families, ServerReads(f)
  PROVE  ConsoleInv'
<1> USE ConsoleAssumption
<1>0. TypeOK /\ TaskKept /\ CacheSound /\ FormSound /\ RequestSound
  BY DEF ConsoleInv
<1>1. /\ entry[f] \in Entries /\ content[f] \in Contents
      /\ entry' = [entry EXCEPT ![f] =
                     [entry[f] EXCEPT !.fetch = "served", !.served = content[f]]]
  BY <1>0 DEF TypeOK, ServerReads
<1> DEFINE x == [entry[f] EXCEPT !.fetch = "served", !.served = content[f]]
<1>2. x \in Entries /\ x.data = entry[f].data /\ x.served = content[f]
  BY <1>1 DEF Entries
<1> HIDE DEF x
<1>3. entry' = [entry EXCEPT ![f] = x]
  BY <1>1 DEF x
<1>4. entry' \in [Families -> Entries] /\ View("tasks")' = View("tasks") /\ Task' = Task
  <2>1. entry' \in [Families -> Entries] /\ Task' = Task
    <3>1. Task' = Task
      BY DEF Task, ServerReads
    <3> QED  BY <1>0, <1>2, <1>3, <3>1 DEF TypeOK
  <2>2. CASE f = "tasks"
    <3>1. entry'["tasks"] = x
      BY <1>0, <1>3, <2>2 DEF TypeOK
    <3> QED  BY <1>2, <2>1, <2>2, <3>1 DEF View
  <2>3. CASE f # "tasks"
    <3>1. entry'["tasks"] = entry["tasks"]
      BY <1>0, <1>3, <2>3 DEF TypeOK
    <3> QED  BY <2>1, <3>1 DEF View
  <2> QED  BY <2>2, <2>3
<1>5. TypeOK' /\ TaskKept' /\ FormSound' /\ RequestSound'
  BY <1>0, <1>4 DEF ServerReads, browserVars, TypeOK, TaskKept, FormSound, RequestSound, Fits
<1>6. CacheSound'
  <2>1. CASE f = "tasks"
    <3>1. entry'["tasks"] = x /\ x.served = Task /\ Task \in Contents
      BY <1>0, <1>2, <1>3, <2>1 DEF TypeOK, Task
    <3> QED  BY <1>0, <1>2, <1>4, <2>1, <3>1 DEF CacheSound, Past, TaskKept, Contents
  <2>2. CASE f # "tasks"
    <3>1. entry'["tasks"] = entry["tasks"]
      BY <1>0, <1>3, <2>2 DEF TypeOK
    <3> QED  BY <1>0, <1>4, <3>1 DEF CacheSound, Past
  <2> QED  BY <2>1, <2>2
<1> QED  BY <1>5, <1>6 DEF ConsoleInv

LEMMA FetchArrivesSound ==
  ASSUME ConsoleInv, NEW f \in Families, FetchArrives(f)
  PROVE  ConsoleInv'
<1> USE ConsoleAssumption
<1>0. TypeOK /\ TaskKept /\ CacheSound /\ FormSound /\ RequestSound
  BY DEF ConsoleInv
<1> DEFINE row == entry[f].served
           x == [NewEntry EXCEPT !.data = row]
<1>1. entry[f].fetch = "served" /\ row \in Contents /\ entry' = [entry EXCEPT ![f] = x]
  BY <1>0 DEF FetchArrives, FetchSucceeds, TypeOK, Entries
<1>2. x \in Entries /\ x.data = row /\ x.fetch = "idle"
  BY <1>1, NoContentType DEF NewEntry, Entries
<1> HIDE DEF x
<1>3. entry' \in [Families -> Entries] /\ Task' = Task
  BY <1>0, <1>1, <1>2 DEF TypeOK, Task, FetchArrives
<1>4. request' = request /\ TypeOK' /\ TaskKept' /\ RequestSound'
  <2>1. form' \in OpenedForms \cup {NoForm}
    BY <1>0, <1>1 DEF FetchArrives, FormAfter, TypeOK, OpenedForms, Contents
  <2> QED  BY <1>0, <1>3, <2>1 DEF FetchArrives, TypeOK, TaskKept, RequestSound, Fits
<1>5. form' # NoForm => form # NoForm /\ form \in OpenedForms /\ form.name \in FormNames
  BY <1>0, ConsoleAssumption
     DEF FetchArrives, FormAfter, TypeOK, OpenedForms, FormNames
<1>6. ASSUME form' # NoForm
      PROVE  /\ form'.name = form.name /\ form'.action = form.action
             /\ IF Forms[form.name].follows /\ Forms[form.name].family = f
                  THEN form'.base = row.version ELSE form'.base = form.base
  BY <1>5, <1>6 DEF FetchArrives, FormAfter, OpenedForms
<1>7. CASE f = "tasks"
  <2>1. View("tasks")' = row /\ entry'["tasks"] = x
    BY <1>0, <1>1, <1>2, <1>7 DEF TypeOK, View
  <2>2. /\ Past(row) /\ row.version > 0 /\ row.status \in TaskStatuses
        /\ View("tasks").version <= row.version
    BY <1>0, <1>1, <1>7 DEF CacheSound, View
  <2>3. CacheSound'
    BY <1>2, <1>3, <2>1, <2>2 DEF CacheSound, Past
  <2>4. ASSUME form' # NoForm, Forms[form.name].follows, Forms[form.name].family = "tasks"
        PROVE  FormSound'
    <3>1. form.name = "editTask" /\ Forms[form.name].method = "PUT" /\ form.action = "none"
      BY <1>0, <1>5, <2>4, TaskForms DEF FormSound
    <3> QED  BY <1>1, <1>6, <1>7, <2>1, <2>4, <3>1 DEF FormSound, Fits, Contents
  <2>5. ASSUME form' # NoForm, ~(Forms[form.name].follows /\ Forms[form.name].family = "tasks")
        PROVE  FormSound'
    <3>1. form.name # "editTask"
      BY <1>5, <2>5, TaskForms DEF TaskForm
    <3>2. form.base \in Nat /\ View("tasks").version \in Nat /\ row.version \in Nat
      BY <1>0, <1>1, <1>5, <2>5, PresentView DEF OpenedForms, Contents
    <3>3. TaskForm(form.name) => form.base <= row.version
      BY <1>0, <1>5, <2>2, <2>5, <3>2 DEF FormSound
    <3> QED  BY <1>0, <1>3, <1>5, <1>6, <1>7, <2>1, <2>5, <3>1, <3>3 DEF FormSound, Fits
  <2> QED  BY <1>4, <2>3, <2>4, <2>5 DEF ConsoleInv, FormSound
<1>8. CASE f # "tasks"
  <2>1. View("tasks")' = View("tasks") /\ entry'["tasks"] = entry["tasks"]
    BY <1>0, <1>1, <1>8 DEF TypeOK, View
  <2>2. CacheSound'
    BY <1>0, <1>3, <2>1 DEF CacheSound, Past
  <2>3. ASSUME form' # NoForm  PROVE FormSound'
    <3>1. (TaskForm(form.name) \/ form.name = "editTask") => Forms[form.name].family = "tasks"
      BY <1>5, <2>3, TaskForms DEF TaskForm
    <3>2. (TaskForm(form.name) \/ form.name = "editTask") => form'.base = form.base
      BY <1>6, <1>8, <2>3, <3>1
    <3> QED  BY <1>0, <1>3, <1>5, <1>6, <2>1, <2>3, <3>2 DEF FormSound, Fits
  <2> QED  BY <1>4, <2>2, <2>3 DEF ConsoleInv, FormSound
<1> QED  BY <1>7, <1>8

LEMMA WrittenRow ==
  ASSUME NEW c \in Contents, NEW to \in TaskStatuses \cup {"none"}
  PROVE  /\ Written(c) \in Contents /\ Written(c).version = c.version + 1
         /\ Written(c).status = c.status
         /\ Moved(c, to) \in Contents /\ Moved(c, to).version = c.version + 1
         /\ Moved(c, to).status = to
<1>1. /\ Written(c) \in Contents /\ Written(c).version = c.version + 1
      /\ Written(c).status = c.status
  BY DEF Written, Contents
<1> DEFINE w == Written(c)
<1> HIDE DEF w
<1>2. w \in Contents /\ w.version = c.version + 1 /\ w.status = c.status
  BY <1>1 DEF w
<1>3. Moved(c, to) = [w EXCEPT !.status = to]
  BY DEF Moved, w
<1>4. /\ Moved(c, to) \in Contents /\ Moved(c, to).version = c.version + 1
      /\ Moved(c, to).status = to
  BY <1>2, <1>3 DEF Contents
<1> QED  BY <1>1, <1>4

LEMMA ActionTargets == \A a \in DOMAIN OperatorActions : OperatorActions[a].to \in TaskStatuses
  BY DEF OperatorActions, Transition, Override, TaskStatuses

\* The row a family is left with, and for the task that its version grows.
Advanced(f, row) ==
  /\ row \in Contents
  /\ f = "tasks" => \/ row = Task
                    \/ row.version > Task.version /\ row.status \in TaskStatuses

LEMMA SameRow ==
  ASSUME TypeOK, NEW f \in Families
  PROVE  Advanced(f, content[f])
  BY DEF Advanced, Task, TypeOK

LEMMA WrittenAdvances ==
  ASSUME TypeOK, TaskKept, NEW f \in Families
  PROVE  Advanced(f, Written(content[f]))
<1>1. content[f] \in Contents
  BY DEF TypeOK
<1>2. /\ Written(content[f]) \in Contents
      /\ Written(content[f]).version = content[f].version + 1
      /\ Written(content[f]).status = content[f].status
  BY <1>1, WrittenRow
<1>3. f = "tasks" => /\ Written(content[f]).version > Task.version
                     /\ Written(content[f]).status \in TaskStatuses
  BY <1>1, <1>2 DEF Task, TaskKept, Contents
<1> QED  BY <1>2, <1>3 DEF Advanced

LEMMA RowAdvances ==
  ASSUME TypeOK, NEW f \in Families, NEW row, Advanced(f, row),
         content' = [content EXCEPT ![f] = row]
  PROVE  TaskAdvances
<1>1. content' \in [Families -> Contents]
  BY DEF TypeOK, Advanced
<1>2. content'["tasks"] = IF f = "tasks" THEN row ELSE Task
  BY ConsoleAssumption DEF TypeOK, Task
<1> QED  BY <1>1, <1>2 DEF Advanced, TaskAdvances

LEMMA AnswerRow ==
  ASSUME TypeOK, TaskKept, request.phase = "sent", NEW chance \in BOOLEAN
  PROVE  /\ Answer(chance).outcome \in {"ok", "refused"}
         /\ Forms[request.name].family \in Families
         /\ Advanced(Forms[request.name].family, Answer(chance).row)
<1> USE ConsoleAssumption
<1> DEFINE f == Forms[request.name].family
           m == Forms[request.name].method
           A(r) == r.outcome \in {"ok", "refused"} /\ Advanced(f, r.row)
<1>1. request \in SentRequests /\ request.name \in FormNames /\ f \in Families
  BY DEF TypeOK, SentRequests, FormNames
<1>2. /\ m \in {"POST", "PUT", "DELETE", "SWITCH", "ACT"}
      /\ m = "ACT" => f = "tasks"
      /\ f = "tasks" => m \in {"POST", "PUT", "ACT"}
  BY <1>1, TaskForms
<1> HIDE DEF f, m
<1>3. content[f] \in Contents /\ Advanced(f, content[f]) /\ Advanced(f, Written(content[f]))
  BY <1>1, SameRow, WrittenAdvances DEF TypeOK
<1>4. A(PostRow(f, chance))
  <2>1. f # "tasks" => Advanced(f, Moved(content[f], "none"))
    BY <1>3, WrittenRow DEF Advanced
  <2>2. f = "tasks" => content[f].version > 0
    BY DEF TaskKept, Task
  <2> QED  BY <1>3, <2>1, <2>2 DEF PostRow
<1>5. A(PutRow(f, request.seen))
  BY <1>3 DEF PutRow
<1>6. f # "tasks" => A(DeleteRow(f, chance))
  BY <1>3, NoContentType DEF DeleteRow, Advanced
<1>7. m = "ACT" => Advanced(f, Applied(request.action, content[f]))
  <2>1. SUFFICES ASSUME f = "tasks"  PROVE Advanced(f, Applied(request.action, content[f]))
    BY <1>2
  <2>2. \A to \in TaskStatuses : Advanced(f, Moved(content[f], to))
    BY <1>3, <2>1, WrittenRow DEF Advanced, Task, Contents
  <2> QED  BY <1>3, <2>2, ActionTargets DEF Applied
<1>8. Answer(chance) =
        IF ~ZodValidationPipe(f, m, Forms[request.name].sends)
          THEN [outcome |-> "refused", row |-> content[f]]
          ELSE CASE m = "POST"   -> PostRow(f, chance)
                 [] m = "PUT"    -> PutRow(f, request.seen)
                 [] m = "DELETE" -> DeleteRow(f, chance)
                 [] m = "SWITCH" -> [outcome |-> "ok", row |-> Written(content[f])]
                 [] m = "ACT"    -> IF Accepts(request.action, content[f].status, request.ack,
                                               chance)
                                      THEN [outcome |-> "ok",
                                            row |-> Applied(request.action, content[f])]
                                      ELSE [outcome |-> "refused", row |-> content[f]]
  BY DEF Answer, f, m
<1>9. CASE ~ZodValidationPipe(f, m, Forms[request.name].sends)
  BY <1>1, <1>3, <1>8, <1>9 DEF f
<1>10. CASE ZodValidationPipe(f, m, Forms[request.name].sends)
  <2>1. CASE m = "POST"    BY <1>1, <1>4, <1>8, <1>10, <2>1 DEF f
  <2>2. CASE m = "PUT"     BY <1>1, <1>5, <1>8, <1>10, <2>2 DEF f
  <2>3. CASE m = "DELETE"  BY <1>1, <1>2, <1>6, <1>8, <1>10, <2>3 DEF f
  <2>4. CASE m = "SWITCH"  BY <1>1, <1>3, <1>8, <1>10, <2>4 DEF f
  <2>5. CASE m = "ACT"     BY <1>1, <1>3, <1>7, <1>8, <1>10, <2>5 DEF f
  <2> QED  BY <1>2, <2>1, <2>2, <2>3, <2>4, <2>5
<1> QED  BY <1>9, <1>10

LEMMA HandleRequestSound ==
  ASSUME ConsoleInv, NEW chance \in BOOLEAN, HandleRequest(chance)
  PROVE  ConsoleInv'
<1>0. TypeOK /\ TaskKept
  BY DEF ConsoleInv
<1>1. /\ request.phase = "sent" /\ UNCHANGED <<entry, form>>
      /\ content' = [content EXCEPT ![Forms[request.name].family] = Answer(chance).row]
      /\ request' = [NoRequest EXCEPT !.name = request.name, !.phase = Answer(chance).outcome]
  BY DEF HandleRequest
<1>2. request'.phase = Answer(chance).outcome
  BY <1>1 DEF NoRequest
<1>3. TaskAdvances /\ request'.phase \in {"ok", "refused"}
  BY <1>0, <1>1, <1>2, AnswerRow, RowAdvances
<1> QED  BY <1>1, <1>3, ContentStep

LEMMA OtherWritersSound ==
  ASSUME ConsoleInv,
         \/ \E to \in Moves : AutomationMoves(to)
         \/ \E type \in Entities : EntityMoves(type)
         \/ \E f \in Families : OtherBrowserWrites(f)
  PROVE  ConsoleInv'
<1> USE ConsoleAssumption
<1>0. TypeOK /\ TaskKept
  BY DEF ConsoleInv
<1>1. ASSUME NEW to \in Moves, AutomationMoves(to)  PROVE TaskAdvances
  <2>1. to \in TaskStatuses /\ Task \in Contents
    BY <1>0 DEF TypeOK, Task
  <2>2. Advanced("tasks", Moved(Task, to))
    BY <2>1, WrittenRow DEF Advanced, Contents
  <2>3. content' = [content EXCEPT !["tasks"] = Moved(Task, to)]
    BY <1>1 DEF AutomationMoves, Task
  <2> QED  BY <1>0, <2>2, <2>3, RowAdvances
<1>2. ASSUME NEW type \in Entities, EntityMoves(type)  PROVE TaskAdvances
  <2>1. "tasks" \notin ShownIn[type]
    BY DEF ShownIn, ENTITY_TYPE_TO_CHANNEL
  <2>2. \A f \in Families : content[f] \in Contents /\ Written(content[f]) \in Contents
    BY <1>0, WrittenAdvances DEF TypeOK, Advanced
  <2>3. content' = [f \in Families |-> IF f \in ShownIn[type] THEN Written(content[f])
                                       ELSE content[f]]
    BY <1>2 DEF EntityMoves
  <2> QED  BY <2>1, <2>2, <2>3 DEF TaskAdvances, Task
<1>3. ASSUME NEW f \in Families, OtherBrowserWrites(f)  PROVE TaskAdvances
  BY <1>0, <1>3, WrittenAdvances, RowAdvances DEF OtherBrowserWrites
<1>4. TaskAdvances
  BY <1>1, <1>2, <1>3
<1>5. UNCHANGED <<entry, form, request>>
  BY DEF AutomationMoves, EntityMoves, OtherBrowserWrites, browserVars
<1> QED  BY <1>4, <1>5, ContentStep

(* The browser's view of the task is sound: what the cache shows and what is *)
(* on its way to it are versions the task had and the newer one arrives      *)
(* last, an open form was drawn from a version the page has shown, and a     *)
(* request that carries the present version asks for something the present   *)
(* status offers, whatever was fetched, lost, invalidated or written         *)
(* meanwhile (QueryClient, TaskActionBar, TasksService).                     *)
THEOREM ConsoleInvariant == Spec => []ConsoleInv
<1>1. Init => ConsoleInv
  BY InitSound
<1>2. ConsoleInv /\ [Next]_vars => ConsoleInv'
  <2> SUFFICES ASSUME ConsoleInv, [Next]_vars  PROVE ConsoleInv'
    OBVIOUS
  <2>1. CASE UNCHANGED vars
    <3>1. TypeOK
      BY DEF ConsoleInv
    <3> QED  BY <2>1, <3>1, SameEntries, CacheStep DEF vars, browserVars
  <2>2. CASE \/ \E p \in OpenPages : Navigate(p)
             \/ Focus \/ CloseForm \/ StreamStep \/ DeliverEvent \/ AnswerArrives \/ AnswerLost
             \/ \E f \in Families : FetchLost(f)
    BY <2>2, CacheActions
  <2>3. CASE \E n \in OpenForms : \E a \in OpenActions \cup {"none"} : OpenForm(n, a)
    BY <2>3, OpenFormSound
  <2>4. CASE Acknowledge
    BY <2>4, AcknowledgeSound
  <2>5. CASE Submit
    BY <2>5, SubmitSound
  <2>6. CASE \E chance \in BOOLEAN : HandleRequest(chance)
    BY <2>6, HandleRequestSound
  <2>7. CASE \E f \in Families : ServerReads(f) \/ FetchArrives(f)
    BY <2>7, ServerReadsSound, FetchArrivesSound
  <2>8. CASE \/ \E to \in Moves : AutomationMoves(to)
             \/ \E type \in Entities : EntityMoves(type)
             \/ \E f \in Families : OtherBrowserWrites(f)
    BY <2>8, OtherWritersSound
  <2> QED  BY <2>1, <2>2, <2>3, <2>4, <2>5, <2>6, <2>7, <2>8 DEF Next
<1> QED  BY <1>1, <1>2, PTL DEF Spec

\* A request is answered by its handler only.
LEMMA AnsweredByHandler ==
  ASSUME ConsoleInv, [Next]_vars, request.phase = "sent", request'.phase \in {"ok", "refused"}
  PROVE  \E chance \in BOOLEAN : request'.phase = Answer(chance).outcome
<1>1. request' # request /\ request # NoRequest /\ request' # NoRequest
  BY DEF NoRequest
<1>2. CASE \E chance \in BOOLEAN : HandleRequest(chance)
  <2>1. PICK chance \in BOOLEAN : HandleRequest(chance)
    BY <1>2
  <2>2. request' = [NoRequest EXCEPT !.name = request.name, !.phase = Answer(chance).outcome]
    BY <2>1 DEF HandleRequest
  <2> QED  BY <2>2 DEF NoRequest
<1>3. CASE ~\E chance \in BOOLEAN : HandleRequest(chance)
  <2>1. ~UNCHANGED request
    BY <1>1
  <2>2. ~\E p \in OpenPages : Navigate(p)
    BY <2>1 DEF Navigate
  <2>3. ~\E n \in OpenForms : \E a \in OpenActions \cup {"none"} : OpenForm(n, a)
    BY <2>1 DEF OpenForm
  <2>4. ~(Focus \/ Acknowledge \/ CloseForm \/ Submit \/ StreamStep)
    BY <1>1, <2>1 DEF Focus, Acknowledge, CloseForm, Submit, StreamStep, browserVars, Pending
  <2>5. ~\E f \in Families : ServerReads(f) \/ FetchArrives(f) \/ FetchLost(f)
    BY <2>1 DEF ServerReads, FetchArrives, FetchLost, browserVars
  <2>6. /\ ~\E to \in Moves : AutomationMoves(to)
        /\ ~\E type \in Entities : EntityMoves(type)
        /\ ~\E f \in Families : OtherBrowserWrites(f)
    BY <2>1 DEF AutomationMoves, EntityMoves, OtherBrowserWrites, browserVars
  <2>7. ~(DeliverEvent \/ AnswerArrives \/ AnswerLost)
    BY <1>1, <2>1 DEF DeliverEvent, AnswerArrives, AnswerLost, browserVars
  <2>8. ~UNCHANGED vars
    BY <2>1 DEF vars, browserVars
  <2> QED  BY <1>3, <2>2, <2>3, <2>4, <2>5, <2>6, <2>7, <2>8 DEF Next
<1> QED  BY <1>2, <1>3

\* The answer to a request about the task's row.
LEMMA TaskAnswer ==
  ASSUME ConsoleInv, request.phase = "sent", NEW chance \in BOOLEAN
  PROVE  /\ request \in SentRequests /\ request.name \in FormNames
         /\ request.name = "editTask" => Answer(chance) = PutRow("tasks", request.seen)
         /\ Forms[request.name].method = "ACT" =>
              (Answer(chance).outcome = "ok"
                 <=> Accepts(request.action, Task.status, request.ack, chance))
<1>1. request \in SentRequests /\ request.name \in FormNames
  BY ConsoleAssumption DEF ConsoleInv, TypeOK, SentRequests, FormNames
<1>2. /\ Resources["tasks"].methods["PUT"] = {"version"}
      /\ Resources["tasks"].methods["ACT"] = {"actorId", "reason"}
      /\ {"PUT", "ACT"} \subseteq DOMAIN Resources["tasks"].methods
  BY DEF Resources, TasksController, Resource, UpdateTaskDto, OperatorActionDto
<1>3. ASSUME request.name = "editTask"
      PROVE  Answer(chance) = PutRow("tasks", request.seen)
  <2>1. /\ Forms[request.name].family = "tasks" /\ Forms[request.name].method = "PUT"
        /\ Forms[request.name].sends = {"version"}
    BY <1>1, <1>3, TaskForms DEF TaskForm
  <2>2. ZodValidationPipe("tasks", "PUT", {"version"})
    BY <1>2 DEF ZodValidationPipe
  <2> QED  BY <2>1, <2>2 DEF Answer
<1>4. ASSUME Forms[request.name].method = "ACT"
      PROVE  (Answer(chance).outcome = "ok"
                <=> Accepts(request.action, Task.status, request.ack, chance))
  <2>1. /\ Forms[request.name].family = "tasks"
        /\ Forms[request.name].sends = {"actorId", "reason"}
    BY <1>1, <1>4, TaskForms
  <2>2. ZodValidationPipe("tasks", "ACT", {"actorId", "reason"})
    BY <1>2 DEF ZodValidationPipe
  <2>3. Answer(chance) = IF Accepts(request.action, Task.status, request.ack, chance)
                           THEN [outcome |-> "ok",
                                 row |-> Applied(request.action, content["tasks"])]
                           ELSE [outcome |-> "refused", row |-> content["tasks"]]
    BY <1>4, <2>1, <2>2 DEF Answer, Task
  <2> QED  BY <2>3
<1> QED  BY <1>1, <1>3, <1>4

(* A saved edit never replaces a version the operator did not see: when the  *)
(* server accepts the EditTaskDialog's request, the row is the one the       *)
(* form's fields were drawn from (EditTaskDialog, TasksService.update).      *)
THEOREM NoLostUpdateHolds == Spec => NoLostUpdate
<1>1. ConsoleInv /\ [Next]_vars =>
        [(request.name = "editTask" /\ request.phase = "sent" /\ request'.phase = "ok")
           => request.base = content["tasks"].version]_vars
  <2> SUFFICES ASSUME ConsoleInv, [Next]_vars, request.name = "editTask",
                      request.phase = "sent", request'.phase = "ok"
               PROVE  request.base = content["tasks"].version
    OBVIOUS
  <2>1. PICK chance \in BOOLEAN : Answer(chance).outcome = "ok"
    BY AnsweredByHandler
  <2>2. PutRow("tasks", request.seen).outcome = "ok"
    BY <2>1, TaskAnswer
  <2>3. Schema[Resources["tasks"].table].versioned
    BY DEF Resources, TasksController, Resource, Schema, TaskRepository, Repository
  <2>4. request.seen = content["tasks"].version
    BY <2>2, <2>3 DEF PutRow
  <2> QED  BY <2>4 DEF ConsoleInv, RequestSound
<1> QED  BY <1>1, ConsoleInvariant, PTL DEF Spec, NoLostUpdate

(* Work in progress is cancelled only by an operator who said so, even when  *)
(* the page showed another status at any time (ConfirmActionDialog,          *)
(* TaskActionBar, guardCancel).                                              *)
THEOREM CancelledWorkWasAcknowledgedHolds == Spec => CancelledWorkWasAcknowledged
<1>1. ConsoleInv /\ [Next]_vars =>
        [(/\ request.action = "cancel" /\ request.phase = "sent" /\ request'.phase = "ok"
          /\ content["tasks"].status = "IN_DEVELOPMENT")
           => request.ticked]_vars
  <2> SUFFICES ASSUME ConsoleInv, [Next]_vars, request.action = "cancel",
                      request.phase = "sent", request'.phase = "ok",
                      content["tasks"].status = "IN_DEVELOPMENT"
               PROVE  request.ticked
    OBVIOUS
  <2>1. PICK chance \in BOOLEAN : Answer(chance).outcome = "ok"
    BY AnsweredByHandler
  <2>2. Forms[request.name].method = "ACT"
    BY DEF ConsoleInv, RequestSound
  <2>3. Accepts("cancel", "IN_DEVELOPMENT", request.ack, chance)
    BY <2>1, <2>2, TaskAnswer DEF Task
  <2>4. request.ack
    BY <2>3 DEF Accepts, MetadataActions, GuardCancel
  <2> QED  BY <2>4 DEF ConsoleInv, RequestSound
<1> QED  BY <1>1, ConsoleInvariant, PTL DEF Spec, CancelledWorkWasAcknowledged

(* What the page offers is what the server accepts: a request about a task   *)
(* that has not changed since its form was opened is refused only when it    *)
(* reopens a task whose last lease is active, or overrides the merge order,  *)
(* which is always refused (STATUS_ACTIONS against the guards and            *)
(* transitions of the operator actions service).                             *)
THEOREM CurrentRequestsAcceptedHolds == Spec => CurrentRequestsAccepted
<1>1. ConsoleInv /\ [Next]_vars =>
        [(/\ request.phase = "sent" /\ request'.phase = "refused"
          /\ Forms[request.name].page = "task" /\ Forms[request.name].family = "tasks"
          /\ request.base = content["tasks"].version)
           => request.action \in {"reopen", "override_merge_order"}]_vars
  <2> SUFFICES ASSUME ConsoleInv, [Next]_vars, request.phase = "sent",
                      request'.phase = "refused", TaskForm(request.name),
                      request.base = Task.version,
                      request.action \notin {"reopen", "override_merge_order"}
               PROVE  FALSE
    BY DEF TaskForm, Task
  <2>0. TaskKept /\ RequestSound
    BY DEF ConsoleInv
  <2>1. PICK chance \in BOOLEAN : Answer(chance).outcome = "refused"
    BY AnsweredByHandler
  <2>2. request \in SentRequests /\ request.name \in FormNames
    BY <2>1, TaskAnswer
  <2>3. CASE Forms[request.name].method = "ACT"
    <3>1. request.action \in STATUS_ACTIONS[Task.status] /\ Task.status \in TaskStatuses
      BY <2>0, <2>3 DEF RequestSound, Fits, TaskKept
    <3>2. (request.action = "cancel" /\ Task.status = "IN_DEVELOPMENT") => request.ack
      BY <2>0 DEF RequestSound
    <3>3. request.ack \in BOOLEAN
      BY <2>2 DEF SentRequests
    <3>4. Accepts(request.action, Task.status, request.ack, chance)
      BY <3>1, <3>2, <3>3, OfferedIsAccepted
    <3> QED  BY <2>1, <2>3, <3>4, TaskAnswer
  <2>4. CASE Forms[request.name].method # "ACT"
    <3>1. request.name = "editTask"
      BY <2>2, <2>4, TaskForms
    <3>2. request.seen = content["tasks"].version /\ content["tasks"].version > 0
      BY <2>0, <3>1 DEF RequestSound, TaskKept, Task
    <3>3. PutRow("tasks", request.seen).outcome = "ok"
      BY <3>2 DEF PutRow
    <3> QED  BY <2>1, <3>1, <3>3, TaskAnswer
  <2> QED  BY <2>3, <2>4
<1> QED  BY <1>1, ConsoleInvariant, PTL DEF Spec, CurrentRequestsAccepted
=============================================================================
