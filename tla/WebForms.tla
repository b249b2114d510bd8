------------------------------- MODULE WebForms -------------------------------
(***************************************************************************)
(* What the web UI is made of: the pages, with the families of queries     *)
(* each keeps mounted, and the forms, with the request each sends and how  *)
(* it treats the operator's input while the page below it is refreshed.    *)
(***************************************************************************)
EXTENDS FactoryApi

(* The mutation hooks: the families each invalidates when it succeeds.     *)

UseTaskWrites            == {"tasks"}
UseOperatorAction        == {"tasks", "audit"}
UsePoolWrites            == {"pools"}
UseProfileWrites         == {"profiles"}
UseProjectWrites         == {"projects"}
UseRepositoryWrites      == {"repositories"}
UsePolicyWrites          == {"policies"}
UsePromptTemplateWrites  == {"promptTemplates"}
UseFactorySwitch         == {"factoryState"}
UseExecuteImport         == {"tasks", "projects"}

-----------------------------------------------------------------------------
(* The pages.                                                              *)

UseProjectFilter      == {"projects", "repositories"}
UseDashboardData      == {"tasks", "pools", "audit"}
DashboardPage         == UseDashboardData \cup UseProjectFilter \cup {"factoryState"}
UseRepositoryNameMap  == {"projects", "repositories"}
TasksPage             == {"tasks"} \cup UseRepositoryNameMap
TaskTimelineTab       == {"tasks"}
TaskPacketsTab        == {"reviews"}
TaskArtifactsTab      == {"reviews"}
TaskDetailPage        == {"tasks", "pools"} \cup TaskTimelineTab \cup TaskPacketsTab \cup TaskArtifactsTab
ReviewCycleDetail     == {"reviews"}
ReviewsPage           == {"tasks"} \cup ReviewCycleDetail
MergeQueuePage        == {"mergeQueue"}
PoolsPage             == {"pools"}
PoolDetailPage        == {"pools", "profiles", "promptTemplates"}
WorkerDetailPage      == {"pools"}
PromptsPage           == {"promptTemplates"}
PromptDetailPage      == {"promptTemplates"}
EffectiveConfigTab    == {"policies"}
ConfigPage            == {"pools", "policies"} \cup EffectiveConfigTab
AuditPage             == {"audit"}

\* The routes; a path that names none of them shows the not-found page.
Routes ==
  [p \in {"dashboard", "tasks", "task", "workers", "pool", "worker", "reviews",
          "mergeQueue", "config", "audit", "prompts", "prompt", "notFound"} |->
     CASE p = "dashboard"  -> DashboardPage
       [] p = "tasks"      -> TasksPage
       [] p = "task"       -> TaskDetailPage
       [] p = "workers"    -> PoolsPage
       [] p = "pool"       -> PoolDetailPage
       [] p = "worker"     -> WorkerDetailPage
       [] p = "reviews"    -> ReviewsPage
       [] p = "mergeQueue" -> MergeQueuePage
       [] p = "config"     -> ConfigPage
       [] p = "audit"      -> AuditPage
       [] p = "prompts"    -> PromptsPage
       [] p = "prompt"     -> PromptDetailPage
       [] p = "notFound"   -> {}]

-----------------------------------------------------------------------------
(* The forms:                                                              *)
(*   page       where the form is                                          *)
(*   family     what its request is about, and method how                  *)
(*   sends      the fields a valid form always sends                       *)
(*   actions    for "ACT", the operator actions it can ask for             *)
(*   follows    the fields are drawn again when the row shown changes      *)
(*   modal      the form cannot be closed while its request is pending     *)
(*   closes     the outcomes that close it                                 *)
(*   refreshes  the families invalidated when the request succeeds         *)

Form(page, family, method, sends, refreshes) ==
  [page |-> page, family |-> family, method |-> method, sends |-> sends,
   refreshes |-> refreshes, actions |-> {}, follows |-> FALSE, modal |-> FALSE,
   closes |-> {"ok"}]

\* The create dialogs keep what was typed when the request fails, and may be
\* closed while it is pending.
CreateTaskDialog ==
  Form("tasks", "tasks", "POST", {"title", "taskType", "priority", "repositoryId"}, UseTaskWrites)

ValidateTaskItem == {"repositoryId", "title", "taskType", "priority"}

BatchCreateDialog == Form("tasks", "tasks", "POST", ValidateTaskItem, UseTaskWrites)

\* Scan, select, import: closed neither while scanning nor while importing.
ImportTasksDialog ==
  [Form("tasks", "tasks", "POST", ValidateTaskItem, UseExecuteImport)
     EXCEPT !.modal = TRUE, !.closes = {}]

CreatePoolDialog == Form("workers", "pools", "POST", {"name", "poolType"}, UsePoolWrites)

CreateProfileDialog == Form("pool", "profiles", "POST", {}, UseProfileWrites)

CreateProjectDialog == Form("dashboard", "projects", "POST", {"name", "owner"}, UseProjectWrites)

CreateRepositoryDialog ==
  Form("dashboard", "repositories", "POST", {"name", "remoteUrl", "localCheckoutStrategy"},
       UseRepositoryWrites)

CreatePromptDialog ==
  Form("prompts", "promptTemplates", "POST", {"name", "role", "version", "templateText"},
       UsePromptTemplateWrites)

\* Drawn from the task again whenever the page's task changes while the dialog
\* is open, so the version it sends is the one its fields were drawn from.
EditTaskDialog ==
  [Form("task", "tasks", "PUT", {"version"}, UseTaskWrites)
     EXCEPT !.follows = TRUE, !.modal = TRUE]

\* The number is drawn when editing starts and then left to the operator.
ConcurrencyEditor ==
  [Form("pool", "pools", "PUT", {}, UsePoolWrites) EXCEPT !.closes = {"ok", "refused"}]

PoolToggle ==
  [Form("pool", "pools", "PUT", {}, UsePoolWrites)
     EXCEPT !.modal = TRUE, !.closes = {"ok", "refused"}]

\* The editors of the configuration pages stay open and follow their row.
PoolsTab ==
  [Form("config", "pools", "PUT", {}, UsePoolWrites) EXCEPT !.follows = TRUE, !.closes = {}]

PoliciesTab ==
  [Form("config", "policies", "PUT", {}, UsePolicyWrites) EXCEPT !.follows = TRUE, !.closes = {}]

PromptEditor ==
  [Form("prompt", "promptTemplates", "PUT", {}, UsePromptTemplateWrites)
     EXCEPT !.follows = TRUE, !.closes = {}]

PromptDelete ==
  [Form("prompt", "promptTemplates", "DELETE", {}, UsePromptTemplateWrites)
     EXCEPT !.closes = {"ok", "refused"}]

FactorySwitch == Form("dashboard", "factoryState", "SWITCH", {}, UseFactorySwitch)

-----------------------------------------------------------------------------
(* The action bar of a task.                                               *)

PriorityActions    == {"change_priority"}
ResolutionActions  == {"resolve_retry", "resolve_cancel", "resolve_done"}

\* Fault: a task that waits for its merge is offered a requeue.
STATUS_ACTIONSFault ==
  [s \in TaskStatuses |-> {"change_priority", "reassign_pool", "pause", "requeue", "cancel"}]

\* What the bar offers for the status the page shows.
STATUS_ACTIONS ==
  [s \in TaskStatuses |->
     CASE s \in {"BACKLOG", "READY"} -> {"change_priority", "reassign_pool", "cancel"}
       [] s = "BLOCKED" -> {"force_unblock", "change_priority", "reassign_pool", "cancel"}
       [] s \in {"ASSIGNED", "IN_DEVELOPMENT"} ->
            {"change_priority", "reassign_pool", "pause", "requeue", "cancel"}
       [] s \in {"DEV_COMPLETE", "CHANGES_REQUESTED", "POST_MERGE_VALIDATION"} ->
            {"change_priority", "pause", "cancel"}
       [] s \in {"IN_REVIEW", "APPROVED"} ->
            {"change_priority", "rerun_review", "pause", "cancel"}
       [] s = "QUEUED_FOR_MERGE" ->
            {"change_priority", "override_merge_order", "pause", "cancel"}
       [] s = "MERGING" -> {"change_priority"}
       [] s \in {"DONE", "FAILED", "CANCELLED"} -> {"reopen"}
       [] s = "ESCALATED" -> {"reassign_pool"} \cup ResolutionActions]

ActionForm(actions) ==
  [Form("task", "tasks", "ACT", {"actorId", "reason"}, UseOperatorAction)
     EXCEPT !.actions = actions, !.modal = TRUE, !.closes = {"ok", "refused"}]

ConfirmActionDialog ==
  ActionForm({"pause", "requeue", "force_unblock", "cancel", "rerun_review",
              "override_merge_order", "reopen"})

ReassignPoolDialog == ActionForm({"reassign_pool"})

\* Not a dialog: choosing another priority sends the request.
PriorityChangeSelect == ActionForm(PriorityActions)

\* Its dialogs outlive a refusal, and go with the panel when the task leaves
\* ESCALATED.
EscalationResolutionPanel == [ActionForm(ResolutionActions) EXCEPT !.closes = {"ok"}]

\* The merge queue page asks for the same actions without a hook, and refetches
\* its own list.
QueueItemActions ==
  [ActionForm({"override_merge_order", "requeue"})
     EXCEPT !.page = "mergeQueue", !.refreshes = {"mergeQueue"}]

ResumeQueueButton == [QueueItemActions EXCEPT !.actions = {"requeue"}]

Forms ==
  [n \in {"createTask", "batchCreate", "importTasks", "createPool",
          "createProfile", "createProject", "createRepository", "createPrompt",
          "editTask", "concurrency", "poolToggle", "poolsTab", "policiesTab",
          "promptEditor", "promptDelete", "factorySwitch", "confirmAction",
          "reassignPool", "priority", "escalation", "queueItem", "resumeQueue"} |->
     CASE n = "createTask"       -> CreateTaskDialog
       [] n = "batchCreate"      -> BatchCreateDialog
       [] n = "importTasks"      -> ImportTasksDialog
       [] n = "createPool"       -> CreatePoolDialog
       [] n = "createProfile"    -> CreateProfileDialog
       [] n = "createProject"    -> CreateProjectDialog
       [] n = "createRepository" -> CreateRepositoryDialog
       [] n = "createPrompt"     -> CreatePromptDialog
       [] n = "editTask"         -> EditTaskDialog
       [] n = "concurrency"      -> ConcurrencyEditor
       [] n = "poolToggle"       -> PoolToggle
       [] n = "poolsTab"         -> PoolsTab
       [] n = "policiesTab"      -> PoliciesTab
       [] n = "promptEditor"     -> PromptEditor
       [] n = "promptDelete"     -> PromptDelete
       [] n = "factorySwitch"    -> FactorySwitch
       [] n = "confirmAction"    -> ConfirmActionDialog
       [] n = "reassignPool"     -> ReassignPoolDialog
       [] n = "priority"         -> PriorityChangeSelect
       [] n = "escalation"       -> EscalationResolutionPanel
       [] n = "queueItem"        -> QueueItemActions
       [] n = "resumeQueue"      -> ResumeQueueButton]
=============================================================================
