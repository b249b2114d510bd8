----------------------------- MODULE FactoryApi -----------------------------
(***************************************************************************)
(* The REST API of the control plane as a browser meets it: what a GET of  *)
(* a family of resources returns, and what POST, PUT, DELETE and the       *)
(* operator actions on a task do to it.  One row stands for each resource; *)
(* the columns are abstracted to a version and, for the task, its status.  *)
(*                                                                         *)
(* content[f]  version  counts the writes of the row; 0 when there is none *)
(*             status   the task's status ("none" for the others)          *)
(***************************************************************************)
EXTENDS Naturals, TaskStateMachine

CONSTANTS
  Families,          \* the resources a model follows
  MaxVersion,        \* bound on the writes of one row
  InitialStatuses    \* the statuses the task may start in

VARIABLE content

Content(version, status) == [version |-> version, status |-> status]

NoContent == Content(0, "none")

-----------------------------------------------------------------------------
(* The tables: the tables a row refers to (a row that is referred to       *)
(* cannot be deleted) and the columns no two rows may agree on.            *)

Table(refs, keys) == [refs |-> refs, keys |-> keys]

WorkflowTemplates   == Table({}, {})
Projects            == Table({"workflow_template"}, {"name"})
Repositories        == Table({"project"}, {})
Tasks               == Table({"repository"}, {})
TaskDependencies    == Table({"task"}, {"task_id, depends_on_task_id"})
WorkerPools         == Table({}, {})
WorkersTable        == Table({"worker_pool", "task"}, {})
PromptTemplates     == Table({}, {})
AgentProfiles       == Table({"worker_pool", "prompt_template"}, {})
TaskLeases          == Table({"task", "worker_pool"}, {})
ReviewCycles        == Table({"task"}, {})
ReviewPackets       == Table({"task", "review_cycle"}, {})
LeadReviewDecisions == Table({"task", "review_cycle"}, {})
MergeQueueItems     == Table({"task", "repository"}, {})
ValidationRuns      == Table({"task"}, {})
Jobs                == Table({}, {})
AuditEvents         == Table({}, {})
PolicySets          == Table({}, {})

(* The repositories: the writes each offers for its table, and whether an  *)
(* update is compared with the version the caller read.                    *)

Repository(table, writes, versioned) ==
  [refs |-> table.refs, keys |-> table.keys, writes |-> writes, versioned |-> versioned]

AllWrites == {"POST", "PUT", "DELETE"}

WorkflowTemplateRepository   == Repository(WorkflowTemplates, AllWrites, FALSE)
ProjectRepository            == Repository(Projects, AllWrites, FALSE)
RepositoryRepository         == Repository(Repositories, AllWrites, FALSE)
TaskRepository               == Repository(Tasks, AllWrites, TRUE)
TaskDependencyRepository     == Repository(TaskDependencies, {"POST", "DELETE"}, FALSE)
WorkerPoolRepository         == Repository(WorkerPools, AllWrites, FALSE)
WorkerRepository             == Repository(WorkersTable, AllWrites, FALSE)
PromptTemplateRepository     == Repository(PromptTemplates, AllWrites, FALSE)
AgentProfileRepository       == Repository(AgentProfiles, AllWrites, FALSE)
TaskLeaseRepository          == Repository(TaskLeases, AllWrites, FALSE)
ReviewCycleRepository        == Repository(ReviewCycles, AllWrites, FALSE)
ReviewPacketRepository       == Repository(ReviewPackets, AllWrites, FALSE)
LeadReviewDecisionRepository == Repository(LeadReviewDecisions, AllWrites, FALSE)
MergeQueueItemRepository     == Repository(MergeQueueItems, AllWrites, FALSE)
ValidationRunRepository      == Repository(ValidationRuns, AllWrites, FALSE)
JobRepository                == Repository(Jobs, AllWrites, FALSE)
AuditEventRepository         == Repository(AuditEvents, {"POST"}, FALSE)
PolicySetRepository          == Repository(PolicySets, AllWrites, FALSE)

Schema ==
  [workflow_template |-> WorkflowTemplateRepository,
   project |-> ProjectRepository,
   repository |-> RepositoryRepository,
   task |-> TaskRepository,
   task_dependency |-> TaskDependencyRepository,
   worker_pool |-> WorkerPoolRepository,
   worker |-> WorkerRepository,
   prompt_template |-> PromptTemplateRepository,
   agent_profile |-> AgentProfileRepository,
   task_lease |-> TaskLeaseRepository,
   review_cycle |-> ReviewCycleRepository,
   review_packet |-> ReviewPacketRepository,
   lead_review_decision |-> LeadReviewDecisionRepository,
   merge_queue_item |-> MergeQueueItemRepository,
   validation_run |-> ValidationRunRepository,
   job |-> JobRepository,
   audit_event |-> AuditEventRepository,
   policy_set |-> PolicySetRepository]

\* The tables that refer to a table.
Referring(table) == {t \in DOMAIN Schema : table \in Schema[t].refs}

-----------------------------------------------------------------------------
(* The resources: the table, the resources the service looks up before it  *)
(* creates a row, and for every method the controller routes the fields    *)
(* its DTO requires.                                                       *)

CreateProjectDto        == {"name", "owner"}
CreateRepositoryDto     == {"name", "remoteUrl", "localCheckoutStrategy"}
CreateTaskDto           == {"repositoryId", "title", "taskType", "priority"}
UpdateTaskDto           == {"version"}
CreatePoolDto           == {"name", "poolType"}
CreateProfileDto        == {}
CreatePromptTemplateDto == {"name", "version", "role", "templateText"}
UpdatePolicySetDto      == {}
OperatorActionDto       == {"actorId", "reason"}

ProjectsService        == {}
RepositoriesService    == {"projects"}
TasksService           == {"repositories"}
PoolsService           == {}
ProfilesService        == {"pools"}
PromptTemplatesService == {}

Resource(table, parent, methods) == [table |-> table, parent |-> parent, methods |-> methods]

ProjectsController ==
  Resource("project", ProjectsService, [POST |-> CreateProjectDto, PUT |-> {}, DELETE |-> {}])

RepositoriesController ==
  Resource("repository", RepositoriesService,
           [POST |-> CreateRepositoryDto, PUT |-> {}, DELETE |-> {}])

TasksController ==
  Resource("task", TasksService,
           [POST |-> CreateTaskDto, PUT |-> UpdateTaskDto, ACT |-> OperatorActionDto])

PoolsController ==
  Resource("worker_pool", PoolsService, [POST |-> CreatePoolDto, PUT |-> {}, DELETE |-> {}])

ProfilesController ==
  Resource("agent_profile", ProfilesService,
           [POST |-> CreateProfileDto, PUT |-> {}, DELETE |-> {}])

PromptTemplatesController ==
  Resource("prompt_template", PromptTemplatesService,
           [POST |-> CreatePromptTemplateDto, PUT |-> {}, DELETE |-> {}])

PoliciesController == Resource("policy_set", {}, [PUT |-> UpdatePolicySetDto])

AuditController      == Resource("audit_event", {}, [GET |-> {}])
ReviewsController    == Resource("review_cycle", {}, [GET |-> {}])
MergeQueueController == Resource("merge_queue_item", {}, [GET |-> {}])

\* Start and pause set a flag of the automation; there is no table.
FactoryStateController == Resource("none", {}, [SWITCH |-> {}])

Resources ==
  [projects |-> ProjectsController, repositories |-> RepositoriesController,
   tasks |-> TasksController, pools |-> PoolsController, profiles |-> ProfilesController,
   promptTemplates |-> PromptTemplatesController, policies |-> PoliciesController,
   audit |-> AuditController, reviews |-> ReviewsController,
   mergeQueue |-> MergeQueueController, factoryState |-> FactoryStateController]

\* The validation pipe: a body without a field the DTO requires is refused.
ZodValidationPipe(f, method, fields) ==
  /\ method \in DOMAIN Resources[f].methods
  /\ Resources[f].methods[method] \subseteq fields

\* The controllers route only what the repository of the table can do.
RoutesHaveWrites ==
  \A f \in DOMAIN Resources : Resources[f].table \in DOMAIN Schema =>
     DOMAIN Resources[f].methods \cap AllWrites \subseteq Schema[Resources[f].table].writes

HasRow(f) == f \in Families => content[f].version > 0

\* A row of another table refers to f's row: known for the families the model
\* follows, and for the other tables a matter of chance.
MayBeReferred(f) ==
  \E t \in Referring(Resources[f].table) :
     \A g \in Families : Resources[g].table = t => content[g].version > 0

MustBeReferred(f) ==
  \E g \in Families : /\ f \in Resources[g].parent
                      /\ content[g].version > 0

-----------------------------------------------------------------------------
(* The services.                                                           *)

Written(c) == [c EXCEPT !.version = @ + 1]

Moved(c, to) == [Written(c) EXCEPT !.status = to]

CanChange(f) == content[f].version < MaxVersion

\* create: refused without the parent, and when the row agrees with another in
\* a unique column; any other is one more row of the list.
PostRow(f, same) ==
  IF \/ \E p \in Resources[f].parent : ~HasRow(p)
     \/ same /\ content[f].version > 0 /\ Schema[Resources[f].table].keys # {}
    THEN [outcome |-> "refused", row |-> content[f]]
    ELSE [outcome |-> "ok",
          row |-> IF content[f].version > 0 THEN content[f]
                  ELSE Moved(content[f], IF f = "tasks" THEN "BACKLOG" ELSE "none")]

\* update: refused without a row and, for a task, when the row's version is
\* no longer the one the browser sends.
PutRow(f, version) ==
  IF \/ content[f].version = 0
     \/ Schema[Resources[f].table].versioned /\ version # content[f].version
    THEN [outcome |-> "refused", row |-> content[f]]
    ELSE [outcome |-> "ok", row |-> Written(content[f])]

\* delete: refused without a row, and while another row refers to it.
DeleteRow(f, referred) ==
  IF content[f].version = 0 \/ MustBeReferred(f) \/ (referred /\ MayBeReferred(f))
    THEN [outcome |-> "refused", row |-> content[f]]
    ELSE [outcome |-> "ok", row |-> NoContent]

-----------------------------------------------------------------------------
(* The operator actions on a task: the status it moves to, from where, and *)
(* the facts the service asserts when it calls the transition service.     *)

Transition(from, to, ctx) == [from |-> from, to |-> to, ctx |-> ctx, checked |-> TRUE]

Override(from, to) == [from |-> from, to |-> to, ctx |-> {}, checked |-> FALSE]

OperatorActions ==
  [pause          |-> Transition(TaskStatuses, "ESCALATED", {"isOperator"}),
   resume         |-> Transition({"ESCALATED"}, "ASSIGNED", {"isOperator", "leaseAcquired"}),
   requeue        |-> Transition(TaskStatuses, "READY", {"leaseReclaimedRetryEligible"}),
   force_unblock  |-> Transition({"BLOCKED"}, "READY", {"allDependenciesResolved"}),
   cancel         |-> Transition(TaskStatuses \ {"MERGING"}, "CANCELLED", {"isOperator"}),
   rerun_review   |-> Override({"APPROVED", "IN_REVIEW"}, "DEV_COMPLETE"),
   reopen         |-> Override(TerminalStates, "BACKLOG"),
   resolve_retry  |-> Transition({"ESCALATED"}, "ASSIGNED", {"isOperator", "leaseAcquired"}),
   resolve_cancel |-> Transition({"ESCALATED"}, "CANCELLED", {"isOperator"}),
   resolve_done   |-> Transition({"ESCALATED"}, "DONE", {"isOperator"})]

\* Actions that leave the status alone, and the statuses they are accepted in.
MetadataActions ==
  [change_priority      |-> TaskStatuses,
   reassign_pool        |-> TaskStatuses \ TerminalStates,
   override_merge_order |-> {"QUEUED_FOR_MERGE"}]

ActionIds == DOMAIN OperatorActions \cup DOMAIN MetadataActions

\* Fault: the guard looks at merges only.
GuardCancelFault(status, acknowledged) == status # "MERGING"

\* guardCancel: no cancellation of a merge under way, and of development under
\* way only when the operator says so.
GuardCancel(status, acknowledged) ==
  /\ status # "MERGING"
  /\ status = "IN_DEVELOPMENT" => acknowledged

\* overrideMergeOrder also asks for the task's mergeQueueItemId, a column that
\* reopening clears and nothing ever sets.
HasMergeQueueItemId == FALSE

\* Whether the service accepts an action on a task in a status; reopening is
\* also refused while a lease is active, which the last argument says.
Accepts(a, status, acknowledged, leased) ==
  IF a \in DOMAIN MetadataActions
    THEN /\ status \in MetadataActions[a]
         /\ a = "override_merge_order" => HasMergeQueueItemId
    ELSE LET act == OperatorActions[a]
         IN  /\ status \in act.from
             /\ act.checked => ValidateTransition(status, act.to, act.ctx)
             /\ a = "cancel" => GuardCancel(status, acknowledged)
             /\ a = "reopen" => ~leased

\* What an accepted action leaves of the task: reassigning a pool and moving a
\* merge queue item write other tables only.
Applied(a, c) ==
  CASE a = "change_priority"              -> Written(c)
    [] a \in DOMAIN OperatorActions       -> Moved(c, OperatorActions[a].to)
    [] OTHER                              -> c

-----------------------------------------------------------------------------
ApiInit ==
  /\ content \in [Families -> {Content(1, s) : s \in InitialStatuses \cup {"none"}}]
  /\ \A f \in Families : (content[f].status = "none") <=> (f # "tasks")

=============================================================================
