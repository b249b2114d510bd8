----------------------------- MODULE TaskBacklog -----------------------------
(***************************************************************************)
(* How tasks and the edges between them come to be: the REST service that  *)
(* creates tasks, the dependency service with its cycle check, follow-up   *)
(* tasks, the importer that writes whole task files in one transaction,    *)
(* and whatever releases a blocked task: two services and the operator.    *)
(*                                                                         *)
(* Rows are numbered in the order of their insertion.  A task carries what *)
(* these services look at: its repository, its external reference, its     *)
(* status, the source it came from and its priority.                       *)
(***************************************************************************)
EXTENDS Naturals, Sequences, FiniteSets, TaskStateMachine, ArrayFilter

CONSTANTS
  MaxTasks,       \* bound: task rows
  MaxEdits,       \* bound: dependency edits by users of the service
  Projects,       \* project names
  Repositories,   \* repository names
  Refs,           \* external references
  Batches,        \* batches of tasks created by hand, by reference
  Requests,       \* import requests: [project, repository, tasks]
  FollowUpSources,\* sources of follow-up tasks
  EdgeKinds,      \* <<dependencyType, isHardBlock>> a caller may ask for
  NoRef           \* a task without external reference (SQL NULL)

TaskIds == 1 .. MaxTasks
DependencyTypes == {"blocks", "relates_to", "parent_child"}

ImportedTasks == [ref : Refs \cup {NoRef}, dependencies : SUBSET Refs,
                  status : {"BACKLOG", "DONE", "CANCELLED"}]

ASSUME BacklogAssumption ==
  /\ MaxTasks \in Nat
  /\ MaxEdits \in Nat
  /\ NoRef \notin Refs
  /\ Batches \subseteq Seq(Refs \cup {NoRef})
  /\ EdgeKinds \subseteq DependencyTypes \X BOOLEAN
  /\ FollowUpSources \subseteq {"review", "revert", "diagnostic", "hotfix"}
  /\ Requests \subseteq [project : Projects, repository : Repositories,
                         tasks : Seq(ImportedTasks)]

VARIABLES
  projects,      \* project rows, by name
  repositories,  \* repository rows: <<project, name>>
  tasks,         \* task rows, in order of insertion
  edges,         \* dependency rows: [task, dependsOn, type, hard, origin]
  edits          \* dependency edits so far (bound)

vars == <<projects, repositories, tasks, edges, edits>>

Exists(t) == t \in DOMAIN tasks
Status(t) == tasks[t].status

Init ==
  /\ projects = {}
  /\ repositories = {}
  /\ tasks = <<>>
  /\ edges = {}
  /\ edits = 0

-----------------------------------------------------------------------------
(* projects.service, repositories.service: rows and their foreign keys.    *)

CreateProject(p) ==
  /\ p \notin projects
  /\ projects' = projects \cup {p}
  /\ UNCHANGED <<repositories, tasks, edges, edits>>

CreateRepository(p, r) ==
  /\ p \in projects
  /\ <<p, r>> \notin repositories
  /\ repositories' = repositories \cup {<<p, r>>}
  /\ UNCHANGED <<projects, tasks, edges, edits>>

\* repository.project_id restricts the deletion.
DeleteProject(p) ==
  /\ p \in projects
  /\ \A x \in repositories : x[1] # p
  /\ projects' = projects \ {p}
  /\ UNCHANGED <<repositories, tasks, edges, edits>>

\* task.repository_id restricts the deletion.
DeleteRepository(p, r) ==
  /\ <<p, r>> \in repositories
  /\ \A t \in DOMAIN tasks : tasks[t].repository # <<p, r>>
  /\ repositories' = repositories \ {<<p, r>>}
  /\ UNCHANGED <<projects, tasks, edges, edits>>

-----------------------------------------------------------------------------
(* tasks.service                                                           *)

NewTask(repository, ref, status, source, priority) ==
  [repository |-> repository, ref |-> ref, status |-> status,
   source |-> source, priority |-> priority]

\* create; createBatch inserts several rows the same way, or none.
CreateTasks(repository, refs) ==
  /\ repository \in repositories
  /\ Len(tasks) + Len(refs) <= MaxTasks
  /\ tasks' = tasks \o [i \in DOMAIN refs |->
                          NewTask(repository, refs[i], "BACKLOG", "manual", "medium")]
  /\ UNCHANGED <<projects, repositories, edges, edits>>

-----------------------------------------------------------------------------
(* dependency.service                                                      *)

Edge(t, d, type, hard, origin) ==
  [task |-> t, dependsOn |-> d, type |-> type, hard |-> hard, origin |-> origin]

FindByTaskIdPair(t, d) == {e \in edges : e.task = t /\ e.dependsOn = d}

\* The tasks a set of edges leads to from start, over one edge or more: the
\* least set that holds start's successors and is closed under the edges.
Reachable(E, start) ==
  {n \in DOMAIN tasks :
     \A S \in SUBSET DOMAIN tasks :
       (\A e \in E : e.task \in S \cup {start} => e.dependsOn \in S) => n \in S}

\* Fault: only hard blocking edges are followed.
DetectCycleFault(start, target) ==
  target \in Reachable({e \in edges : e.type = "blocks" /\ e.hard}, start)

\* detectCycle: does the search from start reach target?
DetectCycle(start, target) == target \in Reachable(edges, start)

\* addDependency; isHardBlock defaults to (type = "blocks").
AddDependency(t, d, type, hard) ==
  /\ t # d
  /\ Exists(t) /\ Exists(d)
  /\ FindByTaskIdPair(t, d) = {}
  /\ ~DetectCycle(d, t)
  /\ edits < MaxEdits
  /\ edits' = edits + 1
  /\ edges' = edges \cup {Edge(t, d, type, hard, "service")}
  /\ UNCHANGED <<projects, repositories, tasks>>

RemoveDependency(e) ==
  /\ e \in edges
  /\ edits < MaxEdits
  /\ edits' = edits + 1
  /\ edges' = edges \ {e}
  /\ UNCHANGED <<projects, repositories, tasks>>

-----------------------------------------------------------------------------
(* followup-task.service                                                   *)

\* buildBlueprints: the priorities of the tasks a source asks for.  A review
\* asks for one task for each of its references.
Blueprints(source) ==
  CASE source = "review" -> <<"medium", "medium">>
    [] source = "revert" -> <<"critical">>
    [] source = "diagnostic" -> <<"low">>
    [] source = "hotfix" -> <<"high">>

\* createFollowUpTasks: the new tasks relate to the source task and are in
\* its repository; no cycle check is needed since nothing leads to a new task.
CreateFollowUpTasks(t, source) ==
  LET blueprints == Blueprints(source)
      new == [i \in DOMAIN blueprints |->
                NewTask(tasks[t].repository, NoRef, "BACKLOG", "follow_up",
                        blueprints[i])]
  IN  /\ Exists(t)
      /\ Len(tasks) + Len(new) <= MaxTasks
      /\ tasks' = tasks \o new
      /\ edges' = edges \cup
           {Edge(Len(tasks) + i, t, "relates_to", FALSE, "follow_up") :
              i \in DOMAIN new}
      /\ UNCHANGED <<projects, repositories, edits>>

-----------------------------------------------------------------------------
(* import.service: execute                                                 *)

\* Fault: tasks created by hand are not looked at.
ExistingRefsFault(repository) ==
  {tasks[t].ref : t \in {u \in DOMAIN tasks : /\ tasks[u].repository = repository
                                             /\ tasks[u].source = "automated"}}
    \ {NoRef}

\* The references the repository's tasks already have.
ExistingRefs(repository) ==
  {tasks[t].ref : t \in {u \in DOMAIN tasks : tasks[u].repository = repository}}
    \ {NoRef}

IsSkipped(repository, item) == item.ref \in ExistingRefs(repository)

\* Fault: a reference is looked up among the tasks of all repositories.
TaskOfRefFault(rows, repository, ref) ==
  LET found == {t \in DOMAIN rows : rows[t].ref = ref}
  IN  IF found = {} THEN 0 ELSE CHOOSE t \in found : \A u \in found : u <= t

\* externalRefToTaskId after the insertions: the last task with the reference
\* in the repository, or 0.
TaskOfRef(rows, repository, ref) ==
  LET found == {t \in DOMAIN rows : rows[t].repository = repository
                                      /\ rows[t].ref = ref}
  IN  IF found = {} THEN 0 ELSE CHOOSE t \in found : \A u \in found : u <= t

\* The edges a request asks for, as pairs of rows; an unknown reference is
\* reported and left out.
WiredPairs(rows, repository, items) ==
  {p \in {<<TaskOfRef(rows, repository, items[i].ref),
            TaskOfRef(rows, repository, r)>> :
            i \in {j \in DOMAIN items : items[j].ref # NoRef},
            r \in UNION {items[j].dependencies : j \in DOMAIN items}} :
     /\ p[1] # 0 /\ p[2] # 0
     /\ \E i \in DOMAIN items :
          /\ items[i].ref = rows[p[1]].ref
          /\ rows[p[2]].ref \in items[i].dependencies}

\* execute: find or create the project and the repository, insert the tasks
\* that are not known, wire the edges.  A pair that exists already fails the
\* unique index and is reported; nothing checks for cycles.
Execute(req) ==
  LET repository == <<req.project, req.repository>>
      created == Filter(req.tasks, {i \in DOMAIN req.tasks :
                                      ~IsSkipped(repository, req.tasks[i])})
      rows == tasks \o [k \in DOMAIN created |->
                NewTask(repository, created[k].ref, created[k].status, "automated",
                        "medium")]
  IN  /\ Len(rows) <= MaxTasks
      /\ projects' = projects \cup {req.project}
      /\ repositories' = repositories \cup {repository}
      /\ tasks' = rows
      /\ edges' = edges \cup
           {Edge(p[1], p[2], "blocks", TRUE, "import") :
              p \in {q \in WiredPairs(rows, repository, req.tasks) :
                       FindByTaskIdPair(q[1], q[2]) = {}}}
      /\ UNCHANGED edits

-----------------------------------------------------------------------------
(* readiness.service and the two callers that apply its answer.            *)

SetTaskStatus(t, to) == tasks' = [tasks EXCEPT ![t].status = to]

\* The unresolved prerequisites of a task: hard blocking edges to a task that
\* is not DONE.
HardBlockers(t) ==
  {e.dependsOn : e \in {x \in edges : x.task = t /\ x.type = "blocks" /\ x.hard
                           /\ Status(x.dependsOn) # "DONE"}}

ComputeReadiness(t) == HardBlockers(t) = {}

\* recalculateDependents: the BLOCKED tasks that hang on t by a hard edge and
\* have nothing else to wait for become READY; only if t is DONE.
RecalculateDependents(t) ==
  LET dependents == {e.task : e \in {x \in edges : x.dependsOn = t
                                       /\ x.type = "blocks" /\ x.hard}}
      released == {u \in dependents : /\ Status(u) = "BLOCKED"
                                      /\ ComputeReadiness(u)}
  IN  /\ Exists(t)
      /\ Status(t) = "DONE"
      /\ released # {}
      /\ \A u \in released :
           ValidateTransition(Status(u), "READY", {"allDependenciesResolved"})
      /\ tasks' = [u \in DOMAIN tasks |->
                     IF u \in released THEN [tasks[u] EXCEPT !.status = "READY"]
                     ELSE tasks[u]]
      /\ UNCHANGED <<projects, repositories, edges, edits>>

\* Fault: the loop only looks at BACKLOG tasks.
ReconcileTaskReadinessFault(t) ==
  LET to == IF ComputeReadiness(t) THEN "READY" ELSE "BLOCKED"
  IN  /\ Exists(t)
      /\ Status(t) = "BACKLOG"
      /\ SetTaskStatus(t, to)
      /\ UNCHANGED <<projects, repositories, edges, edits>>

\* reconcileTaskReadiness of the automation, for one task.
ReconcileTaskReadiness(t) ==
  LET to == IF ComputeReadiness(t) THEN "READY" ELSE "BLOCKED"
      context == IF ComputeReadiness(t) THEN {"allDependenciesResolved"}
                 ELSE {"hasBlockers"}
  IN  /\ Exists(t)
      /\ Status(t) \in {"BACKLOG", "BLOCKED"}
      /\ ValidateTransition(Status(t), to, context)
      /\ SetTaskStatus(t, to)
      /\ UNCHANGED <<projects, repositories, edges, edits>>

\* The worker lifecycle, the review and the merge, in one step.  What they do
\* to a task that fails makes no difference here: see CancelTask.
FinishTask(t) ==
  /\ Exists(t)
  /\ Status(t) = "READY"
  /\ SetTaskStatus(t, "DONE")
  /\ UNCHANGED <<projects, repositories, edges, edits>>

\* forceUnblock: the operator vouches for the dependencies, whatever they are.
ForceUnblock(t) ==
  /\ Exists(t)
  /\ Status(t) = "BLOCKED"
  /\ ValidateTransition(Status(t), "READY", {"allDependenciesResolved"})
  /\ SetTaskStatus(t, "READY")
  /\ UNCHANGED <<projects, repositories, edges, edits>>

\* reopen: dependents that are no longer BLOCKED stay where they are.
ReopenTask(t) ==
  /\ Exists(t)
  /\ Status(t) \in TerminalStates
  /\ SetTaskStatus(t, "BACKLOG")
  /\ UNCHANGED <<projects, repositories, edges, edits>>

CancelTask(t) ==
  /\ Exists(t)
  /\ ValidateTransition(Status(t), "CANCELLED", {"isOperator"})
  /\ SetTaskStatus(t, "CANCELLED")
  /\ UNCHANGED <<projects, repositories, edges, edits>>

-----------------------------------------------------------------------------
CatalogStep ==
  \E p \in Projects :
    \/ CreateProject(p) \/ DeleteProject(p)
    \/ \E r \in Repositories : CreateRepository(p, r) \/ DeleteRepository(p, r)

GraphStep ==
  \/ \E x \in repositories : \E b \in Batches : CreateTasks(x, b)
  \/ \E t, d \in TaskIds : \E k \in EdgeKinds : AddDependency(t, d, k[1], k[2])
  \/ \E e \in edges : RemoveDependency(e)
  \/ \E t \in TaskIds : \E s \in FollowUpSources : CreateFollowUpTasks(t, s)
  \/ \E req \in Requests : Execute(req)

StatusStep(t) ==
  \/ RecalculateDependents(t) \/ ReconcileTaskReadiness(t)
  \/ FinishTask(t) \/ CancelTask(t) \/ ForceUnblock(t) \/ ReopenTask(t)

Next == CatalogStep \/ GraphStep \/ (\E t \in TaskIds : StatusStep(t))

\* The polling loop of the automation comes back to every task.
BacklogSpec ==
  /\ Init /\ [][Next]_vars
  /\ \A t \in TaskIds : WF_vars(ReconcileTaskReadiness(t))

-----------------------------------------------------------------------------
(* Properties *)

\* A set of edges is acyclic when no set of tasks has an edge from each of
\* its members to a member.
Acyclic(E) ==
  ~\E S \in SUBSET TaskIds :
     /\ S # {}
     /\ \A n \in S : \E e \in E : e.task = n /\ e.dependsOn \in S

\* The edges the services insert never close a cycle, of whatever types and
\* in whatever order tasks, edges, follow-ups and imports arrive: a cycle of
\* the dependency graph has an imported edge.
OnlyImportClosesCycles == Acyclic({e \in edges : e.origin # "import"})

\* An import adds exactly what is missing: every referenced item is in the
\* repository afterwards, none that the repository knew before is added again
\* (so importing the same files twice adds nothing), and the rows that were
\* there, of this and other repositories, stay as they are.
ImportAddsTheMissing ==
  [][\A req \in Requests : Execute(req) =>
       LET InTarget(rows, t, ref) ==
             /\ rows[t].ref = ref
             /\ rows[t].repository = <<req.project, req.repository>>
       IN  /\ SubSeq(tasks', 1, Len(tasks)) = tasks
           /\ \A i \in DOMAIN req.tasks : req.tasks[i].ref # NoRef =>
                /\ \E t \in DOMAIN tasks' : InTarget(tasks', t, req.tasks[i].ref)
                /\ (\E u \in DOMAIN tasks : InTarget(tasks, u, req.tasks[i].ref))
                     => \A t \in DOMAIN tasks' \ DOMAIN tasks :
                          ~InTarget(tasks', t, req.tasks[i].ref)]_vars

\* References repeat from one repository to the next, and imports arrive in
\* any order: an imported edge, like a follow-up's, joins two tasks of one
\* repository, never a task to its namesake in another.
EdgesStayInRepository ==
  \A e \in edges : e.origin # "service" =>
    tasks[e.task].repository = tasks[e.dependsOn].repository

\* A blocked task whose prerequisites are all DONE, or whose edges were
\* removed, does not stay BLOCKED.
BlockedIsReleased ==
  \A t \in TaskIds :
    (Exists(t) /\ Status(t) = "BLOCKED" /\ HardBlockers(t) = {})
      ~> (Exists(t) => (Status(t) # "BLOCKED" \/ HardBlockers(t) # {}))

=============================================================================
