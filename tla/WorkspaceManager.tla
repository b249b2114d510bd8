-------------------------- MODULE WorkspaceManager --------------------------
(***************************************************************************)
(* The git worktrees of packages/infrastructure/src/workspace: what the    *)
(* workspace manager does to the disk and to the repository's own records. *)
(*                                                                         *)
(* A disk holds the workspace directories (roots), the state of the        *)
(* checkout in each (tree), the worktrees git has on record (registered)   *)
(* and the task branches (branches).  Deleting a directory behind git's    *)
(* back leaves the record and the branch.  A workspace path is the base    *)
(* name of the repository path it was computed from, and the task.         *)
(***************************************************************************)
EXTENDS Naturals

CONSTANTS
  Tasks,        \* task ids
  Repository    \* base name of the repository's checkout

ASSUME RepositoryAssumption == Repository \notin Tasks

\* computeLayout takes the base name of whatever path it is given.
ComputeLayout(base, t) == <<base, t>>

Paths == ({Repository} \cup Tasks) \X Tasks

\* factory/{task} or factory/{task}/r{attempt}
ComputeBranchName(t, attempt) == <<t, attempt>>

EmptyDisk ==
  [roots |-> {}, tree |-> [p \in Paths |-> "absent"], registered |-> {},
   branches |-> {}]

\* createWorkspace: what it answers.  git refuses to add a worktree whose
\* path it has on record.
CreateOutcome(d, t, attempt) ==
  LET p == ComputeLayout(Repository, t) IN
  IF attempt >= 1 /\ d.tree[p] = "clean" THEN "reused"
  ELSE IF attempt >= 1 /\ d.tree[p] = "dirty" THEN "dirty"
  ELSE IF ComputeBranchName(t, attempt) \in d.branches THEN "branch_exists"
  ELSE IF p \in d.registered THEN "git_error"
  ELSE "created"

\* createWorkspace: what it leaves.  The directories precede the worktree,
\* so they stay when git fails (added = FALSE).
AfterCreate(d, t, attempt, added) ==
  LET p == ComputeLayout(Repository, t)
      outcome == CreateOutcome(d, t, attempt)
  IN  IF outcome = "created" /\ added
      THEN [roots |-> d.roots \cup {p}, tree |-> [d.tree EXCEPT ![p] = "clean"],
            registered |-> d.registered \cup {p},
            branches |-> d.branches \cup {ComputeBranchName(t, attempt)}]
      ELSE IF outcome \in {"created", "git_error"}
      THEN [d EXCEPT !.roots = @ \cup {p}]
      ELSE d

\* removeWorktreeIfExists: git worktree remove --force
RemoveWorktree(d, p) ==
  IF d.tree[p] = "absent" THEN d
  ELSE [d EXCEPT !.tree[p] = "absent", !.registered = @ \ {p}]

\* removeDirectoryIfExists, and rmSync of the startup cleanup
RemoveDirectory(d, p) == [d EXCEPT !.roots = @ \ {p}, !.tree[p] = "absent"]

\* deleteBranchIfExists: the branch of the first attempt, number 0
DeleteBranch(d, t) == [d EXCEPT !.branches = @ \ {ComputeBranchName(t, 0)}]

\* isWorkspaceCleanupEligible, for a task whose retention period has elapsed
CleanupEligible(taskStatus, retainFailed) ==
  /\ taskStatus \in {"DONE", "FAILED", "CANCELLED"}
  /\ taskStatus = "FAILED" => ~retainFailed
=============================================================================
